--------------------------- MODULE MCReplication ---------------------------
(***************************************************************************)
(* Instances of Replication for TLC.                                       *)
(***************************************************************************)
EXTENDS Replication, FiniteSetsExt, TLC

\* Nodes are alike where every node may crash or none does.
NodesAlike == Permutations(Nodes)

\* Bounds of the model: FileInfos being posted, and entries waiting for
\* ConsumerLog, at a time in the cluster.
CONSTANTS MaxPosts, MaxWaiting
FewPosts ==
    /\ MapThenSumSet(LAMBDA n : Cardinality(toPeers[n]), Nodes) <= MaxPosts
    /\ MapThenSumSet(LAMBDA n : Len(fileLogQ[n]), Nodes) <= MaxWaiting
\* A failed post or a repair by hand, not both; after the latter no node has two posts.
OneTrouble ==
    /\ faults.post + faults.repair <= 1
    /\ faults.repair = 1 => \A n \in Nodes : Cardinality(toPeers[n]) <= 1
============================================================================
