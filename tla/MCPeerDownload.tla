--------------------------- MODULE MCPeerDownload ---------------------------
(***************************************************************************)
(* Instances of PeerDownload for TLC: all paths are in one folder.         *)
(***************************************************************************)
EXTENDS PeerDownload, TLC

CONSTANT d

MCFolder == [k \in Keys |-> d]

\* Neither a worker nor a mutex is chosen by its name.
Symmetry == Permutations(Procs) \cup Permutations(Mutexes)
=============================================================================
