----------------------------- MODULE FileCopies -----------------------------
(***************************************************************************)
(* What replication promises, without its queues, logs, retries and        *)
(* crashes: which nodes have a complete copy of which file. A copy appears *)
(* by an upload, or is taken from a node that has one, and stays.          *)
(***************************************************************************)
CONSTANTS Nodes, Files

VARIABLE copies     \* copies[f]: the nodes with a complete copy of f

CopiesInit == copies = [f \in Files |-> {}]

\* A client uploads f at n: the content is new to the cluster.
UploadAt(n, f) ==
    /\ copies[f] = {}
    /\ copies' = [copies EXCEPT ![f] = {n}]

\* n takes a copy from another node that has one.
CopyTo(n, f) ==
    /\ copies[f] \ {n} # {}
    /\ copies' = [copies EXCEPT ![f] = @ \cup {n}]

CopiesNext == \E n \in Nodes, f \in Files : UploadAt(n, f) \/ CopyTo(n, f)

CopiesSpec == CopiesInit /\ [][CopiesNext]_copies
=============================================================================
