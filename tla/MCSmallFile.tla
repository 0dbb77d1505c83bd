---------------------------- MODULE MCSmallFile ----------------------------
(***************************************************************************)
(* Instances of SmallFile for TLC: content a is one cell, every other      *)
(* content two.                                                            *)
(***************************************************************************)
EXTENDS SmallFile

CONSTANT a

MCSizeOf == [m \in Contents |-> IF m = a THEN 1 ELSE 2]

\* After the first handoff the conditional properties say nothing about the
\* haystack: follow it for a few cells only.
Bound == (\E k \in Keys : handoff[k]) => \A k \in Keys : Len(hay[k]) <= 2
=============================================================================
