----------------------------- MODULE MCWebFiles -----------------------------
(***************************************************************************)
(* Instance of WebFiles for TLC: some files at the top, the others in      *)
(* another folder.                                                         *)
(***************************************************************************)
EXTENDS WebFiles

CONSTANTS AtTop, Sub    \* files at the top, the other folder

MCDirOf == [f \in Files |-> IF f \in AtTop THEN Root ELSE Sub]
=============================================================================
