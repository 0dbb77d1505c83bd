---------------------------- MODULE MCStatistics ----------------------------
(***************************************************************************)
(* Instances of Statistics for TLC.                                        *)
(***************************************************************************)
EXTENDS Statistics, TLC

FilesAlike == Permutations(Files)

\* Files as their own paths.
OwnPath == [f \in Files |-> f]

\* Bound of the model: a restart takes the place of an operation.
FewTroubles == ops + crashes <= MaxOps
============================================================================
