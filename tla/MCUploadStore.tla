--------------------------- MODULE MCUploadStore ---------------------------
(***************************************************************************)
(* Instances of UploadStore for TLC.                                       *)
(***************************************************************************)
EXTENDS UploadStore

\* The conditional properties say nothing after a clash: stop there.
NoClash == ~clash
=============================================================================
