---------------------------- MODULE MCModelClient ----------------------------
(* Values of the constants of ModelClient for TLC. *)
EXTENDS ModelClient

ReportedOrNot == {-1, 0, 7}
=============================================================================
