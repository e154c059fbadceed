----------------------------- MODULE MCSnapshot -----------------------------
(* The instances of Snapshot: every constant is a bound given in the .cfg. *)
EXTENDS Snapshot
=============================================================================
