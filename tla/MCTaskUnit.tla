---------------------------- MODULE MCTaskUnit ----------------------------
(* Small instances of TaskUnit. *)
EXTENDS TaskUnit
=============================================================================
