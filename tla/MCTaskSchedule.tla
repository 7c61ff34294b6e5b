--------------------------- MODULE MCTaskSchedule ---------------------------
(* A small environment for TaskSchedule.                                     *)
EXTENDS TaskSchedule

CONSTANT f1
=============================================================================
