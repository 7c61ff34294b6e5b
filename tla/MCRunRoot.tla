------------------------------ MODULE MCRunRoot ------------------------------
(* Small environments for RunRoot; the numbers are in the configurations.    *)
EXTENDS RunRoot

\* One claim runs out or one call fails, in whatever place.
OneFault == faults.expiries + faults.calls <= 1
=============================================================================
