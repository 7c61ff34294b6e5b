----------------------------- MODULE MCTaskGate -----------------------------
(* A snapshot in which all pass, and one with a failure.                      *)
EXTENDS TaskGate, TLC

CONSTANTS u1, u2

Passed == [verdict |-> "PASSED", outcome |-> "BUSINESS", hygiene |-> "CLEANED",
           completeness |-> "COMPLETE", integrity |-> "VERIFIED", influence |-> "AUTONOMOUS",
           stability |-> "STABLE"]
Failed == [Passed EXCEPT !.verdict = "FAILED"]

Says(finality, x, y) == [s \in Snapshots |-> [finality |-> finality, unit |-> u1 :> x @@ u2 :> y]]
MCTaken == {Says("FULLY_RESOLVED", Failed, Passed), Says("FULLY_RESOLVED", Passed, Passed)}

MCReviews ==
  {[domain |-> "PRODUCT", confidence |-> 7000, state |-> "HUMAN_REVISED", gaps |-> FALSE]}
=============================================================================
