SPECIFICATION FairSpec
CONSTANTS
  u1 = u1
  u2 = u2
  Snapshots = {s1}
  Units = {u1, u2}
  Taken <- MCTaken
  Reviews <- MCReviews
  Evaluators = {e1, e2}
  Reviewers = {r1, r2}
  MaxAttempts = 2
  MaxFaults = 1
\* The requests are bounded.
CHECK_DEADLOCK FALSE
INVARIANTS
  
  AcceptanceIsFixed
PROPERTIES
  RefinesClaimedDelivery
  GateSettles
