SPECIFICATION TUFairSpec
CONSTANTS
  UnitCount = 2
  BatchSize = 2
  InfraRetries = 1
  TotalRetries = 1
  Reports = {"INFRA_ERROR"}
  Verdicts = {"PASSED"}
  MaxFaults = 2
  Losses = {"ANSWER", "CHILD", "EXECUTOR"}
  MaxPauses = 1
  Cancels = TRUE
  Deadlines = TRUE
  Rejections = TRUE
\* A run that is closed, paused, or whose root has failed, may stop.
CHECK_DEADLOCK FALSE
INVARIANTS
  TUInv
  OutcomeIsJustified
PROPERTIES
  WritersAreInOrder
  RunEnds
