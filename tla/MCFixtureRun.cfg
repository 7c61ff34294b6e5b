SPECIFICATION FSpec
CONSTRAINT FewTroubles
CONSTANTS
  parent = parent
  child = child
  Nodes = {parent, child}
  Level <- MCLevel
  Parents <- MCParents
  MaxAttempts = 2
  MaxReconciles = 2
  MaxCleanups = 2
  MaxRetries = 1
  MaxFaults = 2
  Expiries = "LATE"
  Cancels = TRUE
  LeaseLosses = TRUE
  Overruns = {"CLEANUP"}
\* A run that has ended stays as it is.
CHECK_DEADLOCK FALSE
INVARIANTS
  FInv
  ReleaseKeepsOrder

  
