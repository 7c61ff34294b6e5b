SPECIFICATION Spec
CONSTANTS
  f1 = f1
  Fires = {f1}
  Consumers = 1
  MaxRevision = 2
  MaxAttempts = 1
  RpcAttempts = 1
  MaxFaults = 0
CHECK_DEADLOCK FALSE
INVARIANT PauseHolds
