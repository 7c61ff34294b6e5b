SPECIFICATION LFairSpec
CONSTRAINT LateConsumersGo
CONSTANTS
  r1 = r1
  p1 = p1
  p2 = p2
  ci = ci
  other = other
  Runs = {r1}
  MaxAttempts = 2
  RpcAttempts = 2
  MaxExpiries = 1
  Callers = {ci, other}
  Key <- MCKey
  Input <- MCInput
  Partitions = {p1, p2}
  PartAttempts = 2
  MaxPartFaults = 1
INVARIANTS
  LaunchInv
  StartedMeansOwnExecution
  ExecutedAtMostOnce
PROPERTIES
  RefinesClaimedDelivery
  PartitionsRefineClaimedDelivery
  LaunchEnds
\* When the start is decided, nothing but forgotten keys happens.
CHECK_DEADLOCK FALSE
