SPECIFICATION FairSpec
CONSTANTS
  f1 = f1
  Fires = {f1}
  Consumers = 2
  MaxRevision = 3
  MaxAttempts = 2
  RpcAttempts = 1
  MaxFaults = 2
\* When every command is settled and every fire has ended, nothing happens.
CHECK_DEADLOCK FALSE

  
PROPERTIES
  RefinesClaimedDelivery
  CommandsSettle
