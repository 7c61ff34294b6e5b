SPECIFICATION FairSpec
CONSTANTS
  MaxCommands = 2
  MaxAttempts = 2
  MaxExpiries = 0
  MaxFailures = 1
  Refusals = FALSE
  Pages = 2
  Batches = 1
  MaxRetries = 1
  MaxLosses = 1
  Rejections = FALSE
\* A run that is closed, or whose root has failed, ends in silence.
CHECK_DEADLOCK FALSE
PROPERTIES
  ControlsTakeEffect
  CancelEnds
