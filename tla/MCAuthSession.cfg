SPECIFICATION SeFairSpec
CONSTANTS
  j1 = j1
  MaxLeases = 2
  MaxSessions = 2
  Janitors = {j1}
  MaxFaults = 1
\* When everything is destroyed and nobody asks for more, nothing happens.
CHECK_DEADLOCK FALSE
INVARIANTS
  SeInv
PROPERTIES
  SessionGuardsAdmit
  SessionsEnd
