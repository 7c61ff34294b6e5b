SPECIFICATION GSpec
SYMMETRY GrantSymmetry
CONSTRAINT FewChanges
CONSTANTS
  a1 = a1
  c1 = c1
  c2 = c2
  env = env
  g1 = g1
  g2 = g2
  i1 = i1
  i2 = i2
  Accounts = {a1}
  Connectors = {c1}
  Scopes = {env}
  Environment = env
  ScopesOf <- MCScopesOf
  Ttls = {1}
  Horizons = {2}
  Cooldowns = {0, 1}
  ReapLimit = 1
  MaxLag = 1
  MaxClock = 2
  MaxToken = 2
  MaxRevision = 5
  MaxConnectorRevision = 3
  CheckIds = {i1, i2}
  AttemptTtl = 1
  Threshold = 2
  RetryCooldowns = {1}
  GrantIds = {g1, g2}
  GrantTtl = 1
INVARIANTS
   ActiveLeaseHoldsFence
  IssuedGrantIsBacked
PROPERTIES
  HoldersStayFit
  TimelyRedemption RecoveryNeedsCheck EndsAreFinal RefinesFencedLease
