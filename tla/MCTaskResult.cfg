SPECIFICATION Spec
CONSTANTS
  u1 = u1
  u2 = u2
  Units = {u1, u2}
  TotalRetries = 1
  Creating = {TRUE, FALSE}
  Verdicts = {"PASSED"}
  MaxRevision = 1
  MaxReplays = 1
  MaxSnapshots = 3
SYMMETRY Symmetry
CONSTRAINT FewRevisions
\* A run is closed and all its fixtures are settled in the end.
CHECK_DEADLOCK FALSE
INVARIANTS
  ReInv
  FullSnapshotIsTrue
  AcceptedMeansClean
