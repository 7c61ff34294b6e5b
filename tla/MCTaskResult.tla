---------------------------- MODULE MCTaskResult ----------------------------
(* Small runs for TaskResult; the numbers are in the configurations.          *)
EXTENDS TaskResult, TLC

CONSTANTS u1, u2

Symmetry == Permutations(Units)

\* What happens to a fixture before it is final happens to one of them at most.
FewRevisions ==
  Cardinality({<<u, n>> \in Units \X Numbers :
                 n <= Latest(u) /\ attempt[u][n].fixture.revision > 0}) <= 1
=============================================================================
