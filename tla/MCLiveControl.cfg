CONSTANTS
  Workers = {w1, w2}
  Actions = {a1, a2}
  IsProduction = FALSE
  MaxEpoch = 5
  MaxPage = 4
SPECIFICATION Spec
\* A session that has lost its controller stays so.
CHECK_DEADLOCK FALSE
INVARIANTS LcInv
PROPERTIES HumanWorkIsCounted HandoverEnds
