SPECIFICATION Spec
CONSTANTS
  Names = {n1, n2}
  Limit = 2
  Commands = {c1, c2}
  MaxUsers = 3
  MaxRuns = 3
  n1 = n1
  n2 = n2
  c1 = c1
  c2 = c2
INVARIANTS TypeOK LockoutCounts
PROPERTIES AdminRemains ResetUnlocks
SYMMETRY Alike
CHECK_DEADLOCK FALSE
