CONSTANTS
  t1 = t1
  Results = {r1, r2}
  Tasks = {t1}
  TaskOf <- OneTask
  SamePoint <- Together
  ChunkSize = 1
  MaxSessions = 2
  MaxDrops = 1
  MaxReboots = 0
  MaxForgets = 1
  MaxBadWrites = 1
  MaxRenames = 1
  MaxRemoved = 0
SPECIFICATION Spec
CHECK_DEADLOCK FALSE
SYMMETRY Alike
INVARIANTS
  NoSilentLoss
  NothingStranded
  StoredHasPoint
CONSTRAINT
  FewFaults
