CONSTANTS
  t1 = t1
  Results = {r1}
  Tasks = {t1}
  TaskOf <- OneTask
  SamePoint <- Apart
  ChunkSize = 1
  MaxSessions = 2
  MaxDrops = 1
  MaxReboots = 1
  MaxForgets = 1
  MaxBadWrites = 1
  MaxRenames = 1
  MaxRemoved = 1
SPECIFICATION Spec
CHECK_DEADLOCK FALSE
INVARIANTS
 TypeOK
 DuplicatesOnlyAfterForgetting
PROPERTY KeepsCustody
  
