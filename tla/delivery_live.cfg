CONSTANTS
  t1 = t1
  Results = {r1}
  Tasks = {t1}
  TaskOf <- OneTask
  SamePoint <- Apart
  ChunkSize = 1
  MaxSessions = 3
  MaxDrops = 1
  MaxReboots = 0
  MaxForgets = 1
  MaxBadWrites = 1
  MaxRenames = 0
  MaxRemoved = 0
SPECIFICATION FairSpec
CHECK_DEADLOCK FALSE
PROPERTY
  EventuallySettled
