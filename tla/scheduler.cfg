CONSTANTS
  Tasks = {t1}
  Settings = {a, b}
  NoConfig = none
  MaxPackets = 3
  MaxThreads = 3
  MaxChanges = 3
  MaxLate = 2
SPECIFICATION FairSpec
CHECK_DEADLOCK FALSE
INVARIANTS
  TypeOK
  InOrderIsExact
  AtMostOneThread
  StoppedReportsOnce
PROPERTY
  RemovedEnds
