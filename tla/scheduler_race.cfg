CONSTANTS
  Tasks = {t1}
  Settings = {a}
  NoConfig = none
  MaxPackets = 3
  MaxThreads = 3
  MaxChanges = 3
  MaxLate = 2
SPECIFICATION Spec
CHECK_DEADLOCK FALSE
INVARIANT
  NoIdleTask
