CONSTANTS
  Tasks = {t1}
  MaxRetries = 2
  MaxChanges = 2
  MaxSessions = 2
  MaxRestarts = 1
SPECIFICATION FairSpec
CHECK_DEADLOCK FALSE
INVARIANTS
  TypeOK
  AgentNeverAhead
  SyncHasConnection
  CleanSyncConverges
PROPERTIES
  CleanSyncArrives
  PendingEnds
