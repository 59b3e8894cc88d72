CONSTANTS
  Tasks = {t1}
  MaxRetries = 1
  MaxChanges = 1
  MaxSessions = 2
  MaxRestarts = 0
SPECIFICATION Spec
CHECK_DEADLOCK FALSE
INVARIANT
  NewestIsRegistered
