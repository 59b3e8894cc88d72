CONSTANTS
  Window = 4
  Threshold = 2
  Interval = 2
  MaxBurst = 2
  MaxSessions = 3
  MaxRestarts = 1
  MaxCheckFails = 1
SPECIFICATION Spec
CHECK_DEADLOCK FALSE
INVARIANTS
  TypeOK
  ConnectedIsInService
  DisabledIsDisabled
  SilentIsNotOnline
  SteadyIsOnline
