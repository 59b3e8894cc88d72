CONSTANTS
  Configs <- Switching
  Channels = {ch}
  MaxCooldown = 2
  MaxSamples = 5
  MaxRestarts = 1
  MaxUpdates = 1
  MaxCommitFails = 1
SPECIFICATION Spec
CHECK_DEADLOCK FALSE
INVARIANTS
  TypeOK
  HistoryFollowsState
PROPERTIES
  FollowsRule
  AlertBacked
  RecoveryEarned
  AlertsAreFresh
  AlertsSpaced
