SPECIFICATION Spec
CONSTANTS
  Hour = 2
  RawKeep = 3
  MinKeep = 5
  HourKeep = 8
  RawRange = 2
  MinRange = 5
  HourRange = 8
  MaxTime = 11
  MaxResults = 2
  MaxFails = 1
INVARIANTS TypeOK TimelyIsShown
CHECK_DEADLOCK FALSE
