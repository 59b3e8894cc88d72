SPECIFICATION FairSpec
CONSTANTS
  Metrics <- TwoMetrics
  NoData = NoData
  Free = Free
  MaxQueries = 2
  MaxResults = 2
  MaxVisits = 2
  MaxFaults = 1
INVARIANTS TypeOK RoomHasReader
PROPERTIES DashboardSettles DetailSettles
CHECK_DEADLOCK FALSE
