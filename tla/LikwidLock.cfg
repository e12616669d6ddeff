CONSTANTS
  Machines <- MCMachines
  Metrics <- MCMetrics
  GlobalMetric = "socket"
  InvalidToZero = FALSE
  NaN = NaN
  MaxReads = 2
  MaxInvalid = 1
  MaxChanges = 2
SPECIFICATION LikwidSpec
PROPERTIES
  StopsWhenLocked
CHECK_DEADLOCK FALSE
