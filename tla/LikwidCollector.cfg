CONSTANTS
  Machines <- MCMachines
  Metrics <- MCMetrics
  GlobalMetric = "socket"
  InvalidToZero = FALSE
  NaN = NaN
  MaxReads = 2
  MaxInvalid = 1
  MaxChanges = 2
SPECIFICATION LikwidSpec
INVARIANTS
  LikwidTypeOK
  GettersAgree
  MeasuredInFull
  CountersReleased
PROPERTIES
  TotalsAddUp
  GlobalFromOneRead
CHECK_DEADLOCK FALSE
