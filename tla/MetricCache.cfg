CONSTANTS
  PeriodCounts = {1, 2}
  NumFunctions = 2
  MaxTick = 4
  MaxAdd = 3
SPECIFICATION FairCacheSpec
INVARIANTS
  CacheTypeOK
  CurrentHoldsInterval
PROPERTIES
  LastIntervalReturned
  CacheCloseTerminates
CHECK_DEADLOCK FALSE
