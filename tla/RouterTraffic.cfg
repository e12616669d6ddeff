CONSTANTS
  Message <- TrafficMessage
  Drops <- TrafficDrops
  IdMod = 5
  InCap = 1
  Keep = {TRUE, FALSE}
  MaxTick = 1
  NumOutputs = 2
  OutCap = 2
  MaxForward = 2
  IntervalStamp = TRUE
  Caching = FALSE
SPECIFICATION TrafficSpec
INVARIANTS
  TrafficTypeOK
  EachOnceInOrder
  StampsOrdered
CHECK_DEADLOCK FALSE
