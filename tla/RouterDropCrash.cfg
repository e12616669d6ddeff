CONSTANTS
  Message <- TrafficMessage
  Drops <- TrafficDrops
  IdMod = 4
  InCap = 1
  Keep = {TRUE, FALSE}
  MaxTick = 1
  NumOutputs = 1
  OutCap = 1
  MaxForward = 2
  IntervalStamp = TRUE
  Caching = TRUE
SPECIFICATION TrafficSpec
INVARIANTS
  DroppedIsStored
CHECK_DEADLOCK FALSE
