CONSTANTS
  p1 = p1
  p2 = p2
  s1 = s1
  s2 = s2
  Collector = {p1, p2, s1, s2}
  ParallelCollector = {p1, p2}
  LastTick = 2
  MaxEmit = 2
  CollCap = 1
SPECIFICATION ManagerSpec
INVARIANTS
  ManagerTypeOK
  NoReadOfClosed
  SerialAlone
  ReadOncePerRound
PROPERTIES
  ManagerClosesProperly
CHECK_DEADLOCK FALSE
