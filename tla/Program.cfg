CONSTANTS
  p1 = p1
  s1 = s1
  Collector = {p1, s1}
  ParallelCollector = {p1}
  Chan <- TickChannels
  NilChan = NilChan
  MaxTick = 2
  LastTick = 2
  MaxEmit = 1
  CollCap = 1
  OutCap = 1
  MaxForward = 2
  IntervalStamp = TRUE
  RecvCap = 1
  UseRecv = TRUE
  OnceFlags = {FALSE}
  MaxSignals = 2
SPECIFICATION Spec
INVARIANTS
  TypeOK
  StampNotBeforeRead
  NoReadWithoutRouter
  NoRouterWithoutSinks
PROPERTIES
  ComponentsRefined
CHECK_DEADLOCK FALSE
