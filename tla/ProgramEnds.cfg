CONSTANTS
  p1 = p1
  s1 = s1
  Collector = {p1, s1}
  ParallelCollector = {p1}
  Chan <- TickChannels
  NilChan = NilChan
  MaxTick = 1
  LastTick = 1
  MaxEmit = 1
  CollCap = 1
  OutCap = 1
  MaxForward = 2
  IntervalStamp = TRUE
  RecvCap = 1
  UseRecv = TRUE
  OnceFlags = {TRUE, FALSE}
  MaxSignals = 1
SPECIFICATION FairSpec
PROPERTIES
  ShutdownCompletes
  OnceEnds
CHECK_DEADLOCK FALSE
