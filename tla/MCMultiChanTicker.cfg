CONSTANTS
  c1 = c1
  c2 = c2
  c3 = c3
  Chan = {c1, c2, c3}
  NilChan = NilChan
  MaxTick = 4
SPECIFICATION TickerSpec
INVARIANTS
  TickerTypeOK
  EarlierFirst
  LockStep
PROPERTIES
  SilentAfterClose
  TickerClosesProperly
CHECK_DEADLOCK FALSE
