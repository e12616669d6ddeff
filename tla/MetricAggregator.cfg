CONSTANTS
  g1 = g1
  g2 = g2
  Group <- MCGroup
  Name = {"a", "b"}
  Function <- MCFunction
  Aggregation <- MCAggregation
  Metric <- MCMetric
  MaxMetrics = 3
SPECIFICATION AggregatorSpec
INVARIANTS
  AggregatorTypeOK
  CrashOnlyForOddTypes
PROPERTIES
  ResultsAreRight
  EveryFunctionInTurn
CHECK_DEADLOCK FALSE
