------------------------- MODULE MCMetricAggregator -------------------------
(***************************************************************************)
(* Two aggregations: the first one with any expression, the second one     *)
(* with three of them and a condition that not every metric meets.         *)
(***************************************************************************)
EXTENDS MetricAggregator

CONSTANTS g1, g2

MCGroup == {g1, g2}

MCFunction ==
  {"sum", "avg", "min", "max", "median", "len", "test", "text", "wrong"}

MCAggregation ==
  [name : {"a"}, cond : {MCGroup}, func : MCFunction, copy : {TRUE}]
  \cup [name : {"b"}, cond : {{g1}}, func : {"avg", "len", "wrong"}, copy : {FALSE}]

MCMetric ==
  {[group |-> g1, type |-> "float64", value |-> 1, tag |-> "x"],
   [group |-> g1, type |-> "float64", value |-> 4, tag |-> "y"],
   [group |-> g2, type |-> "float64", value |-> -3, tag |-> "x"],
   [group |-> g1, type |-> "int32", value |-> 2, tag |-> "x"],
   [group |-> g1, type |-> "bool", value |-> 1, tag |-> "y"],
   [group |-> g2, type |-> "other", value |-> 0, tag |-> "y"]}
=============================================================================
