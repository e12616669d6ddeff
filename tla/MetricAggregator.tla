-------------------------- MODULE MetricAggregator --------------------------
(***************************************************************************)
(* internal/metricAggregator: the table of aggregation functions and the   *)
(* evaluation of it over the metrics of an interval.                       *)
(*                                                                         *)
(* The expressions are evaluated by gval, a library: a condition is the    *)
(* set of groups of metrics for which it is true, a function the name of   *)
(* the extension it calls on "values".  The value of an average is a       *)
(* fraction, so that nothing is rounded; sums are of numbers that do not   *)
(* overflow.                                                               *)
(*                                                                         *)
(* One step of Eval() is one function of the table: between them, the      *)
(* router may or may not be ready to take a result.                        *)
(***************************************************************************)
EXTENDS Integers, SequencesExt, SortedLists

CONSTANTS
  Name,       \* names of aggregations
  Group,      \* what conditions tell metrics apart by
  Function,   \* the expressions in use, see Aggregate
  Aggregation, \* the aggregations in use
  Metric,     \* the metrics that may be in the cache
  MaxMetrics  \* bound on the metrics of an interval

\* The cases of the type switch, in the order in which they are preferred.
ValueType == <<"float64", "float32", "int", "int32", "int64", "bool">>

ASSUME AggregatorAssumption ==
  /\ \A m \in Metric : /\ m.group \in Group
                       /\ m.type \in ToSet(ValueType) \cup {"other"}
                       /\ m.value \in Int
  /\ Aggregation \subseteq [name : Name, cond : SUBSET Group,
                             func : Function, copy : BOOLEAN]
  /\ MaxMetrics \in Nat

VARIABLES
  functions,  \* the table
  metrics,    \* what Eval() was called with, while it is running
  pos,        \* function that Eval() is at, 0 when it is not running
  results,    \* history: what this Eval() has computed
  panicked    \* the process is gone

vars == <<functions, metrics, pos, results, panicked>>

Result == [name : Name, type : ToSet(ValueType) \cup {"string"}, num : Int,
           den : Nat \ {0}, tags : SUBSET {m.tag : m \in Metric}, delivered : BOOLEAN]

\* The state has its type, and no two entries of the table have one name.
AggregatorTypeOK ==
  /\ functions \in Seq(Aggregation)
  /\ \A i, j \in DOMAIN functions : functions[i].name = functions[j].name => i = j
  /\ metrics \in Seq(Metric) /\ Len(metrics) <= MaxMetrics
  /\ pos \in 0..Len(functions)
  /\ results \in Seq(Result)
  /\ panicked \in BOOLEAN

AggregatorInit ==
  /\ functions = <<>>
  /\ metrics = <<>>
  /\ pos = 0
  /\ results = <<>>
  /\ panicked = FALSE
-----------------------------------------------------------------------------
(***************************************************************************)
(* The functions on lists of values                                        *)
(***************************************************************************)
Answer(t, n, d) == [ok |-> TRUE, type |-> t, num |-> n, den |-> d]
Error == [ok |-> FALSE]

Sum(vals) == SumFunction(vals)
Smallest(vals) == Min(ToSet(vals))
Largest(vals) == Max(ToSet(vals))

\* slices.Sort(): what is at place i of the sorted list.
SortedAt(vals, i) ==
  LET below(v) == {j \in DOMAIN vals : vals[j] < v}
      upTo(v) == {j \in DOMAIN vals : vals[j] <= v}
  IN CHOOSE v \in ToSet(vals) : Cardinality(below(v)) < i /\ i <= Cardinality(upTo(v))

\* The index of the median is the length modulo 2.  For an even number of
\* values, and for one value, it is out of range: gval makes an error of the
\* panic.
Median(t, vals) ==
  LET mid == Len(vals) % 2
  IN IF mid = 0 \/ mid >= Len(vals) THEN Error
     ELSE Answer(t, SortedAt(vals, mid + 1), 1)

\* gval.Evaluate(): func on values of type t.  "test" stands for expressions
\* that compare, "text" for those that give a string, "wrong" for those that
\* cannot be evaluated.
Aggregate(func, t, vals) ==
  LET numeric == t # "bool"
  IN CASE func = "sum" /\ numeric -> Answer(t, Sum(vals), 1)
       [] func = "min" /\ numeric -> Answer(t, Smallest(vals), 1)
       [] func = "max" /\ numeric -> Answer(t, Largest(vals), 1)
       [] func = "avg" /\ numeric -> Answer("float64", Sum(vals), Len(vals))
       [] func = "median" /\ numeric -> Median(t, vals)
       [] func = "len" -> Answer("int", IF numeric THEN Len(vals) ELSE 0, 1)
       [] func = "test" -> Answer("bool", 1, 1)
       [] func = "text" -> Answer("string", 1, 1)
       [] OTHER -> Error
-----------------------------------------------------------------------------
(***************************************************************************)
(* Eval()                                                                  *)
(***************************************************************************)
\* The metrics at the positions ps, in their order.
MetricsAt(ps) == LET at == SortedList(ps) IN [k \in DOMAIN at |-> metrics[at[k]]]

\* A condition that cannot be evaluated for a metric counts as false.
Matching(f) == {i \in DOMAIN metrics : metrics[i].group \in f.cond}
Matches(f) == MetricsAt(Matching(f))

ValuesOf(f, t) ==
  LET typed == MetricsAt({i \in Matching(f) : metrics[i].type = t})
  IN [k \in DOMAIN typed |-> typed[k].value]

\* Values of one type only are aggregated: those of the first one that has any.
HasValues(f) == \E t \in ToSet(ValueType) : ValuesOf(f, t) # <<>>
TypeOf(f) ==
  ValueType[Min({i \in DOMAIN ValueType : ValuesOf(f, ValueType[i]) # <<>>})]

\* <copy> takes the tag from every metric that matches: the last one stays.
CopiedTags(f) ==
  IF f.copy THEN {Matches(f)[Len(Matches(f))].tag} ELSE {}

StartEval ==
  /\ pos = 0 /\ ~panicked
  /\ functions # <<>>
  /\ metrics' \in SeqOf(Metric, MaxMetrics)
  /\ pos' = 1
  /\ results' = <<>>
  /\ UNCHANGED <<functions, panicked>>

\* Eval() returns after the last function.
Following == IF pos = Len(functions) THEN 0 ELSE pos + 1

Proceed(p) ==
  /\ pos' = p
  /\ metrics' = IF p = 0 THEN <<>> ELSE metrics

\* Mutant of SkipFunction: no values end Eval().
SkipFunctionEnds ==
  /\ pos # 0 /\ ~panicked
  /\ ~HasValues(functions[pos])
  /\ Proceed(0)
  /\ UNCHANGED <<functions, results, panicked>>

SkipFunction ==
  /\ pos # 0 /\ ~panicked
  /\ ~HasValues(functions[pos])
  /\ Proceed(Following)
  /\ UNCHANGED <<functions, results, panicked>>

\* Mutant of Computed: values of different types are in one list.
ComputedMixed(f) ==
  LET typed == MetricsAt({i \in Matching(f) : metrics[i].type # "other"})
  IN Aggregate(f.func, TypeOf(f), [k \in DOMAIN typed |-> typed[k].value])

Computed(f) == Aggregate(f.func, TypeOf(f), ValuesOf(f, TypeOf(f)))

\* An error leaves the loop: the functions after this one are not evaluated.
EvalError ==
  /\ pos # 0 /\ ~panicked
  /\ HasValues(functions[pos])
  /\ ~Computed(functions[pos]).ok
  /\ Proceed(0)
  /\ UNCHANGED <<functions, results, panicked>>

\* Mutant of Sendable: no case for strings.
SendableNumbers == {"float64", "float32", "int", "int64"}

\* The types a message can be made from.
Sendable == {"float64", "float32", "int", "int64", "string"}

\* The result is offered to the router, which takes it if it is ready.  When
\* no message was made, writing the log entry is a nil dereference.
EvalFunction ==
  /\ pos # 0 /\ ~panicked
  /\ LET f == functions[pos]
         value == Computed(f)
     IN /\ HasValues(f)
        /\ value.ok
        /\ IF value.type \in Sendable
           THEN /\ \E ready \in BOOLEAN :
                     results' = Append(results,
                       [name |-> f.name, type |-> value.type,
                        num |-> value.num, den |-> value.den,
                        tags |-> CopiedTags(f), delivered |-> ready])
                /\ Proceed(Following)
                /\ UNCHANGED panicked
           ELSE panicked' = TRUE /\ UNCHANGED <<results, metrics, pos>>
  /\ UNCHANGED functions
-----------------------------------------------------------------------------
(***************************************************************************)
(* The table                                                               *)
(***************************************************************************)
Positions(n) == {i \in DOMAIN functions : functions[i].name = n}

\* Mutant of AddAggregation: does not look for an entry with that name.
AddAggregationTwice(f) ==
  /\ pos = 0 /\ ~panicked
  /\ Len(functions) < 3
  /\ functions' = Append(functions, f)
  /\ UNCHANGED <<metrics, pos, results, panicked>>

\* AddAggregation() with expressions that can be parsed; otherwise it returns
\* an error and changes nothing.
AddAggregation(f) ==
  /\ pos = 0 /\ ~panicked
  /\ functions' = IF Positions(f.name) = {} THEN Append(functions, f)
                  ELSE [i \in DOMAIN functions |->
                          IF functions[i].name = f.name THEN f ELSE functions[i]]
  /\ UNCHANGED <<metrics, pos, results, panicked>>

DeleteAggregation(n) ==
  /\ pos = 0 /\ ~panicked
  /\ \E i \in Positions(n) : functions' = RemoveAt(functions, i)
  /\ UNCHANGED <<metrics, pos, results, panicked>>

AggregatorNext ==
  \/ \E f \in Aggregation : AddAggregation(f)
  \/ \E n \in Name : DeleteAggregation(n)
  \/ StartEval
  \/ SkipFunction \/ EvalError \/ EvalFunction

AggregatorSpec == AggregatorInit /\ [][AggregatorNext]_vars
-----------------------------------------------------------------------------
(***************************************************************************)
(* Properties                                                              *)
(***************************************************************************)
\* What a function of the table has to give for the metrics at positions ps.
Promised(func, r, ps) ==
  LET value(i) == metrics[i].value
      total == SumFunctionOnSet([i \in ps |-> value(i)], ps)
      below == {i \in ps : value(i) <= r.num}
      above == {i \in ps : value(i) >= r.num}
  IN CASE func = "sum" -> r.num = total /\ r.den = 1
       [] func = "avg" -> r.num * Cardinality(ps) = total * r.den
       [] func = "min" -> above = ps /\ \E i \in ps : value(i) = r.num
       [] func = "max" -> below = ps /\ \E i \in ps : value(i) = r.num
       [] func = "len" -> r.num = Cardinality(ps)
       [] func = "median" -> Cardinality(ps) <= 4 =>
                               /\ 2 * Cardinality(below) > Cardinality(ps)
                               /\ 2 * Cardinality(above) > Cardinality(ps)
       [] OTHER -> TRUE

\* The result r of f is what f promises for the matching metrics that have
\* values of one type.
RightResult(f, r) ==
  LET matching(t) == {i \in DOMAIN metrics : /\ metrics[i].group \in f.cond
                                             /\ metrics[i].type = t}
  IN \E t \in ToSet(ValueType) :
       /\ matching(t) # {}
       /\ (t = "bool" /\ f.func = "len") \/ Promised(f.func, r, matching(t))
       /\ f.copy => \E m \in ToSet(metrics) : m.group \in f.cond /\ r.tags = {m.tag}

\* Every result is what its function promises for the matching metrics that
\* have values of one type; values of different types are never put together,
\* and nothing is left over from the functions or the intervals before.  (Not
\* for the length of a list of bool, which is 0, and not for the median of five
\* or more values, where it is the second smallest.)
ResultsAreRight ==
  [][Len(results') > Len(results) =>
       RightResult(functions[pos], results'[Len(results')])]_vars

\* The functions that have values, in the order of the table.
Eligible == SortedList({i \in DOMAIN functions : HasValues(functions[i])})

\* Eval() evaluates every function that has values, in the order of the table,
\* and stops before the end only at a function that cannot be evaluated.
EveryFunctionInTurn ==
  [][pos # 0 /\ pos' = 0 =>
       LET n == Len(results')
       IN /\ n <= Len(Eligible)
          /\ \A k \in 1..n : results'[k].name = functions[Eligible[k]].name
          /\ n < Len(Eligible) => ~Computed(functions[Eligible[n + 1]]).ok]_vars

\* The log entry that ends the process is reached only with an expression that
\* compares, or with metrics of type int32.
CrashOnlyForOddTypes ==
  panicked =>
    \/ functions[pos].func = "test"
    \/ \E m \in ToSet(metrics) : m.group \in functions[pos].cond /\ m.type = "int32"
=============================================================================
