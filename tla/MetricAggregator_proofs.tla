----------------------- MODULE MetricAggregator_proofs -----------------------
(***************************************************************************)
(* The aggregator, for every table of functions and every list of metrics: *)
(* what the functions compute, when the process ends, and that the         *)
(* functions are evaluated in their turn.                                  *)
(***************************************************************************)
EXTENDS MetricAggregator, DataTheorems, SequenceTheorems

(* The metrics and values a function is evaluated with. *)

\* Positions in the list of metrics are a finite set of numbers.
LEMMA PositionsFinite ==
  ASSUME metrics \in Seq(Metric), NEW ps \in SUBSET DOMAIN metrics
  PROVE  /\ ps \subseteq Int /\ IsFiniteSet(ps) /\ Cardinality(ps) \in Nat
         /\ ps = {} <=> Cardinality(ps) = 0
         /\ DOMAIN metrics = 1..Len(metrics) /\ Len(metrics) \in Nat
<1>1. DOMAIN metrics = 1..Len(metrics) /\ Len(metrics) \in Nat
  BY LenProperties
<1>2. IsFiniteSet(1..Len(metrics))
  BY <1>1, FS_Interval
<1>3. IsFiniteSet(ps)
  BY <1>1, <1>2, FS_Subset
<1> QED
  BY <1>1, <1>3, FS_CardinalityType, FS_EmptySet

\* MetricsAt() lists the metrics at the positions in their order.
LEMMA MetricsAtIs ==
  ASSUME metrics \in Seq(Metric), NEW ps \in SUBSET DOMAIN metrics
  PROVE  /\ DOMAIN MetricsAt(ps) = 1..Cardinality(ps)
         /\ Len(MetricsAt(ps)) = Cardinality(ps)
         /\ \A k \in 1..Cardinality(ps) :
              /\ SortedList(ps)[k] \in ps
              /\ MetricsAt(ps)[k] = metrics[SortedList(ps)[k]]
         /\ \A i \in ps : \E k \in 1..Cardinality(ps) : SortedList(ps)[k] = i
         /\ \A k, l \in 1..Cardinality(ps) :
              SortedList(ps)[k] = SortedList(ps)[l] => k = l
<1>1. ps \subseteq Int /\ IsFiniteSet(ps) /\ Cardinality(ps) \in Nat
  BY PositionsFinite
<1>2. /\ DOMAIN SortedList(ps) = 1..Cardinality(ps)
      /\ \A k \in 1..Cardinality(ps) : /\ SortedList(ps)[k] \in ps
                                       /\ Place(ps, SortedList(ps)[k]) = k
      /\ \A i \in ps : /\ Place(ps, i) \in 1..Cardinality(ps)
                       /\ SortedList(ps)[Place(ps, i)] = i
  BY <1>1, SortedListIs
<1>3. MetricsAt(ps) = [k \in 1..Cardinality(ps) |-> metrics[SortedList(ps)[k]]]
  BY <1>2 DEF MetricsAt
<1>4. \A k, l \in 1..Cardinality(ps) :
        SortedList(ps)[k] = SortedList(ps)[l] => k = l
  BY <1>2
<1>5. \A i \in ps : \E k \in 1..Cardinality(ps) : SortedList(ps)[k] = i
  BY <1>2
<1>6. Len(MetricsAt(ps)) = Cardinality(ps)
  BY <1>1, <1>3
<1> QED
  BY <1>2, <1>3, <1>4, <1>5, <1>6

\* The positions of the metrics that match f and have values of type t.
Typed(f, t) == {i \in DOMAIN metrics : /\ metrics[i].group \in f.cond
                                       /\ metrics[i].type = t}

\* A metric has a value that is a number.
LEMMA MetricValue ==
  ASSUME metrics \in Seq(Metric), NEW i \in DOMAIN metrics
  PROVE  /\ metrics[i] \in Metric
         /\ metrics[i].value \in Int /\ metrics[i].group \in Group
         /\ metrics[i].type \in ToSet(ValueType) \cup {"other"}
<1>1. metrics[i] \in Metric
  BY LenProperties, ElementOfSeq
<1> QED
  BY <1>1, AggregatorAssumption

\* ValuesOf() gives each metric with values of the type once.
LEMMA ValuesAre ==
  ASSUME metrics \in Seq(Metric), NEW f, NEW t
  PROVE  /\ Typed(f, t) \in SUBSET DOMAIN metrics
         /\ ValuesOf(f, t) \in Seq(Int)
         /\ DOMAIN ValuesOf(f, t) = 1..Cardinality(Typed(f, t))
         /\ Len(ValuesOf(f, t)) = Cardinality(Typed(f, t))
         /\ \A k \in 1..Cardinality(Typed(f, t)) :
              /\ SortedList(Typed(f, t))[k] \in Typed(f, t)
              /\ ValuesOf(f, t)[k] = metrics[SortedList(Typed(f, t))[k]].value
         /\ ValuesOf(f, t) # <<>> <=> Typed(f, t) # {}
<1> DEFINE ps == Typed(f, t)
<1>1. ps \in SUBSET DOMAIN metrics
  BY DEF Typed
<1>2. {i \in Matching(f) : metrics[i].type = t} = ps
  BY DEF Typed, Matching
<1>3. ValuesOf(f, t) = [k \in DOMAIN MetricsAt(ps) |-> MetricsAt(ps)[k].value]
  BY <1>2 DEF ValuesOf
<1> HIDE DEF ps
<1>4. Cardinality(ps) \in Nat /\ (ps = {} <=> Cardinality(ps) = 0)
  BY <1>1, PositionsFinite
<1>5. ValuesOf(f, t) = [k \in 1..Cardinality(ps) |-> metrics[SortedList(ps)[k]].value]
  BY <1>1, <1>3, MetricsAtIs
<1>6. \A k \in 1..Cardinality(ps) : /\ SortedList(ps)[k] \in ps
                                    /\ metrics[SortedList(ps)[k]].value \in Int
  BY <1>1, MetricsAtIs, MetricValue
<1>7. ValuesOf(f, t) \in Seq(Int) /\ Len(ValuesOf(f, t)) = Cardinality(ps)
  BY <1>4, <1>5, <1>6
<1>8. ValuesOf(f, t) # <<>> <=> ps # {}
  BY <1>4, <1>7
<1> QED
  BY <1>1, <1>5, <1>6, <1>7, <1>8 DEF ps

\* Eval() takes the type from its list, and there are values of that type.
LEMMA TypeIs ==
  ASSUME metrics \in Seq(Metric), NEW f, HasValues(f)
  PROVE  /\ TypeOf(f) \in ToSet(ValueType)
         /\ Typed(f, TypeOf(f)) # {}
<1> DEFINE I == {i \in DOMAIN ValueType : ValuesOf(f, ValueType[i]) # <<>>}
<1>1. I # {} /\ I \subseteq Nat
  BY DEF HasValues, ToSet, ValueType
<1>2. Min(I) \in I
  <2> HIDE DEF I
  <2> QED
    BY <1>1, MinIn
<1>3. Min(I) \in DOMAIN ValueType /\ ValuesOf(f, ValueType[Min(I)]) # <<>>
  BY <1>2
<1>4. TypeOf(f) = ValueType[Min(I)]
  BY DEF TypeOf
<1>5. TypeOf(f) \in ToSet(ValueType) /\ ValuesOf(f, TypeOf(f)) # <<>>
  BY <1>3, <1>4 DEF ToSet
<1> QED
  BY <1>5, ValuesAre

(* The functions on lists of values. *)

\* The places of the values below v, and of those up to v.
Below(vals, v) == {j \in DOMAIN vals : vals[j] < v}
UpTo(vals, v) == {j \in DOMAIN vals : vals[j] <= v}

\* Both are finite sets of places.
LEMMA PlacesFinite ==
  ASSUME NEW vals \in Seq(Int), NEW v
  PROVE  /\ DOMAIN vals = 1..Len(vals) /\ Len(vals) \in Nat
         /\ Cardinality(DOMAIN vals) = Len(vals)
         /\ Cardinality(Below(vals, v)) \in Nat
         /\ Cardinality(UpTo(vals, v)) \in Nat
<1>1. DOMAIN vals = 1..Len(vals) /\ Len(vals) \in Nat
  BY LenProperties
<1>2. IsFiniteSet(1..Len(vals)) /\ Cardinality(1..Len(vals)) = Len(vals)
  BY <1>1, FS_Interval
<1>3. Below(vals, v) \in SUBSET (1..Len(vals)) /\ UpTo(vals, v) \in SUBSET (1..Len(vals))
  BY <1>1 DEF Below, UpTo
<1>4. IsFiniteSet(Below(vals, v)) /\ IsFiniteSet(UpTo(vals, v))
  BY <1>2, <1>3, FS_Subset
<1> QED
  BY <1>1, <1>2, <1>4, FS_CardinalityType

\* The values of a list that is not empty.
LEMMA ValueSet ==
  ASSUME NEW vals \in Seq(Int)
  PROVE  /\ ToSet(vals) \subseteq Int /\ IsFiniteSet(ToSet(vals))
         /\ Len(vals) # 0 => ToSet(vals) # {}
<1>1. DOMAIN vals = 1..Len(vals) /\ Len(vals) \in Nat
  BY LenProperties
<1>2. ToSet(vals) = {vals[i] : i \in 1..Len(vals)}
  BY <1>1 DEF ToSet
<1>3. IsFiniteSet(ToSet(vals))
  BY <1>1, <1>2, ImageFinite
<1>4. ToSet(vals) \subseteq Int
  BY <1>2, ElementOfSeq
<1>5. Len(vals) # 0 => vals[1] \in ToSet(vals)
  BY <1>1, <1>2
<1> QED
  BY <1>3, <1>4, <1>5

\* What is at place i of the sorted list: fewer than i values are smaller, and
\* at least i are not larger.
LEMMA SortedAtIs ==
  ASSUME NEW vals \in Seq(Int), NEW i \in 1..Len(vals)
  PROVE  /\ SortedAt(vals, i) \in ToSet(vals)
         /\ Cardinality(Below(vals, SortedAt(vals, i))) < i
         /\ i <= Cardinality(UpTo(vals, SortedAt(vals, i)))
<1> DEFINE S == ToSet(vals)
           Good == {v \in S : i <= Cardinality(UpTo(vals, v))}
<1>1. S \subseteq Int /\ IsFiniteSet(S) /\ S # {}
  BY ValueSet
<1>2. Good # {}
  <2>1. Max(S) \in S /\ \A v \in S : Max(S) >= v
    <3> HIDE DEF S
    <3> QED
      BY <1>1, LargestIs
  <2>2. UpTo(vals, Max(S)) = DOMAIN vals
    <3>1. \A j \in DOMAIN vals : vals[j] \in S
      BY DEF ToSet
    <3>2. \A j \in DOMAIN vals : vals[j] <= Max(S)
      <4> HIDE DEF S
      <4> QED
        BY <1>1, <2>1, <3>1
    <3> QED
      BY <3>2 DEF UpTo
  <2>3. Max(S) \in Good
    BY <2>1, <2>2, PlacesFinite
  <2> QED
    BY <2>3
<1>3. Good \subseteq Int /\ IsFiniteSet(Good)
  <2>1. Good \in SUBSET S
    OBVIOUS
  <2> HIDE DEF Good, S
  <2> QED
    BY <1>1, <2>1, FS_Subset
<1> DEFINE w == Min(Good)
<1>4. w \in Good /\ \A v \in Good : w <= v
  <2> HIDE DEF Good
  <2> QED
    BY <1>2, <1>3, LeastIs
<1>5. w \in S /\ i <= Cardinality(UpTo(vals, w))
  BY <1>4
<1>6. Cardinality(Below(vals, w)) < i
  <2> DEFINE Lower == {v \in S : v < w}
  <2>0. \A j \in DOMAIN vals : vals[j] \in S
    BY DEF ToSet
  <2>1. CASE Lower = {}
    <3>1. Below(vals, w) = {}
      BY <2>0, <2>1 DEF Below
    <3> HIDE DEF w
    <3> QED
      BY <3>1, FS_EmptySet
  <2>2. CASE Lower # {}
    <3> DEFINE u == Max(Lower)
    <3>1. Lower \subseteq Int /\ IsFiniteSet(Lower)
      <4>1. Lower \in SUBSET S
        OBVIOUS
      <4> HIDE DEF Lower, S, w
      <4> QED
        BY <1>1, <4>1, FS_Subset
    <3>2. u \in Lower /\ \A v \in Lower : u >= v
      <4> HIDE DEF Lower
      <4> QED
        BY <2>2, <3>1, LargestIs
    <3> HIDE DEF u
    <3>3. u \in S /\ u < w /\ \A v \in S : v < w => v <= u
      <4>1. u \in S /\ u < w
        BY <3>2
      <4>2. \A v \in S : v < w => u >= v
        BY <3>2
      <4> HIDE DEF Lower, S, w
      <4> QED
        BY <1>1, <4>1, <4>2
    <3>4. u \notin Good
      <4> HIDE DEF Good, S, w
      <4>1. u \in Int /\ w \in Int /\ u < w
        BY <1>1, <1>3, <1>4, <3>3
      <4>2. u \in Good => w <= u
        BY <1>4
      <4> QED
        BY <4>1, <4>2
    <3>5. ~(i <= Cardinality(UpTo(vals, u)))
      BY <3>3, <3>4
    <3>6. Below(vals, w) \subseteq UpTo(vals, u)
      <4> HIDE DEF S, w
      <4> QED
        BY <2>0, <3>3 DEF Below, UpTo
    <3>7. UpTo(vals, u) \subseteq Below(vals, w)
      <4> HIDE DEF S, w
      <4>1. w \in Int /\ u \in Int /\ u < w /\ \A j \in DOMAIN vals : vals[j] \in Int
        BY <1>1, <1>3, <1>4, <2>0, <3>3
      <4> QED
        BY <4>1 DEF Below, UpTo
    <3>8. Below(vals, w) = UpTo(vals, u)
      BY <3>6, <3>7
    <3> HIDE DEF S, w, Good
    <3> QED
      BY <3>5, <3>8, PlacesFinite
  <2> QED
    BY <2>1, <2>2
<1> HIDE DEF w, Good
<1>7. \E v \in ToSet(vals) : /\ Cardinality(Below(vals, v)) < i
                             /\ i <= Cardinality(UpTo(vals, v))
  BY <1>5, <1>6
<1>8. SortedAt(vals, i) = CHOOSE v \in ToSet(vals) :
                            /\ Cardinality(Below(vals, v)) < i
                            /\ i <= Cardinality(UpTo(vals, v))
  BY DEF SortedAt, Below, UpTo
<1> QED
  BY <1>7, <1>8

\* The answers that are not errors.
LEMMA AnswerIs ==
  ASSUME NEW func, NEW t, NEW vals, Aggregate(func, t, vals).ok
  PROVE  LET r == Aggregate(func, t, vals)
         IN \/ t # "bool" /\ func = "sum" /\ r = Answer(t, Sum(vals), 1)
            \/ t # "bool" /\ func = "min" /\ r = Answer(t, Smallest(vals), 1)
            \/ t # "bool" /\ func = "max" /\ r = Answer(t, Largest(vals), 1)
            \/ t # "bool" /\ func = "avg" /\ r = Answer("float64", Sum(vals), Len(vals))
            \/ t # "bool" /\ func = "median" /\ r = Median(t, vals)
            \/ t # "bool" /\ func = "len" /\ r = Answer("int", Len(vals), 1)
            \/ t = "bool" /\ func = "len" /\ r = Answer("int", 0, 1)
            \/ func = "test" /\ r = Answer("bool", 1, 1)
            \/ func = "text" /\ r = Answer("string", 1, 1)
BY DEF Aggregate, Error

\* A median that is not an error is that of an odd number of values, and the
\* second smallest of them.
LEMMA MedianIs ==
  ASSUME NEW t, NEW vals, Len(vals) \in Nat, Median(t, vals).ok
  PROVE  /\ Len(vals) % 2 = 1 /\ 2 \in 1..Len(vals)
         /\ Median(t, vals) = Answer(t, SortedAt(vals, 2), 1)
<1>1. Len(vals) % 2 \in {0, 1}
  OBVIOUS
<1>2. ~(Len(vals) % 2 = 0 \/ Len(vals) % 2 >= Len(vals))
  BY DEF Median, Error
<1>3. Len(vals) % 2 = 1 /\ 1 < Len(vals)
  BY <1>1, <1>2
<1> QED
  BY <1>3 DEF Median

(* What a function gives for the metrics that match it. *)

\* The places of the list for a set of positions are as many as the positions.
LEMMA SameNumber ==
  ASSUME metrics \in Seq(Metric), NEW ps \in SUBSET DOMAIN metrics,
         NEW T \in SUBSET (1..Cardinality(ps)), NEW Q,
         Q = {SortedList(ps)[k] : k \in T}
  PROVE  Cardinality(Q) = Cardinality(T)
<1> DEFINE h == [k \in T |-> SortedList(ps)[k]]
<1>1. IsFiniteSet(T)
  <2>1. Cardinality(ps) \in Nat
    BY PositionsFinite
  <2>2. IsFiniteSet(1..Cardinality(ps))
    BY <2>1, FS_Interval
  <2> QED
    BY <2>2, FS_Subset
<1>2. h \in Surjection(T, Q)
  BY DEF Surjection
<1>3. \A k, l \in T : h[k] = h[l] => k = l
  BY MetricsAtIs
<1>4. h \in Injection(T, Q)
  BY <1>2, <1>3 DEF Surjection, Injection, IsInjective
<1> QED
  BY <1>1, <1>2, <1>4, FS_Surjection

\* The positions among ps of the metrics below v, up to v, and from v on.
Lower(ps, v) == {i \in ps : metrics[i].value < v}
AtMost(ps, v) == {i \in ps : metrics[i].value <= v}
AtLeast(ps, v) == {i \in ps : metrics[i].value >= v}

\* The values of a type, by the positions of their metrics.
LEMMA ValuesByPosition ==
  ASSUME metrics \in Seq(Metric), NEW f, NEW t, NEW v \in Int
  PROVE  LET ps == Typed(f, t)
             vals == ValuesOf(f, t)
         IN /\ Cardinality(Lower(ps, v)) = Cardinality(Below(vals, v))
            /\ Cardinality(AtMost(ps, v)) = Cardinality(UpTo(vals, v))
            /\ ToSet(vals) = {metrics[i].value : i \in ps}
<1> DEFINE ps == Typed(f, t)
           vals == ValuesOf(f, t)
           at == SortedList(ps)
           n == Cardinality(ps)
<1>1. ps \in SUBSET DOMAIN metrics
  BY ValuesAre
<1>2. /\ DOMAIN vals = 1..n
      /\ \A k \in 1..n : at[k] \in ps /\ vals[k] = metrics[at[k]].value
  BY ValuesAre
<1>3. \A i \in ps : \E k \in 1..n : at[k] = i
  BY <1>1, MetricsAtIs
<1> HIDE DEF ps, vals, at, n
<1>4. Lower(ps, v) = {at[k] : k \in Below(vals, v)}
  BY <1>2, <1>3 DEF Below, Lower
<1>5. AtMost(ps, v) = {at[k] : k \in UpTo(vals, v)}
  BY <1>2, <1>3 DEF UpTo, AtMost
<1>6. Below(vals, v) \in SUBSET (1..n) /\ UpTo(vals, v) \in SUBSET (1..n)
  BY <1>2 DEF Below, UpTo
<1>7. Cardinality(Lower(ps, v)) = Cardinality(Below(vals, v))
  BY <1>1, <1>4, <1>6, SameNumber DEF at, n
<1>8. Cardinality(AtMost(ps, v)) = Cardinality(UpTo(vals, v))
  BY <1>1, <1>5, <1>6, SameNumber DEF at, n
<1>9. ToSet(vals) = {metrics[i].value : i \in ps}
  BY <1>2, <1>3 DEF ToSet
<1> QED
  BY <1>7, <1>8, <1>9 DEF ps, vals

\* The sum of the values is that of the metrics at the positions.
LEMMA SumByPosition ==
  ASSUME metrics \in Seq(Metric), NEW f, NEW t
  PROVE  /\ Sum(ValuesOf(f, t)) = SumFunctionOnSet(
                                    [i \in Typed(f, t) |-> metrics[i].value], Typed(f, t))
         /\ Sum(ValuesOf(f, t)) \in Int
<1> DEFINE ps == Typed(f, t)
           vals == ValuesOf(f, t)
           at == SortedList(ps)
           n == Cardinality(ps)
           value == [i \in ps |-> metrics[i].value]
<1>1. ps \in SUBSET DOMAIN metrics /\ n \in Nat
  BY ValuesAre, PositionsFinite
<1>2. /\ DOMAIN vals = 1..n
      /\ \A k \in 1..n : at[k] \in ps /\ vals[k] = metrics[at[k]].value
  BY ValuesAre
<1>3. /\ \A i \in ps : \E k \in 1..n : at[k] = i
      /\ \A k, l \in 1..n : at[k] = at[l] => k = l
  BY <1>1, MetricsAtIs
<1>4. \A i \in ps : metrics[i].value \in Int
  BY <1>1, MetricValue
<1> HIDE DEF ps, vals, at, n
<1>5. \A k \in 1..n : vals[k] = value[at[k]] /\ value[at[k]] \in Int
  BY <1>2, <1>4
<1> HIDE DEF value
<1> DEFINE D == 1..n
<1>6. IsFiniteSet(D)
  BY <1>1, FS_Interval
<1>7. SumFunctionOnSet(vals, D) = SumFunctionOnSet(value, {at[k] : k \in D})
  <2>1. \A k \in D : vals[k] = value[at[k]] /\ value[at[k]] \in Int
    BY <1>5
  <2>2. \A k, l \in D : at[k] = at[l] => k = l
    BY <1>3
  <2> HIDE DEF D
  <2> QED
    BY <1>6, <2>1, <2>2, SumReindexed
<1>8. {at[k] : k \in D} = ps
  BY <1>2, <1>3
<1>9. SumFunctionOnSet(vals, D) \in Int
  <2>1. \A k \in D : vals[k] \in Int
    BY <1>5
  <2> HIDE DEF D
  <2> QED
    BY <1>6, <2>1, SumType
<1>10. Sum(vals) = SumFunctionOnSet(vals, D)
  BY <1>2 DEF Sum, SumFunction
<1> QED
  BY <1>7, <1>8, <1>9, <1>10 DEF ps, vals, value

\* The smallest and the largest of the values.
LEMMA ExtremesKept ==
  ASSUME metrics \in Seq(Metric), NEW f, NEW t, Typed(f, t) # {}
  PROVE  LET ps == Typed(f, t)
             vals == ValuesOf(f, t)
         IN /\ {i \in ps : metrics[i].value >= Smallest(vals)} = ps
            /\ \E i \in ps : metrics[i].value = Smallest(vals)
            /\ {i \in ps : metrics[i].value <= Largest(vals)} = ps
            /\ \E i \in ps : metrics[i].value = Largest(vals)
            /\ Smallest(vals) \in Int /\ Largest(vals) \in Int
<1> DEFINE ps == Typed(f, t)
           vals == ValuesOf(f, t)
           S == ToSet(vals)
<1>1. S = {metrics[i].value : i \in ps}
  BY 0 \in Int, ValuesByPosition
<1>2. S \subseteq Int /\ IsFiniteSet(S)
  <2>1. vals \in Seq(Int)
    BY ValuesAre
  <2> HIDE DEF vals
  <2> QED
    BY <2>1, ValueSet
<1>3. S # {}
  BY <1>1
<1> HIDE DEF S
<1>4. Min(S) \in S /\ \A y \in S : Min(S) <= y
  BY <1>2, <1>3, LeastIs
<1>5. Max(S) \in S /\ \A y \in S : Max(S) >= y
  BY <1>2, <1>3, LargestIs
<1>6. Smallest(vals) = Min(S) /\ Largest(vals) = Max(S)
  BY DEF Smallest, Largest, S
<1> HIDE DEF ps, vals
<1>7. Min(S) \in Int /\ Max(S) \in Int
  BY <1>2, <1>4, <1>5
<1>8. \A i \in ps : /\ metrics[i].value \in Int
                    /\ metrics[i].value >= Min(S) /\ metrics[i].value <= Max(S)
  BY <1>1, <1>2, <1>4, <1>5, <1>7
<1>9. (\E i \in ps : metrics[i].value = Min(S)) /\ (\E i \in ps : metrics[i].value = Max(S))
  BY <1>1, <1>4, <1>5
<1> QED
  BY <1>6, <1>7, <1>8, <1>9 DEF ps, vals

\* The median of up to four values lies in their middle.
LEMMA MedianKept ==
  ASSUME metrics \in Seq(Metric), NEW f, NEW t, NEW v,
         Median(t, ValuesOf(f, t)).ok, v = Median(t, ValuesOf(f, t)).num,
         Cardinality(Typed(f, t)) <= 4
  PROVE  LET ps == Typed(f, t)
         IN /\ 2 * Cardinality(AtMost(ps, v)) > Cardinality(ps)
            /\ 2 * Cardinality(AtLeast(ps, v)) > Cardinality(ps)
<1> DEFINE ps == Typed(f, t)
           vals == ValuesOf(f, t)
           below == Lower(ps, v)
           upTo == AtMost(ps, v)
           above == AtLeast(ps, v)
<1>1. ps \in SUBSET DOMAIN metrics /\ vals \in Seq(Int) /\ Len(vals) = Cardinality(ps)
  BY ValuesAre
<1>2. IsFiniteSet(ps) /\ Cardinality(ps) \in Nat
  BY <1>1, PositionsFinite
<1>3. /\ Len(vals) % 2 = 1 /\ 2 \in 1..Len(vals)
      /\ Median(t, vals) = Answer(t, SortedAt(vals, 2), 1)
  BY <1>1, <1>2, MedianIs
<1>4. v = SortedAt(vals, 2)
  BY <1>3 DEF Answer
<1>5. /\ v \in ToSet(vals) /\ Cardinality(Below(vals, v)) < 2
      /\ 2 <= Cardinality(UpTo(vals, v))
  <2> HIDE DEF vals
  <2> QED
    BY <1>1, <1>3, <1>4, SortedAtIs
<1>6. v \in Int
  <2> HIDE DEF vals
  <2> QED
    BY <1>1, <1>5, ValueSet
<1>7. Cardinality(below) < 2 /\ 2 <= Cardinality(upTo)
  <2>1. /\ Cardinality(below) = Cardinality(Below(vals, v))
        /\ Cardinality(upTo) = Cardinality(UpTo(vals, v))
    BY <1>6, ValuesByPosition
  <2> HIDE DEF vals, below, upTo
  <2> QED
    BY <1>5, <2>1
<1>8. Cardinality(ps) = 3
  <2> DEFINE n == Cardinality(ps)
  <2>1. n \in Nat /\ n <= 4 /\ n % 2 = 1 /\ 2 <= n
    BY <1>1, <1>2, <1>3
  <2> HIDE DEF n
  <2>2. n \in {2, 3, 4}
    BY <2>1
  <2> QED
    BY <2>1, <2>2 DEF n
<1>9. \A i \in ps : metrics[i].value \in Int
  BY <1>1, MetricValue
<1>10. above \cap below = {} /\ above \cup below = ps
  <2> HIDE DEF ps
  <2> QED
    BY <1>6, <1>9 DEF Lower, AtLeast
<1>11. IsFiniteSet(above) /\ IsFiniteSet(below) /\ IsFiniteSet(upTo)
  <2>1. above \in SUBSET ps /\ below \in SUBSET ps /\ upTo \in SUBSET ps
    BY DEF Lower, AtMost, AtLeast
  <2> HIDE DEF ps, above, below, upTo
  <2> QED
    BY <1>2, <2>1, FS_Subset
<1>12. Cardinality(ps) = Cardinality(above) + Cardinality(below)
  <2> HIDE DEF ps, above, below
  <2>1. Cardinality(above \cup below)
          = Cardinality(above) + Cardinality(below) - Cardinality(above \cap below)
    BY <1>11, FS_Union
  <2>2. Cardinality(above \cap below) = 0
    BY <1>10, FS_EmptySet
  <2>3. Cardinality(above) \in Nat /\ Cardinality(below) \in Nat
    BY <1>11, FS_CardinalityType
  <2>4. Cardinality(above \cup below) = Cardinality(ps)
    BY <1>10
  <2> QED
    BY <2>1, <2>2, <2>3, <2>4
<1>13. /\ Cardinality(above) \in Nat /\ Cardinality(below) \in Nat
       /\ Cardinality(upTo) \in Nat
  <2> HIDE DEF ps, above, below, upTo
  <2> QED
    BY <1>11, FS_CardinalityType
<1>14. 2 * Cardinality(upTo) > Cardinality(ps) /\ 2 * Cardinality(above) > Cardinality(ps)
  <2> HIDE DEF ps, above, below, upTo
  <2> QED
    BY <1>7, <1>8, <1>12, <1>13
<1> QED
  BY <1>14

\* An answer that is not an error is what the function promises.
LEMMA PromiseKept ==
  ASSUME metrics \in Seq(Metric), NEW f, NEW t, Typed(f, t) # {}, NEW r,
         Aggregate(f.func, t, ValuesOf(f, t)).ok,
         r.num = Aggregate(f.func, t, ValuesOf(f, t)).num,
         r.den = Aggregate(f.func, t, ValuesOf(f, t)).den
  PROVE  (t = "bool" /\ f.func = "len") \/ Promised(f.func, r, Typed(f, t))
<1> DEFINE ps == Typed(f, t)
           vals == ValuesOf(f, t)
           a == Aggregate(f.func, t, vals)
<1>1. ps \in SUBSET DOMAIN metrics /\ Len(vals) = Cardinality(ps)
  BY ValuesAre
<1>2. Cardinality(ps) \in Nat
  BY <1>1, PositionsFinite
<1>3. Sum(vals) = SumFunctionOnSet([i \in ps |-> metrics[i].value], ps) /\ Sum(vals) \in Int
  BY SumByPosition
<1>4. CASE f.func = "sum" /\ a = Answer(t, Sum(vals), 1)
  <2>1. r.num = Sum(vals) /\ r.den = 1
    BY <1>4 DEF Answer
  <2> HIDE DEF vals, ps
  <2>2. Promised(f.func, r, ps)
    BY <1>3, <1>4, <2>1 DEF Promised
  <2> QED
    BY <2>2 DEF ps
<1>5. CASE f.func = "avg" /\ a = Answer("float64", Sum(vals), Len(vals))
  <2>1. r.num = Sum(vals) /\ r.den = Cardinality(ps)
    BY <1>1, <1>5 DEF Answer
  <2> HIDE DEF vals, ps
  <2>2. Promised(f.func, r, ps)
    BY <1>3, <1>5, <2>1 DEF Promised
  <2> QED
    BY <2>2 DEF ps
<1>6. CASE f.func = "min" /\ a = Answer(t, Smallest(vals), 1)
  <2>1. r.num = Smallest(vals)
    BY <1>6 DEF Answer
  <2>2. Promised(f.func, r, ps)
    BY <1>6, <2>1, ExtremesKept DEF Promised
  <2> QED
    BY <2>2
<1>7. CASE f.func = "max" /\ a = Answer(t, Largest(vals), 1)
  <2>1. r.num = Largest(vals)
    BY <1>7 DEF Answer
  <2>2. Promised(f.func, r, ps)
    BY <1>7, <2>1, ExtremesKept DEF Promised
  <2> QED
    BY <2>2
<1>8. CASE f.func = "len" /\ a = Answer("int", Len(vals), 1)
  <2>1. r.num = Cardinality(ps)
    BY <1>1, <1>8 DEF Answer
  <2>2. Promised(f.func, r, ps)
    BY <1>8, <2>1 DEF Promised
  <2> QED
    BY <2>2
<1>9. CASE f.func = "median" /\ a = Median(t, vals)
  <2>1. Cardinality(ps) <= 4 =>
          /\ 2 * Cardinality(AtMost(ps, r.num)) > Cardinality(ps)
          /\ 2 * Cardinality(AtLeast(ps, r.num)) > Cardinality(ps)
    <3>1. Median(t, vals).ok /\ r.num = Median(t, vals).num
      BY <1>9
    <3> HIDE DEF a
    <3> QED
      BY <3>1, MedianKept
  <2>2. Promised(f.func, r, ps)
    BY <1>9, <2>1 DEF Promised, AtMost, AtLeast
  <2> QED
    BY <2>2
<1>10. CASE f.func \in {"test", "text"}
  BY <1>10 DEF Promised
<1>11. CASE t = "bool" /\ f.func = "len"
  BY <1>11
<1> HIDE DEF a, vals, ps
<1>12. a.ok
  BY DEF a, vals
<1> QED
  BY <1>4, <1>5, <1>6, <1>7, <1>8, <1>9, <1>10, <1>11, <1>12, AnswerIs DEF a

\* The types Eval() looks for.
LEMMA TypesAre ==
  ToSet(ValueType) = {"float64", "float32", "int", "int32", "int64", "bool"}
BY DEF ToSet, ValueType

\* The tag a result gets is that of a metric that matches.
LEMMA TagsAre ==
  ASSUME metrics \in Seq(Metric), NEW f, HasValues(f)
  PROVE  \/ ~f.copy /\ CopiedTags(f) = {}
         \/ f.copy /\ \E i \in DOMAIN metrics :
              /\ metrics[i].group \in f.cond /\ CopiedTags(f) = {metrics[i].tag}
<1>1. CASE ~f.copy
  BY <1>1 DEF CopiedTags
<1>2. CASE f.copy
  <2> DEFINE ps == Matching(f)
             n == Cardinality(ps)
  <2>1. ps \in SUBSET DOMAIN metrics /\ ps # {}
    <3>1. Typed(f, TypeOf(f)) # {} /\ Typed(f, TypeOf(f)) \subseteq Matching(f)
      BY TypeIs DEF Typed, Matching
    <3> QED
      BY <3>1 DEF Matching
  <2>2. n \in Nat /\ n # 0
    BY <2>1, PositionsFinite
  <2>3. n \in 1..n
    BY <2>2
  <2>4. /\ Len(MetricsAt(ps)) = n
        /\ SortedList(ps)[n] \in ps
        /\ MetricsAt(ps)[n] = metrics[SortedList(ps)[n]]
    BY <2>1, <2>3, MetricsAtIs
  <2>5. CopiedTags(f) = {metrics[SortedList(ps)[n]].tag}
    BY <1>2, <2>4 DEF CopiedTags, Matches
  <2>6. /\ SortedList(ps)[n] \in DOMAIN metrics
        /\ metrics[SortedList(ps)[n]].group \in f.cond
    BY <2>4 DEF Matching
  <2> QED
    BY <1>2, <2>5, <2>6
<1> QED
  BY <1>1, <1>2

\* The type and the value of a result; a message cannot be made from those of
\* expressions that compare and of values of type int32.
LEMMA ComputedType ==
  ASSUME metrics \in Seq(Metric), NEW f, HasValues(f), Computed(f).ok
  PROVE  /\ Computed(f).type \in ToSet(ValueType) \cup {"string"}
         /\ Computed(f).num \in Int /\ Computed(f).den \in Nat \ {0}
         /\ \/ Computed(f).type \in Sendable
            \/ f.func = "test"
            \/ TypeOf(f) = "int32"
<1> DEFINE t == TypeOf(f)
           vals == ValuesOf(f, t)
           a == Aggregate(f.func, t, vals)
<1>1. t \in ToSet(ValueType) /\ Typed(f, t) # {}
  BY TypeIs
<1>2. Computed(f) = a
  BY DEF Computed
<1>3. vals \in Seq(Int) /\ Len(vals) \in Nat \ {0}
  <2>1. vals \in Seq(Int) /\ Len(vals) = Cardinality(Typed(f, t))
    BY ValuesAre
  <2>2. Typed(f, t) \in SUBSET DOMAIN metrics
    BY ValuesAre
  <2>3. Cardinality(Typed(f, t)) \in Nat \ {0}
    BY <1>1, <2>2, PositionsFinite
  <2> QED
    BY <2>1, <2>3
<1>4. Sum(vals) \in Int /\ Smallest(vals) \in Int /\ Largest(vals) \in Int
  BY <1>1, SumByPosition, ExtremesKept
<1>5. 2 \in 1..Len(vals) => SortedAt(vals, 2) \in Int
  <2> HIDE DEF vals
  <2>1. ToSet(vals) \subseteq Int
    BY <1>3, ValueSet
  <2>2. 2 \in 1..Len(vals) => SortedAt(vals, 2) \in ToSet(vals)
    BY <1>3, SortedAtIs
  <2> QED
    BY <2>1, <2>2
<1> HIDE DEF t, vals
<1>6. a.ok => \/ /\ a = Answer(t, a.num, 1) /\ a.num \in Int
                 /\ t # "bool"
              \/ a = Answer("float64", Sum(vals), Len(vals))
              \/ a = Answer("int", Len(vals), 1)
              \/ a = Answer("int", 0, 1)
              \/ a = Answer("bool", 1, 1) /\ f.func = "test"
              \/ a = Answer("string", 1, 1)
  <2> SUFFICES ASSUME a.ok
               PROVE  \/ /\ a = Answer(t, a.num, 1) /\ a.num \in Int
                         /\ t # "bool"
                      \/ a = Answer("float64", Sum(vals), Len(vals))
                      \/ a = Answer("int", Len(vals), 1)
                      \/ a = Answer("int", 0, 1)
                      \/ a = Answer("bool", 1, 1) /\ f.func = "test"
                      \/ a = Answer("string", 1, 1)
    OBVIOUS
  <2>1. \A n : Answer(t, n, 1).num = n
    BY DEF Answer
  <2>2. CASE t # "bool" /\ f.func = "median" /\ a = Median(t, vals)
    <3>1. 2 \in 1..Len(vals) /\ a = Answer(t, SortedAt(vals, 2), 1)
      <4> HIDE DEF a
      <4> QED
        BY <1>3, <2>2, MedianIs
    <3> HIDE DEF a
    <3> QED
      BY <1>5, <2>1, <2>2, <3>1
  <2>3. CASE t # "bool" /\ \E n \in Int : a = Answer(t, n, 1)
    <3> HIDE DEF a
    <3> QED
      BY <2>1, <2>3
  <2> HIDE DEF a
  <2> QED
    BY <1>4, <2>2, <2>3, AnswerIs DEF a
<1>7. CASE a = Answer(t, a.num, 1) /\ a.num \in Int /\ t # "bool"
  <2> HIDE DEF a
  <2>1. a.type = t /\ a.den = 1
    BY <1>7 DEF Answer
  <2> QED
    BY <1>1, <1>2, <1>7, <2>1, TypesAre DEF Sendable, t
<1>8. CASE a = Answer("float64", Sum(vals), Len(vals))
  <2> HIDE DEF a
  <2>1. a.type = "float64" /\ a.num = Sum(vals) /\ a.den = Len(vals)
    BY <1>8 DEF Answer
  <2> QED
    BY <1>2, <1>3, <1>4, <2>1, TypesAre DEF Sendable
<1>9. CASE \E n \in {0, Len(vals)} : a = Answer("int", n, 1)
  <2> HIDE DEF a
  <2>1. a.type = "int" /\ a.num \in {0, Len(vals)} /\ a.den = 1
    BY <1>9 DEF Answer
  <2> QED
    BY <1>2, <1>3, <2>1, TypesAre DEF Sendable
<1>10. CASE a = Answer("bool", 1, 1) /\ f.func = "test"
  <2> HIDE DEF a
  <2>1. a.type = "bool" /\ a.num = 1 /\ a.den = 1
    BY <1>10 DEF Answer
  <2> QED
    BY <1>2, <1>10, <2>1, TypesAre
<1>11. CASE a = Answer("string", 1, 1)
  <2> HIDE DEF a
  <2>1. a.type = "string" /\ a.num = 1 /\ a.den = 1
    BY <1>11 DEF Answer
  <2> QED
    BY <1>2, <2>1 DEF Sendable
<1> HIDE DEF a
<1> QED
  BY <1>2, <1>6, <1>7, <1>8, <1>9, <1>10, <1>11

\* A result made from what was computed is right.
LEMMA ComputedIsRight ==
  ASSUME metrics \in Seq(Metric), NEW f, HasValues(f), Computed(f).ok, NEW r,
         r.num = Computed(f).num, r.den = Computed(f).den, r.tags = CopiedTags(f)
  PROVE  RightResult(f, r)
<1> DEFINE t == TypeOf(f)
<1>1. t \in ToSet(ValueType) /\ Typed(f, t) # {}
  BY TypeIs
<1>2. Computed(f) = Aggregate(f.func, t, ValuesOf(f, t))
  BY DEF Computed
<1> HIDE DEF t
<1>3. (t = "bool" /\ f.func = "len") \/ Promised(f.func, r, Typed(f, t))
  BY <1>1, <1>2, PromiseKept
<1>4. f.copy => \E m \in ToSet(metrics) : m.group \in f.cond /\ r.tags = {m.tag}
  <2>1. CASE f.copy
    <3>1. PICK i \in DOMAIN metrics :
            metrics[i].group \in f.cond /\ CopiedTags(f) = {metrics[i].tag}
      BY <2>1, TagsAre
    <3>2. metrics[i] \in ToSet(metrics)
      BY DEF ToSet
    <3> QED
      BY <3>1, <3>2
  <2>2. CASE ~f.copy
    BY <2>2
  <2> QED
    BY <2>1, <2>2
<1> QED
  BY <1>1, <1>3, <1>4 DEF RightResult, Typed
-----------------------------------------------------------------------------
(* The state. *)

\* The list without its element i.
LEMMA Removed ==
  ASSUME NEW S, NEW s \in Seq(S), NEW i \in DOMAIN s
  PROVE  /\ RemoveAt(s, i) \in Seq(S)
         /\ Len(RemoveAt(s, i)) = Len(s) - 1
         /\ \A k \in 1..(Len(s) - 1) :
              RemoveAt(s, i)[k] = IF k < i THEN s[k] ELSE s[k + 1]
<1> DEFINE n == Len(s)
           s1 == SubSeq(s, 1, i - 1)
           s2 == SubSeq(s, i + 1, n)
<1>1. n \in Nat /\ i \in 1..n
  BY LenProperties
<1>2. \A j \in 1..n : s[j] \in S
  BY ElementOfSeq
<1> HIDE DEF n
<1>3. /\ s1 \in Seq(S) /\ Len(s1) = i - 1
      /\ \A k \in 1..(i - 1) : s1[k] = s[k]
  <2>1. 1 \in Int /\ i - 1 \in Int /\ \A j \in 1..(i - 1) : s[j] \in S
    BY <1>1, <1>2
  <2>2. /\ s1 \in Seq(S) /\ Len(s1) = IF 1 <= i - 1 THEN (i - 1) - 1 + 1 ELSE 0
        /\ \A k \in 1..((i - 1) - 1 + 1) : s1[k] = s[1 + k - 1]
    BY <2>1, SubSeqProperties
  <2> HIDE DEF s1
  <2> QED
    BY <1>1, <2>2
<1>4. /\ s2 \in Seq(S) /\ Len(s2) = n - i
      /\ \A k \in 1..(n - i) : s2[k] = s[i + k]
  <2>1. i + 1 \in Int /\ n \in Int /\ \A j \in (i + 1)..n : s[j] \in S
    BY <1>1, <1>2
  <2>2. /\ s2 \in Seq(S) /\ Len(s2) = IF i + 1 <= n THEN n - (i + 1) + 1 ELSE 0
        /\ \A k \in 1..(n - (i + 1) + 1) : s2[k] = s[(i + 1) + k - 1]
    BY <2>1, SubSeqProperties
  <2> HIDE DEF s2
  <2> QED
    BY <1>1, <2>2
<1>5. RemoveAt(s, i) = s1 \o s2
  BY DEF RemoveAt, n
<1> HIDE DEF s1, s2
<1>6. /\ s1 \o s2 \in Seq(S) /\ Len(s1 \o s2) = n - 1
      /\ \A k \in 1..(n - 1) : (s1 \o s2)[k] = IF k <= i - 1 THEN s1[k] ELSE s2[k - (i - 1)]
  <2>1. Len(s1) + Len(s2) = n - 1
    BY <1>1, <1>3, <1>4
  <2>2. /\ s1 \o s2 \in Seq(S) /\ Len(s1 \o s2) = Len(s1) + Len(s2)
        /\ \A k \in 1..(Len(s1) + Len(s2)) :
             (s1 \o s2)[k] = IF k <= Len(s1) THEN s1[k] ELSE s2[k - Len(s1)]
    BY <1>3, <1>4, ConcatProperties
  <2> QED
    BY <1>3, <2>1, <2>2
<1>7. ASSUME NEW k \in 1..(n - 1)
      PROVE  (s1 \o s2)[k] = IF k < i THEN s[k] ELSE s[k + 1]
  <2>1. CASE k < i
    <3>1. k \in 1..(i - 1) /\ k <= i - 1
      BY <1>1, <2>1
    <3> QED
      BY <1>3, <1>6, <2>1, <3>1
  <2>2. CASE ~(k < i)
    <3>1. k - (i - 1) \in 1..(n - i) /\ ~(k <= i - 1) /\ i + (k - (i - 1)) = k + 1
      BY <1>1, <2>2
    <3> QED
      BY <1>4, <1>6, <2>2, <3>1
  <2> QED
    BY <2>1, <2>2
<1> QED
  BY <1>5, <1>6, <1>7 DEF n

\* The entries of the table are aggregations, and names are names.
LEMMA EntryIs ==
  ASSUME AggregatorTypeOK, NEW i \in DOMAIN functions
  PROVE  functions[i] \in Aggregation /\ functions[i].name \in Name
<1>1. functions[i] \in Aggregation
  BY LenProperties, ElementOfSeq DEF AggregatorTypeOK
<1> QED
  BY <1>1, AggregatorAssumption

\* While Eval() runs it is at an entry of the table.
LEMMA AtEntry ==
  ASSUME AggregatorTypeOK, pos # 0
  PROVE  /\ Len(functions) \in Nat /\ DOMAIN functions = 1..Len(functions)
         /\ pos \in 1..Len(functions)
<1>1. Len(functions) \in Nat /\ DOMAIN functions = 1..Len(functions)
  BY LenProperties DEF AggregatorTypeOK
<1> QED
  BY <1>1 DEF AggregatorTypeOK

\* Adding an aggregation, or replacing the one with its name, keeps the names
\* apart.
LEMMA AddType ==
  ASSUME AggregatorTypeOK, NEW f \in Aggregation, AddAggregation(f)
  PROVE  AggregatorTypeOK'
<1>1. /\ functions \in Seq(Aggregation) /\ Len(functions) \in Nat
      /\ DOMAIN functions = 1..Len(functions)
      /\ \A i, j \in DOMAIN functions : functions[i].name = functions[j].name => i = j
  BY LenProperties DEF AggregatorTypeOK
<1>2. /\ functions' \in Seq(Aggregation)
      /\ \A i, j \in DOMAIN functions' : functions'[i].name = functions'[j].name => i = j
  <2>1. CASE Positions(f.name) = {}
    <3>1. functions' = Append(functions, f)
      BY <2>1 DEF AddAggregation
    <3>2. \A i \in DOMAIN functions : functions[i].name # f.name
      BY <2>1 DEF Positions
    <3>3. /\ functions' \in Seq(Aggregation) /\ Len(functions') = Len(functions) + 1
          /\ DOMAIN functions' = 1..(Len(functions) + 1)
          /\ \A i \in 1..Len(functions) : functions'[i] = functions[i]
          /\ functions'[Len(functions) + 1] = f
      BY <1>1, <3>1
    <3> QED
      BY <1>1, <3>2, <3>3
  <2>2. CASE Positions(f.name) # {}
    <3>1. functions' = [i \in DOMAIN functions |->
                          IF functions[i].name = f.name THEN f ELSE functions[i]]
      BY <2>2 DEF AddAggregation
    <3>2. DOMAIN functions' = DOMAIN functions
      BY <3>1
    <3>3. \A i \in DOMAIN functions : /\ functions'[i] \in Aggregation
                                      /\ functions'[i].name = functions[i].name
      BY <3>1, EntryIs
    <3>4. functions' \in Seq(Aggregation)
      BY <1>1, <3>1, <3>3
    <3> QED
      BY <1>1, <3>2, <3>3, <3>4
  <2> QED
    BY <2>1, <2>2
<1>3. Len(functions') \in Nat /\ pos = 0
  <2>1. Len(functions') \in Nat
    BY <1>2, LenProperties
  <2> QED
    BY <2>1 DEF AddAggregation
<1>4. metrics' = metrics /\ pos' = pos /\ results' = results /\ panicked' = panicked
  BY DEF AddAggregation
<1>5. metrics' \in Seq(Metric) /\ Len(metrics') <= MaxMetrics /\ results' \in Seq(Result)
  BY <1>4 DEF AggregatorTypeOK
<1>6. pos' \in 0..Len(functions')
  BY <1>3, <1>4
<1>7. panicked' \in BOOLEAN
  BY <1>4 DEF AggregatorTypeOK
<1> QED
  BY <1>2, <1>5, <1>6, <1>7 DEF AggregatorTypeOK

\* Removing an aggregation keeps the names apart.
LEMMA DeleteType ==
  ASSUME AggregatorTypeOK, NEW n \in Name, DeleteAggregation(n)
  PROVE  AggregatorTypeOK'
<1>1. /\ functions \in Seq(Aggregation) /\ Len(functions) \in Nat
      /\ DOMAIN functions = 1..Len(functions)
      /\ \A i, j \in DOMAIN functions : functions[i].name = functions[j].name => i = j
  BY LenProperties DEF AggregatorTypeOK
<1>2. PICK p \in Positions(n) : functions' = RemoveAt(functions, p)
  BY DEF DeleteAggregation
<1>3. p \in DOMAIN functions
  BY DEF Positions
<1>4. /\ functions' \in Seq(Aggregation) /\ Len(functions') = Len(functions) - 1
      /\ \A k \in 1..(Len(functions) - 1) :
           functions'[k] = IF k < p THEN functions[k] ELSE functions[k + 1]
  BY <1>1, <1>2, <1>3, Removed
<1>5. DOMAIN functions' = 1..(Len(functions) - 1) /\ Len(functions') \in Nat
  BY <1>4, LenProperties
<1>6. ASSUME NEW i \in 1..(Len(functions) - 1), NEW j \in 1..(Len(functions) - 1),
             functions'[i].name = functions'[j].name
      PROVE  i = j
  <2> DEFINE old(k) == IF k < p THEN k ELSE k + 1
  <2>1. old(i) \in DOMAIN functions /\ old(j) \in DOMAIN functions
    BY <1>1, <1>3
  <2>2. functions'[i] = functions[old(i)] /\ functions'[j] = functions[old(j)]
    BY <1>4
  <2>3. old(i) = old(j)
    <3> HIDE DEF old
    <3> QED
      BY <1>1, <1>6, <2>1, <2>2
  <2> QED
    BY <1>1, <1>3, <2>3
<1> QED
  BY <1>4, <1>5, <1>6 DEF AggregatorTypeOK, DeleteAggregation

\* The steps of Eval() keep the type of what they change.
LEMMA StartType ==
  ASSUME AggregatorTypeOK, StartEval
  PROVE  AggregatorTypeOK'
<1>1. functions' = functions /\ pos' = 1 /\ results' = <<>> /\ panicked' = panicked
  BY DEF StartEval
<1>2. metrics' \in Seq(Metric) /\ Len(metrics') <= MaxMetrics
  <2>1. metrics' \in SeqOf(Metric, MaxMetrics)
    BY DEF StartEval
  <2>2. PICK m \in 0..MaxMetrics : metrics' \in [1..m -> Metric]
    BY <2>1 DEF SeqOf
  <2>3. m \in Nat /\ m <= MaxMetrics
    BY <2>2, AggregatorAssumption
  <2> QED
    BY <2>2, <2>3
<1>3. pos' \in 0..Len(functions')
  <2>1. functions # <<>> /\ functions \in Seq(Aggregation)
    BY DEF StartEval, AggregatorTypeOK
  <2>2. Len(functions) \in Nat \ {0}
    BY <2>1, EmptySeq
  <2> QED
    BY <1>1, <2>2
<1>4. panicked' \in BOOLEAN
  BY <1>1 DEF AggregatorTypeOK
<1>5. results' \in Seq(Result)
  BY <1>1
<1>6. /\ functions' \in Seq(Aggregation)
      /\ \A i, j \in DOMAIN functions' : functions'[i].name = functions'[j].name => i = j
  BY <1>1 DEF AggregatorTypeOK
<1> QED
  BY <1>2, <1>3, <1>4, <1>5, <1>6 DEF AggregatorTypeOK

\* Going on to the next function, or ending.
LEMMA ProceedType ==
  ASSUME AggregatorTypeOK, pos # 0, Proceed(0) \/ Proceed(Following),
         functions' = functions, results' \in Seq(Result), panicked' = panicked
  PROVE  AggregatorTypeOK'
<1>1. Len(functions) \in Nat /\ pos \in 1..Len(functions)
  BY AtEntry
<1>2. Following \in 0..Len(functions)
  BY <1>1 DEF Following
<1>3. pos' \in 0..Len(functions')
  BY <1>1, <1>2 DEF Proceed
<1>4. metrics' = <<>> \/ metrics' = metrics
  BY DEF Proceed
<1>5. metrics' \in Seq(Metric) /\ Len(metrics') <= MaxMetrics
  <2>1. <<>> \in Seq(Metric) /\ Len(<<>>) <= MaxMetrics
    BY AggregatorAssumption
  <2> QED
    BY <1>4, <2>1 DEF AggregatorTypeOK
<1>6. panicked' \in BOOLEAN
  BY DEF AggregatorTypeOK
<1>7. /\ functions' \in Seq(Aggregation)
      /\ \A i, j \in DOMAIN functions' : functions'[i].name = functions'[j].name => i = j
  BY DEF AggregatorTypeOK
<1> QED
  BY <1>3, <1>5, <1>6, <1>7 DEF AggregatorTypeOK

\* What EvalFunction does when the value can be sent.
Sends(r) ==
  LET f == functions[pos]
  IN /\ r.name = f.name /\ r.type = Computed(f).type
     /\ r.num = Computed(f).num /\ r.den = Computed(f).den
     /\ r.tags = CopiedTags(f)
     /\ results' = Append(results, r)

\* EvalFunction sends a result and goes on, or ends the process.
LEMMA EvalFunctionCases ==
  ASSUME AggregatorTypeOK, EvalFunction
  PROVE  /\ pos # 0 /\ ~panicked /\ functions' = functions
         /\ HasValues(functions[pos]) /\ Computed(functions[pos]).ok
         /\ \/ /\ \E r \in Result : Sends(r)
               /\ Proceed(Following) /\ panicked' = panicked
            \/ /\ Computed(functions[pos]).type \notin Sendable
               /\ panicked' = TRUE /\ results' = results
               /\ metrics' = metrics /\ pos' = pos
<1> DEFINE f == functions[pos]
           a == Computed(f)
<1>1. /\ pos # 0 /\ ~panicked /\ functions' = functions
      /\ HasValues(f) /\ a.ok
  BY DEF EvalFunction
<1>2. f \in Aggregation /\ f.name \in Name
  BY <1>1, AtEntry, EntryIs
<1>3. metrics \in Seq(Metric)
  BY DEF AggregatorTypeOK
<1> HIDE DEF f, a
<1>4. a.type \in ToSet(ValueType) \cup {"string"} /\ a.num \in Int /\ a.den \in Nat \ {0}
  BY <1>1, <1>3, ComputedType DEF a
<1>5. CopiedTags(f) \in SUBSET {m.tag : m \in Metric}
  <2>1. \A i \in DOMAIN metrics : metrics[i] \in Metric
    BY <1>3, MetricValue
  <2> QED
    BY <1>1, <1>3, <2>1, TagsAre
<1>6. CASE a.type \in Sendable
  <2>1. PICK ready \in BOOLEAN :
          results' = Append(results, [name |-> f.name, type |-> a.type, num |-> a.num,
                       den |-> a.den, tags |-> CopiedTags(f), delivered |-> ready])
    BY <1>6 DEF EvalFunction, f, a
  <2> DEFINE r == [name |-> f.name, type |-> a.type, num |-> a.num, den |-> a.den,
                   tags |-> CopiedTags(f), delivered |-> ready]
  <2>2. r \in Result
    BY <1>2, <1>4, <1>5 DEF Result
  <2>3. /\ r.name = f.name /\ r.type = a.type /\ r.num = a.num /\ r.den = a.den
        /\ r.tags = CopiedTags(f)
    OBVIOUS
  <2>4. results' = Append(results, r)
    BY <2>1
  <2> HIDE DEF r
  <2>5. Sends(r)
    BY <2>3, <2>4 DEF Sends, f, a
  <2>6. Proceed(Following) /\ panicked' = panicked
    BY <1>6 DEF EvalFunction, f, a
  <2> QED
    BY <1>1, <2>2, <2>5, <2>6 DEF f, a
<1>7. CASE a.type \notin Sendable
  <2>1. panicked' = TRUE /\ results' = results /\ metrics' = metrics /\ pos' = pos
    BY <1>7 DEF EvalFunction, f, a
  <2> QED
    BY <1>1, <1>7, <2>1 DEF f, a
<1> QED
  BY <1>6, <1>7

\* EvalFunction adds a result to the results.
LEMMA EvalFunctionType ==
  ASSUME AggregatorTypeOK, EvalFunction
  PROVE  AggregatorTypeOK'
<1>1. pos # 0 /\ functions' = functions
  BY EvalFunctionCases
<1>2. ASSUME NEW r \in Result, Sends(r), Proceed(Following), panicked' = panicked
      PROVE  AggregatorTypeOK'
  <2>1. results \in Seq(Result) /\ results' = Append(results, r)
    BY <1>2 DEF Sends, AggregatorTypeOK
  <2>2. results' \in Seq(Result)
    BY <2>1
  <2> QED
    BY <1>1, <1>2, <2>2, ProceedType
<1>3. CASE /\ panicked' = TRUE /\ results' = results
           /\ metrics' = metrics /\ pos' = pos
  BY <1>1, <1>3 DEF AggregatorTypeOK
<1> QED
  BY <1>2, <1>3, EvalFunctionCases

\* The state has its type, and no two entries of the table have one name,
\* whatever is added to the table and removed from it.
THEOREM AggregatorTypeCorrect == AggregatorSpec => []AggregatorTypeOK
<1>1. AggregatorInit => AggregatorTypeOK
  <2> SUFFICES ASSUME AggregatorInit
               PROVE  AggregatorTypeOK
    OBVIOUS
  <2>1. /\ functions = <<>> /\ metrics = <<>> /\ results = <<>>
        /\ pos = 0 /\ panicked = FALSE
    BY DEF AggregatorInit
  <2>2. functions \in Seq(Aggregation) /\ Len(functions) = 0 /\ DOMAIN functions = {}
    BY <2>1
  <2>3. metrics \in Seq(Metric) /\ Len(metrics) <= MaxMetrics /\ results \in Seq(Result)
    BY <2>1, AggregatorAssumption
  <2>4. pos \in 0..Len(functions)
    BY <2>1, <2>2
  <2>5. panicked \in BOOLEAN
    BY <2>1
  <2> QED
    BY <2>2, <2>3, <2>4, <2>5 DEF AggregatorTypeOK
<1>2. AggregatorTypeOK /\ [AggregatorNext]_vars => AggregatorTypeOK'
  <2> SUFFICES ASSUME AggregatorTypeOK, [AggregatorNext]_vars
               PROVE  AggregatorTypeOK'
    OBVIOUS
  <2>1. CASE \E f \in Aggregation : AddAggregation(f)
    BY <2>1, AddType
  <2>2. CASE \E n \in Name : DeleteAggregation(n)
    BY <2>2, DeleteType
  <2>3. CASE StartEval
    BY <2>3, StartType
  <2>4. CASE SkipFunction
    <3>1. /\ pos # 0 /\ Proceed(Following) /\ functions' = functions
          /\ results' = results /\ panicked' = panicked
      BY <2>4 DEF SkipFunction
    <3>2. results' \in Seq(Result)
      BY <3>1 DEF AggregatorTypeOK
    <3> QED
      BY <3>1, <3>2, ProceedType
  <2>5. CASE EvalError
    <3>1. /\ pos # 0 /\ Proceed(0) /\ functions' = functions
          /\ results' = results /\ panicked' = panicked
      BY <2>5 DEF EvalError
    <3>2. results' \in Seq(Result)
      BY <3>1 DEF AggregatorTypeOK
    <3> QED
      BY <3>1, <3>2, ProceedType
  <2>6. CASE EvalFunction
    BY <2>6, EvalFunctionType
  <2>7. CASE UNCHANGED vars
    BY <2>7 DEF vars, AggregatorTypeOK
  <2> QED
    BY <2>1, <2>2, <2>3, <2>4, <2>5, <2>6, <2>7 DEF AggregatorNext
<1> QED
  BY <1>1, <1>2, PTL DEF AggregatorSpec
-----------------------------------------------------------------------------
(* The results. *)

\* The process ends only at an expression that compares, or when metrics of
\* type int32 match: no message can be made from the others' results, and
\* nothing happens afterwards.
THEOREM CrashOnlyForOddTypesHolds == AggregatorSpec => []CrashOnlyForOddTypes
<1>1. AggregatorInit => CrashOnlyForOddTypes
  BY DEF AggregatorInit, CrashOnlyForOddTypes
<1>2. AggregatorTypeOK /\ CrashOnlyForOddTypes /\ [AggregatorNext]_vars
        => CrashOnlyForOddTypes'
  <2> SUFFICES ASSUME AggregatorTypeOK, CrashOnlyForOddTypes, [AggregatorNext]_vars,
                      panicked'
               PROVE  CrashOnlyForOddTypes'
    BY DEF CrashOnlyForOddTypes
  <2>1. CASE EvalFunction
    <3> DEFINE f == functions[pos]
    <3>1. /\ ~panicked /\ functions' = functions /\ pos' = pos /\ metrics' = metrics
          /\ HasValues(f) /\ Computed(f).ok /\ Computed(f).type \notin Sendable
      BY <2>1, EvalFunctionCases
    <3> HIDE DEF f
    <3>2. metrics \in Seq(Metric)
      BY DEF AggregatorTypeOK
    <3>3. f.func = "test" \/ TypeOf(f) = "int32"
      BY <3>1, <3>2, ComputedType
    <3>4. CASE TypeOf(f) = "int32"
      <4>1. PICK i \in DOMAIN metrics : metrics[i].group \in f.cond /\ metrics[i].type = "int32"
        BY <3>1, <3>2, <3>4, TypeIs DEF Typed
      <4>2. metrics[i] \in ToSet(metrics)
        BY DEF ToSet
      <4> QED
        BY <3>1, <4>1, <4>2 DEF CrashOnlyForOddTypes, f
    <3>5. CASE f.func = "test"
      BY <3>1, <3>5 DEF CrashOnlyForOddTypes, f
    <3> QED
      BY <3>3, <3>4, <3>5
  <2>2. CASE UNCHANGED vars
    BY <2>2 DEF vars, CrashOnlyForOddTypes
  <2>3. CASE AggregatorNext /\ ~EvalFunction
    <3>1. ~panicked /\ panicked' = panicked
      BY <2>3 DEF AggregatorNext, AddAggregation, DeleteAggregation, StartEval,
                  SkipFunction, EvalError
    <3> QED
      BY <3>1
  <2> QED
    BY <2>1, <2>2, <2>3
<1> QED
  BY <1>1, <1>2, AggregatorTypeCorrect, PTL DEF AggregatorSpec

\* Every result is what its function promises for the metrics it is given.
THEOREM ResultsAreRightHolds == AggregatorSpec => ResultsAreRight
<1> DEFINE Right == Len(results') > Len(results) =>
                      RightResult(functions[pos], results'[Len(results')])
<1>1. AggregatorTypeOK /\ [AggregatorNext]_vars => [Right]_vars
  <2> SUFFICES ASSUME AggregatorTypeOK, AggregatorNext,
                      Len(results') > Len(results)
               PROVE  RightResult(functions[pos], results'[Len(results')])
    OBVIOUS
  <2>1. results \in Seq(Result) /\ Len(results) \in Nat
    BY LenProperties DEF AggregatorTypeOK
  <2>2. CASE EvalFunction
    <3>0. results' # results
      BY <2>1
    <3>1. PICK r \in Result : Sends(r)
      BY <2>2, <3>0, EvalFunctionCases
    <3>2. results' = Append(results, r)
      BY <3>1 DEF Sends
    <3>3. results'[Len(results')] = r
      BY <2>1, <3>2
    <3>4. RightResult(functions[pos], r)
      <4>1. metrics \in Seq(Metric)
        BY DEF AggregatorTypeOK
      <4>2. HasValues(functions[pos]) /\ Computed(functions[pos]).ok
        BY <2>2, EvalFunctionCases
      <4> QED
        BY <3>1, <4>1, <4>2, ComputedIsRight DEF Sends
    <3> QED
      BY <3>3, <3>4
  <2>3. CASE ~EvalFunction
    <3>1. results' = results \/ results' = <<>>
      BY <2>3 DEF AggregatorNext, AddAggregation, DeleteAggregation, StartEval,
                  SkipFunction, EvalError
    <3> QED
      BY <2>1, <3>1
  <2> QED
    BY <2>2, <2>3
<1> QED
  BY <1>1, AggregatorTypeCorrect, PTL DEF AggregatorSpec, ResultsAreRight
-----------------------------------------------------------------------------
(* Every function in turn. *)

\* The entries that have values, and those of them before entry p.
WithValues == {i \in DOMAIN functions : HasValues(functions[i])}
Done(p) == {i \in WithValues : i < p}

\* While Eval() runs, the entries it has passed and that have values are those
\* it has a result for, in their order.
TurnInv ==
  pos # 0 =>
    /\ Len(results) = Cardinality(Done(pos))
    /\ \A k \in 1..Len(results) : results[k].name = functions[Eligible[k]].name

\* The list of the entries that have values.
LEMMA EligibleIs ==
  ASSUME AggregatorTypeOK
  PROVE  /\ Len(functions) \in Nat /\ DOMAIN functions = 1..Len(functions)
         /\ WithValues \subseteq Int /\ IsFiniteSet(WithValues)
         /\ Cardinality(WithValues) \in Nat
         /\ Len(Eligible) = Cardinality(WithValues)
         /\ \A i \in WithValues : Eligible[Place(WithValues, i)] = i
<1>1. Len(functions) \in Nat /\ DOMAIN functions = 1..Len(functions)
  BY LenProperties DEF AggregatorTypeOK
<1>2. WithValues \in SUBSET (1..Len(functions))
  BY <1>1 DEF WithValues
<1>3. IsFiniteSet(1..Len(functions))
  BY <1>1, FS_Interval
<1>4. IsFiniteSet(WithValues) /\ WithValues \subseteq Int
  <2>1. IsFiniteSet(WithValues)
    BY <1>2, <1>3, FS_Subset
  <2>2. \A i \in WithValues : i \in Int
    BY <1>1, <1>2
  <2> QED
    BY <2>1, <2>2
<1>5. Eligible = SortedList(WithValues)
  BY DEF Eligible, WithValues
<1> QED
  BY <1>1, <1>4, <1>5, SortedListIs

\* How the entries that are done grow: by the entry that is passed, if it has
\* values, and it is the next one of the list.
LEMMA DoneGrows ==
  ASSUME AggregatorTypeOK, NEW p \in 1..Len(functions)
  PROVE  /\ Cardinality(Done(p)) \in Nat
         /\ Cardinality(Done(p)) <= Cardinality(WithValues)
         /\ p \notin WithValues => Done(p + 1) = Done(p)
         /\ p \in WithValues =>
              /\ Cardinality(Done(p + 1)) = Cardinality(Done(p)) + 1
              /\ Eligible[Cardinality(Done(p)) + 1] = p
<1>1. /\ Len(functions) \in Nat /\ DOMAIN functions = 1..Len(functions)
      /\ WithValues \subseteq Int /\ IsFiniteSet(WithValues)
      /\ \A i \in WithValues : Eligible[Place(WithValues, i)] = i
  BY EligibleIs
<1>2. Done(p) \in SUBSET WithValues
  BY DEF Done
<1>3. /\ IsFiniteSet(Done(p)) /\ Cardinality(Done(p)) \in Nat
      /\ Cardinality(Done(p)) <= Cardinality(WithValues)
  BY <1>1, <1>2, FS_Subset, FS_CardinalityType
<1>4. \A i \in WithValues : i < p + 1 <=> i < p \/ i = p
  BY <1>1
<1>5. ASSUME p \notin WithValues
      PROVE  Done(p + 1) = Done(p)
  BY <1>4, <1>5 DEF Done
<1>6. ASSUME p \in WithValues
      PROVE  /\ Cardinality(Done(p + 1)) = Cardinality(Done(p)) + 1
             /\ Eligible[Cardinality(Done(p)) + 1] = p
  <2>1. Done(p + 1) = Done(p) \cup {p} /\ p \notin Done(p)
    <3>1. p \notin Done(p)
      BY DEF Done
    <3>2. Done(p + 1) = {i \in WithValues : i < p \/ i = p}
      BY <1>4 DEF Done
    <3>3. {i \in WithValues : i < p \/ i = p} = Done(p) \cup {p}
      BY <1>6 DEF Done
    <3> QED
      BY <3>1, <3>2, <3>3
  <2>2. Cardinality(Done(p) \cup {p}) = Cardinality(Done(p)) + 1
    BY <1>3, <2>1, FS_AddElement
  <2>3. {i \in WithValues : i <= p} = Done(p) \cup {p}
    <3>1. \A i \in WithValues : i <= p <=> i < p \/ i = p
      BY <1>1
    <3> QED
      BY <1>6, <3>1 DEF Done
  <2>4. Place(WithValues, p) = Cardinality(Done(p)) + 1
    BY <2>2, <2>3 DEF Place
  <2> QED
    BY <1>1, <1>6, <2>1, <2>2, <2>4
<1> QED
  BY <1>3, <1>5, <1>6

\* Before the first entry nothing is done, behind the last one everything.
LEMMA DoneEnds ==
  ASSUME AggregatorTypeOK
  PROVE  Cardinality(Done(1)) = 0 /\ Done(Len(functions) + 1) = WithValues
<1>1. Len(functions) \in Nat /\ \A i \in WithValues : i \in 1..Len(functions)
  BY EligibleIs DEF WithValues
<1>2. Done(1) = {}
  BY <1>1 DEF Done
<1>3. Done(Len(functions) + 1) = WithValues
  BY <1>1 DEF Done
<1> QED
  BY <1>2, <1>3, FS_EmptySet

\* Which entries have values depends on the table and the metrics only.
LEMMA SameValues ==
  ASSUME functions' = functions, metrics' = metrics
  PROVE  Eligible' = Eligible /\ WithValues' = WithValues
BY DEF Eligible, WithValues, HasValues, ValuesOf, MetricsAt, Matching

\* Eval() ends behind the last entry.
LEMMA FollowingEnds ==
  ASSUME AggregatorTypeOK, pos # 0, Following = 0
  PROVE  pos = Len(functions)
<1>1. pos \in Int /\ pos >= 1
  BY AtEntry
<1>2. pos + 1 # 0
  BY <1>1
<1> QED
  BY <1>2 DEF Following

\* Going on to the next entry, with the results for those that are done.
LEMMA FollowingTurn ==
  ASSUME AggregatorTypeOK, pos # 0, Proceed(Following), functions' = functions,
         Len(results') = Cardinality(Done(pos + 1)),
         \A k \in 1..Len(results') : results'[k].name = functions[Eligible[k]].name
  PROVE  TurnInv'
<1>1. /\ Len(functions) \in Nat /\ pos \in 1..Len(functions)
  BY AtEntry
<1>2. CASE pos = Len(functions)
  BY <1>2 DEF Proceed, Following, TurnInv
<1>3. CASE pos # Len(functions)
  <2>1. pos' = pos + 1 /\ metrics' = metrics
    BY <1>1, <1>3 DEF Proceed, Following
  <2>2. Eligible' = Eligible /\ WithValues' = WithValues
    BY <2>1, SameValues
  <2>3. Done(pos)' = Done(pos + 1)
    BY <2>1, <2>2 DEF Done
  <2> QED
    BY <2>1, <2>2, <2>3 DEF TurnInv
<1> QED
  BY <1>2, <1>3

\* The results with the one of the entry that Eval() is at.
LEMMA SentInTurn ==
  ASSUME AggregatorTypeOK, TurnInv, EvalFunction, NEW r, Sends(r)
  PROVE  /\ pos \in WithValues
         /\ Len(results') = Cardinality(Done(pos + 1))
         /\ \A k \in 1..Len(results') : results'[k].name = functions[Eligible[k]].name
<1>1. pos # 0 /\ pos \in 1..Len(functions) /\ pos \in WithValues
  BY EvalFunctionCases, AtEntry DEF WithValues
<1>2. /\ results \in Seq(Result) /\ Len(results) \in Nat
      /\ results' = Append(results, r) /\ r.name = functions[pos].name
  BY LenProperties DEF AggregatorTypeOK, Sends
<1>3. /\ Len(results) = Cardinality(Done(pos))
      /\ \A k \in 1..Len(results) : results[k].name = functions[Eligible[k]].name
  BY <1>1 DEF TurnInv
<1>4. /\ Cardinality(Done(pos + 1)) = Cardinality(Done(pos)) + 1
      /\ Eligible[Cardinality(Done(pos)) + 1] = pos
  BY <1>1, DoneGrows
<1>5. /\ Len(results') = Len(results) + 1
      /\ results'[Len(results) + 1] = r
      /\ \A k \in 1..Len(results) : results'[k] = results[k]
  BY <1>2
<1>6. \A k \in 1..(Len(results) + 1) : k \in 1..Len(results) \/ k = Len(results) + 1
  BY <1>2
<1>7. Len(results') = Cardinality(Done(pos + 1))
  BY <1>3, <1>4, <1>5
<1>8. Eligible[Len(results) + 1] = pos
  BY <1>3, <1>4
<1>9. ASSUME NEW k \in 1..Len(results')
      PROVE  results'[k].name = functions[Eligible[k]].name
  <2>1. CASE k \in 1..Len(results)
    BY <1>3, <1>5, <2>1
  <2>2. CASE k = Len(results) + 1
    BY <1>2, <1>5, <1>8, <2>2
  <2> QED
    BY <1>5, <1>6, <2>1, <2>2
<1> QED
  BY <1>1, <1>7, <1>9

\* The entries that are done and the results go together.
THEOREM TurnInvariant == AggregatorSpec => []TurnInv
<1>1. AggregatorInit => TurnInv
  BY DEF AggregatorInit, TurnInv
<1>2. AggregatorTypeOK /\ TurnInv /\ [AggregatorNext]_vars => TurnInv'
  <2> SUFFICES ASSUME AggregatorTypeOK, TurnInv, [AggregatorNext]_vars
               PROVE  TurnInv'
    OBVIOUS
  <2>1. CASE \E f \in Aggregation : AddAggregation(f)
    BY <2>1 DEF AddAggregation, TurnInv
  <2>2. CASE \E n \in Name : DeleteAggregation(n)
    BY <2>2 DEF DeleteAggregation, TurnInv
  <2>3. CASE StartEval
    <3>1. pos' = 1 /\ results' = <<>>
      BY <2>3 DEF StartEval
    <3>2. Done(pos)' = {}
      <4>1. functions' \in Seq(Aggregation)
        BY <2>3 DEF StartEval, AggregatorTypeOK
      <4>2. DOMAIN functions' = 1..Len(functions') /\ Len(functions') \in Nat
        BY <4>1, LenProperties
      <4>3. \A i \in WithValues' : i \in 1..Len(functions')
        BY <4>2 DEF WithValues
      <4>4. \A i \in WithValues' : ~(i < 1)
        BY <4>2, <4>3
      <4> QED
        BY <3>1, <4>4 DEF Done
    <3>3. Len(results') = 0 /\ Cardinality(Done(pos)') = 0
      BY <3>1, <3>2, FS_EmptySet
    <3>4. \A k \in 1..Len(results') : FALSE
      BY <3>3
    <3> QED
      BY <3>3, <3>4 DEF TurnInv
  <2>4. CASE SkipFunction
    <3>1. /\ pos # 0 /\ Proceed(Following) /\ functions' = functions
          /\ results' = results /\ ~HasValues(functions[pos])
      BY <2>4 DEF SkipFunction
    <3>2. pos \in 1..Len(functions) /\ pos \notin WithValues
      BY <3>1, AtEntry DEF WithValues
    <3>3. Done(pos + 1) = Done(pos)
      BY <3>2, DoneGrows
    <3>4. /\ Len(results') = Cardinality(Done(pos + 1))
          /\ \A k \in 1..Len(results') : results'[k].name = functions[Eligible[k]].name
      BY <3>1, <3>3 DEF TurnInv
    <3> QED
      BY <3>1, <3>4, FollowingTurn
  <2>5. CASE EvalError
    BY <2>5 DEF EvalError, Proceed, TurnInv
  <2>6. CASE EvalFunction
    <3>1. pos # 0 /\ functions' = functions
      BY <2>6, EvalFunctionCases
    <3>2. ASSUME NEW r \in Result, Sends(r), Proceed(Following)
          PROVE  TurnInv'
      BY <2>6, <3>1, <3>2, SentInTurn, FollowingTurn
    <3>3. CASE results' = results /\ metrics' = metrics /\ pos' = pos
      <4>1. Eligible' = Eligible /\ WithValues' = WithValues
        BY <3>1, <3>3, SameValues
      <4>2. Done(pos)' = Done(pos)
        BY <3>3, <4>1 DEF Done
      <4> QED
        BY <3>1, <3>3, <4>1, <4>2 DEF TurnInv
    <3> QED
      BY <2>6, <3>2, <3>3, EvalFunctionCases
  <2>7. CASE UNCHANGED vars
    <3>1. /\ functions' = functions /\ metrics' = metrics
          /\ pos' = pos /\ results' = results
      BY <2>7 DEF vars
    <3>2. Eligible' = Eligible /\ WithValues' = WithValues
      BY <3>1, SameValues
    <3>3. Done(pos)' = Done(pos)
      BY <3>1, <3>2 DEF Done
    <3> QED
      BY <3>1, <3>2, <3>3 DEF TurnInv
  <2> QED
    BY <2>1, <2>2, <2>3, <2>4, <2>5, <2>6, <2>7 DEF AggregatorNext
<1> QED
  BY <1>1, <1>2, AggregatorTypeCorrect, PTL DEF AggregatorSpec

\* Eval() evaluates every function that has values, in the order of the table,
\* and stops before the end only at a function that cannot be evaluated.
THEOREM EveryFunctionInTurnHolds == AggregatorSpec => EveryFunctionInTurn
<1> DEFINE InTurn ==
      pos # 0 /\ pos' = 0 =>
        LET n == Len(results')
        IN /\ n <= Len(Eligible)
           /\ \A k \in 1..n : results'[k].name = functions[Eligible[k]].name
           /\ n < Len(Eligible) => ~Computed(functions[Eligible[n + 1]]).ok
<1>1. AggregatorTypeOK /\ TurnInv /\ [AggregatorNext]_vars => [InTurn]_vars
  <2> SUFFICES ASSUME AggregatorTypeOK, TurnInv, AggregatorNext, pos # 0, pos' = 0
               PROVE  LET n == Len(results')
                      IN /\ n <= Len(Eligible)
                         /\ \A k \in 1..n :
                              results'[k].name = functions[Eligible[k]].name
                         /\ n < Len(Eligible) => ~Computed(functions[Eligible[n + 1]]).ok
    OBVIOUS
  <2>1. /\ pos \in 1..Len(functions) /\ Len(functions) \in Nat
        /\ DOMAIN functions = 1..Len(functions)
    BY AtEntry
  <2>2. /\ Len(results) = Cardinality(Done(pos))
        /\ \A k \in 1..Len(results) : results[k].name = functions[Eligible[k]].name
    BY DEF TurnInv
  <2>3. Len(Eligible) = Cardinality(WithValues) /\ Cardinality(WithValues) \in Nat
    BY EligibleIs
  <2>4. ASSUME Proceed(Following)
        PROVE  pos = Len(functions) /\ Done(pos + 1) = WithValues
    <3>0. Following = 0
      BY <2>4 DEF Proceed
    <3>1. pos = Len(functions)
      BY <3>0, FollowingEnds
    <3> QED
      BY <3>1, DoneEnds
  <2>5. CASE EvalError
    <3>1. results' = results /\ ~Computed(functions[pos]).ok /\ pos \in WithValues
      BY <2>1, <2>5 DEF EvalError, WithValues
    <3>2. /\ Cardinality(Done(pos)) <= Cardinality(WithValues)
          /\ Eligible[Cardinality(Done(pos)) + 1] = pos
      BY <2>1, <3>1, DoneGrows
    <3>3. ~Computed(functions[Eligible[Len(results') + 1]]).ok
      BY <2>2, <3>1, <3>2
    <3> QED
      BY <2>2, <2>3, <3>1, <3>2, <3>3
  <2>6. CASE SkipFunction
    <3>1. results' = results /\ Proceed(Following) /\ pos \notin WithValues
      BY <2>6 DEF SkipFunction, WithValues
    <3>2. Len(results') = Len(Eligible)
      BY <2>1, <2>2, <2>3, <2>4, <3>1, DoneGrows
    <3> QED
      BY <2>2, <2>3, <3>1, <3>2
  <2>7. CASE EvalFunction
    <3>1. PICK r \in Result : Sends(r) /\ Proceed(Following)
      <4>1. pos' # pos
        BY <2>1
      <4> QED
        BY <2>7, <4>1, EvalFunctionCases
    <3>2. /\ Len(results') = Len(Eligible)
          /\ \A k \in 1..Len(results') : results'[k].name = functions[Eligible[k]].name
      BY <2>3, <2>4, <2>7, <3>1, SentInTurn
    <3> QED
      BY <2>3, <3>2
  <2>8. CASE \/ \E f \in Aggregation : AddAggregation(f)
             \/ \E n \in Name : DeleteAggregation(n)
             \/ StartEval
    BY <2>8 DEF AddAggregation, DeleteAggregation, StartEval
  <2> QED
    BY <2>5, <2>6, <2>7, <2>8 DEF AggregatorNext
<1> QED
  BY <1>1, AggregatorTypeCorrect, TurnInvariant, PTL DEF AggregatorSpec, EveryFunctionInTurn
=============================================================================
