-------------------------- MODULE MetricCache_proofs --------------------------
(***************************************************************************)
(* Proofs about the cache, for any numbers of periods, functions, ticks    *)
(* and metrics: type correctness, that the current period holds what has   *)
(* arrived since the last tick, and that with one period the evaluation    *)
(* starts from the interval that has ended.                                *)
(***************************************************************************)
EXTENDS MetricCache, SequenceTheorems, TLAPS

\* The part of a period that counts.
Filled(p) == SubSeq(p.metrics, 1, p.num)

\* The histories have their types.
HistoryOK ==
  /\ now \in Nat
  /\ added \in Nat
  /\ arrived \in Seq(Metric)
  /\ previous \in Seq(Metric)

\* The list being evaluated is never shortened under the aggregator.
EvaluationOK ==
  /\ el >= 1
  /\ evLen <= Len(intervals[evPeriod].metrics)

\* In the middle of a rotation the old period still holds the interval that has
\* ended, and nothing can be added.
RotationOK ==
  cpc = "rotate" =>
    /\ curPeriod = oldPeriod + 1
    /\ arrived = <<>>
    /\ Filled(intervals[oldPeriod]) = previous
    /\ \A p \in 0..numPeriods : p # oldPeriod => intervals[p].num = 0

\* The inductive invariant.
CacheInv ==
  /\ CacheTypeOK
  /\ HistoryOK
  /\ EvaluationOK
  /\ CurrentHoldsInterval
  /\ RotationOK
-----------------------------------------------------------------------------
\* Add() stores behind the filled part, overwriting or appending: that part
\* grows by the metric, and the list does not become shorter.
LEMMA StoredFills ==
  ASSUME NEW p \in Period, p.num <= Len(p.metrics), NEW m \in Metric
  PROVE  /\ Stored(p, m) \in Period
         /\ Stored(p, m).num = p.num + 1
         /\ Stored(p, m).num <= Len(Stored(p, m).metrics)
         /\ Len(p.metrics) <= Len(Stored(p, m).metrics)
         /\ Filled(Stored(p, m)) = Append(Filled(p), m)
<1> DEFINE old == p.metrics
           n == p.num
           new == IF n < Len(old) THEN [old EXCEPT ![n + 1] = m]
                                  ELSE Append(old, m)
<1>1. old \in Seq(Metric) /\ n \in Nat
  BY DEF Period
<1>2. Len(old) \in Nat /\ n <= Len(old)
  BY <1>1
<1>3. /\ new \in Seq(Metric)
      /\ Len(new) >= n + 1
      /\ Len(new) >= Len(old)
      /\ \A i \in 1..n : new[i] = old[i]
      /\ new[n + 1] = m
  <2>1. CASE n < Len(old)
    <3>1. new = [old EXCEPT ![n + 1] = m]
      BY <2>1
    <3>2. n + 1 \in 1..Len(old)
      BY <1>1, <1>2, <2>1
    <3>3. /\ [old EXCEPT ![n + 1] = m] \in Seq(Metric)
          /\ Len([old EXCEPT ![n + 1] = m]) = Len(old)
          /\ \A j \in 1..Len(old) : [old EXCEPT ![n + 1] = m][j]
                                      = IF j = n + 1 THEN m ELSE old[j]
      BY <1>1, <3>2, ExceptSeq
    <3> QED
      BY <3>1, <3>2, <3>3, <1>1, <1>2
  <2>2. CASE n = Len(old)
    <3>1. new = Append(old, m)
      BY <2>2, <1>1
    <3> QED
      BY <3>1, <2>2, <1>1
  <2> QED
    BY <2>1, <2>2, <1>1, <1>2
<1>4. /\ Stored(p, m) \in Period
      /\ Stored(p, m).metrics = new
      /\ Stored(p, m).num = n + 1
  <2>1. Stored(p, m) = [p EXCEPT !.metrics = new, !.num = n + 1]
    BY DEF Stored
  <2>2. new \in Seq(Metric) /\ n + 1 \in Nat
    BY <1>1, <1>3
  <2> HIDE DEF new
  <2>3. /\ [p EXCEPT !.metrics = new, !.num = n + 1] \in Period
        /\ [p EXCEPT !.metrics = new, !.num = n + 1].metrics = new
        /\ [p EXCEPT !.metrics = new, !.num = n + 1].num = n + 1
    BY <2>2 DEF Period
  <2> QED
    BY <2>1, <2>3, Zenon
<1> HIDE DEF new
<1>5. Filled(Stored(p, m)) = Append(Filled(p), m)
  <2>1. Filled(Stored(p, m)) = SubSeq(new, 1, n + 1) /\ Filled(p) = SubSeq(old, 1, n)
    BY <1>4 DEF Filled
  <2>2. /\ SubSeq(new, 1, n + 1) \in Seq(Metric)
        /\ Len(SubSeq(new, 1, n + 1)) = n + 1
        /\ \A i \in 1..(n + 1) : SubSeq(new, 1, n + 1)[i] = new[i]
    BY <1>1, <1>3
  <2>3. /\ SubSeq(old, 1, n) \in Seq(Metric)
        /\ Len(SubSeq(old, 1, n)) = n
        /\ \A i \in 1..n : SubSeq(old, 1, n)[i] = old[i]
    BY <1>1, <1>2
  <2> DEFINE longer == Append(SubSeq(old, 1, n), m)
  <2>4. /\ longer \in Seq(Metric)
        /\ Len(longer) = n + 1
        /\ \A i \in 1..(n + 1) : longer[i] = IF i = n + 1 THEN m ELSE old[i]
    BY <2>3, <1>1
  <2>5. \A i \in 1..(n + 1) : SubSeq(new, 1, n + 1)[i] = longer[i]
    BY <2>2, <2>4, <1>3, <1>1
  <2> HIDE DEF longer
  <2>6. SubSeq(new, 1, n + 1) = longer
    BY <2>2, <2>4, <2>5, SeqEqual
  <2> QED
    BY <2>1, <2>6 DEF longer
<1> QED
  BY <1>3, <1>4, <1>5, <1>1, <1>2

\* What GetPeriod() returns is a period of the ring, or nothing.
LEMMA PeriodIndexInRing ==
  ASSUME NEW index \in Nat, NEW cur \in Nat, numPeriods \in Nat \ {0}
  PROVE  PeriodIndex(index, cur) \in (0..(numPeriods - 1)) \cup {-1}
  BY DEF PeriodIndex

\* The ring of the constants: at least one period.
LEMMA RingNotEmpty ==
  ASSUME CacheTypeOK
  PROVE  /\ numPeriods \in Nat \ {0}
         /\ cpc # "rotate" => curPeriod \in 0..(numPeriods - 1)
         /\ \A p \in 0..numPeriods : /\ intervals[p] \in Period
                                     /\ intervals[p].num \in Nat
                                     /\ intervals[p].metrics \in Seq(Metric)
  BY CacheAssumption DEF CacheTypeOK, Period
-----------------------------------------------------------------------------
\* The cache is empty at the start.
LEMMA CacheInitInv ==
  ASSUME CacheInit
  PROVE  CacheInv
<1>1. numPeriods \in Nat \ {0}
  BY CacheAssumption DEF CacheInit
<1>2. /\ intervals = [p \in 0..numPeriods |-> [num |-> 0, metrics |-> <<>>]]
      /\ [num |-> 0, metrics |-> <<>>] \in Period
  BY DEF CacheInit, Period
<1>3. CacheTypeOK
  BY <1>1, <1>2 DEF CacheInit, CacheTypeOK
<1>4. HistoryOK
  BY DEF CacheInit, HistoryOK
<1>5. EvaluationOK
  BY <1>1, <1>2 DEF CacheInit, EvaluationOK
<1>6. CurrentHoldsInterval
  BY <1>1, <1>2 DEF CacheInit, CurrentHoldsInterval
<1>7. RotationOK
  BY DEF CacheInit, RotationOK
<1> QED
  BY <1>3, <1>4, <1>5, <1>6, <1>7 DEF CacheInv

\* A rotation begins: what the current period holds becomes the old interval.
LEMMA RotateBeginInv ==
  ASSUME CacheInv, NEW t \in (now + 1)..MaxTick, RotateBegin(t)
  PROVE  CacheInv'
<1> USE DEF RotateBegin, ring, result, walk, hist
<1>1. CacheTypeOK /\ HistoryOK /\ EvaluationOK /\ CurrentHoldsInterval
  BY DEF CacheInv
<1>2. numPeriods \in Nat \ {0} /\ curPeriod \in 0..(numPeriods - 1)
  BY <1>1, RingNotEmpty
<1>3. CacheTypeOK'
  BY <1>1, <1>2 DEF CacheTypeOK
<1>4. HistoryOK'
  BY <1>1 DEF HistoryOK
<1>5. EvaluationOK'
  BY <1>1 DEF EvaluationOK
<1>6. CurrentHoldsInterval'
  BY DEF CurrentHoldsInterval
<1>7. RotationOK'
  <2>1. Filled(intervals[curPeriod]) = arrived
    BY <1>1 DEF CurrentHoldsInterval, Filled
  <2>2. \A p \in 0..numPeriods : p # curPeriod => intervals[p].num = 0
    BY <1>1 DEF CurrentHoldsInterval
  <2> QED
    BY <2>1, <2>2 DEF RotationOK, Filled
<1> QED
  BY <1>3, <1>4, <1>5, <1>6, <1>7 DEF CacheInv

\* A rotation ends: the old period counts as empty, and its list stays.
LEMMA RotateEndInv ==
  ASSUME CacheInv, RotateEnd
  PROVE  CacheInv'
<1> DEFINE cur == IF curPeriod >= numPeriods THEN 0 ELSE curPeriod
           p == PeriodIndex(oldPeriod, cur)
           len == IF p = -1 THEN 0 ELSE Len(intervals[p].metrics)
<1> USE DEF ring, result, walk, hist
<1>1. CacheTypeOK /\ HistoryOK /\ RotationOK
  BY DEF CacheInv
<1>2. /\ numPeriods \in Nat \ {0}
      /\ numPeriods' = numPeriods
      /\ cur \in 0..(numPeriods - 1)
      /\ curPeriod' = cur
      /\ oldPeriod' = oldPeriod /\ oldPeriod \in 0..(numPeriods - 1)
  BY <1>1, RingNotEmpty DEF RotateEnd, CacheTypeOK
<1>3. p \in (0..(numPeriods - 1)) \cup {-1}
  BY <1>2, PeriodIndexInRing
<1>4. /\ intervals' = [intervals EXCEPT ![oldPeriod].num = 0]
      /\ evPeriod' = IF p = -1 THEN 0 ELSE p
      /\ evLen' = len
      /\ cpc' = IF len > 0 /\ NumFunctions > 0 THEN "eval" ELSE "select"
      /\ fn' = 1 /\ el' = 1 /\ matches' = <<>>
      /\ UNCHANGED <<pending, cclose, now, added, arrived, previous>>
  BY DEF RotateEnd
<1>5. \A q \in 0..numPeriods :
        /\ intervals'[q] \in Period
        /\ intervals'[q].metrics = intervals[q].metrics
        /\ intervals'[q].num = 0
        /\ intervals[q].metrics \in Seq(Metric)
  <2> SUFFICES ASSUME NEW q \in 0..numPeriods
               PROVE  /\ intervals'[q] \in Period
                      /\ intervals'[q].metrics = intervals[q].metrics
                      /\ intervals'[q].num = 0
                      /\ intervals[q].metrics \in Seq(Metric)
    OBVIOUS
  <2>1. intervals[q] \in Period /\ intervals[q].metrics \in Seq(Metric)
    BY <1>1, RingNotEmpty
  <2>2. intervals \in [0..numPeriods -> Period] /\ oldPeriod \in 0..numPeriods
    BY <1>1, <1>2 DEF CacheTypeOK
  <2>3. CASE q = oldPeriod
    <3>1. intervals'[q] = [intervals[q] EXCEPT !.num = 0]
      BY <1>4, <2>2, <2>3
    <3> QED
      BY <2>1, <3>1 DEF Period
  <2>4. CASE q # oldPeriod
    <3>1. intervals'[q] = intervals[q]
      BY <1>4, <2>2, <2>4
    <3>2. intervals[q].num = 0
      BY <1>1, <2>4 DEF RotationOK, RotateEnd
    <3> QED
      BY <2>1, <3>1, <3>2
  <2> QED
    BY <2>3, <2>4
<1>6. intervals' \in [0..numPeriods -> Period]
  BY <1>1, <1>2, <1>4, <1>5 DEF CacheTypeOK
<1>7. evPeriod' \in 0..(numPeriods - 1) /\ evLen' \in Nat
  BY <1>2, <1>3, <1>4, <1>5
<1> HIDE DEF p
<1>8. CacheTypeOK'
  <2>1. \A q \in 0..numPeriods : intervals'[q].num <= Len(intervals'[q].metrics)
    BY <1>5
  <2> QED
    BY <1>1, <1>2, <1>4, <1>6, <1>7, <2>1 DEF CacheTypeOK
<1>9. HistoryOK'
  BY <1>1, <1>4 DEF HistoryOK
<1>10. EvaluationOK'
  BY <1>2, <1>3, <1>4, <1>5 DEF EvaluationOK
<1>11. CurrentHoldsInterval'
  <2>1. arrived' = <<>>
    BY <1>1, <1>4 DEF RotationOK, RotateEnd
  <2>2. SubSeq(intervals'[cur].metrics, 1, intervals'[cur].num) = <<>>
    BY <1>2, <1>5
  <2> QED
    BY <1>2, <1>5, <2>1, <2>2 DEF CurrentHoldsInterval
<1>12. RotationOK'
  BY <1>4 DEF RotationOK
<1> QED
  BY <1>8, <1>9, <1>10, <1>11, <1>12 DEF CacheInv

\* A metric is stored in the current period.
LEMMA AddStoreInv ==
  ASSUME CacheInv, AddStore
  PROVE  CacheInv'
<1> DEFINE m == pending[1]
<1> USE DEF ring, result, walk
<1>1. CacheTypeOK /\ HistoryOK /\ EvaluationOK /\ CurrentHoldsInterval
  BY DEF CacheInv
<1>2. /\ numPeriods \in Nat \ {0}
      /\ curPeriod \in 0..(numPeriods - 1)
      /\ \A q \in 0..numPeriods : /\ intervals[q] \in Period
                                  /\ intervals[q].num \in Nat
                                  /\ intervals[q].metrics \in Seq(Metric)
                                  /\ intervals[q].num <= Len(intervals[q].metrics)
  BY <1>1, RingNotEmpty DEF AddStore, CacheTypeOK
<1>3. m \in Metric
  BY <1>1 DEF AddStore, CacheTypeOK
<1> DEFINE old == intervals[curPeriod]
           new == Stored(old, m)
<1>4. /\ new \in Period
      /\ new.num <= Len(new.metrics)
      /\ Len(old.metrics) <= Len(new.metrics)
      /\ Filled(new) = Append(Filled(old), m)
  <2>1. old \in Period /\ old.num <= Len(old.metrics)
    BY <1>2
  <2> HIDE DEF old, m
  <2> QED
    BY <1>3, <2>1, StoredFills
<1>5. /\ intervals' = [intervals EXCEPT ![curPeriod] = new]
      /\ arrived' = Append(arrived, m)
      /\ pending' = <<>>
      /\ UNCHANGED <<numPeriods, curPeriod, oldPeriod, cpc, evPeriod, evLen, fn,
                     el, matches, cclose, now, added, previous>>
      /\ cpc # "rotate"
  BY DEF AddStore
<1> HIDE DEF m, new
<1>6. /\ intervals' \in [0..numPeriods -> Period]
      /\ intervals'[curPeriod] = new
      /\ \A q \in 0..numPeriods : q # curPeriod => intervals'[q] = intervals[q]
  BY <1>1, <1>2, <1>4, <1>5 DEF CacheTypeOK
<1>7. CacheTypeOK'
  <2>1. \A q \in 0..numPeriods : intervals'[q].num <= Len(intervals'[q].metrics)
    BY <1>2, <1>4, <1>6
  <2> QED
    BY <1>1, <1>5, <1>6, <2>1 DEF CacheTypeOK
<1>8. HistoryOK'
  BY <1>1, <1>3, <1>5 DEF HistoryOK
<1>9. EvaluationOK'
  <2>1. evPeriod \in 0..numPeriods /\ evLen \in Nat
    BY <1>1, <1>2 DEF CacheTypeOK
  <2>2. Len(intervals[evPeriod].metrics) \in Nat /\ Len(new.metrics) \in Nat
    BY <1>2, <1>4, <2>1 DEF Period
  <2>3. evLen <= Len(intervals'[evPeriod].metrics)
    BY <1>1, <1>4, <1>6, <2>1, <2>2 DEF EvaluationOK
  <2> QED
    BY <1>1, <1>5, <2>3 DEF EvaluationOK
<1>10. CurrentHoldsInterval'
  <2>1. Filled(old) = arrived
    BY <1>1, <1>5 DEF CurrentHoldsInterval, Filled
  <2>2. Filled(intervals'[curPeriod]) = arrived'
    BY <1>4, <1>5, <1>6, <2>1
  <2>3. \A q \in 0..numPeriods : q # curPeriod => intervals'[q].num = 0
    BY <1>1, <1>5, <1>6 DEF CurrentHoldsInterval
  <2> QED
    BY <1>5, <2>2, <2>3 DEF CurrentHoldsInterval, Filled
<1>11. RotationOK'
  BY <1>5 DEF RotationOK
<1> QED
  BY <1>7, <1>8, <1>9, <1>10, <1>11 DEF CacheInv

\* The aggregator looks at a metric, which is there.
LEMMA EvalMetricInv ==
  ASSUME CacheInv, NEW match \in BOOLEAN, EvalMetric(match)
  PROVE  CacheInv'
<1> USE DEF EvalMetric, ring, result, hist
<1>1. CacheTypeOK /\ HistoryOK /\ EvaluationOK /\ CurrentHoldsInterval
  BY DEF CacheInv
<1>2. intervals[evPeriod].metrics[el] \in Metric
  <2>1. intervals[evPeriod].metrics \in Seq(Metric)
    BY <1>1, RingNotEmpty DEF CacheTypeOK
  <2>2. el \in 1..Len(intervals[evPeriod].metrics)
    BY <1>1, <2>1 DEF CacheTypeOK, EvaluationOK
  <2> QED
    BY <2>1, <2>2
<1>3. matches' \in Seq(Metric)
  BY <1>1, <1>2 DEF CacheTypeOK
<1>4. CacheTypeOK'
  BY <1>1, <1>3 DEF CacheTypeOK
<1>5. HistoryOK'
  BY <1>1 DEF HistoryOK
<1>6. EvaluationOK'
  BY <1>1 DEF EvaluationOK, CacheTypeOK
<1>7. CurrentHoldsInterval'
  BY <1>1 DEF CurrentHoldsInterval
<1>8. RotationOK'
  BY DEF RotationOK
<1> QED
  BY <1>4, <1>5, <1>6, <1>7, <1>8 DEF CacheInv

\* The evaluation of a function is over, in one way or another.
LEMMA EvalEndsInv ==
  ASSUME CacheInv,
         cpc = "eval",
         NextFunction \/ EvalError
  PROVE  CacheInv'
<1> USE DEF NextFunction, EvalError, ring, result, walk, hist
<1>1. CacheTypeOK /\ HistoryOK /\ EvaluationOK /\ CurrentHoldsInterval
  BY DEF CacheInv
<1>2. CacheTypeOK'
  <2>1. /\ fn' \in Nat /\ el' \in Nat
        /\ matches' = <<>>
        /\ cpc' \in {"eval", "select"}
    BY <1>1 DEF CacheTypeOK
  <2>2. /\ curPeriod # numPeriods
        /\ UNCHANGED <<numPeriods, curPeriod, intervals, oldPeriod, evPeriod,
                       evLen, pending, cclose>>
    BY <1>1 DEF CacheTypeOK
  <2> QED
    BY <1>1, <2>1, <2>2 DEF CacheTypeOK
<1>3. HistoryOK'
  BY <1>1 DEF HistoryOK
<1>4. EvaluationOK'
  BY <1>1 DEF EvaluationOK
<1>5. CurrentHoldsInterval'
  BY <1>1 DEF CurrentHoldsInterval
<1>6. RotationOK'
  BY DEF RotationOK
<1> QED
  BY <1>2, <1>3, <1>4, <1>5, <1>6 DEF CacheInv

\* The router looks at curPeriod.
LEMMA AddCheckInv ==
  ASSUME CacheInv, AddCheck
  PROVE  CacheInv'
<1> USE DEF AddCheck, ring, result, walk
<1>1. CacheTypeOK /\ HistoryOK /\ EvaluationOK /\ CurrentHoldsInterval
        /\ RotationOK
  BY DEF CacheInv
<1>2. [time |-> now, n |-> added + 1] \in Metric
  BY <1>1 DEF HistoryOK, Metric
<1>3. pending' \in Seq(Metric)
  BY <1>2
<1>4. CacheTypeOK'
  BY <1>1, <1>3 DEF CacheTypeOK
<1>5. HistoryOK'
  BY <1>1 DEF HistoryOK
<1>6. EvaluationOK'
  BY <1>1 DEF EvaluationOK
<1>7. CurrentHoldsInterval'
  BY <1>1 DEF CurrentHoldsInterval
<1>8. RotationOK'
  BY <1>1 DEF RotationOK, Filled
<1> QED
  BY <1>4, <1>5, <1>6, <1>7, <1>8 DEF CacheInv

\* Starting and closing touch neither the ring nor the evaluation.
LEMMA LifecycleInv ==
  ASSUME CacheInv,
         \/ CacheStart
         \/ CallCacheClose
         \/ AcceptCacheDone
         \/ CacheExit
         \/ CacheWaitReturns
         \/ UNCHANGED allvars
  PROVE  CacheInv'
<1> USE DEF CacheStart, CallCacheClose, AcceptCacheDone, CacheExit,
            CacheWaitReturns, allvars, cvars, ring, result, walk, hist
<1>1. CacheTypeOK /\ HistoryOK /\ EvaluationOK /\ CurrentHoldsInterval
        /\ RotationOK
  BY DEF CacheInv
<1>2. CacheTypeOK'
  BY <1>1 DEF CacheTypeOK
<1>3. HistoryOK'
  BY <1>1 DEF HistoryOK
<1>4. EvaluationOK'
  BY <1>1 DEF EvaluationOK
<1>5. CurrentHoldsInterval'
  BY <1>1 DEF CurrentHoldsInterval
<1>6. RotationOK'
  BY <1>1 DEF RotationOK, Filled
<1> QED
  BY <1>2, <1>3, <1>4, <1>5, <1>6 DEF CacheInv

\* Every step of the cache and of the router that uses it keeps the invariant.
LEMMA CacheNextInv ==
  ASSUME CacheInv, [CacheNext]_allvars
  PROVE  CacheInv'
<1>1. CASE \E t \in (now + 1)..MaxTick : RotateBegin(t)
  BY <1>1, RotateBeginInv
<1>2. CASE RotateEnd
  BY <1>2, RotateEndInv
<1>3. CASE \E match \in BOOLEAN : EvalMetric(match)
  BY <1>3, EvalMetricInv
<1>4. CASE EvalNothing \/ (\E taken \in BOOLEAN : EvalOffer(taken)) \/ EvalError
  <2>1. cpc = "eval" /\ (NextFunction \/ EvalError)
    BY <1>4 DEF EvalNothing, EvalOffer, EvalError
  <2> QED
    BY <2>1, EvalEndsInv
<1>5. CASE AddCheck
  BY <1>5, AddCheckInv
<1>6. CASE AddStore
  BY <1>6, AddStoreInv
<1>7. CASE \/ CacheStart
           \/ CallCacheClose
           \/ AcceptCacheDone
           \/ CacheExit
           \/ CacheWaitReturns
           \/ UNCHANGED allvars
  BY <1>7, LifecycleInv
<1> QED
  BY <1>1, <1>2, <1>3, <1>4, <1>5, <1>6, <1>7 DEF CacheNext

\* The invariant holds in every state.
THEOREM CacheInvariant == CacheSpec => []CacheInv
<1>1. CacheInit => CacheInv
  BY CacheInitInv
<1>2. CacheInv /\ [CacheNext]_allvars => CacheInv'
  BY CacheNextInv
<1> QED
  BY <1>1, <1>2, PTL DEF CacheSpec

\* The variables of the cache keep their types: in particular curPeriod points
\* behind the ring only while rotate() holds the lock, so that Add(), which
\* looked at it without the lock, never stores out of bounds.
THEOREM CacheTypeCorrect == CacheSpec => []CacheTypeOK
<1>1. CacheInv => CacheTypeOK
  BY DEF CacheInv
<1> QED
  BY <1>1, CacheInvariant, PTL

\* The filled part of the current period is what Add() stored since the last
\* tick, whatever the list still holds of earlier rounds.
THEOREM CurrentHoldsIntervalHolds == CacheSpec => []CurrentHoldsInterval
<1>1. CacheInv => CurrentHoldsInterval
  BY DEF CacheInv
<1> QED
  BY <1>1, CacheInvariant, PTL

\* With one period, what GetPeriod() returns at a tick begins with the metrics of
\* the interval that has ended.
THEOREM LastIntervalReturnedHolds == CacheSpec => LastIntervalReturned
<1> DEFINE Returned ==
      (numPeriods = 1 /\ cpc = "rotate" /\ cpc' # "rotate") =>
         /\ evLen' >= Len(previous)
         /\ SubSeq(intervals[0].metrics, 1, Len(previous)) = previous
<1>1. CacheInv /\ [CacheNext]_allvars => [Returned]_allvars
  <2> SUFFICES ASSUME CacheInv, CacheNext, numPeriods = 1, cpc = "rotate",
                      cpc' # "rotate"
               PROVE  /\ evLen' >= Len(previous)
                      /\ SubSeq(intervals[0].metrics, 1, Len(previous))
                           = previous
    OBVIOUS
  <2>1. RotateEnd
    BY DEF CacheNext, CacheStart, RotateBegin, EvalMetric, EvalNothing,
           EvalOffer, EvalError, AddCheck, AddStore, CallCacheClose,
           AcceptCacheDone, CacheExit, CacheWaitReturns
  <2>2. CacheTypeOK /\ RotationOK
    BY DEF CacheInv
  <2>3. oldPeriod = 0 /\ curPeriod = 1
    BY <2>2 DEF CacheTypeOK, RotationOK
  <2>4. PeriodIndex(0, 0) = 0
    BY DEF PeriodIndex
  <2>5. evLen' = Len(intervals[0].metrics)
    BY <2>1, <2>3, <2>4 DEF RotateEnd
  <2>6. /\ intervals[0].metrics \in Seq(Metric)
        /\ intervals[0].num \in Nat
        /\ intervals[0].num <= Len(intervals[0].metrics)
    BY <2>2, RingNotEmpty DEF CacheTypeOK
  <2>7. previous = SubSeq(intervals[0].metrics, 1, intervals[0].num)
    BY <2>2, <2>3 DEF RotationOK, Filled
  <2>8. Len(previous) = intervals[0].num
    BY <2>6, <2>7
  <2> QED
    BY <2>5, <2>6, <2>7, <2>8
<1> QED
  BY <1>1, CacheInvariant, PTL DEF CacheSpec, LastIntervalReturned
=============================================================================
