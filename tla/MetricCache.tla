---------------------------- MODULE MetricCache ----------------------------
(***************************************************************************)
(* internal/metricRouter/metricCache.go: a ring of periods, each with a    *)
(* list of metrics that is reused in place.  The goroutine of the router   *)
(* adds metrics to the current period; on every tick the goroutine of the  *)
(* cache moves on to the next one and has the aggregator evaluate what     *)
(* GetPeriod() returns.                                                    *)
(*                                                                         *)
(* c.lock covers the rotation and the body of Add(), but neither the look  *)
(* at curPeriod at the top of Add() nor the evaluation, which walks the    *)
(* list of the period itself and not a copy of it.                         *)
(*                                                                         *)
(* A metric is its time (the interval in which the router stamped it) and  *)
(* a number that identifies it.  sizeMetrics is always len(metrics);       *)
(* startstamp and stopstamp of a period are left out.                      *)
(***************************************************************************)
EXTENDS Integers, Sequences

CONSTANTS
  PeriodCounts,  \* the values num_cache_intervals may have
  NumFunctions,  \* number of aggregation functions of the aggregator
  MaxTick,       \* bound on the ticks received
  MaxAdd         \* bound on the number of metrics

ASSUME CacheAssumption ==
  /\ PeriodCounts \subseteq Nat \ {0}
  /\ NumFunctions \in Nat
  /\ MaxTick \in Nat
  /\ MaxAdd \in Nat

VARIABLES
  numPeriods,  \* c.numPeriods: set by Init() and never changed
  curPeriod,   \* c.curPeriod
  intervals,   \* c.intervals
  cpc,         \* where the goroutine of the cache is
  oldPeriod,   \* the period that rotate() leaves
  evPeriod,    \* the period whose list is being evaluated
  evLen,       \* length of that list when GetPeriod() returned it
  fn,          \* index of the aggregation function being evaluated
  el,          \* index of the list element it looks at next
  matches,     \* the metrics whose condition was true
  pending,     \* <<>>, or the metric that Add() waits to store
  cclose       \* caller of Close(), see CloseHandshake

\* The ring of periods, what GetPeriod() returned, and how far Eval() is.
ring == <<numPeriods, curPeriod, intervals, oldPeriod>>
result == <<evPeriod, evLen>>
walk == <<fn, el, matches>>

cvars == <<ring, cpc, result, walk, pending, cclose>>

VARIABLES
  now,       \* history: the tick received last
  added,     \* history: how many metrics Add() was called with
  arrived,   \* history: the metrics stored since the last rotation
  previous   \* history: those stored between the last two rotations

hist == <<now, added, arrived, previous>>

allvars == <<cvars, hist>>

Metric == [time : Nat, n : Nat]
Period == [num : Nat, metrics : Seq(Metric)]

CacheTypeOK ==
  /\ numPeriods \in PeriodCounts
  /\ curPeriod \in 0..numPeriods
  /\ curPeriod = numPeriods => cpc = "rotate"
  /\ intervals \in [0..numPeriods -> Period]
  /\ \A p \in 0..numPeriods : intervals[p].num <= Len(intervals[p].metrics)
  /\ cpc \in {"idle", "select", "rotate", "eval", "done", "exited"}
  /\ oldPeriod \in 0..(numPeriods - 1)
  /\ evPeriod \in 0..(numPeriods - 1)
  /\ evLen \in Nat
  /\ fn \in Nat
  /\ el \in Nat
  /\ matches \in Seq(Metric)
  /\ pending \in Seq(Metric)
  /\ cclose \in {"open", "sending", "waiting", "returned"}

CacheInit ==
  /\ numPeriods \in PeriodCounts
  /\ curPeriod = 0
  /\ intervals = [p \in 0..numPeriods |-> [num |-> 0, metrics |-> <<>>]]
  /\ cpc = "idle"
  /\ oldPeriod = 0
  /\ evPeriod = 0
  /\ evLen = 0
  /\ fn = 1
  /\ el = 1
  /\ matches = <<>>
  /\ pending = <<>>
  /\ cclose = "open"
  /\ now = 0
  /\ added = 0
  /\ arrived = <<>>
  /\ previous = <<>>
-----------------------------------------------------------------------------
CacheStart ==
  /\ cpc = "idle"
  /\ cpc' = "select"
  /\ UNCHANGED <<ring, result, walk, pending, cclose, hist>>

\* rotate(), under the lock: curPeriod is incremented first and wrapped after.
RotateBegin(t) ==
  /\ cpc = "select"
  /\ oldPeriod' = curPeriod
  /\ curPeriod' = curPeriod + 1
  /\ cpc' = "rotate"
  /\ now' = t
  /\ previous' = arrived
  /\ arrived' = <<>>
  /\ UNCHANGED <<numPeriods, intervals, result, walk, pending, cclose,
                 added>>

\* Mutant of PeriodIndex: the bound on the index is one too small.
PeriodIndexShort(index, cur) ==
  IF index < numPeriods - 1 /\ cur >= index THEN cur - index ELSE -1

\* The index that GetPeriod(index) reads when the current period is cur, or
\* -1 if it returns an empty list.
PeriodIndex(index, cur) ==
  LET diff   == cur - index
      pindex == IF diff < 0 THEN numPeriods - diff ELSE diff
  IN  IF index < numPeriods /\ pindex < numPeriods THEN pindex ELSE -1

\* The rest of rotate(), GetPeriod(old), and the unlock.
RotateEnd ==
  /\ cpc = "rotate"
  /\ LET cur  == IF curPeriod >= numPeriods THEN 0 ELSE curPeriod
         p    == PeriodIndex(oldPeriod, cur)
         len  == IF p = -1 THEN 0 ELSE Len(intervals[p].metrics)
     IN  /\ curPeriod' = cur
         /\ intervals' = [intervals EXCEPT ![oldPeriod].num = 0]
         /\ evPeriod' = IF p = -1 THEN 0 ELSE p
         /\ evLen' = len
         /\ cpc' = IF len > 0 /\ NumFunctions > 0 THEN "eval" ELSE "select"
  /\ fn' = 1
  /\ el' = 1
  /\ matches' = <<>>
  /\ UNCHANGED <<numPeriods, oldPeriod, pending, cclose, hist>>

\* Eval() looks at one metric of the list, which Add() may have replaced.
EvalMetric(match) ==
  /\ cpc = "eval"
  /\ el <= evLen
  /\ matches' = IF match
                THEN Append(matches, intervals[evPeriod].metrics[el])
                ELSE matches
  /\ el' = el + 1
  /\ UNCHANGED <<ring, cpc, result, fn, pending, cclose, hist>>

\* Mutant of NextFunction: the function is tried again.
NextFunctionStays ==
  /\ fn' = fn
  /\ el' = 1
  /\ matches' = <<>>
  /\ cpc' = IF fn = NumFunctions THEN "select" ELSE "eval"
  /\ UNCHANGED <<ring, result, pending, cclose, hist>>

NextFunction ==
  /\ fn' = fn + 1
  /\ el' = 1
  /\ matches' = <<>>
  /\ cpc' = IF fn = NumFunctions THEN "select" ELSE "eval"
  /\ UNCHANGED <<ring, result, pending, cclose, hist>>

\* No metric matched: nothing is sent.
EvalNothing == cpc = "eval" /\ el > evLen /\ matches = <<>> /\ NextFunction

\* The aggregate is offered to the router with a send that does not wait; it
\* is gone if the router is not in its select.
EvalOffer(taken) ==
  /\ cpc = "eval"
  /\ el > evLen
  /\ matches # <<>>
  /\ taken \in BOOLEAN
  /\ NextFunction

\* The evaluation of the function fails: "break" leaves the loop over all
\* functions.
EvalError ==
  /\ cpc = "eval"
  /\ el > evLen
  /\ matches # <<>>
  /\ cpc' = "select"
  /\ matches' = <<>>
  /\ UNCHANGED <<ring, result, fn, el, pending, cclose, hist>>

\* The router calls Add(): the look at curPeriod takes no lock, and a metric
\* that finds it out of range, in the middle of a rotation, is ignored.
AddCheck ==
  /\ pending = <<>>
  /\ pending' = IF curPeriod >= 0 /\ curPeriod < numPeriods
                THEN <<[time |-> now, n |-> added + 1]>>
                ELSE <<>>
  /\ added' = added + 1
  /\ UNCHANGED <<ring, cpc, result, walk, cclose, now, arrived, previous>>

\* Mutants of Stored: always append; overwrite one slot beyond the list.
StoredAppends(p, m) ==
  [p EXCEPT !.metrics = Append(@, m), !.num = @ + 1]

StoredBeyond(p, m) ==
  [p EXCEPT !.metrics = IF p.num <= Len(p.metrics)
                        THEN [@ EXCEPT ![p.num + 1] = m]
                        ELSE Append(@, m),
            !.num = @ + 1]

\* The period p after m is stored in it.
Stored(p, m) ==
  [p EXCEPT !.metrics = IF p.num < Len(p.metrics)
                        THEN [@ EXCEPT ![p.num + 1] = m]
                        ELSE Append(@, m),
            !.num = @ + 1]

\* The rest of Add(), under the lock.
AddStore ==
  /\ pending # <<>>
  /\ cpc # "rotate"
  /\ intervals' = [intervals EXCEPT ![curPeriod] = Stored(@, pending[1])]
  /\ arrived' = Append(arrived, pending[1])
  /\ pending' = <<>>
  /\ UNCHANGED <<numPeriods, curPeriod, oldPeriod, cpc, result, walk,
                 cclose, now, added, previous>>

\* Router.Close() calls it when the router has exited: no Add() is running.
CallCacheClose ==
  /\ cclose = "open"
  /\ pending = <<>>
  /\ cclose' = "sending"
  /\ UNCHANGED <<ring, cpc, result, walk, pending, hist>>

AcceptCacheDone ==
  /\ cpc = "select"
  /\ cclose = "sending"
  /\ cclose' = "waiting"
  /\ cpc' = "done"
  /\ UNCHANGED <<ring, result, walk, pending, hist>>

CacheExit ==
  /\ cpc = "done"
  /\ cpc' = "exited"
  /\ UNCHANGED <<ring, result, walk, pending, cclose, hist>>

\* r.cachewg.Wait() returns.
CacheWaitReturns ==
  /\ cclose = "waiting"
  /\ cpc = "exited"
  /\ cclose' = "returned"
  /\ UNCHANGED <<ring, cpc, result, walk, pending, hist>>

CacheNext ==
  \/ CacheStart
  \/ \E t \in (now + 1)..MaxTick : RotateBegin(t)
  \/ RotateEnd
  \/ \E match \in BOOLEAN : EvalMetric(match)
  \/ EvalNothing
  \/ \E taken \in BOOLEAN : EvalOffer(taken)
  \/ EvalError
  \/ added < MaxAdd /\ cclose = "open" /\ AddCheck
  \/ AddStore
  \/ CallCacheClose
  \/ AcceptCacheDone
  \/ CacheExit
  \/ CacheWaitReturns

CacheSpec == CacheInit /\ [][CacheNext]_allvars

\* Both goroutines run.
CacheFairness ==
  /\ WF_allvars(CacheStart)
  /\ WF_allvars(RotateEnd)
  /\ WF_allvars(\/ \E match \in BOOLEAN : EvalMetric(match)
                \/ EvalNothing
                \/ \E taken \in BOOLEAN : EvalOffer(taken))
  /\ WF_allvars(AddStore)
  /\ SF_allvars(AcceptCacheDone)
  /\ WF_allvars(CacheExit)
  /\ WF_allvars(CacheWaitReturns)

FairCacheSpec == CacheSpec /\ CacheFairness
-----------------------------------------------------------------------------
(***************************************************************************)
(* Properties                                                              *)
(***************************************************************************)

\* The filled part of the current period is exactly what arrived since the
\* last tick, in order, although the period is reused without being cleared
\* and Add() looks at curPeriod before it has the lock.
CurrentHoldsInterval ==
  cpc # "rotate" =>
    /\ SubSeq(intervals[curPeriod].metrics, 1, intervals[curPeriod].num) = arrived
    /\ \A p \in 0..numPeriods : p # curPeriod => intervals[p].num = 0

\* With one period, what GetPeriod() returns at a tick begins with all the
\* metrics of the interval that ends.
LastIntervalReturned ==
  [][(numPeriods = 1 /\ cpc = "rotate" /\ cpc' # "rotate") =>
       /\ evLen' >= Len(previous)
       /\ SubSeq(intervals[0].metrics, 1, Len(previous)) = previous]_allvars

\* Close() returns, also when it is called while the cache is evaluating: the
\* loops over functions and metrics come to an end whatever Add() does.
CacheCloseTerminates == (cclose = "sending") ~> (cclose = "returned")
=============================================================================
