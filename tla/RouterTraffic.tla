--------------------------- MODULE RouterTraffic ---------------------------
(***************************************************************************)
(* The metric router between endless producers and slow sinks.             *)
(*                                                                         *)
(* The producers number the messages the processor will not drop, one      *)
(* sequence per source, modulo IdMod; IdMod exceeds the number of messages *)
(* that can be on their way, so a lost, doubled or overtaken message shows *)
(* as a gap in the numbers between producer and sink.                      *)
(***************************************************************************)
EXTENDS MetricRouter

CONSTANTS
  IdMod,       \* the numbers wrap around
  InCap,       \* capacity of coll_input and recv_input (200)
  Keep,        \* the verdicts of the processor: TRUE keeps a message
  MaxTick      \* bound on the interval ticks

Source == {"coll", "recv", "cache"}

\* The values of the constants Message and Drops of the router.
TrafficMessage == [src : Source, n : 0..(IdMod - 1), keep : BOOLEAN]

TrafficDrops(m) == ~m.keep

ASSUME TrafficAssumption ==
  /\ Message = TrafficMessage
  /\ \A m \in Message : Drops(m) = TrafficDrops(m)
  /\ InCap \in Nat \ {0}
  /\ IdMod \in Nat /\ IdMod > InCap + OutCap + 1
  /\ Keep \subseteq BOOLEAN
  /\ MaxTick \in Nat

VARIABLES
  produced,  \* the next number each source will use
  expect     \* the next number each sink has to see, per source

vars == <<rvars, produced, expect>>

TrafficTypeOK ==
  /\ RouterTypeOK
  /\ produced \in [Source -> 0..(IdMod - 1)]
  /\ expect \in [1..NumOutputs -> [Source -> 0..(IdMod - 1)]]

TrafficInit ==
  /\ RouterInit
  /\ produced = [s \in Source |-> 0]
  /\ expect = [o \in 1..NumOutputs |-> [s \in Source |-> 0]]

NewMessage(s, keep) ==
  [src |-> s, n |-> IF keep THEN produced[s] ELSE 0, keep |-> keep]

Count(s, keep) ==
  produced' = IF keep
              THEN [produced EXCEPT ![s] = (@ + 1) % IdMod]
              ELSE produced

\* A Read() or a receiver puts a message into its channel.
ProduceColl(keep) ==
  /\ Len(collInput) < InCap
  /\ collInput' = Append(collInput, NewMessage("coll", keep))
  /\ Count("coll", keep)
  /\ UNCHANGED <<rpc, from, cur, batch, out, timestamp, recvInput, outputs,
                 rclose, expect>>

ProduceRecv(keep) ==
  /\ Len(recvInput) < InCap
  /\ recvInput' = Append(recvInput, NewMessage("recv", keep))
  /\ Count("recv", keep)
  /\ UNCHANGED <<rpc, from, cur, batch, out, timestamp, collInput, outputs,
                 rclose, expect>>

ProduceCache(keep) ==
  /\ TakeCache(NewMessage("cache", keep))
  /\ Count("cache", keep)
  /\ UNCHANGED expect

\* A sink reads its channel.
SinkTake(o) ==
  /\ outputs[o] # <<>>
  /\ LET m == Head(outputs[o]).msg IN
       expect' = [expect EXCEPT ![o][m.src] = (m.n + 1) % IdMod]
  /\ outputs' = [outputs EXCEPT ![o] = Tail(@)]
  /\ UNCHANGED <<rpc, from, cur, batch, out, timestamp, collInput, recvInput,
                 rclose, produced>>

\* A panic in any goroutine ends the process.
TrafficNext ==
  /\ rpc # "crashed"
  /\ \/ \E keep \in Keep :
          ProduceColl(keep) \/ ProduceRecv(keep) \/ ProduceCache(keep)
     \/ \E o \in 1..NumOutputs : SinkTake(o)
     \/ /\ \/ RouterStart
           \/ \E t \in (timestamp + 1)..MaxTick : RouterTick(t)
           \/ RouterStep
           \/ CallRouterClose
           \/ RouterCloseReturns
        /\ UNCHANGED <<produced, expect>>

TrafficSpec == TrafficInit /\ [][TrafficNext]_vars

\* The goroutine runs and the sinks read.  Each case of the select is taken
\* eventually when it is ready again and again: Go picks one of the ready
\* cases at random.
TrafficFairness ==
  /\ WF_vars(RouterStart /\ UNCHANGED <<produced, expect>>)
  /\ WF_vars(/\ Send \/ Forwarded \/ AddToCache \/ BatchColl \/ BatchRecv
                  \/ EndBatch \/ RouterExit
             /\ UNCHANGED <<produced, expect>>)
  /\ SF_vars(TakeColl /\ UNCHANGED <<produced, expect>>)
  /\ SF_vars(TakeRecv /\ UNCHANGED <<produced, expect>>)
  /\ SF_vars(AcceptRouterDone /\ UNCHANGED <<produced, expect>>)
  /\ WF_vars(RouterCloseReturns /\ UNCHANGED <<produced, expect>>)
  /\ \A o \in 1..NumOutputs : WF_vars(SinkTake(o))

FairTrafficSpec == TrafficSpec /\ TrafficFairness
-----------------------------------------------------------------------------
(***************************************************************************)
(* Properties                                                              *)
(***************************************************************************)

\* The places of the kept messages of s in the sequence q.
Of(s, q) == {i \in 1..Len(q) : q[i].src = s /\ q[i].keep}

\* They are numbered one after the other, beginning with first; next is the
\* number after the last of them.
Numbered(q, s, first, next) ==
  /\ Of(s, q) = {} => next = first
  /\ \A i \in Of(s, q) :
       /\ (\A j \in Of(s, q) : i <= j) => q[i].n = first
       /\ (\A j \in Of(s, q) : j <= i) => next = (q[i].n + 1) % IdMod
  /\ \A i, j \in Of(s, q) :
       (i < j /\ \A h \in Of(s, q) : h <= i \/ j <= h)
         => q[j].n = (q[i].n + 1) % IdMod

\* What the sink o has yet to see of the source s: the messages in its output,
\* the one in the hands of the router, those in the input.
Sent(o) == [i \in 1..Len(outputs[o]) |-> outputs[o][i].msg]

Held(o) == IF rpc = "forward" /\ out <= o THEN <<cur[1].msg>> ELSE <<>>

Queued(s) == CASE s = "coll" -> collInput
               [] s = "recv" -> recvInput
               [] OTHER -> <<>>

\* Every output receives every message the processor keeps, each exactly once
\* and in the order of its source, however the select interleaves the inputs,
\* where a batch ends, and which sink is slow: from the number the sink has to
\* see next to the one the source will use next none is missing on the way.
\* (What is still queued when Close() is called stays in the channel.)
EachOnceInOrder ==
  \A o \in 1..NumOutputs, s \in Source :
    \E a, b \in 0..(IdMod - 1) :
      /\ Numbered(Sent(o), s, expect[o][s], a)
      /\ Numbered(Held(o), s, a, b)
      /\ Numbered(Queued(s), s, b, produced[s])

\* Stamps never go back on an output: a sink sees the messages of an interval
\* before those of the next one.
StampsOrdered ==
  \A o \in 1..NumOutputs : \A i, j \in 1..Len(outputs[o]) :
    /\ i < j
    /\ outputs[o][i].msg.src # "cache"
    /\ outputs[o][j].msg.src # "cache"
    => outputs[o][i].stamp <= outputs[o][j].stamp

\* A message in an input channel is taken out of it, or the router exits: no
\* input starves while the others are never empty.
NoStarvation ==
  /\ \A n \in 0..(IdMod - 1) :
       (recvInput # <<>> /\ recvInput[1].n = n)
         ~> (rpc = "exited" \/ recvInput = <<>> \/ recvInput[1].n # n)
  /\ \A n \in 0..(IdMod - 1) :
       (collInput # <<>> /\ collInput[1].n = n)
         ~> (rpc = "exited" \/ collInput = <<>> \/ collInput[1].n # n)

\* Close() returns although the producers never pause.
RouterCloseTerminates == (rclose = "sending") ~> (rclose = "returned")

\* "even if the metric is dropped, it is stored in the cache for aggregations"
DroppedIsStored == rpc # "crashed"
=============================================================================
