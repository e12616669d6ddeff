---------------------------- MODULE MetricRouter ----------------------------
(***************************************************************************)
(* internal/metricRouter/metricRouter.go: one goroutine selects between    *)
(* its done channel, the interval tick and three inputs.  A message it     *)
(* receives is stamped, run through the message processor and sent to all  *)
(* outputs; then up to maxForward - 1 more messages are taken from the     *)
(* same input before the next select.                                      *)
(*                                                                         *)
(* The message processor (cc-lib) is external: Drops(m) says whether it    *)
(* drops m.  The cache (metricCache.go) is seen from the router only: what *)
(* happens behind cache.Add() is in MetricCache.                           *)
(***************************************************************************)
EXTENDS Naturals, Sequences

CONSTANTS
  Message,        \* the messages that may arrive
  Drops(_),       \* the message processor drops the message
  NumOutputs,     \* len(r.outputs)
  OutCap,         \* capacity of an output channel (200)
  MaxForward,     \* r.maxForward
  IntervalStamp,  \* interval_timestamp
  Caching         \* num_cache_intervals > 0

ASSUME RouterAssumption ==
  /\ \A m \in Message : Drops(m) \in BOOLEAN
  /\ NumOutputs \in Nat
  /\ OutCap \in Nat \ {0}
  /\ MaxForward \in Nat \ {0}
  /\ IntervalStamp \in BOOLEAN
  /\ Caching \in BOOLEAN

VARIABLES
  rpc,        \* where the goroutine of the router is
  from,       \* the input it forwards from: "coll", "recv" or "cache"
  cur,        \* <<>>, or the one message being forwarded
  batch,      \* i of the loop that drains the same input
  out,        \* index of the output to send to next
  timestamp,  \* r.timestamp: 0 from Start() until the first tick
  collInput,  \* r.coll_input
  recvInput,  \* r.recv_input
  outputs,    \* the contents of r.outputs
  rclose      \* caller of Close(), see CloseHandshake

rvars == <<rpc, from, cur, batch, out, timestamp, collInput, recvInput, outputs,
           rclose>>

\* stamp is what SetTime() was called with, 0 if the message keeps its own time.
Stamped == [msg : Message, stamp : Nat]

RouterTypeOK ==
  /\ rpc \in {"idle", "select", "forward", "add", "batch", "done", "exited",
              "crashed"}
  /\ from \in {"coll", "recv", "cache"}
  /\ cur \in Seq(Stamped) /\ Len(cur) <= 1
  /\ batch \in 0..(MaxForward - 1)
  /\ out \in 1..(NumOutputs + 1)
  /\ timestamp \in Nat
  /\ collInput \in Seq(Message)
  /\ recvInput \in Seq(Message)
  /\ outputs \in [1..NumOutputs -> Seq(Stamped)]
  /\ \A o \in 1..NumOutputs : Len(outputs[o]) <= OutCap
  /\ rclose \in {"open", "sending", "waiting", "returned"}

RouterInit ==
  /\ rpc = "idle"
  /\ from = "coll"
  /\ cur = <<>>
  /\ batch = 0
  /\ out = 1
  /\ timestamp = 0
  /\ collInput = <<>>
  /\ recvInput = <<>>
  /\ outputs = [o \in 1..NumOutputs |-> <<>>]
  /\ rclose = "open"
-----------------------------------------------------------------------------
RouterStart ==
  /\ rpc = "idle"
  /\ rpc' = "select"
  /\ UNCHANGED <<from, cur, batch, out, timestamp, collInput, recvInput,
                 outputs, rclose>>

\* Mutant of RouterTick: the case shadows r.timestamp.
RouterTickForgets(t) ==
  /\ rpc = "select"
  /\ IntervalStamp
  /\ UNCHANGED <<timestamp, rpc, from, cur, batch, out, collInput, recvInput,
                 outputs, rclose>>

\* "case timestamp := <-timeChan"
RouterTick(t) ==
  /\ rpc = "select"
  /\ IntervalStamp
  /\ timestamp' = t
  /\ UNCHANGED <<rpc, from, cur, batch, out, collInput, recvInput, outputs,
                 rclose>>

\* What coll_forward and recv_forward do first with the message m.
Stamp(m) == <<[msg |-> m, stamp |-> IF IntervalStamp THEN timestamp ELSE 0]>>

TakeColl ==
  /\ rpc = "select"
  /\ collInput # <<>>
  /\ from' = "coll"
  /\ cur' = Stamp(Head(collInput))
  /\ collInput' = Tail(collInput)
  /\ batch' = 0
  /\ out' = 1
  /\ rpc' = "forward"
  /\ UNCHANGED <<timestamp, recvInput, outputs, rclose>>

TakeRecv ==
  /\ rpc = "select"
  /\ recvInput # <<>>
  /\ from' = "recv"
  /\ cur' = Stamp(Head(recvInput))
  /\ recvInput' = Tail(recvInput)
  /\ batch' = 0
  /\ out' = 1
  /\ rpc' = "forward"
  /\ UNCHANGED <<timestamp, collInput, outputs, rclose>>

\* An aggregate from the cache: the channel has no buffer, and the aggregate
\* keeps the time it was given.
TakeCache(m) ==
  /\ rpc = "select"
  /\ Caching
  /\ from' = "cache"
  /\ cur' = <<[msg |-> m, stamp |-> 0]>>
  /\ batch' = 0
  /\ out' = 1
  /\ rpc' = "forward"
  /\ UNCHANGED <<timestamp, collInput, recvInput, outputs, rclose>>

\* Mutant of Send: a full output is skipped.
SendNonBlocking ==
  /\ rpc = "forward"
  /\ ~Drops(cur[1].msg)
  /\ out <= NumOutputs
  /\ outputs' = IF Len(outputs[out]) < OutCap
                THEN [outputs EXCEPT ![out] = Append(@, cur[1])]
                ELSE outputs
  /\ out' = out + 1
  /\ UNCHANGED <<rpc, from, cur, batch, timestamp, collInput, recvInput, rclose>>

\* "o <- m" blocks while the output is full.
Send ==
  /\ rpc = "forward"
  /\ ~Drops(cur[1].msg)
  /\ out <= NumOutputs
  /\ Len(outputs[out]) < OutCap
  /\ outputs' = [outputs EXCEPT ![out] = Append(@, cur[1])]
  /\ out' = out + 1
  /\ UNCHANGED <<rpc, from, cur, batch, timestamp, collInput, recvInput, rclose>>

\* All outputs are served, or the processor returned nil.
Forwarded ==
  /\ rpc = "forward"
  /\ Drops(cur[1].msg) \/ out > NumOutputs
  /\ rpc' = IF Caching /\ from = "coll" THEN "add" ELSE "batch"
  /\ UNCHANGED <<from, cur, batch, out, timestamp, collInput, recvInput,
                 outputs, rclose>>

\* r.cache.Add(m): with the nil that stands for a dropped message it panics
\* in metric.Time().
AddToCache ==
  /\ rpc = "add"
  /\ rpc' = IF Drops(cur[1].msg) THEN "crashed" ELSE "batch"
  /\ UNCHANGED <<from, cur, batch, out, timestamp, collInput, recvInput,
                 outputs, rclose>>

\* Mutant of MoreInBatch: "i < r.maxForward".
MoreInBatchOneMore(input) == input # <<>> /\ batch < MaxForward

\* "len(r.coll_input) > 0 && i < (r.maxForward-1)"
MoreInBatch(input) == input # <<>> /\ batch < MaxForward - 1

\* Mutants of BatchColl: the messages of the batch are not stamped; i is not
\* incremented.
BatchCollUnstamped ==
  /\ rpc = "batch"
  /\ from = "coll"
  /\ MoreInBatch(collInput)
  /\ cur' = <<[msg |-> Head(collInput), stamp |-> 0]>>
  /\ collInput' = Tail(collInput)
  /\ batch' = batch + 1
  /\ out' = 1
  /\ rpc' = "forward"
  /\ UNCHANGED <<from, timestamp, recvInput, outputs, rclose>>

BatchCollEndless ==
  /\ rpc = "batch"
  /\ from = "coll"
  /\ MoreInBatch(collInput)
  /\ cur' = Stamp(Head(collInput))
  /\ collInput' = Tail(collInput)
  /\ out' = 1
  /\ rpc' = "forward"
  /\ UNCHANGED <<from, batch, timestamp, recvInput, outputs, rclose>>

BatchColl ==
  /\ rpc = "batch"
  /\ from = "coll"
  /\ MoreInBatch(collInput)
  /\ cur' = Stamp(Head(collInput))
  /\ collInput' = Tail(collInput)
  /\ batch' = batch + 1
  /\ out' = 1
  /\ rpc' = "forward"
  /\ UNCHANGED <<from, timestamp, recvInput, outputs, rclose>>

BatchRecv ==
  /\ rpc = "batch"
  /\ from = "recv"
  /\ MoreInBatch(recvInput)
  /\ cur' = Stamp(Head(recvInput))
  /\ recvInput' = Tail(recvInput)
  /\ batch' = batch + 1
  /\ out' = 1
  /\ rpc' = "forward"
  /\ UNCHANGED <<from, timestamp, collInput, outputs, rclose>>

\* The loop over the input ends; that over cache_input has no turn at all,
\* because the length of a channel without a buffer is 0.
EndBatch ==
  /\ rpc = "batch"
  /\ from = "coll" => ~MoreInBatch(collInput)
  /\ from = "recv" => ~MoreInBatch(recvInput)
  /\ cur' = <<>>
  /\ rpc' = "select"
  /\ UNCHANGED <<from, batch, out, timestamp, collInput, recvInput, outputs,
                 rclose>>

CallRouterClose ==
  /\ rclose = "open"
  /\ rclose' = "sending"
  /\ UNCHANGED <<rpc, from, cur, batch, out, timestamp, collInput, recvInput,
                 outputs>>

\* "case <-r.done"
AcceptRouterDone ==
  /\ rpc = "select"
  /\ rclose = "sending"
  /\ rclose' = "waiting"
  /\ rpc' = "done"
  /\ UNCHANGED <<from, cur, batch, out, timestamp, collInput, recvInput, outputs>>

RouterExit ==
  /\ rpc = "done"
  /\ rpc' = "exited"
  /\ UNCHANGED <<from, cur, batch, out, timestamp, collInput, recvInput,
                 outputs, rclose>>

RouterCloseReturns ==
  /\ rclose = "waiting"
  /\ rpc = "exited"
  /\ rclose' = "returned"
  /\ UNCHANGED <<rpc, from, cur, batch, out, timestamp, collInput, recvInput,
                 outputs>>

\* What the goroutine does without waiting for anybody but the sinks.
RouterStep ==
  \/ TakeColl
  \/ TakeRecv
  \/ Send
  \/ Forwarded
  \/ AddToCache
  \/ BatchColl
  \/ BatchRecv
  \/ EndBatch
  \/ AcceptRouterDone
  \/ RouterExit
-----------------------------------------------------------------------------
\* Where the goroutine is, for the caller of Close().
RouterLoop == CASE rpc = "done"   -> "stopping"
                [] rpc = "exited" -> "exited"
                [] OTHER -> "running"

\* Close() returns only after the goroutine has left its loop for good.
RouterHandshake == INSTANCE CloseHandshake WITH
                     closer <- rclose, loop <- RouterLoop
RouterClosesProperly == RouterHandshake!Spec
=============================================================================
