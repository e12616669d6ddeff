-------------------------- MODULE MultiChanTicker --------------------------
(***************************************************************************)
(* pkg/multiChanTicker: one goroutine takes the ticks of a time.Ticker and *)
(* hands each of them to every registered channel, in registration order,  *)
(* one blocking send after the other.                                      *)
(*                                                                         *)
(* t.channels is appended to by AddChannel() and ranged over by the        *)
(* goroutine without a lock.  AddChannel is therefore two steps (the slice *)
(* header, then the element), and a tick taken between them sees the old   *)
(* header, the new header, or the pointer of the old array with the new    *)
(* length.                                                                 *)
(*                                                                         *)
(* Ticks are numbered by the time.Ticker: the k-th one is the number k.    *)
(***************************************************************************)
EXTENDS Naturals, Sequences

CONSTANTS
  Chan,      \* the channels that may be registered
  NilChan,   \* what an array slot holds that AddChannel has not stored yet
  MaxTick    \* bound on the number of ticks of the time.Ticker

ASSUME TickerAssumption ==
  /\ NilChan \notin Chan
  /\ MaxTick \in Nat

VARIABLES
  clock,     \* number of ticks the time.Ticker has fired
  buffered,  \* tick waiting in ticker.C (a buffer of one), 0 if none
  channels,  \* t.channels, as far as its elements are stored
  adding,    \* channel AddChannel() is storing, NilChan if none
  tpc,       \* where the goroutine is
  ts,        \* tick the goroutine took last
  idx,       \* index of the channel the goroutine sends to
  limit,     \* length of the slice the goroutine ranges over
  got,       \* history: the last tick each channel received
  tclose     \* caller of Close(), see CloseHandshake

tvars == <<clock, buffered, channels, adding, tpc, ts, idx, limit, got, tclose>>

TickerTypeOK ==
  /\ clock \in Nat
  /\ buffered \in Nat
  /\ channels \in Seq(Chan)
  /\ adding \in Chan \cup {NilChan}
  /\ tpc \in {"select", "deliver", "stuck", "done", "exited", "crashed"}
  /\ ts \in Nat
  /\ idx \in Nat
  /\ limit \in Nat
  /\ got \in [Chan -> Nat]
  /\ tclose \in {"open", "sending", "waiting", "returned"}

\* NewTicker() has started the goroutine; no channel is registered yet.
TickerInit ==
  /\ clock = 0
  /\ buffered = 0
  /\ channels = <<>>
  /\ adding = NilChan
  /\ tpc = "select"
  /\ ts = 0
  /\ idx = 1
  /\ limit = 0
  /\ got = [c \in Chan |-> 0]
  /\ tclose = "open"
-----------------------------------------------------------------------------
\* The time.Ticker drops a tick when the previous one was not taken.
ClockTick ==
  /\ clock < MaxTick
  /\ clock' = clock + 1
  /\ buffered' = IF buffered = 0 THEN clock + 1 ELSE buffered
  /\ UNCHANGED <<channels, adding, tpc, ts, idx, limit, got, tclose>>

\* AddChannel() writes the new slice header ...
AddChannelBegin(c) ==
  /\ adding = NilChan
  /\ \A i \in 1..Len(channels) : channels[i] # c
  /\ adding' = c
  /\ UNCHANGED <<clock, buffered, channels, tpc, ts, idx, limit, got, tclose>>

\* Mutant of AddChannelEnd: the element is stored before the channel is made.
AddChannelEndNil ==
  /\ adding # NilChan
  /\ channels' = Append(channels, NilChan)
  /\ adding' = NilChan
  /\ UNCHANGED <<clock, buffered, tpc, ts, idx, limit, got, tclose>>

\* ... and then the element.
AddChannelEnd ==
  /\ adding # NilChan
  /\ channels' = Append(channels, adding)
  /\ adding' = NilChan
  /\ UNCHANGED <<clock, buffered, tpc, ts, idx, limit, got, tclose>>

\* The goroutine arrives at index i of a slice of length n: it is through,
\* it reads a slot that is not stored yet (a send on a nil channel never
\* proceeds), or it offers the tick to the channel in the slot.
Arrive(i, n) ==
  IF i > n THEN "select" ELSE IF i > Len(channels) THEN "stuck" ELSE "deliver"

\* The lengths the range expression may read while AddChannel() runs.
VisibleLengths ==
  IF adding = NilChan THEN {Len(channels)} ELSE {Len(channels), Len(channels) + 1}

\* Mutant of TakeTick: the return after done() is missing.
TakeTickAfterDone ==
  /\ tpc \in {"select", "exited"}
  /\ buffered # 0
  /\ ts' = buffered
  /\ buffered' = 0
  /\ idx' = 1
  /\ limit' \in VisibleLengths
  /\ tpc' = Arrive(1, limit')
  /\ UNCHANGED <<clock, channels, adding, got, tclose>>

TakeTick ==
  /\ tpc = "select"
  /\ buffered # 0
  /\ ts' = buffered
  /\ buffered' = 0
  /\ idx' = 1
  /\ limit' \in VisibleLengths
  /\ tpc' = Arrive(1, limit')
  /\ UNCHANGED <<clock, channels, adding, got, tclose>>

\* The range expression reads the pointer of the old array and the length of
\* the new one: the read past the end of the old array faults.
TornRead ==
  /\ tpc = "select"
  /\ buffered # 0
  /\ adding # NilChan
  /\ tpc' = "crashed"
  /\ UNCHANGED <<clock, buffered, channels, adding, ts, idx, limit, got, tclose>>

\* Mutants of Deliver: the last channel first; a send that does not wait for
\* its receiver; the time since the last tick instead of the tick.
DeliverReversed(c) ==
  /\ tpc = "deliver"
  /\ channels[Len(channels) + 1 - idx] = c
  /\ got' = [got EXCEPT ![c] = ts]
  /\ idx' = idx + 1
  /\ tpc' = Arrive(idx + 1, limit)
  /\ UNCHANGED <<clock, buffered, channels, adding, ts, limit, tclose>>

DeliverNonBlocking(c) ==
  /\ tpc = "deliver"
  /\ channels[idx] = c
  /\ got' \in {got, [got EXCEPT ![c] = ts]}
  /\ idx' = idx + 1
  /\ tpc' = Arrive(idx + 1, limit)
  /\ UNCHANGED <<clock, buffered, channels, adding, ts, limit, tclose>>

\* Channel c receives the tick: the rendezvous with whoever reads c.
Deliver(c) ==
  /\ tpc = "deliver"
  /\ channels[idx] = c
  /\ got' = [got EXCEPT ![c] = ts]
  /\ idx' = idx + 1
  /\ tpc' = Arrive(idx + 1, limit)
  /\ UNCHANGED <<clock, buffered, channels, adding, ts, limit, tclose>>

CallTickerClose ==
  /\ tclose = "open"
  /\ tclose' = "sending"
  /\ UNCHANGED <<clock, buffered, channels, adding, tpc, ts, idx, limit, got>>

\* "case <-t.done", in the outer select and in the select around each send.
AcceptTickerDone ==
  /\ tpc \in {"select", "deliver", "stuck"}
  /\ tclose = "sending"
  /\ tclose' = "waiting"
  /\ tpc' = "done"
  /\ UNCHANGED <<clock, buffered, channels, adding, ts, idx, limit, got>>

\* done(): close(t.done), and the goroutine returns.
TickerExit ==
  /\ tpc = "done"
  /\ tpc' = "exited"
  /\ UNCHANGED <<clock, buffered, channels, adding, ts, idx, limit, got, tclose>>

\* Mutant of TickerCloseReturns: Close() does not wait for the close of t.done.
TickerCloseReturnsEarly ==
  /\ tclose = "waiting"
  /\ tclose' = "returned"
  /\ UNCHANGED <<clock, buffered, channels, adding, tpc, ts, idx, limit, got>>

TickerCloseReturns ==
  /\ tclose = "waiting"
  /\ tpc = "exited"
  /\ tclose' = "returned"
  /\ UNCHANGED <<clock, buffered, channels, adding, tpc, ts, idx, limit, got>>

\* The process is gone when a torn read has crashed it.
TickerNext ==
  /\ tpc # "crashed"
  /\ \/ ClockTick
     \/ \E c \in Chan : AddChannelBegin(c) \/ Deliver(c)
     \/ AddChannelEnd
     \/ TakeTick
     \/ TornRead
     \/ CallTickerClose
     \/ AcceptTickerDone
     \/ TickerExit
     \/ TickerCloseReturns

TickerSpec == TickerInit /\ [][TickerNext]_tvars

-----------------------------------------------------------------------------
(***************************************************************************)
(* Properties                                                              *)
(***************************************************************************)

\* A channel that was registered earlier is never behind one registered
\* later.  The metric router registers before the collector manager, so its
\* interval timestamp is set before any collector of that interval is read.
EarlierFirst ==
  \A i, j \in 1..Len(channels) :
    i < j => got[channels[j]] <= got[channels[i]]

\* Two channels that have both been served differ by at most the tick that is
\* being handed out: nobody runs ahead of a slow receiver by more than one
\* fan-out round.
LockStep ==
  \A i, j \in 1..Len(channels) :
    (i < j /\ got[channels[j]] # 0) =>
      \/ got[channels[i]] = got[channels[j]]
      \/ got[channels[i]] = ts /\ i < idx /\ idx <= j /\ tpc # "select"

\* Why the two hold (the inductive invariant of MultiChanTicker_proofs): no
\* channel is registered twice, the channels before idx have the tick that is
\* being handed out and those from idx on have an older one, a channel that
\* was not in the slice at the last range expression has received nothing, and
\* the tick in ticker.C is newer than the one taken last.
TickerInv ==
  /\ \A i, j \in 1..Len(channels) : channels[i] = channels[j] => i = j
  /\ \A i \in 1..Len(channels) : channels[i] # adding
  /\ \A c \in Chan : got[c] <= ts
  /\ \A c \in Chan : got[c] # 0 =>
       \E i \in 1..Len(channels) : i <= limit /\ channels[i] = c
  /\ tpc = "deliver" =>
       /\ idx \in 1..Len(channels) /\ idx <= limit
       /\ \A i \in 1..(idx - 1) : got[channels[i]] = ts
       /\ \A i \in idx..Len(channels) : got[channels[i]] < ts
  /\ ts <= clock /\ buffered <= clock
  /\ buffered # 0 => ts < buffered
  /\ EarlierFirst
  /\ LockStep

\* No channel receives a tick twice or an older one after a newer one.
TicksIncrease ==
  [][\A c \in Chan : got'[c] # got[c] => got'[c] > got[c]]_tvars

\* Once Close() has returned the goroutine never sends again.
SilentAfterClose ==
  [][tclose = "returned" => UNCHANGED <<got, ts, tpc>>]_tvars

\* Close() follows the handshake.
TickerHandshake == INSTANCE CloseHandshake WITH
  closer <- tclose,
  loop <- CASE tpc = "done" -> "stopping"
            [] tpc = "exited" -> "exited"
            [] OTHER -> "running"

TickerClosesProperly == TickerHandshake!Spec
=============================================================================
