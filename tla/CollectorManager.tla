-------------------------- MODULE CollectorManager --------------------------
(***************************************************************************)
(* collectors/collectorManager.go: on every tick one goroutine starts the  *)
(* Read() of all parallel collectors, waits for them, and then reads the   *)
(* serial collectors one after the other.  Before each Read() it looks     *)
(* whether Close() has been called; done() waits for the reads in flight   *)
(* and closes collectors.                                                  *)
(*                                                                         *)
(* A Read() sends any number of messages into the channel to the metric    *)
(* router, and blocks while that channel is full.                          *)
(***************************************************************************)
EXTENDS Naturals, Sequences, FiniteSets

CONSTANTS
  Collector,          \* the collectors of the configuration
  ParallelCollector,  \* those whose Parallel() is true
  LastTick,           \* bound on the ticks received
  MaxEmit,            \* bound on the messages one Read() sends
  CollCap             \* capacity of the channel to the router (200)

ASSUME ManagerAssumption ==
  /\ IsFiniteSet(Collector)
  /\ ParallelCollector \subseteq Collector
  /\ LastTick \in Nat
  /\ MaxEmit \in Nat
  /\ CollCap \in Nat \ {0}

VARIABLES
  collectors,   \* cm.collectors: read in parallel
  serial,       \* cm.serial: read one after the other
  mpc,          \* where the goroutine of the manager is
  k,            \* index of the loop over collectors or serial
  tick,         \* the tick received last
  rounds,       \* history: how many ticks were received
  reads,        \* history: how many Read() of a collector were started
  reading,      \* collectors whose Read() is running
  toSend,       \* messages the running Read() of a collector has yet to send
  parallelRun,  \* cm.parallel_run
  closed,       \* collectors whose Close() was called
  collInput,    \* the channel to the metric router
  mclose        \* caller of Close(), see CloseHandshake

mvars == <<collectors, serial, mpc, k, tick, rounds, reads, reading, toSend,
           parallelRun, closed, collInput, mclose>>

CollMsg == [src : Collector, tick : Nat, n : Nat]

ManagerTypeOK ==
  /\ collectors \in Seq(ParallelCollector)
  /\ serial \in Seq(Collector \ ParallelCollector)
  /\ mpc \in {"idle", "select", "launch", "join", "serial", "reading",
              "done", "closing", "exited"}
  /\ k \in Nat \ {0}
  /\ mpc = "launch" => k \in 1..Len(collectors)
  /\ mpc \in {"serial", "reading"} => k \in 1..Len(serial)
  /\ tick \in Nat
  /\ rounds \in Nat
  /\ reads \in [Collector -> Nat]
  /\ reading \subseteq Collector
  /\ toSend \in [Collector -> Nat]
  /\ parallelRun \in BOOLEAN
  /\ closed \subseteq Collector
  /\ collInput \in Seq(CollMsg)
  /\ mclose \in {"open", "sending", "waiting", "returned"}

Elements(s) == {s[i] : i \in 1..Len(s)}

\* Every way to line up some elements of S: the configuration is a map, so
\* its order is arbitrary, and a collector whose Init() fails is left out.
LineUps(S) ==
  UNION {{f \in [1..n -> S] : \A i, j \in 1..n : f[i] = f[j] => i = j} :
         n \in 0..Cardinality(S)}

\* Mutant of ManagerInit: Parallel() is not asked.
ManagerInitAllParallel ==
  /\ collectors \in LineUps(Collector)
  /\ serial = <<>>
  /\ mpc = "idle"
  /\ k = 1
  /\ tick = 0
  /\ rounds = 0
  /\ reads = [c \in Collector |-> 0]
  /\ reading = {}
  /\ toSend = [c \in Collector |-> 0]
  /\ parallelRun = FALSE
  /\ closed = {}
  /\ collInput = <<>>
  /\ mclose = "open"

ManagerInit ==
  /\ collectors \in LineUps(ParallelCollector)
  /\ serial \in LineUps(Collector \ ParallelCollector)
  /\ mpc = "idle"
  /\ k = 1
  /\ tick = 0
  /\ rounds = 0
  /\ reads = [c \in Collector |-> 0]
  /\ reading = {}
  /\ toSend = [c \in Collector |-> 0]
  /\ parallelRun = FALSE
  /\ closed = {}
  /\ collInput = <<>>
  /\ mclose = "open"
-----------------------------------------------------------------------------
\* Start() has registered the tick channel and starts the goroutine.
ManagerStart ==
  /\ mpc = "idle"
  /\ mpc' = "select"
  /\ UNCHANGED <<collectors, serial, k, tick, rounds, reads, reading, toSend,
                 parallelRun, closed, collInput, mclose>>

ReceiveTick(t) ==
  /\ mpc = "select"
  /\ tick' = t
  /\ rounds' = rounds + 1
  /\ parallelRun' = TRUE
  /\ k' = 1
  /\ mpc' = IF collectors = <<>> THEN "join" ELSE "launch"
  /\ UNCHANGED <<collectors, serial, reads, reading, toSend, closed,
                 collInput, mclose>>

\* The Read() of c begins; it will send some number of messages.
BeginRead(c) ==
  /\ reading' = reading \cup {c}
  /\ reads' = [reads EXCEPT ![c] = @ + 1]
  /\ \E n \in 0..MaxEmit : toSend' = [toSend EXCEPT ![c] = n]

\* "default": only when nobody is blocked in "cm.done <- true".
LaunchParallel ==
  /\ mpc = "launch"
  /\ mclose # "sending"
  /\ BeginRead(collectors[k])
  /\ k' = k + 1
  /\ mpc' = IF k = Len(collectors) THEN "join" ELSE "launch"
  /\ UNCHANGED <<collectors, serial, tick, rounds, parallelRun, closed,
                 collInput, mclose>>

\* Mutant of JoinParallel: no collector_wg.Wait().
JoinParallelNoWait ==
  /\ mpc = "join"
  /\ parallelRun' = FALSE
  /\ k' = 1
  /\ mpc' = IF serial = <<>> THEN "select" ELSE "serial"
  /\ UNCHANGED <<collectors, serial, tick, rounds, reads, reading, toSend,
                 closed, collInput, mclose>>

\* cm.collector_wg.Wait()
JoinParallel ==
  /\ mpc = "join"
  /\ reading = {}
  /\ parallelRun' = FALSE
  /\ k' = 1
  /\ mpc' = IF serial = <<>> THEN "select" ELSE "serial"
  /\ UNCHANGED <<collectors, serial, tick, rounds, reads, reading, toSend,
                 closed, collInput, mclose>>

StartSerial ==
  /\ mpc = "serial"
  /\ mclose # "sending"
  /\ BeginRead(serial[k])
  /\ mpc' = "reading"
  /\ UNCHANGED <<collectors, serial, k, tick, rounds, parallelRun, closed,
                 collInput, mclose>>

\* A running Read() sends its next message.
Emit(c) ==
  /\ c \in reading
  /\ toSend[c] > 0
  /\ Len(collInput) < CollCap
  /\ collInput' = Append(collInput, [src |-> c, tick |-> tick, n |-> toSend[c]])
  /\ toSend' = [toSend EXCEPT ![c] = @ - 1]
  /\ UNCHANGED <<collectors, serial, mpc, k, tick, rounds, reads, reading,
                 parallelRun, closed, mclose>>

\* Mutants of FinishRead: the loop over the serial collectors ends after its
\* first turn; collector_wg.Done() is not called.
FinishReadBreaks(c) ==
  /\ c \in reading
  /\ toSend[c] = 0
  /\ reading' = reading \ {c}
  /\ IF mpc = "reading"
     THEN k' = k + 1 /\ mpc' = "select"
     ELSE UNCHANGED <<k, mpc>>
  /\ UNCHANGED <<collectors, serial, tick, rounds, reads, toSend, parallelRun,
                 closed, collInput, mclose>>

\* Read() returns: collector_wg.Done() for a goroutine, the next turn of the
\* loop for a serial collector.
FinishRead(c) ==
  /\ c \in reading
  /\ toSend[c] = 0
  /\ reading' = reading \ {c}
  /\ IF mpc = "reading"
     THEN /\ k' = k + 1
          /\ mpc' = IF k = Len(serial) THEN "select" ELSE "serial"
     ELSE UNCHANGED <<k, mpc>>
  /\ UNCHANGED <<collectors, serial, tick, rounds, reads, toSend, parallelRun,
                 closed, collInput, mclose>>

CallManagerClose ==
  /\ mclose = "open"
  /\ mclose' = "sending"
  /\ UNCHANGED <<collectors, serial, mpc, k, tick, rounds, reads, reading,
                 toSend, parallelRun, closed, collInput>>

\* "case <-cm.done" of the outer select and of both loops.
AcceptManagerDone ==
  /\ mpc \in {"select", "launch", "serial"}
  /\ mclose = "sending"
  /\ mclose' = "waiting"
  /\ mpc' = "done"
  /\ UNCHANGED <<collectors, serial, k, tick, rounds, reads, reading, toSend,
                 parallelRun, closed, collInput>>

\* Mutant of DoneWait: done() does not look at parallel_run.
DoneNoWait ==
  /\ mpc = "done"
  /\ k' = 1
  /\ mpc' = "closing"
  /\ UNCHANGED <<collectors, serial, tick, rounds, reads, reading, toSend,
                 parallelRun, closed, collInput, mclose>>

\* done(): wait for the reads in flight, if there may be any ...
DoneWait ==
  /\ mpc = "done"
  /\ parallelRun => reading = {}
  /\ parallelRun' = FALSE
  /\ k' = 1
  /\ mpc' = "closing"
  /\ UNCHANGED <<collectors, serial, tick, rounds, reads, reading, toSend,
                 closed, collInput, mclose>>

\* ... close the collectors of cm.collectors in turn ...
CloseCollector ==
  /\ mpc = "closing"
  /\ k <= Len(collectors)
  /\ closed' = closed \cup {collectors[k]}
  /\ k' = k + 1
  /\ UNCHANGED <<collectors, serial, mpc, tick, rounds, reads, reading, toSend,
                 parallelRun, collInput, mclose>>

\* Mutant of ManagerExit: the "return" after done() is missing.
ManagerExitContinues ==
  /\ mpc = "closing"
  /\ k > Len(collectors)
  /\ mpc' = "select"
  /\ UNCHANGED <<collectors, serial, k, tick, rounds, reads, reading, toSend,
                 parallelRun, closed, collInput, mclose>>

\* ... and close cm.done.
ManagerExit ==
  /\ mpc = "closing"
  /\ k > Len(collectors)
  /\ mpc' = "exited"
  /\ UNCHANGED <<collectors, serial, k, tick, rounds, reads, reading, toSend,
                 parallelRun, closed, collInput, mclose>>

ManagerCloseReturns ==
  /\ mclose = "waiting"
  /\ mpc = "exited"
  /\ mclose' = "returned"
  /\ UNCHANGED <<collectors, serial, mpc, k, tick, rounds, reads, reading,
                 toSend, parallelRun, closed, collInput>>

\* The metric router takes a message out of the channel.
Consume ==
  /\ collInput # <<>>
  /\ collInput' = Tail(collInput)
  /\ UNCHANGED <<collectors, serial, mpc, k, tick, rounds, reads, reading,
                 toSend, parallelRun, closed, mclose>>

\* What the goroutine of the manager and the reads it started do.
ManagerStep ==
  \/ LaunchParallel
  \/ JoinParallel
  \/ StartSerial
  \/ \E c \in Collector : Emit(c) \/ FinishRead(c)
  \/ AcceptManagerDone
  \/ DoneWait
  \/ CloseCollector
  \/ ManagerExit

ManagerNext ==
  \/ ManagerStart
  \/ \E t \in (tick + 1)..LastTick : ReceiveTick(t)
  \/ ManagerStep
  \/ CallManagerClose
  \/ ManagerCloseReturns
  \/ Consume

ManagerSpec == ManagerInit /\ [][ManagerNext]_mvars

-----------------------------------------------------------------------------
(***************************************************************************)
(* Properties                                                              *)
(***************************************************************************)
Configured == Elements(collectors) \cup Elements(serial)

\* A collector is never closed while its Read() runs, nor read once it is
\* closed: done() waits for the goroutines it has started.
NoReadOfClosed == reading \cap closed = {}

\* "List of metric collectors to read serially": the Read() of a serial
\* collector never overlaps with that of any other collector, not even with
\* one that was started by the tick before.
SerialAlone ==
  \A c \in reading \cap Elements(serial) : reading = {c}

\* Each tick reads each collector once: no collector is skipped, none is read
\* twice, and none is a round ahead, whatever the order of the configuration
\* and however long a Read() takes.
ReadOncePerRound ==
  /\ \A c \in Configured : reads[c] <= rounds /\ rounds <= reads[c] + 1
  /\ mpc = "select" => \A c \in Configured : reads[c] = rounds

\* A Read() never runs twice at the same time for one collector: collectors
\* keep the values of their last Read() without a lock.
NoOverlappingReads ==
  [][\A c \in Collector : reads'[c] # reads[c] => c \notin reading]_mvars

\* What holds at every place of the loops, and is preserved by every step: who
\* may be reading there, and how far the round is.
Distinct(s) == \A i, j \in 1..Len(s) : s[i] = s[j] => i = j

WhoReads ==
  /\ mpc \in {"idle", "select", "serial", "closing", "exited"} => reading = {}
  /\ mpc = "launch" =>
       /\ parallelRun
       /\ reading \subseteq {collectors[i] : i \in 1..(k - 1)}
  /\ mpc = "join" => parallelRun /\ reading \subseteq Elements(collectors)
  /\ mpc = "reading" => reading = {serial[k]}
  /\ mpc = "done" =>
       /\ reading \subseteq Elements(collectors)
       /\ parallelRun \/ reading = {}

\* The elements of s before the position n were read in this round, the
\* others in the round before.
ReadBefore(s, n) ==
  \A i \in 1..Len(s) :
    IF i < n THEN reads[s[i]] = rounds ELSE reads[s[i]] + 1 = rounds

AllRead(s) == \A i \in 1..Len(s) : reads[s[i]] = rounds

Round ==
  /\ mpc \in {"idle", "select"} => AllRead(collectors) /\ AllRead(serial)
  /\ mpc = "launch" => ReadBefore(collectors, k) /\ ReadBefore(serial, 1)
  /\ mpc = "join" => AllRead(collectors) /\ ReadBefore(serial, 1)
  /\ mpc = "serial" => AllRead(collectors) /\ ReadBefore(serial, k)
  /\ mpc = "reading" => AllRead(collectors) /\ ReadBefore(serial, k + 1)
  /\ \A c \in Configured : reads[c] <= rounds /\ rounds <= reads[c] + 1

Stopping ==
  /\ mpc \in {"done", "closing", "exited"} <=> mclose \in {"waiting", "returned"}
  /\ mclose = "returned" => mpc = "exited"
  /\ closed # {} => mpc \in {"closing", "exited"}

ManagerInv ==
  /\ Distinct(collectors)
  /\ Distinct(serial)
  /\ WhoReads
  /\ Round
  /\ Stopping

\* Once Close() has returned no collector puts a message into the channel.
QuietAfterClose ==
  mclose = "returned" => reading = {} /\ mpc = "exited"

\* Close() follows the handshake.
ManagerHandshake == INSTANCE CloseHandshake WITH
  closer <- mclose,
  loop <- CASE mpc \in {"done", "closing"} -> "stopping"
            [] mpc = "exited" -> "exited"
            [] OTHER -> "running"

ManagerClosesProperly == ManagerHandshake!Spec
=============================================================================
