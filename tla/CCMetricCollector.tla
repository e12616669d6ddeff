------------------------- MODULE CCMetricCollector -------------------------
(***************************************************************************)
(* cc-metric-collector.go: main() wires the ticker, the metric router, the *)
(* sinks, the collector manager and the receivers together, starts them in *)
(* that order and waits; the shutdown handler closes them in the reverse   *)
(* direction of the data.  Ticker, manager and router are the modules of   *)
(* their own, joined at the tick channels and at the channel collInput.    *)
(*                                                                         *)
(* The sinks and the receivers are cc-lib and external: a sink reads its   *)
(* channel, a receiver sends messages, each between Start() and Close().   *)
(* The model begins when main() has created everything and registered the  *)
(* shutdown handler.  num_cache_intervals is 0 here.                       *)
(***************************************************************************)
EXTENDS MultiChanTicker, CollectorManager

CONSTANTS
  OutCap, MaxForward, IntervalStamp,
  RecvCap,     \* capacity of the channel from the receivers (200)
  UseRecv,     \* receivers are configured
  OnceFlags,   \* the values the flag -once may have
  MaxSignals   \* bound on the signals sent to the process

\* The value of Chan: the channels that MetricRouter.Start() and
\* CollectManager.Start() register.
TickChannels == {"router", "manager"}

ASSUME CollectorAssumption ==
  /\ Chan = TickChannels
  /\ MaxTick <= LastTick
  /\ OutCap \in Nat \ {0}
  /\ MaxForward \in Nat \ {0}
  /\ IntervalStamp \in BOOLEAN
  /\ RecvCap \in Nat \ {0}
  /\ UseRecv \in BOOLEAN
  /\ OnceFlags \subseteq BOOLEAN
  /\ MaxSignals \in Nat

RecvMsg == [src : {"recv"}, tick : {0}, n : {0}]
Message == CollMsg \cup RecvMsg
Drops(m) == FALSE
NumOutputs == 1
Caching == FALSE

VARIABLES rpc, from, cur, batch, out, timestamp, recvInput, outputs, rclose
INSTANCE MetricRouter

VARIABLES
  once,      \* the flag -once, read by main() only
  main,      \* what main() does next
  handler,   \* what the shutdown handler does next
  sigbuf,    \* number of signals in the buffer of shutdownSignal (at most 1)
  notify,    \* signals go to shutdownSignal; otherwise they end the process
  signals,   \* history: number of signals sent to the process
  sinks,     \* the sinks run
  receivers, \* the receivers run
  killed     \* a signal has ended the process

\* Who owns what: collInput belongs to both ends of the channel.
tickerOwn == <<clock, buffered, channels, adding, tpc, ts, idx, limit, got,
               tclose>>
managerOwn == <<collectors, serial, mpc, k, tick, rounds, reads, reading,
                toSend, parallelRun, closed, mclose>>
routerOwn == <<rpc, from, cur, batch, out, timestamp, recvInput, outputs,
               rclose>>
processOwn == <<once, main, handler, sigbuf, notify, signals, sinks,
                receivers, killed>>

vars == <<tickerOwn, managerOwn, collInput, routerOwn, processOwn>>

MainSteps == {"add_router", "added_router", "start_router", "start_sinks",
              "add_manager", "added_manager", "start_manager",
              "start_receivers", "sleep", "send", "wait", "returned"}

HandlerSteps == {"receive", "stop_notify", "ticker", "manager", "receivers",
                 "router", "sinks", "returned"}

TypeOK ==
  /\ TickerTypeOK
  /\ ManagerTypeOK
  /\ RouterTypeOK
  /\ once \in OnceFlags
  /\ main \in MainSteps
  /\ handler \in HandlerSteps
  /\ sigbuf \in 0..1
  /\ notify \in BOOLEAN
  /\ signals \in Nat
  /\ sinks \in BOOLEAN
  /\ receivers \in BOOLEAN
  /\ killed \in BOOLEAN

Init ==
  /\ TickerInit
  /\ ManagerInit
  /\ RouterInit
  /\ once \in OnceFlags
  /\ main = IF IntervalStamp THEN "add_router" ELSE "start_router"
  /\ handler = "receive"
  /\ sigbuf = 0
  /\ notify = TRUE
  /\ signals = 0
  /\ sinks = FALSE
  /\ receivers = FALSE
  /\ killed = FALSE
-----------------------------------------------------------------------------
(* The components, joined where they meet. *)

TickerAlone ==
  /\ ClockTick \/ TakeTick \/ TornRead \/ AcceptTickerDone \/ TickerExit
  /\ UNCHANGED <<managerOwn, collInput, routerOwn, processOwn>>

TickToRouter ==
  /\ Deliver("router")
  /\ RouterTick(ts)
  /\ UNCHANGED <<managerOwn, processOwn>>

TickToManager ==
  /\ Deliver("manager")
  /\ ReceiveTick(ts)
  /\ UNCHANGED <<routerOwn, processOwn>>

ManagerRuns ==
  /\ ManagerStep
  /\ UNCHANGED <<tickerOwn, routerOwn, processOwn>>

RouterRuns ==
  /\ RouterStep
  /\ UNCHANGED <<tickerOwn, managerOwn, processOwn>>

SinkReads ==
  /\ sinks
  /\ outputs[1] # <<>>
  /\ outputs' = [outputs EXCEPT ![1] = Tail(@)]
  /\ UNCHANGED <<tickerOwn, managerOwn, collInput, rpc, from, cur, batch, out,
                 timestamp, recvInput, rclose, processOwn>>

ReceiverSends ==
  /\ receivers
  /\ Len(recvInput) < RecvCap
  /\ recvInput' = Append(recvInput, [src |-> "recv", tick |-> 0, n |-> 0])
  /\ UNCHANGED <<tickerOwn, managerOwn, collInput, rpc, from, cur, batch, out,
                 timestamp, outputs, rclose, processOwn>>
-----------------------------------------------------------------------------
(* main(): the start sequence, -once, and the wait. *)

MainAddRouter ==
  /\ main = "add_router"
  /\ AddChannelBegin("router")
  /\ main' = "added_router"
  /\ UNCHANGED <<managerOwn, collInput, routerOwn>>

MainAddedRouter ==
  /\ main = "added_router"
  /\ AddChannelEnd
  /\ main' = "start_router"
  /\ UNCHANGED <<managerOwn, collInput, routerOwn>>

MainStartRouter ==
  /\ main = "start_router"
  /\ RouterStart
  /\ main' = "start_sinks"
  /\ UNCHANGED <<tickerOwn, managerOwn>>

MainStartSinks ==
  /\ main = "start_sinks"
  /\ main' = "add_manager"
  /\ UNCHANGED <<tickerOwn, managerOwn, collInput, routerOwn>>

MainAddManager ==
  /\ main = "add_manager"
  /\ AddChannelBegin("manager")
  /\ main' = "added_manager"
  /\ UNCHANGED <<managerOwn, collInput, routerOwn>>

MainAddedManager ==
  /\ main = "added_manager"
  /\ AddChannelEnd
  /\ main' = "start_manager"
  /\ UNCHANGED <<managerOwn, collInput, routerOwn>>

\* What main() does when all managers are started.
AfterStart == IF once THEN "sleep" ELSE "wait"

MainStartManager ==
  /\ main = "start_manager"
  /\ ManagerStart
  /\ main' = IF UseRecv THEN "start_receivers" ELSE AfterStart
  /\ UNCHANGED <<tickerOwn, routerOwn>>

MainStartReceivers ==
  /\ main = "start_receivers"
  /\ main' = AfterStart
  /\ UNCHANGED <<tickerOwn, managerOwn, collInput, routerOwn>>

\* Mutant of MainSleeps: nobody is told that the tick has passed.
MainSleepsOnly ==
  /\ main = "sleep"
  /\ clock >= 1
  /\ main' = "wait"
  /\ UNCHANGED <<tickerOwn, managerOwn, collInput, routerOwn>>

\* The sleep is 1.2 intervals cut to whole seconds: for intervals that are
\* whole seconds it ends after the first tick of the time.Ticker.
MainSleeps ==
  /\ main = "sleep"
  /\ clock >= 1
  /\ main' = "send"
  /\ UNCHANGED <<tickerOwn, managerOwn, collInput, routerOwn>>

\* "shutdownSignal <- os.Interrupt" blocks while the buffer is full.
MainSends ==
  /\ main = "send"
  /\ sigbuf = 0
  /\ main' = "wait"
  /\ UNCHANGED <<tickerOwn, managerOwn, collInput, routerOwn>>

\* Sync.Wait() counts the router, the manager, the handler, the sinks and the
\* receivers; the goroutine of the ticker is not counted.
MainReturns ==
  /\ main = "wait"
  /\ rpc = "exited"
  /\ mpc = "exited"
  /\ handler = "returned"
  /\ ~sinks
  /\ ~receivers
  /\ main' = "returned"
  /\ UNCHANGED <<tickerOwn, managerOwn, collInput, routerOwn>>

MainRuns ==
  /\ \/ MainAddRouter \/ MainAddedRouter \/ MainStartRouter
     \/ MainStartSinks
     \/ MainAddManager \/ MainAddedManager \/ MainStartManager
     \/ MainStartReceivers
     \/ MainSleeps \/ MainSends \/ MainReturns
  /\ sinks' = (sinks \/ main = "start_sinks")
  /\ receivers' = (receivers \/ main = "start_receivers")
  /\ sigbuf' = IF main = "send" THEN 1 ELSE sigbuf
  /\ UNCHANGED <<once, handler, notify, signals, killed>>
-----------------------------------------------------------------------------
(* Signals and the shutdown handler. *)

\* The runtime hands a signal to the channel if its buffer has room, and
\* drops it otherwise; without a registered channel the signal is fatal.
Signal ==
  /\ signals < MaxSignals
  /\ signals' = signals + 1
  /\ IF notify
     THEN sigbuf' = 1 /\ UNCHANGED killed
     ELSE killed' = TRUE /\ UNCHANGED sigbuf
  /\ UNCHANGED <<tickerOwn, managerOwn, collInput, routerOwn, once, main,
                 handler, notify, sinks, receivers>>

HandlerReceives ==
  /\ handler = "receive"
  /\ sigbuf = 1
  /\ sigbuf' = 0
  /\ handler' = "stop_notify"
  /\ UNCHANGED <<tickerOwn, managerOwn, collInput, routerOwn, notify, receivers,
                 sinks>>

\* signal.Stop(shutdownSignal)
HandlerStopsNotify ==
  /\ handler = "stop_notify"
  /\ notify' = FALSE
  /\ handler' = "ticker"
  /\ UNCHANGED <<tickerOwn, managerOwn, collInput, routerOwn, sigbuf, receivers,
                 sinks>>

\* Mutants of HandlerClosesTicker: the router is closed next; the wait for the
\* goroutine is given up.
HandlerClosesTickerThenRouter ==
  /\ handler = "ticker"
  /\ CallTickerClose \/ TickerCloseReturns
  /\ handler' = IF tclose' = "returned" THEN "router" ELSE "ticker"
  /\ UNCHANGED <<managerOwn, collInput, routerOwn, sigbuf, notify, receivers,
                 sinks>>

HandlerAbandonsTicker ==
  /\ handler = "ticker"
  /\ \/ CallTickerClose
     \/ /\ tclose = "sending"
        /\ tclose' = "returned"
        /\ UNCHANGED <<clock, buffered, channels, adding, tpc, ts, idx, limit,
                       got>>
  /\ handler' = IF tclose' = "returned" THEN "manager" ELSE "ticker"
  /\ UNCHANGED <<managerOwn, collInput, routerOwn, sigbuf, notify, receivers,
                 sinks>>

HandlerClosesTicker ==
  /\ handler = "ticker"
  /\ CallTickerClose \/ TickerCloseReturns
  /\ handler' = IF tclose' = "returned" THEN "manager" ELSE "ticker"
  /\ UNCHANGED <<managerOwn, collInput, routerOwn, sigbuf, notify, receivers,
                 sinks>>

HandlerClosesManager ==
  /\ handler = "manager"
  /\ CallManagerClose \/ ManagerCloseReturns
  /\ handler' = IF mclose' # "returned" THEN "manager"
                ELSE IF UseRecv THEN "receivers" ELSE "router"
  /\ UNCHANGED <<tickerOwn, routerOwn, sigbuf, notify, receivers, sinks>>

\* ReceiveManager.Close(), which main() may not have started yet.
HandlerClosesReceivers ==
  /\ handler = "receivers"
  /\ receivers' = FALSE
  /\ handler' = "router"
  /\ UNCHANGED <<tickerOwn, managerOwn, collInput, routerOwn, sigbuf, notify, sinks>>

\* Mutant of HandlerClosesRouter: Close() is called in the background.
HandlerClosesRouterAsync ==
  /\ handler = "router"
  /\ CallRouterClose
  /\ handler' = "sinks"
  /\ UNCHANGED <<tickerOwn, managerOwn, sigbuf, notify, receivers, sinks>>

HandlerClosesRouter ==
  /\ handler = "router"
  /\ CallRouterClose \/ RouterCloseReturns
  /\ handler' = IF rclose' = "returned" THEN "sinks" ELSE "router"
  /\ UNCHANGED <<tickerOwn, managerOwn, sigbuf, notify, receivers, sinks>>

HandlerClosesSinks ==
  /\ handler = "sinks"
  /\ sinks' = FALSE
  /\ handler' = "returned"
  /\ UNCHANGED <<tickerOwn, managerOwn, collInput, routerOwn, sigbuf, notify,
                 receivers>>

HandlerRuns ==
  /\ \/ HandlerReceives
     \/ HandlerStopsNotify
     \/ HandlerClosesTicker
     \/ HandlerClosesManager
     \/ HandlerClosesReceivers
     \/ HandlerClosesRouter
     \/ HandlerClosesSinks
  /\ UNCHANGED <<once, main, signals, killed>>
-----------------------------------------------------------------------------
\* The process is there until main() returns, a panic or a fatal signal.
Alive == main # "returned" /\ tpc # "crashed" /\ ~killed

Next ==
  /\ Alive
  /\ \/ TickerAlone
     \/ TickToRouter
     \/ TickToManager
     \/ ManagerRuns
     \/ RouterRuns
     \/ SinkReads
     \/ ReceiverSends
     \/ MainRuns
     \/ Signal
     \/ HandlerRuns

Spec == Init /\ [][Next]_vars

\* Every goroutine runs, a Read() returns, the sinks read.  The cases of the
\* router's select are fair one by one, as Go chooses among the ready ones at
\* random.  Nobody has to send a signal or a message.
Fairness ==
  /\ WF_vars(Alive /\ ClockTick
             /\ UNCHANGED <<managerOwn, collInput, routerOwn, processOwn>>)
  /\ WF_vars(Alive /\ (TakeTick \/ AcceptTickerDone \/ TickerExit)
             /\ UNCHANGED <<managerOwn, collInput, routerOwn, processOwn>>)
  /\ WF_vars(Alive /\ ManagerRuns)
  /\ \A c \in Collector :
       WF_vars(Alive /\ (Emit(c) \/ FinishRead(c))
               /\ UNCHANGED <<tickerOwn, routerOwn, processOwn>>)
  /\ WF_vars(Alive /\ RouterRuns)
  /\ SF_vars(Alive /\ TickToRouter)
  /\ SF_vars(Alive /\ TakeColl /\ UNCHANGED <<tickerOwn, managerOwn, processOwn>>)
  /\ SF_vars(Alive /\ AcceptRouterDone
             /\ UNCHANGED <<tickerOwn, managerOwn, collInput, processOwn>>)
  /\ WF_vars(Alive /\ SinkReads)
  /\ WF_vars(Alive /\ MainRuns)
  /\ WF_vars(Alive /\ HandlerRuns)

FairSpec == Spec /\ Fairness
-----------------------------------------------------------------------------
(***************************************************************************)
(* Properties                                                              *)
(***************************************************************************)

\* With interval_timestamp no metric is stamped before the interval in which
\* it was read: the router has the tick before the collector manager.
StampNotBeforeRead ==
  IntervalStamp =>
    \A i \in 1..Len(outputs[1]) :
      LET m == outputs[1][i] IN m.msg \in CollMsg => m.msg.tick <= m.stamp

\* When the router has taken the request to stop, no Read() is running any
\* more: no collector blocks forever on a channel that nobody reads.
NoReadWithoutRouter == rpc \in {"done", "exited"} => reading = {}

\* When the sinks are closed the router has stopped: it never blocks on an
\* output that nobody reads.
NoRouterWithoutSinks ==
  handler = "returned" => rpc = "exited" /\ mpc = "exited" /\ tpc = "exited"

\* A signal that comes after the start sequence brings the process to its
\* end, although collectors, receivers and router may all be blocked on full
\* channels at that time.
ShutdownCompletes ==
  (main = "wait" /\ handler = "receive" /\ sigbuf = 1) ~> ~Alive

\* The composition lets the ticker and the manager do only what their modules
\* say, and the Close() of the router keeps its promise.
ComponentsRefined == TickerSpec /\ ManagerSpec /\ RouterClosesProperly

\* With the flag -once the process ends by itself, also if a signal from
\* outside comes at any time from the sleep on.
OnceEnds == (once /\ main = "sleep" /\ handler = "receive") ~> ~Alive

=============================================================================
