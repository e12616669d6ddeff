---------------------- MODULE CCMetricCollector_proofs ----------------------
(***************************************************************************)
(* Proofs about the whole program, for any collectors, capacities, bounds  *)
(* and settings.  Ticker and manager run inside the program exactly as in  *)
(* their modules, so that what is proved about them there holds here; what *)
(* is left to prove is what they do to each other through the tick, the    *)
(* channel collInput and the order in which main() starts them and the     *)
(* shutdown handler closes them.                                           *)
(***************************************************************************)
EXTENDS CCMetricCollector, TickerManager_proofs

\* Both registered channels are channels of the ticker.
LEMMA ProgramChannels == "router" \in Chan /\ "manager" \in Chan
  BY CollectorAssumption DEF TickChannels

\* The steps of main() and of the handler that leave all components alone.
QuietMain ==
  \/ MainStartSinks \/ MainStartReceivers \/ MainSleeps \/ MainSends
  \/ MainReturns

QuietHandler ==
  \/ HandlerReceives \/ HandlerStopsNotify \/ HandlerClosesReceivers
  \/ HandlerClosesSinks

LEMMA QuietSteps ==
  ASSUME QuietMain \/ QuietHandler \/ Signal
  PROVE  UNCHANGED <<tickerOwn, managerOwn, collInput, routerOwn>>
  BY DEF QuietMain, QuietHandler, MainStartSinks, MainStartReceivers,
         MainSleeps, MainSends, MainReturns, HandlerReceives,
         HandlerStopsNotify, HandlerClosesReceivers, HandlerClosesSinks, Signal
-----------------------------------------------------------------------------
(* The ticker in the program. *)

\* What the program does to the ticker is a step of the ticker.
LEMMA TickerStepInProgram ==
  ASSUME [Next]_vars
  PROVE  [TickerNext]_tvars
<1> USE DEF tickerOwn, tvars
<1>1. CASE TickerAlone /\ Alive
  BY <1>1 DEF TickerAlone, TickerNext, Alive
<1>2. CASE (TickToRouter \/ TickToManager) /\ Alive
  BY <1>2, ProgramChannels DEF TickToRouter, TickToManager, TickerNext, Alive
<1>3. CASE ManagerRuns \/ RouterRuns \/ SinkReads \/ ReceiverSends
  BY <1>3 DEF ManagerRuns, RouterRuns, SinkReads, ReceiverSends
<1>4. CASE QuietMain \/ QuietHandler \/ Signal
  BY <1>4, QuietSteps
<1>5. CASE (\/ MainAddRouter \/ MainAddedRouter \/ MainStartRouter
            \/ MainAddManager \/ MainAddedManager \/ MainStartManager) /\ Alive
  BY <1>5, ProgramChannels
     DEF MainAddRouter, MainAddedRouter, MainStartRouter, MainAddManager,
         MainAddedManager, MainStartManager, TickerNext, Alive
<1>6. CASE (\/ HandlerClosesTicker \/ HandlerClosesManager
            \/ HandlerClosesRouter) /\ Alive
  BY <1>6 DEF HandlerClosesTicker, HandlerClosesManager, HandlerClosesRouter,
              TickerNext, Alive
<1>7. CASE UNCHANGED vars
  BY <1>7 DEF vars
<1> QED
  BY <1>1, <1>2, <1>3, <1>4, <1>5, <1>6, <1>7
     DEF Next, MainRuns, HandlerRuns, QuietMain, QuietHandler

\* The program implements the ticker: composing it with the others adds no
\* behaviour to it.
THEOREM ProgramImplementsTicker == Spec => TickerSpec
<1>1. Init => TickerInit
  BY DEF Init
<1>2. [Next]_vars => [TickerNext]_tvars
  BY TickerStepInProgram
<1> QED
  BY <1>1, <1>2, PTL DEF Spec, TickerSpec
-----------------------------------------------------------------------------
(* The tick on its way to the router and the manager. *)

\* The manager works on the tick that was handed to it last, and the router
\* stamps with the one that was handed to it.
TicksAgree ==
  /\ tick = got["manager"]
  /\ timestamp = got["router"]
  /\ clock <= MaxTick

\* Only a delivery changes what has been received.
LEMMA TickKept ==
  ASSUME [Next]_vars, ~TickToRouter, ~TickToManager
  PROVE  UNCHANGED <<got, tick, timestamp>>
<1> USE DEF tickerOwn, managerOwn, routerOwn
<1>1. CASE TickerAlone
  BY <1>1 DEF TickerAlone, ClockTick, TakeTick, TornRead, AcceptTickerDone,
              TickerExit
<1>2. CASE ManagerRuns
  BY <1>2 DEF ManagerRuns, ManagerStep, LaunchParallel, JoinParallel,
              StartSerial, Emit, FinishRead, AcceptManagerDone, DoneWait,
              CloseCollector, ManagerExit
<1>3. CASE RouterRuns
  BY <1>3 DEF RouterRuns, RouterStep, TakeColl, TakeRecv, Send, Forwarded,
              AddToCache, BatchColl, BatchRecv, EndBatch, AcceptRouterDone,
              RouterExit
<1>4. CASE SinkReads \/ ReceiverSends
  BY <1>4 DEF SinkReads, ReceiverSends
<1>5. CASE QuietMain \/ QuietHandler \/ Signal
  BY <1>5, QuietSteps
<1>6. CASE MainAddRouter \/ MainAddedRouter \/ MainAddManager \/ MainAddedManager
  BY <1>6 DEF MainAddRouter, MainAddedRouter, MainAddManager, MainAddedManager,
              AddChannelBegin, AddChannelEnd
<1>7. CASE MainStartRouter \/ MainStartManager
  BY <1>7 DEF MainStartRouter, MainStartManager, RouterStart, ManagerStart
<1>8. CASE HandlerClosesTicker \/ HandlerClosesManager \/ HandlerClosesRouter
  BY <1>8 DEF HandlerClosesTicker, HandlerClosesManager, HandlerClosesRouter,
              CallTickerClose, TickerCloseReturns, CallManagerClose,
              ManagerCloseReturns, CallRouterClose, RouterCloseReturns
<1>9. CASE UNCHANGED vars
  BY <1>9 DEF vars
<1> QED
  BY <1>1, <1>2, <1>3, <1>4, <1>5, <1>6, <1>7, <1>8, <1>9
     DEF Next, MainRuns, HandlerRuns, QuietMain, QuietHandler

\* The clock keeps to its bound.
LEMMA ClockKept ==
  ASSUME TickerTypeOK, [Next]_vars, clock <= MaxTick
  PROVE  clock' <= MaxTick
<1>1. [TickerNext]_tvars
  BY TickerStepInProgram
<1>2. clock' = clock \/ (clock < MaxTick /\ clock' = clock + 1)
  BY <1>1 DEF TickerNext, tvars, ClockTick, AddChannelBegin, AddChannelEnd,
     TakeTick, TornRead, Deliver, CallTickerClose, AcceptTickerDone,
     TickerExit, TickerCloseReturns
<1> QED
  BY <1>2, TickerAssumption DEF TickerTypeOK

LEMMA TicksAgreeInv == Spec => [](TickerTypeOK /\ TickerInv /\ TicksAgree)
<1>1. Init => TicksAgree
  <2> SUFFICES ASSUME Init
               PROVE  TicksAgree
    OBVIOUS
  <2>1. clock = 0 /\ got = [c \in Chan |-> 0]
    BY DEF Init, TickerInit
  <2>2. tick = 0
    BY DEF Init, ManagerInit
  <2>3. timestamp = 0
    BY DEF Init, RouterInit
  <2> QED
    BY <2>1, <2>2, <2>3, ProgramChannels, TickerAssumption DEF TicksAgree
<1>2. TickerTypeOK /\ TicksAgree /\ [Next]_vars => TicksAgree'
  <2> SUFFICES ASSUME TickerTypeOK, TicksAgree, [Next]_vars
               PROVE  TicksAgree'
    OBVIOUS
  <2>1. clock' <= MaxTick
    BY ClockKept DEF TicksAgree
  <2>2. CASE TickToRouter
    <3>1. got' = [got EXCEPT !["router"] = ts] /\ tick' = tick
          /\ timestamp' = ts
      BY <2>2 DEF TickToRouter, Deliver, RouterTick, managerOwn
    <3> QED
      BY <2>1, <3>1, ProgramChannels DEF TicksAgree, TickerTypeOK
  <2>3. CASE TickToManager
    <3>1. got' = [got EXCEPT !["manager"] = ts] /\ tick' = ts
          /\ timestamp' = timestamp
      BY <2>3 DEF TickToManager, Deliver, ReceiveTick, routerOwn
    <3> QED
      BY <2>1, <3>1, ProgramChannels DEF TicksAgree, TickerTypeOK
  <2>4. CASE ~TickToRouter /\ ~TickToManager
    BY <2>1, <2>4, TickKept DEF TicksAgree
  <2> QED
    BY <2>2, <2>3, <2>4
<1> QED
  BY <1>1, <1>2, ProgramImplementsTicker, TickerTypeCorrect, TickerInvariant, PTL
     DEF Spec
-----------------------------------------------------------------------------
(* The collector manager in the program. *)

\* The tick that is handed to the manager is newer than its last one.
LEMMA NewTickForManager ==
  ASSUME TickerTypeOK, TickerInv, TicksAgree, Deliver("manager")
  PROVE  tick \in Nat /\ ts \in (tick + 1)..LastTick
<1>1. tick \in Nat /\ ts \in Nat /\ clock \in Nat
  BY ProgramChannels DEF TickerTypeOK, TicksAgree
<1>2. tick < ts
  BY DEF TickerInv, TicksAgree, Deliver
<1>3. ts <= LastTick
  BY <1>1, CollectorAssumption, TickerAssumption, ManagerAssumption
     DEF TickerInv, TicksAgree
<1> QED
  BY <1>1, <1>2, <1>3, ManagerAssumption

\* What the program does to the manager and to collInput is a step of the
\* manager or the consumption of a message.
LEMMA ManagerStepInProgram ==
  ASSUME TickerTypeOK, TickerInv, TicksAgree, [Next]_vars
  PROVE  [ManagerNext]_mvars
<1> USE DEF managerOwn, mvars
<1>1. CASE TickerAlone \/ SinkReads \/ ReceiverSends
  BY <1>1 DEF TickerAlone, SinkReads, ReceiverSends
<1>2. CASE TickToRouter
  BY <1>2 DEF TickToRouter, RouterTick
<1>3. CASE TickToManager
  <2>1. ReceiveTick(ts) /\ ts \in (tick + 1)..LastTick
    BY <1>3, NewTickForManager DEF TickToManager
  <2> QED
    BY <2>1 DEF ManagerNext
<1>4. CASE ManagerRuns
  BY <1>4 DEF ManagerRuns, ManagerNext
<1>5. CASE RouterRuns
  <2>1. UNCHANGED managerOwn
    BY <1>5 DEF RouterRuns
  <2>2. CASE TakeColl \/ BatchColl
    <3>1. collInput # <<>> /\ collInput' = Tail(collInput)
      BY <2>2 DEF TakeColl, BatchColl, MoreInBatch
    <3> QED
      BY <2>1, <3>1 DEF Consume, ManagerNext
  <2>3. CASE \/ TakeRecv \/ Send \/ Forwarded \/ AddToCache \/ BatchRecv
             \/ EndBatch \/ AcceptRouterDone \/ RouterExit
    <3>1. collInput' = collInput
      BY <2>3 DEF TakeRecv, Send, Forwarded, AddToCache, BatchRecv, EndBatch,
                  AcceptRouterDone, RouterExit
    <3> QED
      BY <2>1, <3>1
  <2> QED
    BY <1>5, <2>2, <2>3 DEF RouterRuns, RouterStep
<1>6. CASE QuietMain \/ QuietHandler \/ Signal
  BY <1>6, QuietSteps
<1>7. CASE MainAddRouter \/ MainAddedRouter \/ MainAddManager \/ MainAddedManager
  BY <1>7 DEF MainAddRouter, MainAddedRouter, MainAddManager, MainAddedManager
<1>8. CASE MainStartRouter \/ MainStartManager
  BY <1>8 DEF MainStartRouter, MainStartManager, RouterStart, ManagerNext
<1>9. CASE HandlerClosesTicker \/ HandlerClosesManager \/ HandlerClosesRouter
  BY <1>9 DEF HandlerClosesTicker, HandlerClosesManager, HandlerClosesRouter,
              CallRouterClose, RouterCloseReturns, ManagerNext
<1>10. CASE UNCHANGED vars
  BY <1>10 DEF vars
<1> QED
  BY <1>1, <1>2, <1>3, <1>4, <1>5, <1>6, <1>7, <1>8, <1>9, <1>10
     DEF Next, MainRuns, HandlerRuns, QuietMain, QuietHandler

\* The program implements the collector manager.
THEOREM ProgramImplementsManager == Spec => ManagerSpec
<1>1. Init => ManagerInit
  BY DEF Init
<1>2. TickerTypeOK /\ TickerInv /\ TicksAgree /\ [Next]_vars
        => [ManagerNext]_mvars
  BY ManagerStepInProgram
<1> QED
  BY <1>1, <1>2, TicksAgreeInv, PTL DEF Spec, ManagerSpec

-----------------------------------------------------------------------------
(* The shutdown: who is still running at each step of the handler. *)

\* How far the handler is, and which Close() have returned: the ticker is
\* closed first, then the manager, then the router; and the router leaves its
\* loop only for the handler.
ClosedInOrder ==
  /\ handler \in {"manager", "receivers", "router", "sinks", "returned"}
       => tclose = "returned"
  /\ handler \in {"receivers", "router", "sinks", "returned"}
       => mclose = "returned"
  /\ handler \in {"sinks", "returned"} => rclose = "returned"
  /\ rclose # "open" => handler \in {"router", "sinks", "returned"}
  /\ rpc \in {"done", "exited"} => rclose \in {"waiting", "returned"}
  /\ rclose = "returned" => rpc = "exited"

\* Only the handler moves itself and the callers of Close(); only the
\* acceptance of a request moves them otherwise.
LEMMA CallersKept ==
  ASSUME [Next]_vars, ~(Alive /\ HandlerRuns)
  PROVE  /\ handler' = handler
         /\ tclose = "returned" => tclose' = "returned"
         /\ mclose = "returned" => mclose' = "returned"
<1> USE DEF tickerOwn, managerOwn, routerOwn, processOwn
<1>1. CASE TickerAlone
  BY <1>1 DEF TickerAlone, ClockTick, TakeTick, TornRead, AcceptTickerDone,
              TickerExit
<1>2. CASE TickToRouter \/ TickToManager
  BY <1>2 DEF TickToRouter, TickToManager, Deliver, RouterTick, ReceiveTick
<1>3. CASE ManagerRuns
  BY <1>3 DEF ManagerRuns, ManagerStep, LaunchParallel, JoinParallel,
              StartSerial, Emit, FinishRead, AcceptManagerDone, DoneWait,
              CloseCollector, ManagerExit
<1>4. CASE RouterRuns
  BY <1>4 DEF RouterRuns, RouterStep, TakeColl, TakeRecv, Send, Forwarded,
              AddToCache, BatchColl, BatchRecv, EndBatch, AcceptRouterDone,
              RouterExit
<1>5. CASE SinkReads \/ ReceiverSends
  BY <1>5 DEF SinkReads, ReceiverSends
<1>6. CASE MainRuns
  <2>1. handler' = handler
    BY <1>6 DEF MainRuns
  <2>2. UNCHANGED <<tclose, mclose, rclose>>
    BY <1>6 DEF MainRuns, MainAddRouter, MainAddedRouter, MainStartRouter,
                MainStartSinks, MainAddManager, MainAddedManager,
                MainStartManager, MainStartReceivers, MainSleeps, MainSends,
                MainReturns, AddChannelBegin, AddChannelEnd, RouterStart,
                ManagerStart
  <2> QED
    BY <2>1, <2>2
<1>7. CASE Signal
  BY <1>7 DEF Signal
<1>8. CASE UNCHANGED vars
  BY <1>8 DEF vars
<1> QED
  BY <1>1, <1>2, <1>3, <1>4, <1>5, <1>6, <1>7, <1>8 DEF Next

\* Only the router and the handler move the goroutine of the router and the
\* caller of its Close().
LEMMA RouterKept ==
  ASSUME [Next]_vars, ~RouterRuns, ~HandlerRuns
  PROVE  /\ rpc' = rpc \/ (rpc = "idle" /\ rpc' = "select")
         /\ rclose' = rclose
<1> USE DEF routerOwn
<1>1. CASE TickerAlone \/ ManagerRuns \/ SinkReads \/ ReceiverSends \/ TickToManager
  BY <1>1 DEF TickerAlone, ManagerRuns, SinkReads, ReceiverSends, TickToManager
<1>2. CASE TickToRouter
  BY <1>2 DEF TickToRouter, RouterTick
<1>3. CASE QuietMain \/ Signal
  BY <1>3, QuietSteps
<1>4. CASE \/ MainAddRouter \/ MainAddedRouter \/ MainStartRouter
           \/ MainAddManager \/ MainAddedManager \/ MainStartManager
  BY <1>4 DEF MainAddRouter, MainAddedRouter, MainStartRouter, MainAddManager,
              MainAddedManager, MainStartManager, RouterStart
<1>5. CASE UNCHANGED vars
  BY <1>5 DEF vars
<1> QED
  BY <1>1, <1>2, <1>3, <1>4, <1>5 DEF Next, MainRuns, QuietMain

\* A step of the program that leaves the caller of Close() alone and neither
\* stops the goroutine of the router nor ends it is none of the handshake.
LEMMA RouterRunsOn ==
  ASSUME rclose' = rclose,
         \/ rpc' = rpc
         \/ /\ rpc \notin {"done", "exited"}
            /\ rpc' \notin {"done", "exited"}
  PROVE  UNCHANGED <<rclose, RouterLoop>>
  BY DEF RouterLoop

\* What the program does to the router is a step of the close handshake.
LEMMA RouterStepInProgram ==
  ASSUME [Next]_vars
  PROVE  [RouterHandshake!Next]_<<rclose, RouterLoop>>
<1>1. CASE RouterRuns /\ AcceptRouterDone
  BY <1>1 DEF AcceptRouterDone, RouterLoop, RouterHandshake!Next,
              RouterHandshake!Accept
<1>2. CASE RouterRuns /\ RouterExit
  BY <1>2 DEF RouterExit, RouterLoop, RouterHandshake!Next,
              RouterHandshake!Finish
<1>3. CASE RouterRuns /\ ~AcceptRouterDone /\ ~RouterExit
  BY <1>3, RouterRunsOn
     DEF RouterRuns, RouterStep, TakeColl, TakeRecv, Send, Forwarded,
         AddToCache, BatchColl, BatchRecv, EndBatch
<1>4. CASE HandlerClosesRouter /\ CallRouterClose
  BY <1>4 DEF CallRouterClose, RouterLoop, RouterHandshake!Next,
              RouterHandshake!Call
<1>5. CASE HandlerClosesRouter /\ RouterCloseReturns
  BY <1>5 DEF RouterCloseReturns, RouterLoop, RouterHandshake!Next,
              RouterHandshake!Return
<1>6. CASE HandlerRuns /\ ~HandlerClosesRouter
  <2>1. UNCHANGED <<rpc, rclose>>
    BY <1>6, QuietSteps
       DEF HandlerRuns, QuietHandler, HandlerClosesTicker,
           HandlerClosesManager, routerOwn
  <2> QED
    BY <2>1, RouterRunsOn
<1>7. CASE ~RouterRuns /\ ~HandlerRuns
  BY <1>7, RouterKept, RouterRunsOn
<1> QED
  BY <1>1, <1>2, <1>3, <1>4, <1>5, <1>6, <1>7 DEF HandlerClosesRouter

\* In the program, too, the Close() of the router returns only after the
\* goroutine has left its loop.
THEOREM ProgramClosesRouter == Spec => RouterClosesProperly
<1>1. Init => RouterHandshake!Init
  BY DEF Init, RouterInit, RouterLoop, RouterHandshake!Init
<1>2. [Next]_vars => [RouterHandshake!Next]_<<rclose, RouterLoop>>
  BY RouterStepInProgram
<1> QED
  BY <1>1, <1>2, PTL
     DEF Spec, RouterClosesProperly, RouterHandshake!Spec,
         RouterHandshake!hvars

\* The composition lets the ticker and the manager do only what their modules
\* say, so that every theorem about them holds in the program; and the Close()
\* of the router keeps its promise.
THEOREM ComponentsRefinedHolds == Spec => ComponentsRefined
  BY ProgramImplementsTicker, ProgramImplementsManager, ProgramClosesRouter,
     PTL DEF ComponentsRefined

\* A step of the goroutine of the router keeps the order.
LEMMA RouterClosesInOrder ==
  ASSUME ClosedInOrder, RouterRuns
  PROVE  ClosedInOrder'
<1>1. UNCHANGED <<handler, tclose, mclose>>
  BY DEF RouterRuns, processOwn, tickerOwn, managerOwn
<1>2. CASE AcceptRouterDone
  BY <1>1, <1>2 DEF AcceptRouterDone, ClosedInOrder
<1>3. CASE RouterExit
  BY <1>1, <1>3 DEF RouterExit, ClosedInOrder
<1>4. CASE ~AcceptRouterDone /\ ~RouterExit
  <2>1. /\ rclose' = rclose
        /\ rpc \in {"select", "forward", "add", "batch"}
        /\ rpc' \in {"select", "forward", "add", "batch", "crashed"}
    BY <1>4 DEF RouterRuns, RouterStep, TakeColl, TakeRecv, Send, Forwarded,
                AddToCache, BatchColl, BatchRecv, EndBatch
  <2> QED
    BY <1>1, <2>1 DEF ClosedInOrder
<1> QED
  BY <1>2, <1>3, <1>4

\* A step of the handler keeps the order.
LEMMA HandlerClosesInOrder ==
  ASSUME ClosedInOrder, HandlerRuns
  PROVE  ClosedInOrder'
<1> USE DEF tickerOwn, managerOwn, routerOwn
<1>1. CASE HandlerReceives \/ HandlerStopsNotify
  BY <1>1 DEF HandlerReceives, HandlerStopsNotify, ClosedInOrder
<1>2. CASE HandlerClosesTicker
  BY <1>2 DEF HandlerClosesTicker, ClosedInOrder
<1>3. CASE HandlerClosesManager
  <2>1. handler = "manager" /\ UNCHANGED <<tclose, rpc, rclose>>
    BY <1>3 DEF HandlerClosesManager
  <2>2. /\ handler' \in {"manager", "receivers", "router"}
        /\ handler' # "manager" => mclose' = "returned"
    BY <1>3 DEF HandlerClosesManager
  <2> QED
    BY <2>1, <2>2 DEF ClosedInOrder
<1>4. CASE HandlerClosesReceivers
  BY <1>4 DEF HandlerClosesReceivers, ClosedInOrder
<1>5. CASE HandlerClosesRouter
  BY <1>5 DEF HandlerClosesRouter, CallRouterClose, RouterCloseReturns,
              ClosedInOrder
<1>6. CASE HandlerClosesSinks
  BY <1>6 DEF HandlerClosesSinks, ClosedInOrder
<1> QED
  BY <1>1, <1>2, <1>3, <1>4, <1>5, <1>6 DEF HandlerRuns

LEMMA ClosedInOrderInv == Spec => []ClosedInOrder
<1>1. Init => ClosedInOrder
  BY DEF Init, RouterInit, ClosedInOrder
<1>2. ClosedInOrder /\ [Next]_vars => ClosedInOrder'
  <2> SUFFICES ASSUME ClosedInOrder, [Next]_vars
               PROVE  ClosedInOrder'
    OBVIOUS
  <2>1. CASE HandlerRuns
    BY <2>1, HandlerClosesInOrder
  <2>2. CASE RouterRuns
    BY <2>2, RouterClosesInOrder
  <2>3. CASE ~HandlerRuns /\ ~RouterRuns
    BY <2>3, CallersKept, RouterKept DEF ClosedInOrder
  <2> QED
    BY <2>1, <2>2, <2>3
<1> QED
  BY <1>1, <1>2, PTL DEF Spec

\* No collector is being read when the router has stopped: a Read() that is
\* blocked on collInput would never return.
THEOREM NoReadWithoutRouterHolds == Spec => []NoReadWithoutRouter
<1>1. ClosedInOrder /\ QuietAfterClose => NoReadWithoutRouter
  BY DEF ClosedInOrder, QuietAfterClose, NoReadWithoutRouter
<1> QED
  BY <1>1, ClosedInOrderInv, ProgramImplementsManager, QuietAfterCloseHolds, PTL

\* When the sinks are closed the goroutines of router, manager and ticker have
\* ended.
THEOREM NoRouterWithoutSinksHolds == Spec => []NoRouterWithoutSinks
<1>1. ClosedInOrder /\ QuietAfterClose /\ CloseInv => NoRouterWithoutSinks
  BY DEF ClosedInOrder, QuietAfterClose, CloseInv, NoRouterWithoutSinks
<1> QED
  BY <1>1, ClosedInOrderInv, ProgramImplementsManager, QuietAfterCloseHolds,
     ProgramImplementsTicker, CloseInvariant, PTL
-----------------------------------------------------------------------------
(* Type correctness: ticker and manager have theirs from their modules. *)

\* The variables of the router have their types, and there is a message in
\* hand wherever one is used.
RouterOK ==
  /\ RouterTypeOK
  /\ rpc \in {"forward", "add", "batch"} => Len(cur) = 1

\* A message from either input can be stamped.
LEMMA StampType ==
  ASSUME NEW m \in Message, timestamp \in Nat
  PROVE  Stamp(m) \in Seq(Stamped) /\ Len(Stamp(m)) = 1
<1>1. [msg |-> m, stamp |-> IF IntervalStamp THEN timestamp ELSE 0] \in Stamped
  BY DEF Stamped
<1> QED
  BY <1>1 DEF Stamp

\* Taking the next message from an input.
LEMMA TakenType ==
  ASSUME RouterOK,
         cur' \in Seq(Stamped), Len(cur') = 1,
         batch' \in 0..(MaxForward - 1), out' = 1,
         rpc' = "forward", from' \in {"coll", "recv"},
         collInput' \in Seq(Message), recvInput' \in Seq(Message),
         UNCHANGED <<timestamp, outputs, rclose>>
  PROVE  RouterOK'
  BY DEF RouterOK, RouterTypeOK, NumOutputs

\* What is in hand is a message.
LEMMA OneElement ==
  ASSUME NEW S, NEW s \in Seq(S), Len(s) = 1
  PROVE  s[1] \in S
  OBVIOUS

\* The steps of the goroutine of the router.
LEMMA RouterStepType ==
  ASSUME RouterOK, RouterStep
  PROVE  RouterOK'
<1> USE CollectorAssumption DEF RouterOK, RouterTypeOK
<1>1. CASE TakeColl
  <2>1. Head(collInput) \in Message /\ Tail(collInput) \in Seq(Message)
    BY <1>1 DEF TakeColl
  <2>2. cur' \in Seq(Stamped) /\ Len(cur') = 1
    BY <1>1, <2>1, StampType DEF TakeColl
  <2>3. 0 \in 0..(MaxForward - 1)
    OBVIOUS
  <2> QED
    BY <1>1, <2>1, <2>2, <2>3, TakenType DEF TakeColl
<1>2. CASE TakeRecv
  <2>1. Head(recvInput) \in Message /\ Tail(recvInput) \in Seq(Message)
    BY <1>2 DEF TakeRecv
  <2>2. cur' \in Seq(Stamped) /\ Len(cur') = 1
    BY <1>2, <2>1, StampType DEF TakeRecv
  <2>3. 0 \in 0..(MaxForward - 1)
    OBVIOUS
  <2> QED
    BY <1>2, <2>1, <2>2, <2>3, TakenType DEF TakeRecv
<1>3. CASE Send
  <2>1. out \in 1..NumOutputs /\ cur[1] \in Stamped
    <3>1. out \in 1..NumOutputs
      BY <1>3 DEF Send, NumOutputs
    <3>2. Len(cur) = 1 /\ cur \in Seq(Stamped)
      BY <1>3 DEF Send
    <3>3. cur[1] \in Stamped
      BY <3>2, OneElement
    <3> QED
      BY <3>1, <3>3
  <2>2. /\ Append(outputs[out], cur[1]) \in Seq(Stamped)
        /\ Len(Append(outputs[out], cur[1])) = Len(outputs[out]) + 1
    BY <2>1
  <2>3. /\ outputs' \in [1..NumOutputs -> Seq(Stamped)]
        /\ \A o \in 1..NumOutputs : Len(outputs'[o]) <= OutCap
    BY <1>3, <2>1, <2>2 DEF Send
  <2>4. out' \in 1..(NumOutputs + 1)
    BY <1>3, <2>1 DEF Send, NumOutputs
  <2> QED
    BY <1>3, <2>3, <2>4 DEF Send
<1>4. CASE Forwarded \/ AddToCache
  BY <1>4 DEF Forwarded, AddToCache
<1>5. CASE BatchColl
  <2>1. Head(collInput) \in Message /\ Tail(collInput) \in Seq(Message)
    BY <1>5 DEF BatchColl, MoreInBatch
  <2>2. cur' \in Seq(Stamped) /\ Len(cur') = 1
    BY <1>5, <2>1, StampType DEF BatchColl
  <2>3. batch' \in 0..(MaxForward - 1)
    BY <1>5 DEF BatchColl, MoreInBatch
  <2> QED
    BY <1>5, <2>1, <2>2, <2>3, TakenType DEF BatchColl
<1>6. CASE BatchRecv
  <2>1. Head(recvInput) \in Message /\ Tail(recvInput) \in Seq(Message)
    BY <1>6 DEF BatchRecv, MoreInBatch
  <2>2. cur' \in Seq(Stamped) /\ Len(cur') = 1
    BY <1>6, <2>1, StampType DEF BatchRecv
  <2>3. batch' \in 0..(MaxForward - 1)
    BY <1>6 DEF BatchRecv, MoreInBatch
  <2> QED
    BY <1>6, <2>1, <2>2, <2>3, TakenType DEF BatchRecv
<1>7. CASE EndBatch
  BY <1>7 DEF EndBatch
<1>8. CASE AcceptRouterDone \/ RouterExit
  BY <1>8 DEF AcceptRouterDone, RouterExit
<1> QED
  BY <1>1, <1>2, <1>3, <1>4, <1>5, <1>6, <1>7, <1>8 DEF RouterStep

\* What the others do to the channels of the router.
LEMMA RouterOthersType ==
  ASSUME RouterOK, TickerTypeOK, collInput' \in Seq(CollMsg), [Next]_vars,
         ~RouterRuns
  PROVE  RouterOK'
<1>1. collInput' \in Seq(Message)
  BY DEF Message
<1> USE CollectorAssumption DEF RouterOK, RouterTypeOK, routerOwn
<1>2. CASE TickerAlone \/ ManagerRuns \/ TickToManager
  BY <1>1, <1>2 DEF TickerAlone, ManagerRuns, TickToManager
<1>3. CASE TickToRouter
  <2>1. RouterTick(ts) /\ ts \in Nat
    BY <1>3 DEF TickToRouter, TickerTypeOK
  <2> QED
    BY <1>1, <2>1 DEF RouterTick
<1>4. CASE SinkReads
  <2>1. outputs[1] \in Seq(Stamped) /\ outputs[1] # <<>>
    BY <1>4 DEF SinkReads, NumOutputs
  <2>2. /\ Tail(outputs[1]) \in Seq(Stamped)
        /\ Len(Tail(outputs[1])) = Len(outputs[1]) - 1
    BY <2>1
  <2>3. /\ outputs' \in [1..NumOutputs -> Seq(Stamped)]
        /\ \A o \in 1..NumOutputs : Len(outputs'[o]) <= OutCap
    BY <1>4, <2>1, <2>2 DEF SinkReads, NumOutputs
  <2> QED
    BY <1>1, <1>4, <2>3 DEF SinkReads
<1>5. CASE ReceiverSends
  <2>1. [src |-> "recv", tick |-> 0, n |-> 0] \in Message
    BY DEF Message, RecvMsg
  <2>2. recvInput' \in Seq(Message)
    BY <1>5, <2>1 DEF ReceiverSends
  <2> QED
    BY <1>1, <1>5, <2>2 DEF ReceiverSends
<1>6. CASE QuietMain \/ QuietHandler \/ Signal
  BY <1>1, <1>6, QuietSteps
<1>7. CASE MainAddRouter \/ MainAddedRouter \/ MainAddManager \/ MainAddedManager
             \/ MainStartManager
  BY <1>1, <1>7 DEF MainAddRouter, MainAddedRouter, MainAddManager,
              MainAddedManager, MainStartManager
<1>8. CASE MainStartRouter
  BY <1>1, <1>8 DEF MainStartRouter, RouterStart
<1>9. CASE HandlerClosesTicker \/ HandlerClosesManager
  BY <1>1, <1>9 DEF HandlerClosesTicker, HandlerClosesManager
<1>10. CASE HandlerClosesRouter
  BY <1>1, <1>10 DEF HandlerClosesRouter, CallRouterClose, RouterCloseReturns
<1>11. CASE UNCHANGED vars
  BY <1>1, <1>11 DEF vars
<1> QED
  BY <1>2, <1>3, <1>4, <1>5, <1>6, <1>7, <1>8, <1>9, <1>10, <1>11
     DEF Next, MainRuns, HandlerRuns, QuietMain, QuietHandler

LEMMA RouterInProgram == Spec => []RouterOK
<1>1. Init => RouterOK
  <2> SUFFICES ASSUME Init
               PROVE  RouterOK
    OBVIOUS
  <2>1. RouterInit
    BY DEF Init
  <2> QED
    BY <2>1, CollectorAssumption
       DEF RouterInit, RouterOK, RouterTypeOK, NumOutputs
<1>2. RouterOK /\ TickerTypeOK /\ ManagerTypeOK' /\ [Next]_vars => RouterOK'
  <2> SUFFICES ASSUME RouterOK, TickerTypeOK, ManagerTypeOK', [Next]_vars
               PROVE  RouterOK'
    OBVIOUS
  <2>1. collInput' \in Seq(CollMsg)
    BY DEF ManagerTypeOK
  <2>2. CASE RouterRuns
    BY <2>2, RouterStepType DEF RouterRuns
  <2>3. CASE ~RouterRuns
    BY <2>1, <2>3, RouterOthersType
  <2> QED
    BY <2>2, <2>3
<1> QED
  BY <1>1, <1>2, ProgramImplementsTicker, TickerTypeCorrect,
     ProgramImplementsManager, ManagerTypeCorrect, PTL DEF Spec

\* The process itself: main(), the handler, signals.
ProcessTypeOK ==
  /\ once \in OnceFlags
  /\ main \in MainSteps
  /\ handler \in HandlerSteps
  /\ sigbuf \in 0..1
  /\ notify \in BOOLEAN
  /\ signals \in Nat
  /\ sinks \in BOOLEAN
  /\ receivers \in BOOLEAN
  /\ killed \in BOOLEAN

LEMMA ProcessTypeCorrect == Spec => []ProcessTypeOK
<1>1. Init => ProcessTypeOK
  <2> SUFFICES ASSUME Init
               PROVE  ProcessTypeOK
    OBVIOUS
  <2>1. sigbuf \in 0..1 /\ signals \in Nat
    <3>1. sigbuf = 0 /\ signals = 0
      BY DEF Init
    <3> QED
      BY <3>1
  <2>2. main \in MainSteps /\ handler \in HandlerSteps
    BY DEF Init, MainSteps, HandlerSteps
  <2>3. once \in OnceFlags /\ notify = TRUE /\ sinks = FALSE
          /\ receivers = FALSE /\ killed = FALSE
    BY DEF Init
  <2> QED
    BY <2>1, <2>2, <2>3 DEF ProcessTypeOK
<1>2. ProcessTypeOK /\ [Next]_vars => ProcessTypeOK'
  <2> SUFFICES ASSUME ProcessTypeOK, [Next]_vars
               PROVE  ProcessTypeOK'
    OBVIOUS
  <2>1. CASE TickerAlone \/ TickToRouter \/ TickToManager \/ ManagerRuns
               \/ RouterRuns \/ SinkReads \/ ReceiverSends \/ UNCHANGED vars
    BY <2>1 DEF TickerAlone, TickToRouter, TickToManager, ManagerRuns,
                RouterRuns, SinkReads, ReceiverSends, processOwn, vars,
                ProcessTypeOK
  <2>2. CASE MainRuns
    <3>1. main' \in MainSteps
      BY <2>2 DEF MainRuns, MainAddRouter, MainAddedRouter, MainStartRouter,
                  MainStartSinks, MainAddManager, MainAddedManager,
                  MainStartManager, MainStartReceivers, AfterStart, MainSleeps,
                  MainSends, MainReturns, MainSteps
    <3>2. sinks' \in BOOLEAN /\ receivers' \in BOOLEAN
      BY <2>2 DEF MainRuns, ProcessTypeOK
    <3>3. sigbuf' \in 0..1
      <4>1. sigbuf' = IF main = "send" THEN 1 ELSE sigbuf
        BY <2>2 DEF MainRuns
      <4> QED
        BY <4>1 DEF ProcessTypeOK
    <3>4. UNCHANGED <<once, handler, notify, signals, killed>>
      BY <2>2 DEF MainRuns
    <3> QED
      BY <3>1, <3>2, <3>3, <3>4 DEF ProcessTypeOK
  <2>3. CASE Signal
    <3>1. /\ UNCHANGED <<once, main, handler, notify, sinks, receivers>>
          /\ signals' = signals + 1
          /\ sigbuf' = 1 \/ sigbuf' = sigbuf
          /\ killed' = TRUE \/ killed' = killed
      BY <2>3 DEF Signal
    <3>2. signals' \in Nat /\ sigbuf' \in 0..1
      BY <3>1 DEF ProcessTypeOK
    <3> QED
      BY <3>1, <3>2 DEF ProcessTypeOK
  <2>4. CASE HandlerRuns
    <3>1. handler' \in HandlerSteps
      BY <2>4 DEF HandlerRuns, HandlerReceives, HandlerStopsNotify,
                  HandlerClosesTicker, HandlerClosesManager,
                  HandlerClosesReceivers, HandlerClosesRouter,
                  HandlerClosesSinks, HandlerSteps
    <3>2. /\ sigbuf' = sigbuf \/ sigbuf' = 0
          /\ notify' = notify \/ notify' = FALSE
          /\ sinks' = sinks \/ sinks' = FALSE
          /\ receivers' = receivers \/ receivers' = FALSE
      BY <2>4 DEF HandlerRuns, HandlerReceives, HandlerStopsNotify,
                  HandlerClosesTicker, HandlerClosesManager,
                  HandlerClosesReceivers, HandlerClosesRouter,
                  HandlerClosesSinks
    <3>3. UNCHANGED <<once, main, signals, killed>>
      BY <2>4 DEF HandlerRuns
    <3>4. sigbuf' \in 0..1
      BY <3>2 DEF ProcessTypeOK
    <3> QED
      BY <3>1, <3>2, <3>3, <3>4 DEF ProcessTypeOK
  <2> QED
    BY <2>1, <2>2, <2>3, <2>4 DEF Next
<1> QED
  BY <1>1, <1>2, PTL DEF Spec

\* Every variable of the program keeps its type.
THEOREM TypeCorrect == Spec => []TypeOK
<1>1. /\ TickerTypeOK /\ ManagerTypeOK /\ RouterOK /\ ProcessTypeOK
      => TypeOK
  BY DEF RouterOK, ProcessTypeOK, TypeOK
<1> QED
  BY <1>1, ProgramImplementsTicker, TickerTypeCorrect, ProgramImplementsManager,
     ManagerTypeCorrect, RouterInProgram, ProcessTypeCorrect, PTL
-----------------------------------------------------------------------------
(* The stamp of a metric against the interval in which it was read. *)

\* With interval_timestamp the router registers before the manager: which
\* channels the ticker serves at each step of main().
OnlyRouter == Len(channels) = 1 /\ channels[1] = "router"

RouterThenManager ==
  Len(channels) = 2 /\ channels[1] = "router" /\ channels[2] = "manager"

Registered ==
  /\ main = "add_router" => Len(channels) = 0 /\ adding = NilChan
  /\ main = "added_router" => Len(channels) = 0 /\ adding = "router"
  /\ main \in {"start_router", "start_sinks", "add_manager"} =>
       OnlyRouter /\ adding = NilChan
  /\ main = "added_manager" => OnlyRouter /\ adding = "manager"
  /\ main \in {"start_manager", "start_receivers", "sleep", "send", "wait",
               "returned"} =>
       RouterThenManager /\ adding = NilChan

\* Only main() registers.
LEMMA RegistrationKept ==
  ASSUME [Next]_vars, ~MainRuns
  PROVE  UNCHANGED <<channels, adding, main>>
<1> USE DEF tickerOwn, processOwn
<1>1. CASE TickerAlone
  BY <1>1 DEF TickerAlone, ClockTick, TakeTick, TornRead, AcceptTickerDone,
              TickerExit
<1>2. CASE TickToRouter \/ TickToManager
  BY <1>2 DEF TickToRouter, TickToManager, Deliver
<1>3. CASE ManagerRuns \/ RouterRuns \/ SinkReads \/ ReceiverSends \/ Signal
  BY <1>3 DEF ManagerRuns, RouterRuns, SinkReads, ReceiverSends, Signal
<1>4. CASE HandlerRuns
  <2>1. UNCHANGED main
    BY <1>4 DEF HandlerRuns
  <2>2. UNCHANGED <<channels, adding>>
    BY <1>4 DEF HandlerRuns, HandlerReceives, HandlerStopsNotify,
                HandlerClosesTicker, HandlerClosesManager,
                HandlerClosesReceivers, HandlerClosesRouter, HandlerClosesSinks,
                CallTickerClose, TickerCloseReturns
  <2> QED
    BY <2>1, <2>2
<1>5. CASE UNCHANGED vars
  BY <1>5 DEF vars
<1> QED
  BY <1>1, <1>2, <1>3, <1>4, <1>5 DEF Next

\* The registration of a second channel.
LEMMA Appended ==
  ASSUME NEW S, NEW s \in Seq(S), NEW e \in S
  PROVE  /\ Append(s, e) \in Seq(S)
         /\ Len(Append(s, e)) = Len(s) + 1
         /\ \A i \in 1..Len(s) : Append(s, e)[i] = s[i]
         /\ Append(s, e)[Len(s) + 1] = e
  OBVIOUS

LEMMA AppendedToOne ==
  ASSUME NEW S, NEW s \in Seq(S), Len(s) = 1, NEW e \in S
  PROVE  /\ Len(Append(s, e)) = 2
         /\ Append(s, e)[1] = s[1]
         /\ Append(s, e)[2] = e
<1> DEFINE n == Len(s)
<1>1. Append(s, e)[n + 1] = e /\ Len(Append(s, e)) = n + 1
  BY Appended
<1>2. Append(s, e)[1] = s[1]
  OBVIOUS
<1>3. n = 1
  OBVIOUS
<1> HIDE DEF n
<1> QED
  BY <1>1, <1>2, <1>3

LEMMA RegisteredStep ==
  ASSUME channels \in Seq(Chan), Registered, MainRuns
  PROVE  Registered'
<1> USE DEF Registered, OnlyRouter, RouterThenManager
<1>1. CASE MainAddRouter
  BY <1>1 DEF MainAddRouter, AddChannelBegin
<1>2. CASE MainAddedRouter
  <2>1. /\ adding = "router" /\ Len(channels) = 0 /\ main' = "start_router"
        /\ channels' = Append(channels, adding) /\ adding' = NilChan
    BY <1>2 DEF MainAddedRouter, AddChannelEnd
  <2>2. Len(channels') = 1 /\ channels'[1] = "router"
    BY <2>1, ProgramChannels
  <2> QED
    BY <2>1, <2>2
<1>3. CASE MainAddManager
  BY <1>3 DEF MainAddManager, AddChannelBegin
<1>4. CASE MainAddedManager
  <2>1. /\ adding = "manager" /\ OnlyRouter /\ main' = "start_manager"
        /\ channels' = Append(channels, adding) /\ adding' = NilChan
    BY <1>4 DEF MainAddedManager, AddChannelEnd
  <2>2. /\ Len(channels') = 2
        /\ channels'[1] = "router" /\ channels'[2] = "manager"
    <3>1. Len(channels) = 1 /\ channels[1] = "router" /\ adding \in Chan
      BY <2>1, ProgramChannels
    <3>2. Len(channels') = 2 /\ channels'[1] = channels[1]
            /\ channels'[2] = adding
      BY <2>1, <3>1, AppendedToOne
    <3> QED
      BY <2>1, <3>1, <3>2
  <2> QED
    BY <2>1, <2>2
<1>5. CASE \/ MainStartRouter \/ MainStartSinks \/ MainStartManager
           \/ MainStartReceivers \/ MainSleeps \/ MainSends \/ MainReturns
  BY <1>5 DEF MainStartRouter, MainStartSinks, MainStartManager,
              MainStartReceivers, AfterStart, MainSleeps, MainSends,
              MainReturns, tickerOwn
<1> QED
  BY <1>1, <1>2, <1>3, <1>4, <1>5 DEF MainRuns

LEMMA RegisteredInv == Spec => [](IntervalStamp => Registered)
<1>1. Init => (IntervalStamp => Registered)
  BY DEF Init, TickerInit, Registered
<1>2. TickerTypeOK /\ (IntervalStamp => Registered) /\ [Next]_vars
        => (IntervalStamp => Registered)'
  <2> SUFFICES ASSUME TickerTypeOK, IntervalStamp, Registered, [Next]_vars
               PROVE  Registered'
    OBVIOUS
  <2>1. CASE MainRuns
    BY <2>1, RegisteredStep DEF TickerTypeOK
  <2>2. CASE ~MainRuns
    BY <2>2, RegistrationKept DEF Registered, OnlyRouter, RouterThenManager
  <2> QED
    BY <2>1, <2>2
<1> QED
  BY <1>1, <1>2, ProgramImplementsTicker, TickerTypeCorrect, PTL DEF Spec

\* The router has every tick before the manager has it.
LEMMA RouterFirst ==
  ASSUME TickerTypeOK, TickerInv, TicksAgree, Registered, ProcessTypeOK
  PROVE  tick <= timestamp
<1>1. tick = got["manager"] /\ timestamp = got["router"]
  BY DEF TicksAgree
<1>2. got["manager"] \in Nat /\ got["router"] \in Nat
  BY ProgramChannels DEF TickerTypeOK
<1>3. CASE got["manager"] = 0
  BY <1>1, <1>2, <1>3
<1>4. CASE got["manager"] # 0
  <2>1. PICK i \in 1..Len(channels) : channels[i] = "manager"
    BY <1>4, ProgramChannels DEF TickerInv
  <2>2. RouterThenManager
    <3>1. \/ Len(channels) = 0 \/ OnlyRouter \/ RouterThenManager
      BY DEF Registered, ProcessTypeOK, MainSteps
    <3>2. Len(channels) # 0
      BY <2>1
    <3>3. ~OnlyRouter
      BY <2>1 DEF OnlyRouter
    <3> QED
      BY <3>1, <3>2, <3>3
  <2>3. 1 \in 1..Len(channels) /\ 2 \in 1..Len(channels)
        /\ channels[1] = "router" /\ channels[2] = "manager"
    BY <2>2 DEF RouterThenManager
  <2>4. EarlierFirst
    BY DEF TickerInv
  <2> QED
    BY <1>1, <2>3, <2>4 DEF EarlierFirst
<1> QED
  BY <1>3, <1>4

\* No message in the channel to the router comes from a later interval than
\* the one the manager has received.
LEMMA QueueNotAhead ==
  ManagerSpec => [](\A i \in 1..Len(collInput) : collInput[i].tick <= tick)
<1> DEFINE Q == \A i \in 1..Len(collInput) : collInput[i].tick <= tick
<1>1. ManagerInit => Q
  BY DEF ManagerInit
<1>2. ManagerTypeOK /\ Q /\ [ManagerNext]_mvars => Q'
  <2> SUFFICES ASSUME ManagerTypeOK, Q, [ManagerNext]_mvars
               PROVE  Q'
    OBVIOUS
  <2>1. collInput \in Seq(CollMsg) /\ tick \in Nat
    BY DEF ManagerTypeOK
  <2>2. CASE \E t \in (tick + 1)..LastTick : ReceiveTick(t)
    <3>1. PICK t \in (tick + 1)..LastTick : ReceiveTick(t)
      BY <2>2
    <3>2. collInput' = collInput /\ tick' = t
      BY <3>1 DEF ReceiveTick
    <3>3. \A i \in 1..Len(collInput) : collInput[i].tick \in Nat
      <4>1. \A m \in CollMsg : m.tick \in Nat
        BY DEF CollMsg
      <4>2. \A i \in 1..Len(collInput) : collInput[i] \in CollMsg
        BY <2>1
      <4> QED
        BY <4>1, <4>2
    <3> QED
      BY <2>1, <3>2, <3>3, ManagerAssumption
  <2>3. CASE \E c \in Collector : Emit(c)
    <3>1. PICK c \in Collector : Emit(c)
      BY <2>3
    <3>2. /\ collInput' = Append(collInput,
                            [src |-> c, tick |-> tick, n |-> toSend[c]])
          /\ tick' = tick
      BY <3>1 DEF Emit
    <3> QED
      BY <2>1, <3>2
  <2>4. CASE Consume
    <3>1. collInput # <<>> /\ collInput' = Tail(collInput) /\ tick' = tick
      BY <2>4 DEF Consume
    <3> QED
      BY <2>1, <3>1
  <2>5. CASE \/ ManagerStart \/ LaunchParallel \/ JoinParallel \/ StartSerial
             \/ (\E c \in Collector : FinishRead(c)) \/ AcceptManagerDone
             \/ DoneWait \/ CloseCollector \/ ManagerExit \/ CallManagerClose
             \/ ManagerCloseReturns \/ UNCHANGED mvars
    <3>1. UNCHANGED <<collInput, tick>>
      BY <2>5 DEF ManagerStart, LaunchParallel, JoinParallel, StartSerial,
         FinishRead, AcceptManagerDone, DoneWait, CloseCollector, ManagerExit,
         CallManagerClose, ManagerCloseReturns, mvars
    <3> QED
      BY <3>1
  <2> QED
    BY <2>2, <2>3, <2>4, <2>5 DEF ManagerNext, ManagerStep
<1> QED
  BY <1>1, <1>2, ManagerTypeCorrect, PTL DEF ManagerSpec

\* A message that carries no later tick than its stamp.
InTime(s) == \A i \in 1..Len(s) : s[i].msg.tick <= s[i].stamp

\* What the router has in its hands and in the output, and why the stamp it
\* gives next is not too early: nothing it may take is ahead of timestamp.
StampsInv ==
  /\ InTime(cur)
  /\ InTime(outputs[1])
  /\ \A i \in 1..Len(recvInput) : recvInput[i].tick = 0

\* A message from either input is stamped in time.
LEMMA StampedInTime ==
  ASSUME IntervalStamp, NEW m, m.tick <= timestamp
  PROVE  InTime(Stamp(m))
<1>1. /\ Len(Stamp(m)) = 1
      /\ Stamp(m)[1].msg = m
      /\ Stamp(m)[1].stamp = timestamp
  BY DEF Stamp
<1> QED
  BY <1>1 DEF InTime

LEMMA InTimeAppend ==
  ASSUME NEW s \in Seq(Stamped), InTime(s), NEW e \in Stamped,
         e.msg.tick <= e.stamp
  PROVE  InTime(Append(s, e))
  BY DEF InTime

LEMMA InTimeTail ==
  ASSUME NEW s \in Seq(Stamped), InTime(s), s # <<>>
  PROVE  InTime(Tail(s))
  BY DEF InTime

\* The first message of either input may be stamped now.
LEMMA NextInTime ==
  ASSUME RouterOK, StampsInv, tick <= timestamp, tick \in Nat,
         \A i \in 1..Len(collInput) : collInput[i].tick <= tick
  PROVE  /\ collInput # <<>> => Head(collInput).tick <= timestamp
         /\ recvInput # <<>> => Head(recvInput).tick <= timestamp
<1>1. /\ collInput \in Seq(Message) /\ recvInput \in Seq(Message)
      /\ timestamp \in Nat
  BY DEF RouterOK, RouterTypeOK
<1>2. \A m \in Message : m.tick \in Nat
  BY DEF Message, CollMsg, RecvMsg
<1>3. ASSUME collInput # <<>>
      PROVE  Head(collInput).tick <= timestamp
  <2>1. 1 \in 1..Len(collInput) /\ Head(collInput) = collInput[1]
        /\ collInput[1] \in Message
    BY <1>1, <1>3
  <2>2. collInput[1].tick <= tick /\ collInput[1].tick \in Nat
    BY <1>2, <2>1
  <2> QED
    BY <1>1, <2>1, <2>2
<1>4. ASSUME recvInput # <<>>
      PROVE  Head(recvInput).tick <= timestamp
  <2>1. 1 \in 1..Len(recvInput) /\ Head(recvInput) = recvInput[1]
    BY <1>1, <1>4
  <2>2. recvInput[1].tick = 0
    BY <2>1 DEF StampsInv
  <2> QED
    BY <1>1, <2>1, <2>2
<1> QED
  BY <1>3, <1>4

\* The steps of the router keep the stamps in time.
LEMMA RouterStampsInTime ==
  ASSUME IntervalStamp, RouterOK, StampsInv, RouterStep,
         collInput # <<>> => Head(collInput).tick <= timestamp,
         recvInput # <<>> => Head(recvInput).tick <= timestamp
  PROVE  StampsInv'
<1>1. CASE TakeColl \/ BatchColl
  <2>1. /\ collInput # <<>> /\ cur' = Stamp(Head(collInput))
        /\ UNCHANGED <<outputs, recvInput>>
    BY <1>1 DEF TakeColl, BatchColl, MoreInBatch
  <2>2. InTime(Stamp(Head(collInput)))
    BY <2>1, StampedInTime
  <2> QED
    BY <2>1, <2>2 DEF StampsInv, InTime
<1>2. CASE TakeRecv \/ BatchRecv
  <2>1. /\ recvInput # <<>> /\ cur' = Stamp(Head(recvInput))
        /\ recvInput' = Tail(recvInput) /\ UNCHANGED outputs
    BY <1>2 DEF TakeRecv, BatchRecv, MoreInBatch
  <2>2. InTime(Stamp(Head(recvInput)))
    BY <2>1, StampedInTime
  <2>3. \A i \in 1..Len(recvInput') : recvInput'[i].tick = 0
    <3>1. recvInput \in Seq(Message)
      BY DEF RouterOK, RouterTypeOK
    <3>2. \A i \in 1..Len(recvInput) : recvInput[i].tick = 0
      BY DEF StampsInv
    <3>3. \A i \in 1..Len(recvInput') :
             i + 1 \in 1..Len(recvInput) /\ recvInput'[i] = recvInput[i + 1]
      BY <2>1, <3>1
    <3> QED
      BY <3>2, <3>3
  <2> QED
    BY <2>1, <2>2, <2>3 DEF StampsInv, InTime
<1>3. CASE Send
  <2>1. /\ out = 1
        /\ outputs' = [outputs EXCEPT ![1] = Append(@, cur[1])]
        /\ UNCHANGED <<cur, recvInput>>
        /\ Len(cur) = 1
    <3>1. out = 1
      BY <1>3 DEF Send, RouterOK, RouterTypeOK, NumOutputs
    <3>2. /\ outputs' = [outputs EXCEPT ![out] = Append(@, cur[1])]
          /\ UNCHANGED <<cur, recvInput>> /\ rpc = "forward"
      BY <1>3 DEF Send
    <3>3. Len(cur) = 1
      BY <3>2 DEF RouterOK
    <3> QED
      BY <3>1, <3>2, <3>3
  <2>2. /\ cur \in Seq(Stamped)
        /\ outputs \in [1..1 -> Seq(Stamped)]
    BY DEF RouterOK, RouterTypeOK, NumOutputs
  <2>3. cur[1] \in Stamped
    BY <2>1, <2>2, OneElement
  <2>4. cur[1].msg.tick <= cur[1].stamp
    BY <2>1 DEF StampsInv, InTime
  <2>5. outputs'[1] = Append(outputs[1], cur[1]) /\ outputs[1] \in Seq(Stamped)
    BY <2>1, <2>2
  <2>6. InTime(outputs'[1])
    BY <2>3, <2>4, <2>5, InTimeAppend DEF StampsInv
  <2> QED
    BY <2>1, <2>6 DEF StampsInv, InTime
<1>4. CASE EndBatch
  <2>1. cur' = <<>> /\ UNCHANGED <<outputs, recvInput>>
    BY <1>4 DEF EndBatch
  <2> QED
    BY <2>1 DEF StampsInv, InTime
<1>5. CASE Forwarded \/ AddToCache \/ AcceptRouterDone \/ RouterExit
  <2>1. UNCHANGED <<cur, outputs, recvInput>>
    BY <1>5 DEF Forwarded, AddToCache, AcceptRouterDone, RouterExit
  <2> QED
    BY <2>1 DEF StampsInv, InTime
<1> QED
  BY <1>1, <1>2, <1>3, <1>4, <1>5 DEF RouterStep

\* Only router, sinks and receivers touch what StampsInv is about.
LEMMA TrafficKept ==
  ASSUME [Next]_vars, ~RouterRuns, ~SinkReads, ~ReceiverSends
  PROVE  UNCHANGED <<cur, outputs, recvInput>>
<1> USE DEF routerOwn
<1>1. CASE TickerAlone \/ ManagerRuns \/ TickToManager
  BY <1>1 DEF TickerAlone, ManagerRuns, TickToManager
<1>2. CASE TickToRouter
  BY <1>2 DEF TickToRouter, RouterTick
<1>3. CASE QuietMain \/ QuietHandler \/ Signal
  BY <1>3, QuietSteps
<1>4. CASE MainAddRouter \/ MainAddedRouter \/ MainAddManager \/ MainAddedManager
             \/ MainStartManager
  BY <1>4 DEF MainAddRouter, MainAddedRouter, MainAddManager,
              MainAddedManager, MainStartManager
<1>5. CASE MainStartRouter
  BY <1>5 DEF MainStartRouter, RouterStart
<1>6. CASE HandlerClosesTicker \/ HandlerClosesManager \/ HandlerClosesRouter
  BY <1>6 DEF HandlerClosesTicker, HandlerClosesManager, HandlerClosesRouter,
              CallRouterClose, RouterCloseReturns
<1>7. CASE UNCHANGED vars
  BY <1>7 DEF vars
<1> QED
  BY <1>1, <1>2, <1>3, <1>4, <1>5, <1>6, <1>7
     DEF Next, MainRuns, HandlerRuns, QuietMain, QuietHandler

LEMMA StampsInTime == Spec => [](IntervalStamp => StampsInv)
<1> DEFINE Q == \A i \in 1..Len(collInput) : collInput[i].tick <= tick
           S == IntervalStamp => StampsInv
           R == IntervalStamp => Registered
<1>1. Init => S
  <2> SUFFICES ASSUME Init
               PROVE  StampsInv
    OBVIOUS
  <2>1. cur = <<>> /\ outputs[1] = <<>> /\ recvInput = <<>>
    BY DEF Init, RouterInit, NumOutputs
  <2> QED
    BY <2>1 DEF StampsInv, InTime
<1>2. /\ TickerTypeOK /\ TickerInv /\ TicksAgree /\ RouterOK /\ ProcessTypeOK
      /\ ManagerTypeOK /\ Q /\ R /\ S /\ [Next]_vars
      => S'
  <2> SUFFICES ASSUME TickerTypeOK, TickerInv, TicksAgree, RouterOK,
                      ProcessTypeOK, ManagerTypeOK, Q, Registered, StampsInv,
                      IntervalStamp, [Next]_vars
               PROVE  StampsInv'
    OBVIOUS
  <2>1. tick <= timestamp /\ tick \in Nat
    BY RouterFirst DEF ManagerTypeOK
  <2>2. /\ collInput # <<>> => Head(collInput).tick <= timestamp
        /\ recvInput # <<>> => Head(recvInput).tick <= timestamp
    BY <2>1, NextInTime
  <2>3. CASE RouterRuns
    BY <2>2, <2>3, RouterStampsInTime DEF RouterRuns
  <2>4. outputs \in [1..1 -> Seq(Stamped)]
    BY DEF RouterOK, RouterTypeOK, NumOutputs
  <2>5. CASE SinkReads
    <3>1. outputs[1] \in Seq(Stamped) /\ outputs[1] # <<>>
          /\ outputs'[1] = Tail(outputs[1]) /\ UNCHANGED <<cur, recvInput>>
      BY <2>4, <2>5 DEF SinkReads
    <3>2. InTime(outputs'[1])
      BY <3>1, InTimeTail DEF StampsInv
    <3> QED
      BY <3>1, <3>2 DEF StampsInv, InTime
  <2>6. CASE ReceiverSends
    <3> DEFINE m == [src |-> "recv", tick |-> 0, n |-> 0]
    <3>1. /\ recvInput' = Append(recvInput, m) /\ UNCHANGED <<cur, outputs>>
          /\ m.tick = 0
      BY <2>6 DEF ReceiverSends
    <3>2. recvInput \in Seq(Message)
      BY DEF RouterOK, RouterTypeOK
    <3>3. \A i \in 1..Len(recvInput) : recvInput[i].tick = 0
      BY DEF StampsInv
    <3> HIDE DEF m
    <3>4. \A i \in 1..Len(recvInput') : recvInput'[i].tick = 0
      BY <3>1, <3>2, <3>3
    <3> QED
      BY <3>1, <3>4 DEF StampsInv, InTime
  <2>7. CASE ~RouterRuns /\ ~SinkReads /\ ~ReceiverSends
    BY <2>7, TrafficKept DEF StampsInv, InTime
  <2> QED
    BY <2>3, <2>5, <2>6, <2>7
<1> QED
  BY <1>1, <1>2, TicksAgreeInv, RouterInProgram, ProcessTypeCorrect,
     ProgramImplementsManager, ManagerTypeCorrect, QueueNotAhead,
     RegisteredInv, PTL DEF Spec

\* With interval_timestamp no metric is stamped before the interval in which
\* it was read: the router registers first, so that it has the tick before the
\* collectors of that interval are read.
THEOREM StampNotBeforeReadHolds == Spec => []StampNotBeforeRead
<1>1. (IntervalStamp => StampsInv) => StampNotBeforeRead
  BY DEF StampsInv, InTime, StampNotBeforeRead
<1> QED
  BY <1>1, StampsInTime, PTL
=============================================================================
