----------------------- MODULE LikwidCollector_proofs -----------------------
(***************************************************************************)
(* What one Read() of the likwid collector guarantees on every machine, for *)
(* every list of event sets, and however signals, changes of the lock file *)
(* and failing calls of the library interleave with it: first the order of *)
(* its calls, then the topology and the indices it gives to the threads,   *)
(* the types, and last the totals it sends.                                *)
(***************************************************************************)
EXTENDS LikwidCollector, DataTheorems, TLAPS

(* The order of the calls. *)

\* The place of each call in the list of them.
LEMMA StepPlaces ==
  /\ SelectInSeq(Step, LAMBDA s : s = "init") = 1
  /\ SelectInSeq(Step, LAMBDA s : s = "add") = 2
  /\ SelectInSeq(Step, LAMBDA s : s = "setup") = 3
  /\ SelectInSeq(Step, LAMBDA s : s = "start") = 4
  /\ SelectInSeq(Step, LAMBDA s : s = "first") = 5
  /\ SelectInSeq(Step, LAMBDA s : s = "stop") = 7
<1>1. \A n \in 1..8 :
        /\ {i \in 1..Len(Step) : Step[i] = Step[n]} = {n}
        /\ Min({n}) = n
  BY DEF Step, Min
<1> QED
  BY <1>1 DEF Step, SelectInSeq

\* What is called after what.
LEMMA StepOrder ==
  /\ ToSet(Step) = {"init", "add", "setup", "start", "first", "second", "stop",
                    "finalize"}
  /\ AfterStep("init") = "add"
  /\ AfterStep("add") = "setup"
  /\ AfterStep("setup") = "start"
  /\ AfterStep("start") = "first"
  /\ AfterStep("first") = "second"
  /\ AfterStep("second") = "store"
  /\ AfterStep("stop") = "finalize"
  /\ AfterStep("finalize") = "calc"
<1>1. ToSet(Step) = {"init", "add", "setup", "start", "first", "second", "stop",
                     "finalize"}
  BY DEF ToSet, Step
<1>2. /\ Step[1 + 1] = "add" /\ Step[2 + 1] = "setup" /\ Step[3 + 1] = "start"
      /\ Step[4 + 1] = "first" /\ Step[5 + 1] = "second" /\ Step[7 + 1] = "finalize"
  BY DEF Step
<1> QED
  BY <1>1, <1>2, StepPlaces DEF AfterStep
-----------------------------------------------------------------------------
(* The inductive invariant. *)

\* The calls that come before a place of takeMeasurement().
CallsBefore(p) ==
  CASE p = "init" -> {}
    [] p = "add" -> {"init"}
    [] p = "setup" -> {"init", "add"}
    [] p = "start" -> {"init", "add", "setup"}
    [] p = "first" -> {"init", "add", "setup", "start"}
    [] p = "second" -> {"init", "add", "setup", "start", "first"}
    [] p \in {"store", "stop"} ->
         {"init", "add", "setup", "start", "first", "second"}
    [] p = "finalize" ->
         {"init", "add", "setup", "start", "first", "second", "stop"}
    [] OTHER -> ToSet(Step)

\* Whatever has not been done although its turn is over was left out for the
\* watcher.
CallsInOrder ==
  /\ done \subseteq ToSet(Step)
  /\ (pc \in Watching \cup {"calc"} /\ ~noticed) => CallsBefore(pc) \subseteq done

\* Outside of takeMeasurement() the library has counters, and there is a channel
\* for signals, only for a reason.
NothingLeftOn ==
  pc \in {"idle", "lock", "calc", "global"} =>
    /\ lib # "off" => (outcome = "failed" \/ noticed)
    /\ sigchan # "none" => outcome = "failed"

\* The channel is there for signals where takeMeasurement() looks into it.
ChannelOpen ==
  pc \in Watching \cup {"watch"} => (sigchan = "none" <=> pc \notin Notified)

\* Every measured event set has sent something in this Read(): its total for
\* the node.
MeasuredAndSent ==
  /\ set \in EventSet
  /\ \A e \in DOMAIN groups : \E n \in sent : n.set = e

LikwidInv == CallsInOrder /\ NothingLeftOn /\ ChannelOpen /\ MeasuredAndSent

\* Before the first Read() nothing was called.
LEMMA LikwidInitInv == LikwidInit => LikwidInv
<1> SUFFICES ASSUME LikwidInit
             PROVE  LikwidInv
  OBVIOUS
<1>1. /\ pc = "idle" /\ set = 1 /\ groups = <<>> /\ lib = "off" /\ done = {}
      /\ sigchan = "none"
  BY DEF LikwidInit
<1>2. "idle" \notin Watching \cup {"calc", "watch"}
  BY StepOrder DEF Watching
<1>3. 1 \in EventSet
  BY LikwidAssumption DEF NumSets, EventSet
<1> QED
  BY <1>1, <1>2, <1>3
  DEF LikwidInv, CallsInOrder, NothingLeftOn, ChannelOpen, MeasuredAndSent

\* The environment and what does not touch the measurement.
LEMMA LikwidKept ==
  ASSUME LikwidInv,
         UNCHANGED <<pc, done, noticed, lib, outcome, set, groups, sent>>,
         UNCHANGED sigchan \/ (sigchan # "none" /\ sigchan' # "none")
  PROVE  LikwidInv'
  BY DEF LikwidInv, CallsInOrder, NothingLeftOn, ChannelOpen, MeasuredAndSent, CallsBefore

\* An event set is left behind with the lock held or measured.
LEMMA NextSetStays ==
  ASSUME NEW M, MeasuredAndSent, NextSet(M)
  PROVE  set' \in EventSet /\ pc' \in {"lock", "global", "idle"}
  BY LikwidAssumption DEF NextSet, MeasuredAndSent, EventSet, NumSets

\* A call at the place p that succeeds, or is left out.
LEMMA SucceedInv ==
  ASSUME LikwidInv, NEW p \in ToSet(Step), pc = p, Succeed(p),
         \/ done' = done \cup {p} /\ lib' = LibAfter(p) /\ UNCHANGED noticed
         \/ UNCHANGED <<done, lib>> /\ noticed'
  PROVE  LikwidInv'
<1>1. MeasuredAndSent'
  BY DEF Succeed, stepVars, LikwidInv, MeasuredAndSent
<1>2. pc' = AfterStep(p) /\ outcome' = IF p = "finalize" THEN "good" ELSE outcome
  BY DEF Succeed
<1>3. CallsInOrder'
  <2>1. done' \subseteq ToSet(Step)
    BY DEF LikwidInv, CallsInOrder
  <2>2. ~noticed' => /\ ~noticed /\ done' = done \cup {p}
                     /\ CallsBefore(p) \subseteq done
    BY DEF LikwidInv, CallsInOrder, Watching
  <2>3. CallsBefore(AfterStep(p)) \subseteq CallsBefore(p) \cup {p}
    BY StepOrder DEF CallsBefore
  <2> QED
    BY <1>2, <2>1, <2>2, <2>3 DEF CallsInOrder, CallsBefore
<1>4. NothingLeftOn'
  <2>1. CASE p = "finalize"
    <3>1. sigchan = "none" /\ UNCHANGED sigchan
      BY <2>1 DEF LikwidInv, ChannelOpen, Watching, Notified, Succeed
    <3> QED
      BY <1>2, <2>1, <3>1 DEF NothingLeftOn, LibAfter
  <2>2. CASE p # "finalize"
    BY <1>2, <2>2, StepOrder DEF NothingLeftOn
  <2> QED
    BY <2>1, <2>2
<1>5. ChannelOpen'
  <2>1. sigchan = "none" <=> p \notin Notified
    BY DEF LikwidInv, ChannelOpen, Watching
  <2>2. sigchan' = CASE p = "init" -> "empty" [] p = "stop" -> "none" [] OTHER -> sigchan
    BY DEF Succeed
  <2> QED
    BY <1>2, <2>1, <2>2, StepOrder DEF ChannelOpen, Watching, Notified
<1> QED
  BY <1>1, <1>3, <1>4, <1>5 DEF LikwidInv

\* takeMeasurement() returns an error.
LEMMA FailInv ==
  ASSUME LikwidInv, Fail
  PROVE  LikwidInv'
<1>1. /\ pc' = "idle" /\ outcome' = "failed"
      /\ UNCHANGED <<set, groups, sent, done, noticed, lib>>
  BY DEF Fail, stepVars
<1>2. "idle" \notin Watching \cup {"calc", "watch"}
  BY StepOrder DEF Watching
<1> QED
  BY <1>1, <1>2 DEF LikwidInv, CallsInOrder, NothingLeftOn, ChannelOpen, MeasuredAndSent

\* The calls of takeMeasurement() keep the invariant.
LEMMA MeasureInv ==
  ASSUME LikwidInv, NEW p \in ToSet(Step), Measure(p)
  PROVE  LikwidInv'
<1>1. CASE Fail
  BY <1>1, FailInv
<1>2. CASE CallLibrary(p) /\ ~Fail
  BY <1>2, SucceedInv DEF CallLibrary, Measure
<1>3. CASE /\ ~Fail /\ ~CallLibrary(p)
  BY <1>3, SucceedInv DEF Measure
<1> QED
  BY <1>1, <1>2, <1>3

\* Read() begins, and the lock file is looked at.
LEMMA LockInv ==
  ASSUME LikwidInv, StartRead \/ CheckLock \/ LockFails \/ Watch
  PROVE  LikwidInv'
<1>1. /\ {"idle", "lock", "watch", "global"} \cap (Watching \cup {"calc"}) = {}
      /\ {"watch", "init"} \cap Notified = {}
  BY StepOrder DEF Watching, Notified
<1>2. CASE StartRead
  <2>1. /\ pc = "idle" /\ pc' = "lock" /\ set' = 1 /\ groups' = <<>>
        /\ UNCHANGED <<lib, outcome, done, noticed, sigchan>>
    BY <1>2 DEF StartRead
  <2>2. 1 \in EventSet
    BY LikwidAssumption DEF NumSets, EventSet
  <2> QED
    BY <1>1, <2>1, <2>2
    DEF LikwidInv, CallsInOrder, NothingLeftOn, ChannelOpen, MeasuredAndSent
<1>3. CASE CheckLock
  <2>1. pc = "lock" /\ UNCHANGED <<groups, sent, lib, outcome>>
    BY <1>3 DEF CheckLock
  <2>2. CASE owner' = "other"
    <3>1. UNCHANGED <<done, noticed, sigchan>>
      BY <1>3, <2>2 DEF CheckLock
    <3>2. set' \in EventSet /\ pc' \in {"lock", "global", "idle"}
      BY <1>3, <2>2, NextSetStays DEF CheckLock, LikwidInv, MeasuredAndSent
    <3> QED
      BY <1>1, <2>1, <3>1, <3>2
      DEF LikwidInv, CallsInOrder, NothingLeftOn, ChannelOpen, MeasuredAndSent
  <2>3. CASE owner' # "other"
    <3>1. pc' = "watch" /\ done' = {} /\ sigchan' = "none" /\ UNCHANGED set
      BY <1>3, <2>3 DEF CheckLock
    <3> QED
      BY <1>1, <2>1, <3>1
      DEF LikwidInv, CallsInOrder, NothingLeftOn, ChannelOpen, MeasuredAndSent
  <2> QED
    BY <2>2, <2>3
<1>4. CASE LockFails
  <2>1. /\ pc = "lock" /\ pc' = "idle"
        /\ UNCHANGED <<set, groups, sent, lib, outcome, done, noticed, sigchan>>
    BY <1>4 DEF LockFails, collectorVars
  <2> QED
    BY <1>1, <2>1 DEF LikwidInv, CallsInOrder, NothingLeftOn, ChannelOpen, MeasuredAndSent
<1>5. CASE Watch
  <2>1. /\ pc' = "init"
        /\ UNCHANGED <<set, groups, sent, lib, outcome, done, noticed, sigchan>>
    BY <1>5 DEF Watch, collectorVars
  <2>2. sigchan = "none"
    BY <1>1, <1>5 DEF Watch, LikwidInv, ChannelOpen
  <2> QED
    BY <1>1, <2>1, <2>2
    DEF LikwidInv, CallsInOrder, NothingLeftOn, ChannelOpen, MeasuredAndSent, CallsBefore
<1> QED
  BY <1>2, <1>3, <1>4, <1>5

\* The results are read, or the process ends.
LEMMA StoreInv ==
  ASSUME LikwidInv, Store
  PROVE  LikwidInv'
<1>1. /\ pc = "store" /\ pc' \in {"stop", "crashed"}
      /\ UNCHANGED <<set, groups, sent, lib, outcome, done, noticed, sigchan>>
  BY DEF Store
<1>2. /\ {"store", "stop"} \subseteq Watching \cap Notified
      /\ "crashed" \notin Watching \cup {"calc", "watch"}
  BY StepOrder DEF Watching, Notified
<1>3. CallsBefore("stop") = CallsBefore("store")
  BY DEF CallsBefore
<1> QED
  BY <1>1, <1>2, <1>3
  DEF LikwidInv, CallsInOrder, NothingLeftOn, ChannelOpen, MeasuredAndSent

\* Every message carries the event set it is made for.
LEMMA SetOfMessage ==
  \A e, type, id, v, of : Message(e, type, id, v, of).set = e
  BY DEF Message

\* All messages for the threads carry the number of their event set.
LEMMA SetOfMessages ==
  \A e, type, group, counted, value :
    /\ \A m \in ThreadMessages(e, type, value) : m.set = e
    /\ \A m \in Totals(e, type, group, counted, value) : m.set = e
<1> SUFFICES ASSUME NEW e, NEW type, NEW group, NEW counted, NEW value
             PROVE  /\ \A m \in ThreadMessages(e, type, value) : m.set = e
                    /\ \A m \in Totals(e, type, group, counted, value) : m.set = e
  OBVIOUS
<1>1. \A m \in ThreadMessages(e, type, value) : m.set = e
  BY SetOfMessage DEF ThreadMessages
<1>2. \A m \in Totals(e, type, group, counted, value) : m.set = e
  <2> DEFINE added(g) == Added(value, {t \in counted : group[t] = g})
             ids == {group[t] : t \in counted}
  <2>1. Totals(e, type, group, counted, value)
          = {Message(e, type, g, added(g), "total") : g \in ids}
    BY Zenon DEF Totals
  <2> HIDE DEF added, ids
  <2> QED
    BY <2>1, SetOfMessage
<1> QED
  BY <1>1, <1>2

\* The metrics of an event set: the total for the node is always among them.
LEMMA CalcEventsetInv ==
  ASSUME LikwidInv, CalcEventset
  PROVE  /\ LikwidInv'
         /\ \A m \in sent' \ sent : m.set = set
<1>1. /\ pc = "calc" /\ UNCHANGED <<lib, outcome, done, noticed, sigchan>>
      /\ DOMAIN groups' = DOMAIN groups \cup {set}
      /\ NextSet(DOMAIN groups')
  BY DEF CalcEventset
<1>2. set' \in EventSet /\ pc' \in {"lock", "global", "idle"}
  BY <1>1, NextSetStays DEF LikwidInv
<1> DEFINE metric == Metrics[set]
           value == Derived(metric)
           counted == {t \in Range(Scope(metric.type)) :
                         value[t] # NaN /\ metric.publish}
           single == ThreadMessages(set, metric.type, value)
           cores == Totals(set, "core", Tid2core, counted, value)
           sockets == Totals(set, "socket", Tid2socket, counted, value)
           node == Message(set, "node", -1, Added(value, counted), "total")
<1>3. sent' = sent \cup (IF metric.publish THEN single ELSE {})
                   \cup cores \cup sockets \cup {node}
  BY DEF CalcEventset
<1>4. /\ \A m \in single \cup cores \cup sockets : m.set = set
      /\ node.set = set
  <2>1. \A m \in single : m.set = set
    BY SetOfMessages
  <2>2. \A m \in cores : m.set = set
    BY SetOfMessages
  <2>3. \A m \in sockets : m.set = set
    BY SetOfMessages
  <2>4. node.set = set
    BY SetOfMessage
  <2> QED
    BY <2>1, <2>2, <2>3, <2>4
<1> HIDE DEF metric, single, cores, sockets, node
<1>5. /\ sent \subseteq sent' /\ \E n \in sent' : n.set = set
      /\ \A m \in sent' \ sent : m.set = set
  BY <1>3, <1>4
<1>6. {"lock", "global", "idle"} \cap (Watching \cup {"calc", "watch"}) = {}
  BY StepOrder DEF Watching
<1>7. CallsInOrder' /\ NothingLeftOn' /\ ChannelOpen'
  BY <1>1, <1>2, <1>6 DEF LikwidInv, CallsInOrder, NothingLeftOn, ChannelOpen
<1>8. MeasuredAndSent'
  BY <1>1, <1>2, <1>5 DEF LikwidInv, MeasuredAndSent
<1> QED
  BY <1>5, <1>7, <1>8 DEF LikwidInv

\* The global metrics.
LEMMA CalcGlobalInv ==
  ASSUME LikwidInv, CalcGlobal
  PROVE  /\ LikwidInv'
         /\ \A m \in sent' \ sent : m.value # 0 => EventSet \subseteq DOMAIN groups
<1>1. /\ pc = "global" /\ pc' = "idle"
      /\ UNCHANGED <<set, groups, lib, outcome, done, noticed, sigchan>>
      /\ sent' = sent \cup ThreadMessages(0, GlobalMetric,
                     [t \in Range(Scope(GlobalMetric)) |-> GlobalValue(t)])
  BY DEF CalcGlobal
<1>2. "idle" \notin Watching \cup {"calc", "watch"}
  BY StepOrder DEF Watching
<1>3. LikwidInv'
  BY <1>1, <1>2 DEF LikwidInv, CallsInOrder, NothingLeftOn, ChannelOpen, MeasuredAndSent
<1>4. ASSUME NEW m \in sent' \ sent, m.value # 0
      PROVE  EventSet \subseteq DOMAIN groups
  <2>1. PICK i \in DOMAIN Scope(GlobalMetric) :
          m.value = [t \in Range(Scope(GlobalMetric)) |-> GlobalValue(t)]
                      [Scope(GlobalMetric)[i]]
    BY <1>1, <1>4 DEF ThreadMessages, Message
  <2>2. Scope(GlobalMetric)[i] \in Range(Scope(GlobalMetric))
    BY DEF Range
  <2>3. GlobalValue(Scope(GlobalMetric)[i]) # 0
    BY <1>4, <2>1, <2>2
  <2> QED
    BY <2>3 DEF GlobalValue
<1> QED
  BY <1>3, <1>4

\* The calls of the library come in their order, nothing is left on when
\* takeMeasurement() is over, and an event set counts as measured when its
\* results were stored: what takeMeasurement() and Read() rest on, whatever the
\* lock file, the signals and the failing calls do in between.
THEOREM LikwidInvariant == LikwidSpec => []LikwidInv
<1>1. LikwidInv /\ [LikwidNext]_vars => LikwidInv'
  <2> SUFFICES ASSUME LikwidInv, [LikwidNext]_vars
               PROVE  LikwidInv'
    OBVIOUS
  <2>1. CASE \/ \E o \in {"me", "other"} : ChangeOwner(o)
             \/ WriteLockFile \/ Signal \/ UNCHANGED vars
    <3>1. UNCHANGED <<pc, done, noticed, lib, outcome, set, groups, sent>>
      BY <2>1 DEF ChangeOwner, WriteLockFile, Signal, Change, vars, collectorVars
    <3>2. UNCHANGED sigchan \/ (sigchan # "none" /\ sigchan' # "none")
      BY <2>1 DEF ChangeOwner, WriteLockFile, Signal, vars
    <3> QED
      BY <3>1, <3>2, LikwidKept
  <2>2. CASE StartRead \/ CheckLock \/ LockFails \/ Watch
    BY <2>2, LockInv
  <2>3. CASE \E p \in ToSet(Step) : Measure(p)
    BY <2>3, MeasureInv
  <2>4. CASE Store
    BY <2>4, StoreInv
  <2>5. CASE CalcEventset
    BY <2>5, CalcEventsetInv
  <2>6. CASE CalcGlobal
    BY <2>6, CalcGlobalInv
  <2> QED
    BY <2>1, <2>2, <2>3, <2>4, <2>5, <2>6 DEF LikwidNext
<1> QED
  BY <1>1, LikwidInitInv, PTL DEF LikwidSpec
-----------------------------------------------------------------------------
(* What follows. *)

\* Metrics are computed only from a measurement of which every call to the
\* library succeeded or was left out for the watcher.
THEOREM MeasuredInFullHolds == LikwidSpec => []MeasuredInFull
<1>1. LikwidInv => MeasuredInFull
  <2>1. CallsBefore("calc") = ToSet(Step)
    BY DEF CallsBefore
  <2> QED
    BY <2>1 DEF LikwidInv, CallsInOrder, MeasuredInFull
<1> QED
  BY <1>1, LikwidInvariant, PTL

\* Between two Read()s the library has no counters set up, unless the last
\* measurement failed or the lock file changed during it, and no channel is left
\* behind for signals, unless it failed.
THEOREM CountersReleasedHolds == LikwidSpec => []CountersReleased
<1>1. LikwidInv => CountersReleased
  BY DEF LikwidInv, NothingLeftOn, CountersReleased
<1> QED
  BY <1>1, LikwidInvariant, PTL

\* A global metric other than 0 mixes in nothing from an earlier Read().
THEOREM GlobalFromOneReadHolds == LikwidSpec => GlobalFromOneRead
<1>1. LikwidInv /\ [LikwidNext]_vars
        => [\A m \in sent' \ sent :
              m.set = 0 /\ m.value # 0 =>
                \A e \in EventSet : \E n \in sent : n.set = e]_vars
  <2> SUFFICES ASSUME LikwidInv, LikwidNext, NEW m \in sent' \ sent,
                      m.set = 0, m.value # 0, NEW e \in EventSet
               PROVE  \E n \in sent : n.set = e
    OBVIOUS
  <2>1. set \in EventSet /\ 0 \notin EventSet
    BY LikwidAssumption DEF LikwidInv, MeasuredAndSent, EventSet
  <2>2. CASE CalcGlobal
    BY <2>2, CalcGlobalInv DEF LikwidInv, MeasuredAndSent
  <2>3. CASE CalcEventset
    BY <2>1, <2>3, CalcEventsetInv
  <2>4. CASE /\ ~CalcGlobal /\ ~CalcEventset
    <3>1. sent' = sent \/ sent' = {}
      BY <2>4 DEF LikwidNext, ChangeOwner, WriteLockFile, Signal, Change, StartRead,
                  CheckLock, LockFails, Watch, Measure, Store, CallLibrary, Succeed,
                  Fail, stepVars, collectorVars
    <3> QED
      BY <3>1
  <2> QED
    BY <2>2, <2>3, <2>4
<1> QED
  BY <1>1, LikwidInvariant, PTL DEF LikwidSpec, GlobalFromOneRead
-----------------------------------------------------------------------------
(* The topology. *)

\* The table of hardware threads: one entry for each, in ascending order.
LEMMA CpuDataIs ==
  ASSUME InitTopology
  PROVE  /\ machine \in Machines /\ IsFiniteSet(DOMAIN machine)
         /\ DOMAIN machine \subseteq Nat
         /\ Cardinality(DOMAIN machine) \in Nat \ {0}
         /\ DOMAIN cpuData = 1..Cardinality(DOMAIN machine)
         /\ \A i \in DOMAIN cpuData :
              /\ cpuData[i].CpuID \in DOMAIN machine
              /\ Place(DOMAIN machine, cpuData[i].CpuID) = i
              /\ cpuData[i] = HwthreadEntry(machine, cpuData[i].CpuID)
         /\ \A c \in DOMAIN machine :
              /\ Place(DOMAIN machine, c) \in DOMAIN cpuData
              /\ cpuData[Place(DOMAIN machine, c)].CpuID = c
<1> DEFINE T == DOMAIN machine
           threads == SortedList(T)
<1>1. /\ machine \in Machines
      /\ cpuData = [i \in DOMAIN threads |-> HwthreadEntry(machine, threads[i])]
  BY DEF InitTopology
<1>2. T \subseteq Nat /\ IsFiniteSet(T) /\ T # {} /\ T \subseteq Int
  BY <1>1, TopologyAssumption
<1> HIDE DEF threads, T
<1>3. /\ Cardinality(T) \in Nat
      /\ DOMAIN threads = 1..Cardinality(T)
      /\ \A i \in 1..Cardinality(T) : threads[i] \in T /\ Place(T, threads[i]) = i
      /\ \A c \in T : Place(T, c) \in 1..Cardinality(T) /\ threads[Place(T, c)] = c
  BY <1>2, SortedListIs DEF threads
<1>4. Cardinality(T) # 0
  BY <1>2, FS_EmptySet
<1>5. \A i \in DOMAIN threads : cpuData[i] = HwthreadEntry(machine, threads[i])
  BY <1>1
<1>6. \A i \in DOMAIN threads : cpuData[i].CpuID = threads[i]
  <2>1. \A m, c : HwthreadEntry(m, c).CpuID = c
    BY DEF HwthreadEntry
  <2> QED
    BY <1>5, <2>1
<1>7. DOMAIN cpuData = 1..Cardinality(T)
  BY <1>1, <1>3
<1> QED
  BY <1>1, <1>2, <1>3, <1>4, <1>5, <1>6, <1>7 DEF T

\* The first place of c in a list.
LEMMA SelectIs ==
  ASSUME NEW list, Len(list) \in Nat, NEW c
  PROVE  LET I == {i \in 1..Len(list) : list[i] = c}
             k == SelectInSeq(list, LAMBDA x : x = c)
         IN /\ I = {} => k = 0
            /\ I # {} => k \in I
<1> DEFINE I == {i \in 1..Len(list) : list[i] = c}
           k == SelectInSeq(list, LAMBDA x : x = c)
<1>1. k = IF I # {} THEN Min(I) ELSE 0
  BY DEF SelectInSeq
<1>2. I # {} => Min(I) \in I
  <2>1. I \subseteq Nat
    OBVIOUS
  <2> HIDE DEF I
  <2> QED
    BY <2>1, MinIn
<1> QED
  BY <1>1, <1>2

\* IndexOf() in a list.
LEMMA IndexIs ==
  ASSUME NEW list, Len(list) \in Nat, DOMAIN list = 1..Len(list), NEW c
  PROVE  /\ IndexOf(list, c) \in Int
         /\ c \in ToSet(list) => /\ IndexOf(list, c) + 1 \in DOMAIN list
                                 /\ list[IndexOf(list, c) + 1] = c
<1> DEFINE I == {i \in 1..Len(list) : list[i] = c}
           k == SelectInSeq(list, LAMBDA x : x = c)
<1>1. (I = {} => k = 0) /\ (I # {} => k \in I)
  BY SelectIs
<1>2. c \in ToSet(list) <=> I # {}
  BY DEF ToSet
<1>3. IndexOf(list, c) = IF c \in ToSet(list) THEN k - 1 ELSE -1
  BY DEF IndexOf
<1> QED
  BY <1>1, <1>2, <1>3

\* The entries hold integers.
LEMMA FieldsAreInts ==
  ASSUME InitTopology, NEW i \in DOMAIN cpuData
  PROVE  /\ cpuData[i].CpuID \in Int /\ cpuData[i].SMT \in Int
         /\ cpuData[i].Core \in Int /\ cpuData[i].Socket \in Int
         /\ cpuData[i].Die \in Int /\ cpuData[i].NumaDomain \in Int
         /\ cpuData[i].CoreCPUsList \in Seq(Nat)
<1> DEFINE c == cpuData[i].CpuID
<1>1. /\ machine \in Machines /\ c \in DOMAIN machine /\ c \in Int
      /\ cpuData[i] = HwthreadEntry(machine, c)
  BY CpuDataIs
<1> HIDE DEF c
<1>2. machine[c] \in Files
  BY <1>1, TopologyAssumption
<1>3. IndexOf(machine[c].siblings, c) \in Int
  BY <1>2, IndexIs DEF Files
<1> QED
  BY <1>1, <1>2, <1>3 DEF HwthreadEntry, Files, c

\* The sorted lists, and those without an order of their own.
LEMMA ListsAre ==
  ASSUME InitTopology
  PROVE  /\ HwthreadList = SortedList(DOMAIN machine)
         /\ \A type \in TopologyType \ {"node"} :
              LET ids == {cpuData[i][FieldOf[type]] : i \in DOMAIN cpuData}
              IN /\ ids \subseteq Int /\ IsFiniteSet(ids)
                 /\ GetTypeList(type) = SortedList(ids)
                 /\ ToSet(GetTypeList(type)) = ids
<1>1. \A type \in TopologyType \ {"node"} :
        GetTypeList(type)
          = SortedList({cpuData[i][FieldOf[type]] : i \in DOMAIN cpuData})
  <2> DEFINE all(field) == SortedList({cpuData[i][field] : i \in DOMAIN cpuData})
  <2>1. lists = [hwthread |-> all("CpuID"), core |-> all("Core"),
                 socket |-> all("Socket"), die |-> all("Die"),
                 memoryDomain |-> all("NumaDomain"), smt |-> all("SMT")]
    BY DEF InitTopology
  <2> HIDE DEF all
  <2>2. \A type \in TopologyType \ {"node"} : GetTypeList(type) = all(FieldOf[type])
    BY <2>1 DEF GetTypeList, TopologyType, FieldOf
  <2> QED
    BY <2>2 DEF all
<1>2. ASSUME NEW type \in TopologyType \ {"node"}
      PROVE  {cpuData[i][FieldOf[type]] : i \in DOMAIN cpuData} \subseteq Int
  BY FieldsAreInts DEF TopologyType, FieldOf
<1>3. ASSUME NEW type \in TopologyType \ {"node"}
      PROVE  IsFiniteSet({cpuData[i][FieldOf[type]] : i \in DOMAIN cpuData})
  <2> DEFINE n == Cardinality(DOMAIN machine)
             f == [i \in 1..n |-> cpuData[i][FieldOf[type]]]
  <2>1. n \in Nat /\ DOMAIN cpuData = 1..n
    BY CpuDataIs
  <2>2. IsFiniteSet({f[i] : i \in 1..n})
    BY <2>1, ImageFinite
  <2>3. \A i \in 1..n : f[i] = cpuData[i][FieldOf[type]]
    OBVIOUS
  <2> HIDE DEF n, f
  <2>4. {f[i] : i \in 1..n} = {cpuData[i][FieldOf[type]] : i \in DOMAIN cpuData}
    BY <2>1, <2>3
  <2> QED
    BY <2>2, <2>4
<1>4. HwthreadList = SortedList(DOMAIN machine)
  <2>1. HwthreadList = SortedList({cpuData[i].CpuID : i \in DOMAIN cpuData})
    BY DEF InitTopology, HwthreadList
  <2>2. {cpuData[i].CpuID : i \in DOMAIN cpuData} = DOMAIN machine
    BY CpuDataIs
  <2> QED
    BY <2>1, <2>2
<1> QED
  BY <1>1, <1>2, <1>3, <1>4, SortedListIs

\* The entries with an id in a field.
With(field, id) == {i \in DOMAIN cpuData : cpuData[i][field] = id}

\* The threads with that id, in ascending order.
LEMMA ThreadsWithIs ==
  ASSUME InitTopology, NEW field, NEW id
  PROVE  /\ ToSet(ThreadsWith(field, id)) = {cpuData[i].CpuID : i \in With(field, id)}
         /\ DOMAIN ThreadsWith(field, id) = 1..Cardinality(With(field, id))
         /\ With(field, id) # {} =>
              \E i \in With(field, id) :
                /\ ThreadsWith(field, id)[1] = cpuData[i].CpuID
                /\ \A j \in With(field, id) : i <= j
<1> DEFINE found == SortedList(With(field, id))
           W == With(field, id)
<1>1. ThreadsWith(field, id) = [k \in DOMAIN found |-> cpuData[found[k]].CpuID]
  BY DEF ThreadsWith, With
<1>2. W \subseteq Int /\ IsFiniteSet(W)
  <2>1. /\ Cardinality(DOMAIN machine) \in Nat
        /\ DOMAIN cpuData = 1..Cardinality(DOMAIN machine)
    BY CpuDataIs
  <2>2. W \in SUBSET (1..Cardinality(DOMAIN machine))
    BY <2>1 DEF With
  <2>3. IsFiniteSet(1..Cardinality(DOMAIN machine))
    BY <2>1, FS_Interval
  <2>4. IsFiniteSet(W)
    BY <2>2, <2>3, FS_Subset
  <2>5. W \subseteq Int
    BY <2>1, <2>2
  <2> QED
    BY <2>4, <2>5
<1> HIDE DEF found, W
<1>3. /\ Cardinality(W) \in Nat
      /\ DOMAIN found = 1..Cardinality(W)
      /\ \A k \in 1..Cardinality(W) : found[k] \in W /\ Place(W, found[k]) = k
      /\ \A i \in W : Place(W, i) \in 1..Cardinality(W) /\ found[Place(W, i)] = i
      /\ ToSet(found) = W
  BY <1>2, SortedListIs DEF found, W
<1>4. ToSet(ThreadsWith(field, id)) = {cpuData[i].CpuID : i \in W}
  BY <1>1, <1>3 DEF ToSet
<1>5. ASSUME W # {}
      PROVE  /\ 1 \in DOMAIN found /\ found[1] \in W
             /\ \A j \in W : found[1] <= j
  <2>1. Cardinality(W) # 0
    BY <1>2, <1>5, FS_EmptySet
  <2>2. 1 \in DOMAIN found /\ found[1] \in W /\ Place(W, found[1]) = 1
    BY <1>3, <2>1
  <2>3. ASSUME NEW j \in W
        PROVE  found[1] <= j
    <3>1. Place(W, j) \in Int /\ Place(W, j) >= 1
      BY <1>3
    <3>2. j < found[1] => Place(W, j) < Place(W, found[1])
      BY <1>2, <2>2, PlaceOrder
    <3>3. found[1] \in Int /\ j \in Int
      BY <1>2, <2>2
    <3>4. ~(j < found[1])
      BY <2>2, <3>1, <3>2
    <3> QED
      BY <3>3, <3>4
  <2> QED
    BY <2>2, <2>3
<1> QED
  BY <1>1, <1>3, <1>4, <1>5 DEF W

\* A thread is looked up by its number.
LEMMA ThreadAt ==
  ASSUME InitTopology, NEW c \in DOMAIN machine
  PROVE  SelectInSeq(cpuData, LAMBDA h : h.CpuID = c) = Place(DOMAIN machine, c)
<1> DEFINE i == Place(DOMAIN machine, c)
           k == SelectInSeq(cpuData, LAMBDA h : h.CpuID = c)
           I == {j \in 1..Len(cpuData) : cpuData[j].CpuID = c}
<1>1. I = {i}
  <2>1. /\ i \in DOMAIN cpuData /\ cpuData[i].CpuID = c
        /\ \A j \in DOMAIN cpuData : cpuData[j].CpuID = c => j = i
    BY CpuDataIs
  <2>2. 1..Len(cpuData) = DOMAIN cpuData
    BY CpuDataIs DEF InitTopology
  <2> HIDE DEF i
  <2> QED
    BY <2>1, <2>2
<1>2. i \in Nat
  BY CpuDataIs
<1>3. k = IF I # {} THEN Min(I) ELSE 0
  BY DEF SelectInSeq
<1> HIDE DEF i
<1>4. Min({i}) = i
  BY <1>2 DEF Min
<1> HIDE DEF I, k
<1>5. k = i
  BY <1>1, <1>3, <1>4
<1> QED
  BY <1>5 DEF k, i

\* What the getters for one thread return is in its own entry of CpuInfo.
LEMMA IdIs ==
  ASSUME InitTopology, NEW c \in DOMAIN machine, NEW type
  PROVE  GetHwthreadId(c, type) = cpuData[Place(DOMAIN machine, c)][FieldOf[type]]
<1> DEFINE k == SelectInSeq(cpuData, LAMBDA h : h.CpuID = c)
<1>1. k = Place(DOMAIN machine, c)
  BY ThreadAt
<1>2. GetHwthreadId(c, type) = IF k = 0 THEN -1 ELSE cpuData[k][FieldOf[type]]
  BY DEF GetHwthreadId
<1> HIDE DEF k
<1>3. k # 0
  BY <1>1, CpuDataIs
<1> QED
  BY <1>1, <1>2, <1>3

\* The types with an id in the entries, and the two without.
LEMMA GroupIs ==
  ASSUME InitTopology, NEW id
  PROVE  /\ GetTypeHwthreads("node", id) = HwthreadList
         /\ GetTypeHwthreads("hwthread", id) = <<id>>
         /\ \A type \in TopologyType \ {"node", "hwthread"} :
              /\ GetTypeHwthreads(type, id) = ThreadsWith(FieldOf[type], id)
              /\ ToSet(GetTypeHwthreads(type, id))
                   = {cpuData[i].CpuID : i \in With(FieldOf[type], id)}
<1>1. GetTypeHwthreads("node", id) = HwthreadList
  BY DEF GetTypeHwthreads
<1>2. GetTypeHwthreads("hwthread", id) = <<id>>
  BY DEF GetTypeHwthreads
<1>3. \A type \in TopologyType \ {"node", "hwthread"} :
        GetTypeHwthreads(type, id) = ThreadsWith(FieldOf[type], id)
  BY DEF GetTypeHwthreads
<1> QED
  BY <1>1, <1>2, <1>3, ThreadsWithIs

\* Each thread is found where its own id says.
LEMMA ThreadFound ==
  ASSUME InitTopology, NEW type \in TopologyType, NEW i \in DOMAIN cpuData
  PROVE  LET id == GetTypeId(cpuData[i], type)
         IN /\ id \in ToSet(GetTypeList(type))
            /\ cpuData[i].CpuID \in ToSet(GetTypeHwthreads(type, id))
            /\ type # "node" => id = GetHwthreadId(cpuData[i].CpuID, type)
<1> DEFINE id == GetTypeId(cpuData[i], type)
<1>0. \A x : ToSet(<<x>>) = {x}
  BY DEF ToSet
<1>1. CASE type = "node"
  <2>1. id = 0 /\ GetTypeList(type) = <<0>>
    BY <1>1 DEF GetTypeId, GetTypeList
  <2>2. GetTypeHwthreads(type, id) = SortedList(DOMAIN machine)
    BY <1>1, GroupIs, ListsAre
  <2>3. /\ cpuData[i].CpuID \in DOMAIN machine
        /\ DOMAIN machine \subseteq Int /\ IsFiniteSet(DOMAIN machine)
    BY CpuDataIs
  <2>4. ToSet(SortedList(DOMAIN machine)) = DOMAIN machine
    BY <2>3, SortedListIs
  <2> QED
    BY <1>0, <1>1, <2>1, <2>2, <2>3, <2>4
<1>2. CASE type # "node"
  <2>1. id = cpuData[i][FieldOf[type]]
    BY <1>2 DEF GetTypeId
  <2>2. id \in ToSet(GetTypeList(type))
    BY <1>2, <2>1, ListsAre
  <2>3. id = GetHwthreadId(cpuData[i].CpuID, type)
    <3>1. /\ cpuData[i].CpuID \in DOMAIN machine
          /\ Place(DOMAIN machine, cpuData[i].CpuID) = i
      BY CpuDataIs
    <3> QED
      BY <2>1, <3>1, IdIs
  <2>4. cpuData[i].CpuID \in ToSet(GetTypeHwthreads(type, id))
    <3>1. CASE type = "hwthread"
      <4>1. id = cpuData[i].CpuID
        BY <2>1, <3>1 DEF FieldOf
      <4> HIDE DEF id
      <4> QED
        BY <1>0, <3>1, <4>1, GroupIs
    <3>2. CASE type # "hwthread"
      <4>1. i \in With(FieldOf[type], id)
        BY <2>1 DEF With
      <4> HIDE DEF id
      <4> QED
        BY <1>2, <3>2, <4>1, GroupIs
    <3> QED
      BY <3>1, <3>2
  <2> HIDE DEF id
  <2> QED
    BY <2>2, <2>3, <2>4 DEF id
<1> QED
  BY <1>1, <1>2

\* The lists of a type divide the threads among its ids.
LEMMA ThreadsDivided ==
  ASSUME InitTopology, NEW type \in TopologyType, NEW id \in ToSet(GetTypeList(type))
  PROVE  /\ GetTypeHwthreads(type, id) # <<>>
         /\ \A other \in ToSet(GetTypeList(type)) \ {id} :
              ToSet(GetTypeHwthreads(type, id))
                \cap ToSet(GetTypeHwthreads(type, other)) = {}
<1>0. (\A x : ToSet(<<x>>) = {x}) /\ ToSet(<<>>) = {}
  BY DEF ToSet
<1>1. CASE type = "node"
  <2>1. ToSet(GetTypeList(type)) = {0}
    BY <1>0, <1>1 DEF GetTypeList
  <2>2. GetTypeHwthreads(type, id) = SortedList(DOMAIN machine)
    BY <1>1, GroupIs, ListsAre
  <2>3. /\ DOMAIN machine \subseteq Int /\ IsFiniteSet(DOMAIN machine)
        /\ DOMAIN machine # {}
    BY CpuDataIs, TopologyAssumption
  <2>4. ToSet(SortedList(DOMAIN machine)) = DOMAIN machine
    BY <2>3, SortedListIs
  <2> QED
    BY <1>0, <2>1, <2>2, <2>3, <2>4
<1>2. CASE type = "hwthread"
  <2>1. \A x : GetTypeHwthreads(type, x) = <<x>>
    BY <1>2, GroupIs
  <2> QED
    BY <1>0, <2>1
<1>3. CASE type \notin {"node", "hwthread"}
  <2>1. \A x : ToSet(GetTypeHwthreads(type, x))
                 = {cpuData[i].CpuID : i \in With(FieldOf[type], x)}
    BY <1>3, GroupIs
  <2>2. ToSet(GetTypeList(type)) = {cpuData[i][FieldOf[type]] : i \in DOMAIN cpuData}
    BY <1>3, ListsAre
  <2>3. With(FieldOf[type], id) # {}
    BY <2>2 DEF With
  <2>4. \A i, j \in DOMAIN cpuData : cpuData[i].CpuID = cpuData[j].CpuID => i = j
    BY CpuDataIs
  <2>5. \A other : other # id =>
          {cpuData[i].CpuID : i \in With(FieldOf[type], id)}
            \cap {cpuData[i].CpuID : i \in With(FieldOf[type], other)} = {}
    BY <2>4 DEF With
  <2>6. ToSet(GetTypeHwthreads(type, id)) # {}
    <3>1. PICK i : i \in With(FieldOf[type], id)
      BY <2>3
    <3>2. cpuData[i].CpuID \in ToSet(GetTypeHwthreads(type, id))
      BY <2>1, <3>1
    <3> QED
      BY <3>2
  <2>7. GetTypeHwthreads(type, id) # <<>>
    BY <1>0, <2>6
  <2>8. ASSUME NEW other, other # id
        PROVE  ToSet(GetTypeHwthreads(type, id))
                 \cap ToSet(GetTypeHwthreads(type, other)) = {}
    BY <2>1, <2>5, <2>8
  <2> QED
    BY <2>7, <2>8
<1> QED
  BY <1>1, <1>2, <1>3

\* The aggregator sees the same groups.
LEMMA SameForAggregator ==
  ASSUME InitTopology, NEW type \in TopologyType, NEW id
  PROVE  LET name == IF type = "memoryDomain" THEN "numadomain" ELSE type
             answer == AggregatorCpuList(name, id)
         IN answer.ok => answer.cpus = GetTypeHwthreads(type, id)
<1>1. CASE type = "node"
  BY <1>1, GroupIs DEF AggregatorCpuList
<1>2. CASE type \in {"hwthread", "die"}
  <2>1. AggregatorCpuList(type, id).ok = FALSE
    BY <1>2 DEF AggregatorCpuList
  <2> QED
    BY <1>2, <2>1
<1>3. CASE type \in {"socket", "memoryDomain", "core"}
  <2>1. /\ AggregatorCpuList("socket", id).cpus = ThreadsWith("Socket", id)
        /\ AggregatorCpuList("numadomain", id).cpus = ThreadsWith("NumaDomain", id)
        /\ AggregatorCpuList("core", id).cpus = ThreadsWith("Core", id)
    BY DEF AggregatorCpuList
  <2>2. GetTypeHwthreads(type, id) = ThreadsWith(FieldOf[type], id)
    BY <1>3, GroupIs
  <2> QED
    BY <1>3, <2>1, <2>2 DEF FieldOf
<1> QED
  BY <1>1, <1>2, <1>3 DEF TopologyType

\* The threads of a core have the same list, and are in it.
LEMMA CoreIs ==
  ASSUME InitTopology, NEW c \in DOMAIN machine
  PROVE  /\ machine[c].siblings \in Seq(Nat)
         /\ \A d \in ToSet(machine[c].siblings) :
              /\ c \in ToSet(machine[c].siblings)
              /\ d \in DOMAIN machine /\ machine[d].siblings = machine[c].siblings
<1>1. machine \in Machines
  BY CpuDataIs
<1> QED
  BY <1>1, TopologyAssumption DEF Files

\* They differ in their SMT id.
LEMMA SMTDiffers ==
  ASSUME InitTopology, NEW i \in DOMAIN cpuData, NEW j \in DOMAIN cpuData, i # j,
         cpuData[j].CpuID \in CoreOf(machine, cpuData[i].CpuID)
  PROVE  cpuData[i].SMT # cpuData[j].SMT
<1> DEFINE c == cpuData[i].CpuID
           d == cpuData[j].CpuID
           list == machine[c].siblings
<1>1. c \in DOMAIN machine /\ d \in DOMAIN machine /\ c # d
  BY CpuDataIs
<1>2. d \in ToSet(list)
  BY <1>1 DEF CoreOf
<1>3. machine[d].siblings = list /\ c \in ToSet(list) /\ list \in Seq(Nat)
  BY <1>1, <1>2, CoreIs
<1>4. cpuData[i].SMT = IndexOf(list, c) /\ cpuData[j].SMT = IndexOf(list, d)
  <2>1. \A m, x : HwthreadEntry(m, x).SMT = IndexOf(m[x].siblings, x)
    BY DEF HwthreadEntry
  <2> QED
    BY <1>3, <2>1, CpuDataIs
<1> HIDE DEF c, d, list
<1>5. list[IndexOf(list, c) + 1] = c /\ list[IndexOf(list, d) + 1] = d
  BY <1>2, <1>3, IndexIs
<1> QED
  BY <1>1, <1>4, <1>5

\* The counts of threads and sockets are those of the machine.
LEMMA CountsAgree ==
  ASSUME InitTopology
  PROVE  /\ CpuInfo.NumHWthreads = Cardinality(DOMAIN machine)
         /\ CpuInfo.NumSockets = Cardinality({machine[c].socket : c \in DOMAIN machine})
<1>1. DOMAIN machine \subseteq Int /\ IsFiniteSet(DOMAIN machine)
  BY CpuDataIs
<1>2. Len(lists.hwthread) = Cardinality(DOMAIN machine)
  BY <1>1, ListsAre, SortedListIs DEF HwthreadList
<1> DEFINE ids == {cpuData[i]["Socket"] : i \in DOMAIN cpuData}
<1>3. ids = {machine[c].socket : c \in DOMAIN machine}
  <2>1. \A m, x : HwthreadEntry(m, x).Socket = m[x].socket
    BY DEF HwthreadEntry
  <2> QED
    BY <2>1, CpuDataIs
<1>4. ids \subseteq Int /\ IsFiniteSet(ids) /\ lists.socket = SortedList(ids)
  <2>1. /\ "socket" \in TopologyType \ {"node"} /\ FieldOf["socket"] = "Socket"
        /\ GetTypeList("socket") = lists.socket
    BY DEF TopologyType, FieldOf, GetTypeList
  <2> QED
    BY <2>1, ListsAre
<1> HIDE DEF ids
<1>5. Len(lists.socket) = Cardinality(ids)
  BY <1>4, SortedListIs
<1> QED
  BY <1>2, <1>3, <1>5 DEF CpuInfo

\* The getters agree on every machine as it is read at the start.
LEMMA InitAgrees == InitTopology => GettersAgree
  BY ThreadFound, ThreadsDivided, SameForAggregator, SMTDiffers, CountsAgree
  DEF GettersAgree
-----------------------------------------------------------------------------
(* Thread indices. *)

\* The indices of the threads are 0 to their number less 1, one for each.
LEMMA TidsAre ==
  ASSUME InitTopology
  PROVE  /\ ToSet(HwthreadList) = DOMAIN machine
         /\ Tids = 0..(Cardinality(DOMAIN machine) - 1) /\ IsFiniteSet(Tids)
         /\ DOMAIN Cpu2tid = DOMAIN machine
         /\ \A c \in DOMAIN machine :
              Cpu2tid[c] = Place(DOMAIN machine, c) - 1 /\ Cpu2tid[c] \in Tids
         /\ Range(Cpu2tid) = Tids
<1> DEFINE T == DOMAIN machine
           n == Cardinality(T)
<1>1. T \subseteq Int /\ IsFiniteSet(T) /\ HwthreadList = SortedList(T)
  BY CpuDataIs, ListsAre
<1> HIDE DEF T
<1>2. /\ n \in Nat /\ Len(HwthreadList) = n /\ DOMAIN HwthreadList = 1..n
      /\ ToSet(HwthreadList) = T
      /\ \A i \in 1..n : HwthreadList[i] \in T /\ Place(T, HwthreadList[i]) = i
  BY <1>1, SortedListIs
<1> HIDE DEF n
<1>3. Tids = 0..(n - 1) /\ IsFiniteSet(Tids)
  BY <1>2, FS_Interval DEF Tids
<1>4. ASSUME NEW c \in T
      PROVE  /\ IndexOf(HwthreadList, c) = Place(T, c) - 1
             /\ IndexOf(HwthreadList, c) \in Tids
  <2>1. /\ IndexOf(HwthreadList, c) \in Int
        /\ IndexOf(HwthreadList, c) + 1 \in 1..n
        /\ HwthreadList[IndexOf(HwthreadList, c) + 1] = c
    BY <1>2, IndexIs
  <2>2. Place(T, c) = IndexOf(HwthreadList, c) + 1
    BY <1>2, <2>1
  <2> QED
    BY <1>2, <1>3, <2>1, <2>2
<1>5. /\ DOMAIN Cpu2tid = T
      /\ \A c \in T : Cpu2tid[c] = Place(T, c) - 1 /\ Cpu2tid[c] \in Tids
  BY <1>2, <1>4 DEF Cpu2tid
<1>6. Range(Cpu2tid) = Tids
  <2>1. ASSUME NEW t \in Tids
        PROVE  t \in Range(Cpu2tid)
    <3>1. t + 1 \in 1..n
      BY <1>2, <1>3
    <3>2. /\ HwthreadList[t + 1] \in T
          /\ Place(T, HwthreadList[t + 1]) - 1 = (t + 1) - 1
      BY <1>2, <3>1
    <3>3. (t + 1) - 1 = t
      BY <1>2, <1>3
    <3> QED
      BY <1>5, <3>2, <3>3 DEF Range
  <2>2. Range(Cpu2tid) \subseteq Tids
    BY <1>5 DEF Range
  <2> QED
    BY <2>1, <2>2
<1> QED
  BY <1>2, <1>3, <1>5, <1>6 DEF T, n

\* The library names the first thread of each socket.
LEMMA SocketTids ==
  ASSUME InitTopology, NEW s \in DOMAIN Sock2tid
  PROVE  \E c \in DOMAIN machine :
           /\ machine[c].socket = s /\ Sock2tid[s] = Cpu2tid[c]
           /\ \A d \in DOMAIN machine : machine[d].socket = s => c <= d
<1>0. s \in ToSet(SocketList)
  BY DEF Sock2tid
<1>1. ToSet(SocketList) = {cpuData[i]["Socket"] : i \in DOMAIN cpuData}
  <2>1. /\ "socket" \in TopologyType \ {"node"} /\ FieldOf["socket"] = "Socket"
        /\ GetTypeList("socket") = SocketList
    BY DEF TopologyType, FieldOf, GetTypeList, SocketList
  <2> QED
    BY <2>1, ListsAre
<1>2. With("Socket", s) # {}
  BY <1>0, <1>1 DEF With
<1>3. PICK i \in With("Socket", s) :
        /\ ThreadsWith("Socket", s)[1] = cpuData[i].CpuID
        /\ \A j \in With("Socket", s) : i <= j
  BY <1>2, ThreadsWithIs
<1>4. \A j \in DOMAIN cpuData : /\ cpuData[j].CpuID \in DOMAIN machine
                                /\ cpuData[j]["Socket"] = machine[cpuData[j].CpuID].socket
  <2>1. \A m, x : HwthreadEntry(m, x).Socket = m[x].socket
    BY DEF HwthreadEntry
  <2> QED
    BY <2>1, CpuDataIs
<1> DEFINE c == cpuData[i].CpuID
<1>5. c \in DOMAIN machine /\ machine[c].socket = s
  BY <1>3, <1>4 DEF With
<1>6. ASSUME NEW d \in DOMAIN machine, machine[d].socket = s
      PROVE  c <= d
  <2> DEFINE j == Place(DOMAIN machine, d)
  <2>1. j \in DOMAIN cpuData /\ cpuData[j].CpuID = d
    BY CpuDataIs
  <2>2. j \in With("Socket", s)
    BY <1>4, <1>6, <2>1 DEF With
  <2>3. i <= j /\ Place(DOMAIN machine, c) = i /\ i \in Int /\ j \in Int
    BY <1>3, <2>1, <2>2, CpuDataIs DEF With
  <2>4. d < c => j < i
    BY <1>5, <2>3, PlaceOrder, CpuDataIs
  <2>5. c \in Int /\ d \in Int
    BY <1>5, CpuDataIs
  <2> QED
    BY <2>3, <2>4, <2>5
<1>7. Sock2tid[s] = Cpu2tid[c]
  BY <1>3 DEF Sock2tid
<1> QED
  BY <1>5, <1>6, <1>7

\* Whatever a metric is measured per, it is per indices of threads.
LEMMA ScopeTids ==
  ASSUME InitTopology, NEW type
  PROVE  Range(Scope(type)) \subseteq Tids
<1>1. CASE type = "socket"
  <2>1. \A s \in DOMAIN Sock2tid : Sock2tid[s] \in Tids
    BY SocketTids, TidsAre
  <2> QED
    BY <1>1, <2>1 DEF Scope, Range
<1>2. CASE type # "socket"
  BY <1>2, TidsAre DEF Scope
<1> QED
  BY <1>1, <1>2
-----------------------------------------------------------------------------
(* The types. *)

\* The place in the code, the lock file, the library, and what the actors wait for.
ControlOK ==
  /\ pc \in Watching \cup {"idle", "lock", "watch", "calc", "global", "crashed"}
  /\ set \in EventSet
  /\ lock_err_once \in BOOLEAN
  /\ lib \in {"off", "on", "running"}
  /\ owner \in {"none", "me", "other"}
  /\ watched \in BOOLEAN
  /\ events \in Seq({"chmod", "write"})
  /\ events # <<>> => pc \in Watching /\ watched
  /\ sigchan \in {"none", "empty", "full"}
  /\ changes \in 0..MaxChanges /\ reads \in 0..MaxReads
  /\ done \subseteq ToSet(Step)
  /\ noticed \in BOOLEAN
  /\ outcome \in {"none", "good", "failed"}

Number == Int \cup {NaN}

\* The results, the metrics derived from them, and the messages.
DataOK ==
  /\ raw \in [Tids -> {Count(t) : t \in Tids} \cup {NaN}]
  /\ DOMAIN groups \subseteq EventSet
  /\ \A e \in DOMAIN groups : /\ DOMAIN groups[e] \subseteq Tids
                              /\ Range(groups[e]) \subseteq Number
  /\ \A m \in sent : m.set \in 0..NumSets /\ m.value \in Int

\* The type invariant is that of the control and that of the data.
LEMMA TypeParts == LikwidTypeOK <=> ControlOK /\ DataOK /\ ChannelOpen
  BY DEF LikwidTypeOK, ControlOK, DataOK, ChannelOpen, Number

\* The event sets are numbered from 1.
LEMMA Sets ==
  /\ NumSets \in Nat \ {0} /\ EventSet = 1..NumSets /\ IsFiniteSet(EventSet)
<1>1. NumSets \in Nat \ {0} /\ EventSet = 1..NumSets
  BY LikwidAssumption DEF NumSets, EventSet
<1> QED
  BY <1>1, FS_Interval

\* The environment.
LEMMA EnvironmentControl ==
  ASSUME ControlOK,
         (\E o \in {"me", "other"} : ChangeOwner(o)) \/ WriteLockFile \/ Signal
  PROVE  ControlOK'
<1>1. /\ UNCHANGED <<pc, set, lock_err_once, lib, watched, reads, done, noticed, outcome>>
      /\ changes' \in 0..MaxChanges
  <2>1. Change
    BY DEF ChangeOwner, WriteLockFile, Signal
  <2> QED
    BY <2>1, LikwidAssumption DEF Change, collectorVars, ControlOK
<1>2. owner' \in {"none", "me", "other"}
  BY DEF ChangeOwner, WriteLockFile, Signal, ControlOK
<1>3. events' \in Seq({"chmod", "write"}) /\ (events' # <<>> => pc \in Watching /\ watched)
  <2>1. \/ events' = events
        \/ pc \in Watching /\ watched /\ events' = Append(events, "chmod")
        \/ pc \in Watching /\ watched /\ events' = Append(events, "write")
    BY DEF ChangeOwner, WriteLockFile, Signal
  <2> QED
    BY <2>1 DEF ControlOK
<1>4. sigchan' \in {"none", "empty", "full"}
  BY DEF ChangeOwner, WriteLockFile, Signal, ControlOK
<1> QED
  BY <1>1, <1>2, <1>3, <1>4 DEF ControlOK

\* Read() begins; the lock file.
LEMMA LockControl ==
  ASSUME ControlOK, StartRead \/ CheckLock \/ LockFails \/ Watch
  PROVE  ControlOK'
<1>1. {"idle", "lock", "watch"} \cap Watching = {} /\ "init" \in Watching
  BY StepOrder DEF Watching
<1>2. pc \in {"idle", "lock", "watch"}
  BY DEF StartRead, CheckLock, LockFails, Watch
<1>3. events = <<>> /\ UNCHANGED <<events, lib, changes, outcome>>
  BY <1>1, <1>2
  DEF StartRead, CheckLock, LockFails, Watch, ControlOK, environmentVars
<1>4. sigchan' \in {"none", "empty", "full"} /\ watched' \in BOOLEAN
  BY DEF StartRead, CheckLock, LockFails, Watch, ControlOK, environmentVars
<1>5. /\ pc' \in {"lock", "idle", "watch", "global", "init"} /\ set' \in EventSet
      /\ lock_err_once' \in BOOLEAN
      /\ done' \subseteq ToSet(Step) /\ noticed' \in BOOLEAN
  <2>1. CASE StartRead
    BY <2>1, Sets DEF StartRead, ControlOK
  <2>2. CASE CheckLock
    <3>1. ASSUME NextSet(DOMAIN groups)
          PROVE  set' \in EventSet /\ pc' \in {"lock", "global", "idle"}
      BY <3>1, Sets DEF NextSet, ControlOK
    <3> QED
      BY <2>2, <3>1 DEF CheckLock, ControlOK
  <2>3. CASE LockFails \/ Watch
    BY <2>3 DEF LockFails, Watch, ControlOK, collectorVars
  <2> QED
    BY <2>1, <2>2, <2>3
<1>6. reads' \in 0..MaxReads
  BY LikwidAssumption DEF StartRead, CheckLock, LockFails, Watch, ControlOK
<1>7. owner' \in {"none", "me", "other"}
  BY DEF StartRead, CheckLock, LockFails, Watch, ControlOK, environmentVars
<1> QED
  BY <1>1, <1>3, <1>4, <1>5, <1>6, <1>7 DEF ControlOK

\* The calls of the library.
LEMMA MeasureControl ==
  ASSUME ControlOK, NEW p \in ToSet(Step), Measure(p)
  PROVE  ControlOK'
<1>0. UNCHANGED <<lock_err_once, set, owner, changes, watched, reads>>
  BY DEF Measure, CallLibrary, Succeed, Fail, stepVars, environmentVars
<1>1. CASE Fail
  <2>1. <<>> \in Seq({"chmod", "write"})
    OBVIOUS
  <2>2. /\ pc' = "idle" /\ events' = <<>> /\ outcome' = "failed"
        /\ UNCHANGED <<lib, done, noticed>>
    BY <1>1 DEF Fail
  <2>3. sigchan' \in {"none", "empty", "full"}
    BY DEF Measure, CallLibrary, Succeed, ControlOK
  <2> QED
    BY <1>0, <2>1, <2>2, <2>3 DEF ControlOK
<1>2. CASE ~Fail
  <2>1. Succeed(p)
    BY <1>2 DEF Measure, CallLibrary
  <2>2. pc' \in Watching \cup {"calc"}
    BY <2>1, StepOrder DEF Succeed, Watching
  <2>3. sigchan' \in {"none", "empty", "full"}
    BY <2>1 DEF Succeed, ControlOK
  <2>4. outcome' \in {"none", "good", "failed"}
    BY <2>1 DEF Succeed, ControlOK
  <2>5. events' \in Seq({"chmod", "write"}) /\ (events' # <<>> => pc' \in Watching /\ watched)
    <3>1. \/ events # <<>> /\ events' = IF pc' \in Watching THEN Tail(events) ELSE <<>>
          \/ events = <<>> /\ events' = <<>>
      BY <1>2 DEF Measure
    <3>2. /\ <<>> \in Seq({"chmod", "write"})
          /\ events # <<>> => Tail(events) \in Seq({"chmod", "write"}) /\ watched
      BY DEF ControlOK
    <3> QED
      BY <3>1, <3>2
  <2>6. lib' \in {"off", "on", "running"} /\ done' \subseteq ToSet(Step)
        /\ noticed' \in BOOLEAN
    BY <1>2 DEF Measure, CallLibrary, LibAfter, ControlOK
  <2> QED
    BY <1>0, <2>2, <2>3, <2>4, <2>5, <2>6 DEF ControlOK
<1> QED
  BY <1>1, <1>2

\* The results.
LEMMA ResultsControl ==
  ASSUME ControlOK, Store \/ CalcEventset \/ CalcGlobal
  PROVE  ControlOK'
<1>1. {"calc", "global"} \cap Watching = {} /\ {"store", "stop"} \subseteq Watching
  BY StepOrder DEF Watching
<1>2. CASE Store
  <2>1. UNCHANGED <<set, lock_err_once, lib, owner, changes, watched, sigchan, reads, done,
                    noticed, outcome>>
    BY <1>2 DEF Store, environmentVars
  <2>2. \/ pc' = "stop" /\ UNCHANGED events
        \/ pc' = "crashed" /\ events' = <<>>
    BY <1>2 DEF Store
  <2>3. pc = "store" /\ <<>> \in Seq({"chmod", "write"})
    BY <1>2 DEF Store
  <2> QED
    BY <1>1, <2>1, <2>2, <2>3 DEF ControlOK
<1>3. CASE CalcEventset
  <2>1. /\ pc = "calc" /\ NextSet(DOMAIN groups')
        /\ UNCHANGED <<lock_err_once, lib, owner, changes, watched, events, sigchan, reads,
                       done, noticed, outcome>>
    BY <1>3 DEF CalcEventset, environmentVars
  <2>2. set' \in EventSet /\ pc' \in {"lock", "global", "idle"}
    BY <2>1, Sets DEF NextSet, ControlOK
  <2> QED
    BY <1>1, <2>1, <2>2 DEF ControlOK
<1>4. CASE CalcGlobal
  <2>1. /\ pc = "global" /\ pc' = "idle"
        /\ UNCHANGED <<set, lock_err_once, lib, owner, changes, watched, events, sigchan,
                       reads, done, noticed, outcome>>
    BY <1>4 DEF CalcGlobal, environmentVars
  <2> QED
    BY <1>1, <2>1 DEF ControlOK
<1> QED
  BY <1>2, <1>3, <1>4

\* Nothing changes the machine while the program runs.
LEMMA TopologyStays ==
  ASSUME [LikwidNext]_vars
  PROVE  UNCHANGED topologyVars
  BY DEF LikwidNext, vars, ChangeOwner, WriteLockFile, Signal, Change, StartRead,
         CheckLock, LockFails, Watch, Measure, CallLibrary, Succeed, Fail, stepVars,
         Store, CalcEventset, CalcGlobal

\* The indices are those of the topology, which is read once.
LEMMA TidsStay ==
  ASSUME UNCHANGED topologyVars
  PROVE  /\ Tids' = Tids /\ Cpu2tid' = Cpu2tid /\ HwthreadList' = HwthreadList
         /\ machine' = machine
  BY DEF topologyVars, Tids, Cpu2tid, HwthreadList

\* What does not store, derive or send anything keeps the data.
LEMMA DataKept ==
  ASSUME DataOK, UNCHANGED topologyVars,
         \/ UNCHANGED <<raw, groups, sent>>
         \/ UNCHANGED raw /\ groups' = <<>> /\ sent' = {}
  PROVE  DataOK'
<1>1. Tids' = Tids
  BY TidsStay
<1>2. CASE UNCHANGED <<raw, groups, sent>>
  BY <1>1, <1>2 DEF DataOK
<1>3. CASE UNCHANGED raw /\ groups' = <<>> /\ sent' = {}
  BY <1>1, <1>3 DEF DataOK
<1> QED
  BY <1>2, <1>3

\* The results are counts of threads or NaN.
LEMMA StoreData ==
  ASSUME DataOK, Store
  PROVE  DataOK'
<1>1. Tids' = Tids /\ UNCHANGED <<groups, sent>>
  BY TidsStay DEF Store
<1>2. \/ UNCHANGED raw
      \/ \E bad : raw' = [t \in Tids |-> IF t \in bad THEN NaN ELSE Count(t)]
  BY DEF Store
<1>3. raw' \in [Tids -> {Count(t) : t \in Tids} \cup {NaN}]
  BY <1>2 DEF DataOK
<1> QED
  BY <1>1, <1>3 DEF DataOK

\* The metric of an event set has a number, or none, for each thread.
LEMMA DerivedType ==
  ASSUME InitTopology, DataOK, NEW metric
  PROVE  Derived(metric) \in [Tids -> Number]
<1>1. \A t \in Tids : Count(t) \in Int
  BY TidsAre DEF Count
<1>2. \A t \in Tids : raw[t] \in Number
  BY <1>1 DEF DataOK, Number
<1>3. \A t \in Tids : Valid(raw[t]) \in Number
  BY <1>2 DEF Valid, Number
<1> QED
  BY <1>3 DEF Derived, Number

\* Sums of what has a number.
LEMMA AddedType ==
  ASSUME InitTopology, NEW value, NEW tids \in SUBSET Tids,
         \A t \in tids : value[t] \in Int
  PROVE  Added(value, tids) \in Int
<1>1. IsFiniteSet(tids)
  BY TidsAre, FS_Subset
<1> QED
  BY <1>1, SumType DEF Added

\* The fields of a message.
LEMMA MessageIs ==
  ASSUME NEW e, NEW type, NEW id, NEW v, NEW of
  PROVE  /\ Message(e, type, id, v, of).set = e
         /\ Message(e, type, id, v, of).type = type
         /\ Message(e, type, id, v, of).id = id
         /\ Message(e, type, id, v, of).value = v
         /\ Message(e, type, id, v, of).of = of
  BY DEF Message

\* What is sent for the threads has a number.
LEMMA ThreadMessagesType ==
  ASSUME NEW e, NEW type, NEW value, NEW m \in ThreadMessages(e, type, value),
         \A t \in Range(Scope(type)) : value[t] \in Number
  PROVE  /\ m.set = e /\ m.value \in Int
         /\ \E i \in DOMAIN Scope(type) :
              /\ m = Message(e, type, IF type = "node" THEN -1 ELSE i,
                             value[Scope(type)[i]], "thread")
              /\ value[Scope(type)[i]] # NaN
<1>1. PICK i \in DOMAIN Scope(type) :
        /\ m = Message(e, type, IF type = "node" THEN -1 ELSE i,
                       value[Scope(type)[i]], "thread")
        /\ value[Scope(type)[i]] # NaN
  BY DEF ThreadMessages
<1>2. value[Scope(type)[i]] \in Int
  <2>1. Scope(type)[i] \in Range(Scope(type))
    BY DEF Range
  <2> QED
    BY <1>1, <2>1 DEF Number
<1> QED
  BY <1>1, <1>2, MessageIs

\* So have the totals.
LEMMA TotalsType ==
  ASSUME InitTopology, NEW e, NEW type, NEW group, NEW value,
         NEW counted \in SUBSET Tids, \A t \in counted : value[t] \in Int,
         NEW m \in Totals(e, type, group, counted, value)
  PROVE  /\ m.set = e /\ m.value \in Int
         /\ \E g \in {group[t] : t \in counted} :
              m = Message(e, type, g, Added(value, {t \in counted : group[t] = g}), "total")
<1> DEFINE added(g) == Added(value, {t \in counted : group[t] = g})
           ids == {group[t] : t \in counted}
<1>1. Totals(e, type, group, counted, value)
        = {Message(e, type, g, added(g), "total") : g \in ids}
  BY Zenon DEF Totals
<1>2. \A g : added(g) \in Int
  <2> SUFFICES ASSUME NEW g
               PROVE  added(g) \in Int
    OBVIOUS
  <2>1. {t \in counted : group[t] = g} \in SUBSET Tids
    OBVIOUS
  <2> QED
    BY <2>1, AddedType
<1> HIDE DEF added
<1>3. PICK g \in ids : m = Message(e, type, g, added(g), "total")
  BY <1>1
<1>4. m.set = e /\ m.value \in Int
  BY <1>2, <1>3, MessageIs
<1> QED
  BY <1>3, <1>4 DEF added

\* What is derived from an event set is a number or NaN, what is sent a number.
LEMMA CalcEventsetData ==
  ASSUME InitTopology, ControlOK, DataOK, CalcEventset
  PROVE  DataOK'
<1> DEFINE metric == Metrics[set]
           value == Derived(metric)
           counted == {t \in Range(Scope(metric.type)) :
                         value[t] # NaN /\ metric.publish}
           single == ThreadMessages(set, metric.type, value)
           cores == Totals(set, "core", Tid2core, counted, value)
           sockets == Totals(set, "socket", Tid2socket, counted, value)
           node == Message(set, "node", -1, Added(value, counted), "total")
<1>1. /\ sent' = sent \cup (IF metric.publish THEN single ELSE {})
                    \cup cores \cup sockets \cup {node}
      /\ groups' = [e \in DOMAIN groups \cup {set} |->
                      IF e # set THEN groups[e]
                      ELSE [t \in Computed(metric) |-> value[t]]]
      /\ UNCHANGED raw /\ UNCHANGED topologyVars
  BY DEF CalcEventset
<1>2. value \in [Tids -> Number] /\ Range(Scope(metric.type)) \subseteq Tids
  BY DerivedType, ScopeTids
<1>3. set \in EventSet /\ set \in 0..NumSets
  BY Sets DEF ControlOK
<1> HIDE DEF value, metric
<1>4. counted \in SUBSET Tids /\ \A t \in counted : value[t] \in Int
  BY <1>2 DEF Number
<1> HIDE DEF counted
<1>5. \A m \in single : m.set = set /\ m.value \in Int
  BY <1>2, ThreadMessagesType
<1>6. \A m \in cores \cup sockets : m.set = set /\ m.value \in Int
  BY <1>4, TotalsType
<1>7. node.set = set /\ node.value \in Int
  BY <1>4, AddedType, MessageIs
<1> HIDE DEF single, cores, sockets, node
<1>8. \A m \in sent' : m.set \in 0..NumSets /\ m.value \in Int
  BY <1>1, <1>3, <1>5, <1>6, <1>7 DEF DataOK
<1>9. DOMAIN groups' \subseteq EventSet
  BY <1>1, <1>3 DEF DataOK
<1>10. ASSUME NEW e \in DOMAIN groups'
       PROVE  DOMAIN groups'[e] \subseteq Tids /\ Range(groups'[e]) \subseteq Number
  <2>1. CASE e # set
    BY <1>1, <2>1 DEF DataOK
  <2>2. CASE e = set
    <3>1. groups'[e] = [t \in Computed(metric) |-> value[t]]
      BY <1>1, <2>2
    <3>2. Computed(metric) \subseteq Tids
      BY <1>2 DEF Computed
    <3> QED
      BY <1>2, <3>1, <3>2 DEF Range
  <2> QED
    BY <2>1, <2>2
<1>11. Tids' = Tids
  BY <1>1, TidsStay
<1> QED
  BY <1>1, <1>8, <1>9, <1>10, <1>11 DEF DataOK

\* A global metric has a number, or none.
LEMMA GlobalType ==
  ASSUME DataOK, NEW t
  PROVE  GlobalValue(t) \in Number
<1>1. CASE \E e \in EventSet : e \notin DOMAIN groups \/ t \notin DOMAIN groups[e]
  BY <1>1 DEF GlobalValue, Number
<1>2. CASE /\ \A e \in EventSet : e \in DOMAIN groups /\ t \in DOMAIN groups[e]
           /\ \E e \in EventSet : groups[e][t] = NaN
  BY <1>2 DEF GlobalValue, Number, Valid
<1>3. CASE /\ \A e \in EventSet : e \in DOMAIN groups /\ t \in DOMAIN groups[e]
           /\ \A e \in EventSet : groups[e][t] # NaN
  <2> DEFINE f == [e \in EventSet |-> groups[e][t]]
  <2>1. GlobalValue(t) = SumFunctionOnSet(f, EventSet)
    BY <1>3 DEF GlobalValue
  <2>2. ASSUME NEW e \in EventSet
        PROVE  f[e] \in Int
    <3>1. groups[e][t] \in Range(groups[e])
      BY <1>3 DEF Range
    <3> QED
      BY <1>3, <3>1 DEF DataOK, Number
  <2> HIDE DEF f
  <2>3. SumFunctionOnSet(f, EventSet) \in Int
    BY <2>2, Sets, SumType
  <2> QED
    BY <2>1, <2>3 DEF Number
<1> QED
  BY <1>1, <1>2, <1>3

\* What is sent of the global metric is a number, too.
LEMMA CalcGlobalData ==
  ASSUME InitTopology, DataOK, CalcGlobal
  PROVE  DataOK'
<1> DEFINE value == [t \in Range(Scope(GlobalMetric)) |-> GlobalValue(t)]
<1>1. /\ sent' = sent \cup ThreadMessages(0, GlobalMetric, value)
      /\ UNCHANGED <<raw, groups>> /\ UNCHANGED topologyVars
  BY DEF CalcGlobal
<1>2. \A t \in Range(Scope(GlobalMetric)) : value[t] \in Number
  BY GlobalType
<1> HIDE DEF value
<1>3. \A m \in ThreadMessages(0, GlobalMetric, value) : m.set = 0 /\ m.value \in Int
  BY <1>2, ThreadMessagesType
<1>4. 0 \in 0..NumSets
  BY Sets
<1>5. Tids' = Tids
  BY <1>1, TidsStay
<1> QED
  BY <1>1, <1>3, <1>4, <1>5 DEF DataOK

\* The topology stays what it was at the start, the control and the data typed.
LEMMA TypesInv == LikwidSpec => [](InitTopology /\ ControlOK /\ DataOK)
<1>1. LikwidInit => InitTopology /\ ControlOK /\ DataOK
  <2> SUFFICES ASSUME LikwidInit
               PROVE  InitTopology /\ ControlOK /\ DataOK
    OBVIOUS
  <2>1. ControlOK
    <3>1. <<>> \in Seq({"chmod", "write"})
      OBVIOUS
    <3>2. /\ pc = "idle" /\ set = 1 /\ lock_err_once = FALSE /\ lib = "off"
          /\ owner \in {"none", "me", "other"} /\ events = <<>> /\ watched = FALSE
          /\ sigchan = "none" /\ changes = 0 /\ reads = 0 /\ done = {} /\ noticed = FALSE
          /\ outcome = "none"
      BY DEF LikwidInit
    <3>3. set \in EventSet /\ changes \in 0..MaxChanges /\ reads \in 0..MaxReads
      BY <3>2, Sets, LikwidAssumption
    <3> QED
      BY <3>1, <3>2, <3>3 DEF ControlOK
  <2>2. DataOK
    BY DEF LikwidInit, DataOK
  <2> QED
    BY <2>1, <2>2 DEF LikwidInit
<1>2. InitTopology /\ ControlOK /\ DataOK /\ [LikwidNext]_vars
        => (InitTopology /\ ControlOK /\ DataOK)'
  <2> SUFFICES ASSUME InitTopology, ControlOK, DataOK, [LikwidNext]_vars
               PROVE  InitTopology' /\ ControlOK' /\ DataOK'
    OBVIOUS
  <2>0. UNCHANGED topologyVars
    BY TopologyStays
  <2>1. InitTopology'
    BY <2>0 DEF InitTopology, topologyVars
  <2>2. CASE UNCHANGED vars
    <3>1. UNCHANGED <<pc, set, lock_err_once, raw, groups, sent, lib, owner, changes,
                      watched, events, sigchan, reads, done, noticed, outcome>>
      BY <2>2 DEF vars, collectorVars, environmentVars
    <3>2. ControlOK'
      BY <3>1 DEF ControlOK
    <3> QED
      BY <2>0, <2>1, <3>1, <3>2, DataKept
  <2>3. CASE (\E o \in {"me", "other"} : ChangeOwner(o)) \/ WriteLockFile \/ Signal
    <3>1. UNCHANGED <<raw, groups, sent>>
      BY <2>3 DEF ChangeOwner, WriteLockFile, Signal, Change, collectorVars
    <3> QED
      BY <2>0, <2>1, <2>3, <3>1, DataKept, EnvironmentControl
  <2>4. CASE StartRead \/ CheckLock \/ LockFails \/ Watch
    <3>1. \/ UNCHANGED <<raw, groups, sent>>
          \/ UNCHANGED raw /\ groups' = <<>> /\ sent' = {}
      BY <2>4 DEF StartRead, CheckLock, LockFails, Watch, collectorVars
    <3> QED
      BY <2>0, <2>1, <2>4, <3>1, DataKept, LockControl
  <2>5. CASE \E p \in ToSet(Step) : Measure(p)
    <3>1. UNCHANGED <<raw, groups, sent>>
      BY <2>5 DEF Measure, CallLibrary, Succeed, Fail, stepVars
    <3> QED
      BY <2>0, <2>1, <2>5, <3>1, DataKept, MeasureControl
  <2>6. CASE Store
    BY <2>1, <2>6, StoreData, ResultsControl
  <2>7. CASE CalcEventset
    BY <2>1, <2>7, CalcEventsetData, ResultsControl
  <2>8. CASE CalcGlobal
    BY <2>1, <2>8, CalcGlobalData, ResultsControl
  <2> QED
    BY <2>2, <2>3, <2>4, <2>5, <2>6, <2>7, <2>8 DEF LikwidNext
<1> QED
  BY <1>1, <1>2, PTL DEF LikwidSpec

\* Every variable of the likwid collector keeps its type: notifications wait only
\* where takeMeasurement() takes them, the results are, for each index of a
\* thread, its count or NaN, and no message is sent without a number.
THEOREM LikwidTypeCorrect == LikwidSpec => []LikwidTypeOK
<1>1. LikwidInv => ChannelOpen
  BY DEF LikwidInv
<1> QED
  BY <1>1, LikwidInvariant, TypesInv, TypeParts, PTL

\* The getters of the topology agree with each other on every machine the kernel
\* can describe: each thread is found, the list per node is divided into those
\* per socket, and the likwid collector and the aggregator are told the same.
THEOREM GettersAgreeHolds == LikwidSpec => []GettersAgree
  BY TypesInv, InitAgrees, PTL
-----------------------------------------------------------------------------
(* The totals. *)

\* Thread indices are numbers of threads when these have no gaps.
LEMMA NoGaps ==
  ASSUME InitTopology, Tids \subseteq ToSet(HwthreadList)
  PROVE  /\ DOMAIN machine = Tids
         /\ \A c \in Tids : Cpu2tid[c] = c /\ CountOf(c) = Count(c)
<1> DEFINE T == DOMAIN machine
           n == Cardinality(T)
<1>1. /\ ToSet(HwthreadList) = T /\ Tids = 0..(n - 1)
      /\ \A c \in T : Cpu2tid[c] = Place(T, c) - 1
  BY TidsAre
<1>2. IsFiniteSet(T) /\ n \in Nat
  BY CpuDataIs
<1> HIDE DEF T
<1>3. T = Tids
  <2>1. Cardinality(0..(n - 1)) = n /\ 0..(n - 1) \in SUBSET T
    BY <1>1, <1>2, FS_Interval
  <2> QED
    BY <1>1, <1>2, <2>1, FS_Subset
<1> HIDE DEF n
<1>4. ASSUME NEW c \in Tids
      PROVE  Cpu2tid[c] = c /\ CountOf(c) = Count(c)
  <2>1. c \in Nat /\ c <= n - 1
    BY <1>1, <1>2
  <2>2. {y \in T : y <= c} = 0..c /\ {d \in T : d < c} = 0..(c - 1)
    BY <1>1, <1>2, <1>3, <2>1
  <2>3. Cardinality(0..c) = c + 1 /\ Cardinality(0..(c - 1)) = c
    BY <2>1, FS_Interval
  <2>4. Place(T, c) = c + 1
    BY <2>2, <2>3 DEF Place
  <2>5. Cpu2tid[c] = c
    BY <1>1, <1>3, <2>1, <2>4
  <2>6. CountOf(c) = Count(c)
    BY <2>2, <2>3 DEF CountOf, T
  <2> QED
    BY <2>5, <2>6
<1> QED
  BY <1>3, <1>4 DEF T

\* The entry of a thread has what the kernel shows for it.
LEMMA EntryIs ==
  ASSUME InitTopology, NEW c \in DOMAIN machine
  PROVE  /\ cpuData[Place(DOMAIN machine, c)]["Socket"] = machine[c].socket
         /\ cpuData[Place(DOMAIN machine, c)].CoreCPUsList = machine[c].siblings
<1> DEFINE i == Place(DOMAIN machine, c)
<1>1. cpuData[i] = HwthreadEntry(machine, c)
  BY CpuDataIs
<1>2. /\ HwthreadEntry(machine, c)["Socket"] = machine[c].socket
      /\ HwthreadEntry(machine, c).CoreCPUsList = machine[c].siblings
  BY DEF HwthreadEntry
<1> HIDE DEF i
<1>3. /\ cpuData[i]["Socket"] = machine[c].socket
      /\ cpuData[i].CoreCPUsList = machine[c].siblings
  BY <1>1, <1>2
<1> QED
  BY <1>3 DEF i

\* The groups of the totals are the sockets and the cores of the machine.
LEMMA SocketGroups ==
  ASSUME InitTopology, DOMAIN machine = Tids, NEW t \in Tids
  PROVE  Tid2socket[t] = machine[t].socket
<1>1. ToSet(HwthreadList) = DOMAIN machine
  BY TidsAre
<1>2. Tid2socket[t] = GetHwthreadId(t, "socket")
  BY <1>1 DEF Tid2socket
<1>3. FieldOf["socket"] = "Socket"
  BY DEF FieldOf
<1>4. GetHwthreadId(t, "socket") = cpuData[Place(DOMAIN machine, t)]["Socket"]
  BY <1>3, IdIs
<1> QED
  BY <1>2, <1>4, EntryIs

\* The core of a thread is the first of its siblings.
LEMMA CoreOfThread ==
  ASSUME InitTopology, DOMAIN machine = Tids, NEW t \in Tids
  PROVE  LET list == machine[t].siblings
         IN Tid2core[t] = IF list # <<>> THEN list[1] ELSE t
<1> DEFINE k == SelectInSeq(cpuData, LAMBDA h : h.CpuID = t)
           list == cpuData[k].CoreCPUsList
<1>1. ToSet(HwthreadList) = DOMAIN machine
  BY TidsAre
<1>2. Tid2core[t] = IF list # <<>> THEN list[1] ELSE t
  BY <1>1 DEF Tid2core
<1>3. k = Place(DOMAIN machine, t)
  BY ThreadAt
<1> HIDE DEF k
<1>4. list = machine[t].siblings
  BY <1>3, EntryIs
<1> QED
  BY <1>2, <1>4

\* Threads have the same entry for the core exactly when they share a core.
LEMMA CoreGroups ==
  ASSUME InitTopology, DOMAIN machine = Tids, NEW u \in Tids, NEW t \in Tids
  PROVE  /\ Tid2core[u] \in DOMAIN machine
         /\ Tid2core[t] = Tid2core[u] <=> t \in CoreOf(machine, Tid2core[u])
<1> DEFINE sib(c) == machine[c].siblings
           g == Tid2core[u]
<1>1. \A c \in Tids : /\ sib(c) \in Seq(Nat)
                      /\ \A d \in ToSet(sib(c)) : /\ c \in ToSet(sib(c))
                                                  /\ d \in Tids /\ sib(d) = sib(c)
  BY CoreIs
<1>2. \A c \in Tids : Tid2core[c] = IF sib(c) # <<>> THEN sib(c)[1] ELSE c
  BY CoreOfThread
<1>3. CoreOf(machine, g) = {g} \cup ToSet(sib(g))
  BY DEF CoreOf
<1> HIDE DEF sib
<1>4. \A c \in Tids : sib(c) # <<>> => sib(c)[1] \in ToSet(sib(c))
  BY <1>1 DEF ToSet
<1>5. ToSet(<<>>) = {}
  BY DEF ToSet
<1>6. g \in Tids /\ (sib(u) # <<>> => sib(g) = sib(u) /\ g = sib(u)[1])
                 /\ (sib(u) = <<>> => g = u)
  BY <1>1, <1>2, <1>4
<1> HIDE DEF g
<1>7. ASSUME t \in {g} \cup ToSet(sib(g))
      PROVE  Tid2core[t] = g
  <2>1. CASE sib(u) = <<>>
    BY <1>2, <1>5, <1>6, <1>7, <2>1
  <2>2. CASE sib(u) # <<>>
    <3>1. sib(t) = sib(g)
      BY <1>1, <1>6, <1>7
    <3> QED
      BY <1>2, <1>6, <2>2, <3>1
  <2> QED
    BY <2>1, <2>2
<1>8. ASSUME Tid2core[t] = g
      PROVE  t \in {g} \cup ToSet(sib(g))
  <2>1. CASE sib(t) = <<>>
    BY <1>2, <1>8, <2>1
  <2>2. CASE sib(t) # <<>>
    <3>1. g \in ToSet(sib(t))
      BY <1>2, <1>4, <1>8, <2>2
    <3> QED
      BY <1>1, <3>1
  <2> QED
    BY <2>1, <2>2
<1> QED
  BY <1>3, <1>6, <1>7, <1>8 DEF g

\* What is invalid counts for nothing.
RawIs == \A t \in Tids : raw[t] \in {Count(t), NaN}

\* A total over the threads cs of the machine is what has been counted for them.
LEMMA TotalIs ==
  ASSUME InitTopology, RawIs, Tids \subseteq ToSet(HwthreadList),
         NEW e, NEW cs \in SUBSET Tids
  PROVE  LET value == Derived(Metrics[e])
         IN Added(value, {t \in cs : value[t] # NaN}) = Expected(e, cs)
<1> DEFINE value == Derived(Metrics[e])
           A == {t \in cs : value[t] # NaN}
           B == {c \in cs : raw[Cpu2tid[c]] # NaN}
           count == [c \in cs |-> CountOf(c)]
<1>1. /\ IsFiniteSet(A) /\ A \subseteq Tids
  <2>1. A \in SUBSET Tids
    OBVIOUS
  <2> HIDE DEF A
  <2> QED
    BY <2>1, TidsAre, FS_Subset
<1>2. \A c \in Tids : Cpu2tid[c] = c /\ CountOf(c) = Count(c) /\ Count(c) \in Int
  <2>1. \A c \in Tids : Cpu2tid[c] = c /\ CountOf(c) = Count(c)
    BY NoGaps
  <2>2. \A c \in Tids : Count(c) \in Int
    BY TidsAre DEF Count
  <2> QED
    BY <2>1, <2>2
<1>3. NaN \notin Int
  BY LikwidAssumption
<1>4. CASE Metrics[e].calc = "good"
  <2>1. \A t \in Tids : value[t] = Valid(raw[t])
    BY <1>4 DEF Derived
  <2>2. \A t \in cs : raw[t] \in {Count(t), NaN} /\ Count(t) \in Int /\ t \in Tids
    BY <1>2 DEF RawIs
  <2>3. \A c \in cs : Cpu2tid[c] = c
    BY <1>2
  <2> HIDE DEF value
  <2>4. B \in SUBSET A /\ \A x \in A \ B : value[x] = 0
    BY <1>3, <2>1, <2>2, <2>3 DEF Valid
  <2>5. \A x \in B : value[x] = count[x] /\ count[x] \in Int
    BY <1>2, <1>3, <2>1, <2>2, <2>3 DEF Valid
  <2> HIDE DEF A, B, count
  <2>6. SumFunctionOnSet(value, A) = SumFunctionOnSet(count, B)
    BY <1>1, <2>4, <2>5, SumPart
  <2> QED
    BY <1>4, <2>6 DEF Added, Expected, A, B, count, value
<1>5. CASE Metrics[e].calc # "good"
  <2>1. \A x \in A : value[x] = 0
    BY <1>5 DEF Derived
  <2> HIDE DEF value, A
  <2>2. SumFunctionOnSet(value, A) = SumFunctionOnSet(value, {})
    BY <1>1, <2>1, SumPart
  <2> QED
    BY <1>5, <2>2, SumEmpty DEF Added, Expected, A, value
<1> QED
  BY <1>4, <1>5

\* A total over one thread is its own value.
LEMMA OneIs ==
  ASSUME InitTopology, RawIs, DataOK, Tids \subseteq ToSet(HwthreadList),
         NEW e, NEW c \in Tids, Derived(Metrics[e])[c] # NaN
  PROVE  Expected(e, {c}) = Derived(Metrics[e])[c]
<1> DEFINE value == Derived(Metrics[e])
<1>1. value[c] \in Int
  BY DerivedType DEF Number
<1>2. {t \in {c} : value[t] # NaN} = {c}
  OBVIOUS
<1>3. Added(value, {t \in {c} : value[t] # NaN}) = Expected(e, {c})
  BY TotalIs
<1> HIDE DEF value
<1>4. SumFunctionOnSet(value, {c}) = value[c]
  BY <1>1, SumOne
<1> QED
  BY <1>2, <1>3, <1>4 DEF Added, value

\* The message for a group: which one it is follows from its type and its id.
Made(type, id, value, counted) ==
  CASE type = "core" ->
         Message(set, "core", id, Added(value, {t \in counted : Tid2core[t] = id}), "total")
    [] type = "socket" ->
         Message(set, "socket", id, Added(value, {t \in counted : Tid2socket[t] = id}), "total")
    [] type = "node" -> Message(set, "node", -1, Added(value, counted), "total")
    [] OTHER -> Message(set, "hwthread", id, value[Cpu2tid[id]], "thread")

\* The threads that count for a metric.
Counted(metric) ==
  {t \in Range(Scope(metric.type)) : Derived(metric)[t] # NaN /\ metric.publish}

\* What CalcEventset adds to the messages.
LEMMA NewMessages ==
  ASSUME InitTopology, DataOK, CalcEventset, NEW m \in sent' \ sent
  PROVE  LET metric == Metrics[set]
             value == Derived(metric)
             counted == Counted(metric)
         IN \/ m \in ThreadMessages(set, metric.type, value)
            \/ \E type \in {"core", "socket"} :
                 \E g \in {(IF type = "core" THEN Tid2core ELSE Tid2socket)[t] :
                             t \in counted} :
                   m = Made(type, g, value, counted)
            \/ m = Made("node", -1, value, counted)
<1> DEFINE metric == Metrics[set]
           value == Derived(metric)
           counted == Counted(metric)
           single == ThreadMessages(set, metric.type, value)
           cores == Totals(set, "core", Tid2core, counted, value)
           sockets == Totals(set, "socket", Tid2socket, counted, value)
           node == Message(set, "node", -1, Added(value, counted), "total")
<1>1. sent' = sent \cup (IF metric.publish THEN single ELSE {})
                   \cup cores \cup sockets \cup {node}
  BY DEF CalcEventset, Counted
<1>2. counted \in SUBSET Tids /\ \A t \in counted : value[t] \in Int
  <2>1. value \in [Tids -> Number] /\ Range(Scope(metric.type)) \subseteq Tids
    BY DerivedType, ScopeTids
  <2> HIDE DEF metric
  <2> QED
    BY <2>1 DEF Number, Counted
<1> HIDE DEF metric, value, counted
<1>3. m \in cores => \E g \in {Tid2core[t] : t \in counted} :
                       m = Made("core", g, value, counted)
  BY <1>2, TotalsType DEF Made
<1>4. m \in sockets => \E g \in {Tid2socket[t] : t \in counted} :
                         m = Made("socket", g, value, counted)
  BY <1>2, TotalsType DEF Made
<1>5. m = node => m = Made("node", -1, value, counted)
  BY DEF Made
<1> HIDE DEF single, cores, sockets, node
<1>6. m \in single \/ m \in cores \/ m \in sockets \/ m = node
  BY <1>1
<1> QED
  BY <1>3, <1>4, <1>5, <1>6 DEF single, metric, value, counted

\* The threads a message is about.
Threads(m) ==
  CASE m.of = "thread" -> {m.id}
    [] m.of = "total" /\ m.type = "core" ->
         UNION {CoreOf(machine, c) : c \in {m.id} \cap DOMAIN machine}
    [] m.of = "total" /\ m.type = "socket" -> InSocket(m.id)
    [] OTHER -> DOMAIN machine

\* The messages of a metric that is measured per hardware thread.
LEMMA HwthreadTotals ==
  ASSUME InitTopology, RawIs, DataOK, Tids \subseteq ToSet(HwthreadList), CalcEventset,
         Metrics[set].type = "hwthread", Metrics[set].publish, NEW m \in sent' \ sent
  PROVE  /\ m.set = set
         /\ m = Made(m.type, m.id, Derived(Metrics[set]), Counted(Metrics[set]))
         /\ m.value = Expected(set, Threads(m))
<1> DEFINE value == Derived(Metrics[set])
           counted == Counted(Metrics[set])
<1>1. /\ DOMAIN machine = Tids /\ DOMAIN Cpu2tid = Tids /\ Range(Cpu2tid) = Tids
      /\ \A c \in Tids : Cpu2tid[c] = c
  BY NoGaps, TidsAre
<1>2. Scope("hwthread") = Cpu2tid
  BY DEF Scope
<1>3. counted = {t \in Tids : value[t] # NaN}
  BY <1>1, <1>2 DEF Counted
<1>4. \A cs \in SUBSET Tids : Added(value, {t \in cs : value[t] # NaN}) = Expected(set, cs)
  BY TotalIs
<1>5. CASE m \in ThreadMessages(set, "hwthread", value)
  <2>1. \A t \in Range(Scope("hwthread")) : value[t] \in Number
    BY <1>1, <1>2, DerivedType
  <2>2. PICK c \in DOMAIN Scope("hwthread") :
          /\ m = Message(set, "hwthread", c, value[Scope("hwthread")[c]], "thread")
          /\ value[Scope("hwthread")[c]] # NaN
    BY <1>5, <2>1, ThreadMessagesType
  <2>3. c \in Tids /\ m = Message(set, "hwthread", c, value[c], "thread") /\ value[c] # NaN
        /\ Cpu2tid[c] = c
    BY <1>1, <1>2, <2>2
  <2>4. Expected(set, {c}) = value[c]
    BY <2>3, OneIs
  <2>5. /\ m.set = set /\ m.type = "hwthread" /\ m.id = c /\ m.value = value[c]
        /\ m.of = "thread"
    BY <2>3, MessageIs
  <2> HIDE DEF value, counted
  <2>6. m = Made(m.type, m.id, value, counted)
    BY <2>3, <2>5 DEF Made
  <2>7. Threads(m) = {c}
    BY <2>5 DEF Threads
  <2> QED
    BY <2>4, <2>5, <2>6, <2>7 DEF value, counted
<1>6. ASSUME NEW g \in {Tid2core[t] : t \in counted}, m = Made("core", g, value, counted)
      PROVE  /\ m.set = set /\ m = Made(m.type, m.id, value, counted)
             /\ m.value = Expected(set, Threads(m))
  <2>1. PICK u \in Tids : g = Tid2core[u]
    BY <1>3
  <2> HIDE DEF value, counted
  <2>2. /\ m.set = set /\ m.type = "core" /\ m.id = g /\ m.of = "total"
        /\ m.value = Added(value, {t \in counted : Tid2core[t] = g})
    BY <1>6, MessageIs DEF Made
  <2>3. /\ g \in DOMAIN machine /\ CoreOf(machine, g) \subseteq Tids
        /\ \A t \in Tids : Tid2core[t] = g <=> t \in CoreOf(machine, g)
    <3>1. /\ g \in DOMAIN machine
          /\ \A t \in Tids : Tid2core[t] = g <=> t \in CoreOf(machine, g)
      BY <1>1, <2>1, CoreGroups
    <3>2. ToSet(machine[g].siblings) \subseteq DOMAIN machine
      BY <3>1, CoreIs
    <3> QED
      BY <1>1, <3>1, <3>2 DEF CoreOf
  <2>4. {t \in counted : Tid2core[t] = g} = {t \in CoreOf(machine, g) : value[t] # NaN}
    BY <1>3, <2>3
  <2>5. Threads(m) = CoreOf(machine, g)
    <3>1. Threads(m) = UNION {CoreOf(machine, c) : c \in {g} \cap DOMAIN machine}
      BY <2>2 DEF Threads
    <3> QED
      BY <2>3, <3>1
  <2> QED
    BY <1>4, <1>6, <2>2, <2>3, <2>4, <2>5
<1>7. ASSUME NEW g \in {Tid2socket[t] : t \in counted}, m = Made("socket", g, value, counted)
      PROVE  /\ m.set = set /\ m = Made(m.type, m.id, value, counted)
             /\ m.value = Expected(set, Threads(m))
  <2> HIDE DEF value, counted
  <2>1. /\ m.set = set /\ m.type = "socket" /\ m.id = g /\ m.of = "total"
        /\ m.value = Added(value, {t \in counted : Tid2socket[t] = g})
    BY <1>7, MessageIs DEF Made
  <2>2. \A t \in Tids : Tid2socket[t] = machine[t].socket
    BY <1>1, SocketGroups
  <2>3. InSocket(g) \in SUBSET Tids
    BY <1>1 DEF InSocket
  <2>4. {t \in counted : Tid2socket[t] = g} = {t \in InSocket(g) : value[t] # NaN}
    BY <1>1, <1>3, <2>2 DEF InSocket
  <2>5. Threads(m) = InSocket(g)
    BY <2>1 DEF Threads
  <2> QED
    BY <1>4, <1>7, <2>1, <2>3, <2>4, <2>5
<1>8. ASSUME m = Made("node", -1, value, counted)
      PROVE  /\ m.set = set /\ m = Made(m.type, m.id, value, counted)
             /\ m.value = Expected(set, Threads(m))
  <2> HIDE DEF value, counted
  <2>1. /\ m.set = set /\ m.type = "node" /\ m.id = -1 /\ m.of = "total"
        /\ m.value = Added(value, counted)
    BY <1>8, MessageIs DEF Made
  <2>2. Threads(m) = DOMAIN machine
    BY <2>1 DEF Threads
  <2> QED
    BY <1>1, <1>3, <1>4, <1>8, <2>1, <2>2
<1>9. \/ m \in ThreadMessages(set, "hwthread", value)
      \/ \E g \in {Tid2core[t] : t \in counted} : m = Made("core", g, value, counted)
      \/ \E g \in {Tid2socket[t] : t \in counted} : m = Made("socket", g, value, counted)
      \/ m = Made("node", -1, value, counted)
  BY NewMessages
<1> QED
  BY <1>5, <1>6, <1>7, <1>8, <1>9

\* The messages of a metric that is measured per socket.
LEMMA SocketMessages ==
  ASSUME InitTopology, RawIs, DataOK, Tids \subseteq ToSet(HwthreadList), CalcEventset,
         Metrics[set].type = "socket", NEW m \in sent' \ sent, m.of = "thread"
  PROVE  m.value = Expected(set, {c \in InSocket(m.id) :
                                    \A d \in InSocket(m.id) : c <= d})
<1> DEFINE value == Derived(Metrics[set])
           counted == Counted(Metrics[set])
<1>1. m \in ThreadMessages(set, "socket", value)
  <2>1. \A type \in {"core", "socket", "node"} : \A g :
          Made(type, g, value, counted).of = "total"
    BY MessageIs DEF Made
  <2> HIDE DEF value, counted
  <2>2. \/ m \in ThreadMessages(set, "socket", value)
        \/ \E type \in {"core", "socket", "node"} : \E g : m = Made(type, g, value, counted)
    BY NewMessages DEF value, counted
  <2> QED
    BY <2>1, <2>2
<1>2. \A t \in Range(Scope("socket")) : value[t] \in Number
  BY ScopeTids, DerivedType
<1>3. PICK s \in DOMAIN Scope("socket") :
        /\ m = Message(set, "socket", s, value[Scope("socket")[s]], "thread")
        /\ value[Scope("socket")[s]] # NaN
  BY <1>1, <1>2, ThreadMessagesType
<1>4. Scope("socket") = Sock2tid
  BY DEF Scope
<1>5. PICK c \in DOMAIN machine :
        /\ machine[c].socket = s /\ Sock2tid[s] = Cpu2tid[c]
        /\ \A d \in DOMAIN machine : machine[d].socket = s => c <= d
  BY <1>3, <1>4, SocketTids
<1>6. c \in Tids /\ Cpu2tid[c] = c /\ Sock2tid[s] = c
  BY <1>5, NoGaps
<1>7. m.id = s /\ m.value = value[c] /\ value[c] # NaN
  BY <1>3, <1>4, <1>6, MessageIs
<1>8. {x \in InSocket(s) : \A d \in InSocket(s) : x <= d} = {c}
  <2>1. DOMAIN machine \subseteq Int
    BY CpuDataIs
  <2>2. c \in InSocket(s) /\ \A d \in InSocket(s) : c <= d
    BY <1>5 DEF InSocket
  <2>3. InSocket(s) \subseteq Int
    BY <2>1 DEF InSocket
  <2> QED
    BY <2>2, <2>3
<1>9. Expected(set, {c}) = value[c]
  BY <1>6, <1>7, OneIs
<1> QED
  BY <1>7, <1>8, <1>9

\* Behind the results the numbers of the threads have no gaps.
Stored == pc \in {"stop", "finalize", "calc"} => Tids \subseteq ToSet(HwthreadList)

\* What has been sent in this Read() is of the event sets before this one.
SentBefore == pc \notin {"idle", "global", "crashed"} => \A m \in sent : m.set < set

TotalsInv == RawIs /\ Stored /\ SentBefore

\* What leaves the results, the place and the messages alone keeps the invariant.
LEMMA TotalsKept ==
  ASSUME TotalsInv, UNCHANGED topologyVars, UNCHANGED <<raw, sent>>,
         \/ UNCHANGED <<pc, set>>
         \/ /\ pc' \notin {"stop", "finalize", "calc"}
            /\ pc \notin {"idle", "global", "crashed"}
               \/ pc' \in {"idle", "global", "crashed"}
            /\ set' = set \/ (set' = set + 1 /\ set \in Int /\ \A m \in sent : m.set \in Int)
  PROVE  TotalsInv'
<1>1. Tids' = Tids /\ HwthreadList' = HwthreadList
  BY TidsStay
<1>2. RawIs'
  BY <1>1 DEF TotalsInv, RawIs
<1>3. Stored'
  BY <1>1 DEF TotalsInv, Stored
<1>4. SentBefore'
  BY DEF TotalsInv, SentBefore
<1> QED
  BY <1>2, <1>3, <1>4 DEF TotalsInv

\* The calls of the library before the results are read.
LEMMA TotalsMeasure ==
  ASSUME TotalsInv, NEW p \in ToSet(Step), Measure(p)
  PROVE  TotalsInv'
<1>1. UNCHANGED <<raw, sent, set>> /\ UNCHANGED topologyVars /\ pc = p
  BY DEF Measure, CallLibrary, Succeed, Fail, stepVars
<1>2. Tids' = Tids /\ HwthreadList' = HwthreadList
  BY <1>1, TidsStay
<1>3. pc' = "idle" \/ pc' = AfterStep(p)
  BY DEF Measure, CallLibrary, Succeed, Fail
<1>4. pc' \in {"stop", "finalize", "calc"} => p \in {"stop", "finalize"}
  BY <1>3, StepOrder
<1>5. p \notin {"idle", "global", "crashed"}
  BY StepOrder
<1>6. RawIs'
  BY <1>1, <1>2 DEF TotalsInv, RawIs
<1>7. Stored'
  BY <1>1, <1>2, <1>4 DEF TotalsInv, Stored
<1>8. SentBefore'
  BY <1>1, <1>5 DEF TotalsInv, SentBefore
<1> QED
  BY <1>6, <1>7, <1>8 DEF TotalsInv

\* Reading the results.
LEMMA TotalsStore ==
  ASSUME TotalsInv, Store
  PROVE  TotalsInv'
<1>1. UNCHANGED <<sent, set>> /\ UNCHANGED topologyVars /\ pc = "store"
  BY DEF Store
<1>2. Tids' = Tids /\ HwthreadList' = HwthreadList
  BY <1>1, TidsStay
<1>3. \/ UNCHANGED raw /\ pc' = "crashed"
      \/ /\ \E bad : raw' = [t \in Tids |-> IF t \in bad THEN NaN ELSE Count(t)]
         /\ pc' = "stop" /\ Tids \subseteq ToSet(HwthreadList)
  BY DEF Store
<1>4. RawIs'
  BY <1>2, <1>3 DEF TotalsInv, RawIs
<1>5. Stored' /\ SentBefore'
  BY <1>1, <1>2, <1>3 DEF TotalsInv, Stored, SentBefore
<1> QED
  BY <1>4, <1>5 DEF TotalsInv

\* Deriving and sending the metrics of an event set.
LEMMA TotalsCalc ==
  ASSUME LikwidInv, ControlOK, DataOK, TotalsInv, CalcEventset
  PROVE  TotalsInv'
<1>1. /\ UNCHANGED raw /\ UNCHANGED topologyVars /\ NextSet(DOMAIN groups') /\ pc = "calc"
  BY DEF CalcEventset
<1>2. Tids' = Tids
  BY <1>1, TidsStay
<1>3. RawIs'
  BY <1>1, <1>2 DEF TotalsInv, RawIs
<1>4. set \in Int /\ ((pc' = "lock" /\ set' = set + 1) \/ pc' \in {"global", "idle"})
  BY <1>1, Sets DEF NextSet, ControlOK
<1>5. \A m \in sent' : m.set <= set
  <2>1. \A m \in sent' \ sent : m.set = set
    BY CalcEventsetInv
  <2>2. \A m \in sent : m.set < set /\ m.set \in Int
    BY <1>1 DEF TotalsInv, SentBefore, DataOK
  <2> QED
    BY <1>4, <2>1, <2>2
<1>6. \A m \in sent' : m.set \in Int
  <2>1. \A m \in sent' \ sent : m.set = set
    BY CalcEventsetInv
  <2> QED
    BY <1>4, <2>1 DEF DataOK
<1>7. Stored' /\ SentBefore'
  BY <1>4, <1>5, <1>6 DEF Stored, SentBefore
<1> QED
  BY <1>3, <1>7 DEF TotalsInv

Types == InitTopology /\ ControlOK /\ DataOK

\* The invariant holds throughout.
LEMMA TotalsInvInv == LikwidSpec => []TotalsInv
<1>1. LikwidInit => TotalsInv
  BY DEF LikwidInit, TotalsInv, RawIs, Stored, SentBefore
<1>2. LikwidInv /\ Types /\ TotalsInv /\ [LikwidNext]_vars => TotalsInv'
  <2> SUFFICES ASSUME LikwidInv, Types, TotalsInv, [LikwidNext]_vars
               PROVE  TotalsInv'
    OBVIOUS
  <2>0. UNCHANGED topologyVars
    BY TopologyStays
  <2>1. CASE \/ \E o \in {"me", "other"} : ChangeOwner(o)
             \/ WriteLockFile \/ Signal \/ UNCHANGED vars
    <3>1. UNCHANGED <<raw, sent, pc, set>>
      BY <2>1 DEF ChangeOwner, WriteLockFile, Signal, Change, vars, collectorVars
    <3> QED
      BY <2>0, <3>1, TotalsKept
  <2>2. CASE StartRead
    <3>1. sent' = {} /\ UNCHANGED raw /\ pc' = "lock"
      BY <2>2 DEF StartRead
    <3>2. Tids' = Tids
      BY <2>0, TidsStay
    <3> QED
      BY <3>1, <3>2 DEF TotalsInv, RawIs, Stored, SentBefore
  <2>3. CASE CheckLock \/ LockFails \/ Watch
    <3>1. UNCHANGED <<raw, sent>> /\ pc \in {"lock", "watch"}
      BY <2>3 DEF CheckLock, LockFails, Watch, collectorVars
    <3>2. /\ pc' \notin {"stop", "finalize", "calc"}
          /\ set' = set \/ set' = set + 1
      BY <2>3 DEF CheckLock, LockFails, Watch, collectorVars, NextSet
    <3>3. set \in Int /\ \A m \in sent : m.set \in Int
      BY Sets DEF Types, ControlOK, DataOK
    <3> QED
      BY <2>0, <3>1, <3>2, <3>3, TotalsKept
  <2>4. CASE \E p \in ToSet(Step) : Measure(p)
    BY <2>4, TotalsMeasure
  <2>5. CASE Store
    BY <2>5, TotalsStore
  <2>6. CASE CalcEventset
    BY <2>6, TotalsCalc DEF Types
  <2>7. CASE CalcGlobal
    <3>1. UNCHANGED raw /\ pc' = "idle"
      BY <2>7 DEF CalcGlobal
    <3>2. Tids' = Tids
      BY <2>0, TidsStay
    <3> QED
      BY <3>1, <3>2 DEF TotalsInv, RawIs, Stored, SentBefore
  <2> QED
    BY <2>1, <2>2, <2>3, <2>4, <2>5, <2>6, <2>7 DEF LikwidNext
<1>3. Types <=> InitTopology /\ ControlOK /\ DataOK
  BY DEF Types
<1> QED
  BY <1>1, <1>2, <1>3, LikwidInvariant, TypesInv, PTL DEF LikwidSpec

\* What the likwid collector sends adds up, on every machine without gaps in its
\* numbering that the results could be stored for, and with every number of
\* event sets: the total of a core, a socket or the node is the sum of the counts
\* of its threads, each counted once, and no group is sent twice for one set.
THEOREM TotalsAddUpHolds == LikwidSpec => TotalsAddUp
<1>1. LikwidInv /\ Types /\ TotalsInv /\ [LikwidNext]_vars
        => [\A m \in sent' \ sent : AddsUp(m)]_vars
  <2> SUFFICES ASSUME LikwidInv, Types, TotalsInv, LikwidNext,
                      NEW m \in sent' \ sent, m.set > 0, Metrics[m.set].publish
               PROVE  AddsUp(m)
    BY DEF AddsUp
  <2>1. CASE CalcEventset
    <3>1. pc = "calc" /\ m.set = set
      BY <2>1, CalcEventsetInv DEF CalcEventset
    <3>2. Tids \subseteq ToSet(HwthreadList) /\ RawIs
      BY <3>1 DEF TotalsInv, Stored
    <3>3. ASSUME Metrics[set].type = "hwthread"
          PROVE  /\ m.value = Expected(set, Threads(m))
                 /\ \A n \in sent' :
                      n.set = m.set /\ n.type = m.type /\ n.id = m.id => n = m
      <4>1. \A n \in sent' \ sent :
              n = Made(n.type, n.id, Derived(Metrics[set]), Counted(Metrics[set]))
        BY <2>1, <3>1, <3>2, <3>3, HwthreadTotals DEF Types
      <4>2. \A n \in sent : n.set # set
        BY <3>1, Sets DEF TotalsInv, SentBefore, Types, DataOK, ControlOK
      <4>3. m.value = Expected(set, Threads(m))
        BY <2>1, <3>1, <3>2, <3>3, HwthreadTotals DEF Types
      <4> QED
        BY <3>1, <4>1, <4>2, <4>3
    <3>4. ASSUME Metrics[set].type = "socket", m.of = "thread"
          PROVE  m.value = Expected(set, {c \in InSocket(m.id) :
                                            \A d \in InSocket(m.id) : c <= d})
      BY <2>1, <3>2, <3>4, SocketMessages DEF Types
    <3> QED
      BY <3>1, <3>3, <3>4 DEF Threads, AddsUp
  <2>2. CASE CalcGlobal
    <3>1. m \in ThreadMessages(0, GlobalMetric,
                  [t \in Range(Scope(GlobalMetric)) |-> GlobalValue(t)])
      BY <2>2 DEF CalcGlobal
    <3>2. m.set = 0
      BY <3>1, SetOfMessages
    <3> QED
      BY <3>2
  <2>3. CASE ~CalcEventset /\ ~CalcGlobal
    <3>1. sent' = sent \/ sent' = {}
      BY <2>3 DEF LikwidNext, ChangeOwner, WriteLockFile, Signal, Change, StartRead,
                  CheckLock, LockFails, Watch, Measure, Store, CallLibrary, Succeed,
                  Fail, stepVars, collectorVars
    <3> QED
      BY <3>1
  <2> QED
    BY <2>1, <2>2, <2>3
<1>2. Types <=> InitTopology /\ ControlOK /\ DataOK
  BY DEF Types
<1>3. LikwidSpec => [][\A m \in sent' \ sent : AddsUp(m)]_vars
  BY <1>1, <1>2, LikwidInvariant, TypesInv, TotalsInvInv, PTL DEF LikwidSpec
<1> QED
  BY <1>3 DEF TotalsAddUp
=============================================================================
