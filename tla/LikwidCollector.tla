-------------------------- MODULE LikwidCollector --------------------------
(***************************************************************************)
(* collectors/likwidMetric.go: one Read() measures an event set after the  *)
(* other with the LIKWID library, while the owner of a lock file decides   *)
(* who may use the counters, and derives metrics from the results.         *)
(*                                                                         *)
(* Init() succeeded and a lock file is configured.  Each event set has one *)
(* metric.  A formula that can be computed is the count of the thread      *)
(* itself; the global metric adds the metrics of all event sets.  The      *)
(* library and the operating system are external: a call may fail, and     *)
(* signals and changes of the lock file come at any time.                  *)
(***************************************************************************)
EXTENDS CcTopology

CONSTANTS
  Metrics,        \* for each event set, its metric, and what its formula is
  GlobalMetric,   \* the type of the global metric
  InvalidToZero,  \* option invalid_to_zero
  NaN,            \* the value of a formula that divides by zero
  MaxReads,       \* bound on the calls of Read()
  MaxInvalid,     \* bound on the threads with an invalid count
  MaxChanges      \* bound on signals and changes of the lock file

EventSet == DOMAIN Metrics
NumSets == Len(Metrics)

ASSUME LikwidAssumption ==
  /\ Metrics \in Seq([type : {"node", "socket", "hwthread", "core", "memoryDomain"},
                      calc : {"good", "bad", "empty"}, publish : BOOLEAN])
  /\ \E e \in EventSet : Metrics[e].calc = "good"
  /\ GlobalMetric \in {"socket", "hwthread"}
  /\ InvalidToZero \in BOOLEAN
  /\ NaN \notin Int
  /\ MaxReads \in Nat /\ MaxInvalid \in Nat /\ MaxChanges \in Nat

VARIABLES
  pc,             \* where the measuring thread is
  set,            \* the event set it measures
  lock_err_once,  \* the error about the lock has been reported
  raw,            \* results of the event set, by thread index
  groups,         \* metrics of the event sets measured in this Read()
  sent,           \* messages of this Read()
  lib,            \* external: the counters as the library has them
  owner,          \* external: owner of the lock file
  events,         \* external: changes of the lock file the watcher holds
  watched,        \* external: the watcher has got the lock file
  sigchan,        \* external: the channel for signals of the last measurement
  changes,        \* external: signals and changes of the lock file so far
  reads,          \* history: calls of Read()
  done,           \* history: calls of the library that succeeded for this set
  noticed,        \* history: the watcher reported new attributes meanwhile
  outcome         \* history: how the last measurement ended

collectorVars == <<set, lock_err_once, raw, groups, sent>>
environmentVars == <<owner, changes, watched>>
vars == <<topologyVars, pc, collectorVars, lib, environmentVars, events, sigchan,
          reads, done, noticed, outcome>>

\* The places of takeMeasurement() that call the library, in order.
Step == <<"init", "add", "setup", "start", "first", "second", "stop", "finalize">>
Watching == ToSet(Step) \cup {"store"}
Notified == {"add", "setup", "start", "first", "second", "store", "stop"}

\* Thread indices; the library numbers the threads by their place in the list.
Tids == 0..(Len(HwthreadList) - 1)
Cpu2tid == [c \in ToSet(HwthreadList) |-> IndexOf(HwthreadList, c)]

\* The library names the first thread of a socket, if there is such a socket.
Sock2tid ==
  [s \in {i \in ToSet(SocketList) : i >= 0} |-> Cpu2tid[ThreadsWith("Socket", s)[1]]]

\* Mutant of Tid2core: the id of the core, which another socket has, too.
Tid2coreById == [c \in ToSet(HwthreadList) |-> GetHwthreadId(c, "core")]

\* Both maps are made by number of the thread, and looked up by index.
Tid2core ==
  [c \in ToSet(HwthreadList) |->
     LET list == cpuData[SelectInSeq(cpuData, LAMBDA h : h.CpuID = c)].CoreCPUsList
     IN IF list # <<>> THEN list[1] ELSE c]
Tid2socket == [c \in ToSet(HwthreadList) |-> GetHwthreadId(c, "socket")]

\* What the library counts for the thread with index tid.
Count(tid) == 2^tid

LikwidTypeOK ==
  /\ pc \in Watching \cup {"idle", "lock", "watch", "calc", "global", "crashed"}
  /\ set \in EventSet
  /\ lock_err_once \in BOOLEAN
  /\ raw \in [Tids -> {Count(t) : t \in Tids} \cup {NaN}]
  /\ DOMAIN groups \subseteq EventSet
  /\ \A e \in DOMAIN groups : /\ DOMAIN groups[e] \subseteq Tids
                              /\ Range(groups[e]) \subseteq Int \cup {NaN}
  /\ \A m \in sent : m.set \in 0..NumSets /\ m.value \in Int
  /\ lib \in {"off", "on", "running"}
  /\ owner \in {"none", "me", "other"}
  /\ watched \in BOOLEAN
  /\ events \in Seq({"chmod", "write"})
  /\ events # <<>> => pc \in Watching /\ watched
  /\ sigchan \in {"none", "empty", "full"}
  /\ pc \in Watching \cup {"watch"} => (sigchan = "none" <=> pc \notin Notified)
  /\ changes \in 0..MaxChanges /\ reads \in 0..MaxReads
  /\ done \subseteq ToSet(Step)
  /\ noticed \in BOOLEAN
  /\ outcome \in {"none", "good", "failed"}

LikwidInit ==
  /\ InitTopology
  /\ pc = "idle" /\ set = 1 /\ lock_err_once = FALSE
  /\ raw = [t \in Tids |-> NaN]
  /\ groups = <<>> /\ sent = {}
  /\ lib = "off" /\ owner \in {"none", "me", "other"}
  /\ events = <<>> /\ watched = FALSE /\ sigchan = "none" /\ changes = 0
  /\ reads = 0 /\ done = {} /\ noticed = FALSE /\ outcome = "none"
-----------------------------------------------------------------------------
(***************************************************************************)
(* The environment                                                         *)
(***************************************************************************)
Change ==
  /\ pc # "crashed"
  /\ changes < MaxChanges
  /\ changes' = changes + 1
  /\ UNCHANGED <<topologyVars, pc, collectorVars, lib, watched, reads, done, noticed,
                 outcome>>

\* likwid's users pass the counters on with chown.
ChangeOwner(o) ==
  /\ Change
  /\ owner # "none" /\ owner # o
  /\ owner' = o
  /\ events' = IF pc \in Watching /\ watched THEN Append(events, "chmod") ELSE events
  /\ UNCHANGED sigchan

WriteLockFile ==
  /\ Change
  /\ owner # "none" /\ pc \in Watching /\ watched
  /\ events' = Append(events, "write")
  /\ UNCHANGED <<owner, sigchan>>

\* SIGINT, or SIGCHLD because the command of another collector has ended.
Signal ==
  /\ Change
  /\ sigchan = "empty"
  /\ sigchan' = "full"
  /\ UNCHANGED <<owner, events>>
-----------------------------------------------------------------------------
(***************************************************************************)
(* Read()                                                                  *)
(***************************************************************************)
\* Mutant of StartRead: the list of the measured event sets is not a new one.
StartReadKeepsGroups ==
  /\ pc = "idle" /\ reads < MaxReads
  /\ reads' = reads + 1
  /\ pc' = "lock" /\ set' = 1
  /\ sent' = {}
  /\ UNCHANGED <<topologyVars, lock_err_once, raw, groups, lib, environmentVars, events,
                 sigchan, done, noticed, outcome>>

StartRead ==
  /\ pc = "idle" /\ reads < MaxReads
  /\ reads' = reads + 1
  /\ pc' = "lock" /\ set' = 1
  /\ groups' = <<>> /\ sent' = {}
  /\ UNCHANGED <<topologyVars, lock_err_once, raw, lib, environmentVars, events,
                 sigchan, done, noticed, outcome>>

\* After the last event set the global metrics are computed, if any event set
\* was measured.
NextSet(measured) ==
  IF set < NumSets THEN pc' = "lock" /\ set' = set + 1
  ELSE pc' = (IF measured # {} THEN "global" ELSE "idle") /\ UNCHANGED set

\* The lock file is created when it does not exist.  Of several sets, and
\* Read()s, that find it locked, only the first one is an error and ends the
\* Read(); the others skip the event set.  Each measurement has a channel for
\* signals of its own, and leaves the one of the measurement before alone.
CheckLock ==
  /\ pc = "lock"
  /\ owner' = IF owner = "none" THEN "me" ELSE owner
  /\ IF owner' = "other"
     THEN /\ lock_err_once' = TRUE
          /\ IF lock_err_once THEN NextSet(DOMAIN groups)
             ELSE pc' = "idle" /\ UNCHANGED set
          /\ UNCHANGED <<done, noticed, sigchan>>
     ELSE /\ lock_err_once' = FALSE
          /\ pc' = "watch"
          /\ done' = {} /\ noticed' = FALSE /\ sigchan' = "none"
          /\ UNCHANGED set
  /\ UNCHANGED <<topologyVars, raw, groups, sent, lib, changes, watched, events,
                 reads, outcome>>

\* The watcher or the lock file cannot be had.
LockFails ==
  /\ pc = "lock"
  /\ pc' = "idle"
  /\ UNCHANGED <<topologyVars, collectorVars, lib, environmentVars, events, sigchan,
                 reads, done, noticed, outcome>>

\* The owner may have changed since the check.  When the lock file cannot be
\* added to the watcher, this is logged, and the measurement goes on without.
Watch ==
  /\ pc = "watch"
  /\ pc' = "init"
  /\ watched' \in BOOLEAN
  /\ UNCHANGED <<topologyVars, collectorVars, lib, owner, changes, events, sigchan,
                 reads, done, noticed, outcome>>

stepVars == <<topologyVars, lock_err_once, set, raw, groups, sent, environmentVars, reads>>

\* Mutant of AfterStep: the library is not finalized.
AfterStepNoFinalize(p) ==
  IF p = "second" THEN "store" ELSE
  IF p \in {"stop", "finalize"} THEN "calc"
  ELSE Step[SelectInSeq(Step, LAMBDA s : s = p) + 1]

AfterStep(p) ==
  IF p = "second" THEN "store" ELSE
  IF p = "finalize" THEN "calc" ELSE Step[SelectInSeq(Step, LAMBDA s : s = p) + 1]

LibAfter(p) ==
  CASE p = "init" -> IF lib = "off" THEN "on" ELSE lib
    [] p = "start" -> "running"
    [] p = "stop" -> "on"
    [] p = "finalize" -> "off"
    [] OTHER -> lib

\* Mutant of Fail: the watcher stays open.
FailKeepsWatcher ==
  /\ pc' = "idle"
  /\ outcome' = "failed"
  /\ UNCHANGED <<stepVars, lib, done, noticed>>
  /\ events' = events

\* takeMeasurement() returns an error and Read() ends: what has been set up or
\* started stays as it is, and the channel is not taken off the signals.
Fail ==
  /\ pc' = "idle"
  /\ events' = <<>>
  /\ outcome' = "failed"
  /\ UNCHANGED <<stepVars, lib, done, noticed>>

\* The channel is for signals once the library is initialised, and no longer
\* when the counters are stopped.
Succeed(p) ==
  /\ pc' = AfterStep(p)
  /\ sigchan' = CASE p = "init" -> "empty" [] p = "stop" -> "none" [] OTHER -> sigchan
  /\ outcome' = IF p = "finalize" THEN "good" ELSE outcome
  /\ UNCHANGED stepVars

\* Mutant of CallLibrary: the result of perfmon_startCounters() is not looked at.
CallLibraryStartUnchecked(p) ==
  \/ /\ Succeed(p)
     /\ lib' = LibAfter(p)
     /\ done' = done \cup {p}
     /\ UNCHANGED noticed
  \/ p = "start" /\ Succeed(p) /\ UNCHANGED <<lib, done, noticed>>
  \/ p \notin {"start", "finalize"} /\ Fail /\ UNCHANGED sigchan

CallLibrary(p) ==
  \/ /\ Succeed(p)
     /\ lib' = LibAfter(p)
     /\ done' = done \cup {p}
     /\ UNCHANGED noticed
  \/ p # "finalize" /\ Fail /\ UNCHANGED sigchan

\* The select around each call.  New attributes of the lock file stop the
\* measurement before and while the events are added; later on the call is
\* left out, and the result of the one before stands for it.
Measure(p) ==
  /\ pc = p
  /\ \/ sigchan = "full" /\ Fail /\ sigchan' = "empty"
     \/ /\ events # <<>> /\ events[1] = "chmod"
        /\ IF p \in {"init", "add"} THEN Fail /\ UNCHANGED sigchan
           ELSE /\ Succeed(p)
                /\ noticed' = TRUE
                /\ events' = IF pc' \in Watching THEN Tail(events) ELSE <<>>
                /\ UNCHANGED <<lib, done>>
     \/ /\ events # <<>> /\ events[1] # "chmod"
        /\ CallLibrary(p)
        /\ events' = IF pc' \in Watching THEN Tail(events) ELSE <<>>
     \/ /\ events = <<>> /\ sigchan # "full"
        /\ CallLibrary(p)
        /\ UNCHANGED events

\* The results are stored by index in maps that were made by number of the
\* thread: an index without a thread of that number is a write to a nil map.
Store ==
  /\ pc = "store"
  /\ IF Tids \subseteq ToSet(HwthreadList)
     THEN /\ \E bad \in UNION {kSubset(k, Tids) : k \in 0..MaxInvalid} :
               raw' = [t \in Tids |-> IF t \in bad THEN NaN ELSE Count(t)]
          /\ pc' = "stop"
          /\ UNCHANGED events
     ELSE /\ pc' = "crashed" /\ events' = <<>>
          /\ UNCHANGED raw
  /\ UNCHANGED <<topologyVars, set, lock_err_once, groups, sent, lib, environmentVars,
                 sigchan, reads, done, noticed, outcome>>
-----------------------------------------------------------------------------
(***************************************************************************)
(* The metrics                                                             *)
(***************************************************************************)
Valid(v) == IF v = NaN /\ InvalidToZero THEN 0 ELSE v

\* Init() reports a formula that cannot be computed, but clears it in a copy of
\* the configuration only: the metric is computed with value 0.  One that is
\* empty in the configuration is skipped.
Derived(metric) ==
  [t \in Tids |-> CASE metric.calc = "good" -> Valid(raw[t])
                    [] metric.calc = "bad" -> 0
                    [] OTHER -> NaN]

\* The ids a metric of a type is sent for, with their thread indices.  Types
\* other than socket are sent for each hardware thread.
Scope(type) == IF type = "socket" THEN Sock2tid ELSE Cpu2tid

\* "all" is the id of a message of type node.
Message(e, type, id, v, of) ==
  [set |-> e, type |-> type, id |-> id, value |-> v, of |-> of]

ThreadMessages(e, type, value) ==
  {Message(e, type, IF type = "node" THEN -1 ELSE id, value[Scope(type)[id]], "thread") :
     id \in {i \in DOMAIN Scope(type) : value[Scope(type)[i]] # NaN}}

\* The values that count for the totals are added by the group of their index.
Added(value, tids) == SumFunctionOnSet(value, tids)

Totals(e, type, group, counted, value) ==
  {Message(e, type, g, Added(value, {t \in counted : group[t] = g}), "total") :
     g \in {group[t] : t \in counted}}

\* The threads that get a value of the metric for the global metrics.
Computed(metric) == IF metric.calc = "empty" THEN {} ELSE Range(Scope(metric.type))

\* calcEventsetMetrics(), with all totals configured.  The node total is sent
\* although there is nothing to add.
CalcEventset ==
  /\ pc = "calc"
  /\ LET metric == Metrics[set]
         value == Derived(metric)
         counted == {t \in Range(Scope(metric.type)) : value[t] # NaN /\ metric.publish}
     IN /\ sent' = sent
             \cup (IF metric.publish THEN ThreadMessages(set, metric.type, value) ELSE {})
             \cup Totals(set, "core", Tid2core, counted, value)
             \cup Totals(set, "socket", Tid2socket, counted, value)
             \cup {Message(set, "node", -1, Added(value, counted), "total")}
        /\ groups' = [e \in DOMAIN groups \cup {set} |->
                        IF e # set THEN groups[e]
                        ELSE [t \in Computed(metric) |-> value[t]]]
        /\ NextSet(DOMAIN groups')
  /\ UNCHANGED <<topologyVars, lock_err_once, raw, lib, environmentVars, events, sigchan,
                 reads, done, noticed, outcome>>

\* The formula needs the metric of every event set for the thread: when one is
\* missing, it fails, and the value is 0.
GlobalValue(t) ==
  IF \E e \in EventSet : e \notin DOMAIN groups \/ t \notin DOMAIN groups[e] THEN 0
  ELSE IF \E e \in EventSet : groups[e][t] = NaN THEN Valid(NaN)
  ELSE SumFunctionOnSet([e \in EventSet |-> groups[e][t]], EventSet)

\* calcGlobalMetrics()
CalcGlobal ==
  /\ pc = "global"
  /\ sent' = sent \cup ThreadMessages(0, GlobalMetric,
                       [t \in Range(Scope(GlobalMetric)) |-> GlobalValue(t)])
  /\ pc' = "idle"
  /\ UNCHANGED <<topologyVars, set, lock_err_once, raw, groups, lib, environmentVars,
                 events, sigchan, reads, done, noticed, outcome>>

LikwidNext ==
  \/ \E o \in {"me", "other"} : ChangeOwner(o)
  \/ WriteLockFile \/ Signal
  \/ StartRead \/ CheckLock \/ LockFails \/ Watch
  \/ \E p \in ToSet(Step) : Measure(p)
  \/ Store \/ CalcEventset \/ CalcGlobal

LikwidSpec == LikwidInit /\ [][LikwidNext]_vars
-----------------------------------------------------------------------------
(***************************************************************************)
(* Properties                                                              *)
(***************************************************************************)
\* The count of thread c, if it is to be sent.
CountOf(c) == Count(Cardinality({d \in DOMAIN machine : d < c}))

\* What the totals of a set add up to, for the threads cs of the machine.
Expected(e, cs) ==
  IF Metrics[e].calc = "good"
  THEN SumFunctionOnSet([c \in cs |-> CountOf(c)], {c \in cs : raw[Cpu2tid[c]] # NaN})
  ELSE 0

InSocket(s) == {c \in DOMAIN machine : machine[c].socket = s}

\* The messages agree with each other and with the machine.  Of a metric that is
\* measured per hardware thread each thread is sent with its own count, the total
\* of a core adds the threads of that core of that socket, and so on, and no
\* group is sent twice.  One that is measured per socket is sent with the count
\* of the first thread of the socket.
AddsUp(m) ==
  (m.set > 0 /\ Metrics[m.set].publish) =>
    /\ Metrics[m.set].type = "hwthread" =>
         /\ m.value = Expected(m.set,
              CASE m.of = "thread" -> {m.id}
                [] m.of = "total" /\ m.type = "core" ->
                     UNION {CoreOf(machine, c) : c \in {m.id} \cap DOMAIN machine}
                [] m.of = "total" /\ m.type = "socket" -> InSocket(m.id)
                [] OTHER -> DOMAIN machine)
         /\ \A n \in sent' :
              n.set = m.set /\ n.type = m.type /\ n.id = m.id => n = m
    /\ (Metrics[m.set].type = "socket" /\ m.of = "thread") =>
         m.value = Expected(m.set, {c \in InSocket(m.id) :
                                     \A d \in InSocket(m.id) : c <= d})

TotalsAddUp == [][\A m \in sent' \ sent : AddsUp(m)]_vars

\* A global metric has a value other than 0 only when all event sets were
\* measured by this Read(), whatever was skipped for the lock in between and
\* measured by an earlier one.
GlobalFromOneRead ==
  [][\A m \in sent' \ sent :
       m.set = 0 /\ m.value # 0 =>
         \A e \in EventSet : \E n \in sent : n.set = e]_vars

\* Metrics are computed only from a measurement of which every call to the
\* library succeeded, except those left out when the watcher reported new
\* attributes of the lock file.
MeasuredInFull ==
  pc = "calc" => done = ToSet(Step) \/ noticed

\* Between two Read()s the library has no counters set up or running, unless
\* the last measurement failed, or the lock file changed during it; and no
\* channel is left behind for signals, unless it failed.
CountersReleased ==
  pc \in {"idle", "lock"} =>
    /\ lib # "off" => outcome = "failed" \/ noticed
    /\ sigchan # "none" => outcome = "failed"

\* likwidMetric.md: "the collector subscribes to changes to this file to stop
\* monitoring if the owner of the lock file changes".  After the watcher has
\* reported the change, no counters are set up, started or read.
StopsWhenLocked ==
  [][noticed /\ owner = "other" =>
       done' \ done \subseteq {"stop", "finalize"}]_vars
=============================================================================
