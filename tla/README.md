# Formal models of cc-metric-collector

This directory holds TLA+ models of cc-metric-collector, the node agent of
ClusterCockpit: the modules, the TLC configurations that check them on small
instances, and proofs that TLAPS checks for every instance. Paths below are
relative to the root of the repository.

Run a check with `tlc -config <cfg> <module>` and a proof with `tlapm <module>`,
where the modules with theorems are `DataTheorems` and those that end in `_proofs`.

## 1. The program

At every interval the program reads a set of collectors and sends what they
measure through a router to the sinks. Everything runs in one process; the
parts are goroutines that meet at channels.

```
            time.Ticker
                |
        multi-channel ticker ------------------------------+
          | 1st channel    | 2nd channel                   | 3rd (cache)
          v                v                               v
       router <-coll- collector manager            metric cache --> aggregator
         |   <-recv- receivers                             |            |
         |   <--------------------------- cache_input ------------------+
         |   ------ Add() --------------------------------->
         v
       outputs -> sinks
```

| Part | Source | State | Operations | What makes it hard |
|---|---|---|---|---|
| multi-channel ticker | `pkg/multiChanTicker/multiChanTicker.go` | list of channels, the `time.Ticker`, `done` | `Init`, the fan-out goroutine, `AddChannel`, `Close` | `AddChannel` appends to the list while the goroutine ranges over it; the fan-out blocks on slow receivers; `Close` may find it blocked |
| collector manager | `collectors/collectorManager.go` | parallel and serial collectors, `parallel_run`, wait group | `Init`, `Start`, `AddOutput`, `Close` | `Close` while reads run or are being started; reads blocked on a full channel |
| metric router | `internal/metricRouter/metricRouter.go` | `timestamp`, three inputs, outputs, cache | `Init`, `Start`, the select loop, `Close` | several ready inputs, batches, slow sinks, the order of stamp and read |
| metric cache | `internal/metricRouter/metricCache.go` | ring of periods reused in place | `Init`, `Start`/`rotate`, `Add`, `GetPeriod`, `Close` | `Add` reads `curPeriod` without the lock; evaluation walks a list that `Add` writes |
| metric aggregator | `internal/metricAggregator/*.go` | list of functions, constants, language | `Init`, `Eval`, `AddAggregation`, `DeleteAggregation`, the functions | errors in the middle of a loop, results of an unexpected type, a send that does not wait |
| main and shutdown handler | `cc-metric-collector.go` | signal channel of capacity one, wait group | start sequence, `-once`, `shutdownHandler` | signals at any time, order of start and of shutdown, everybody blocked on everybody |
| topology | `pkg/ccTopology/ccTopology.go` | table of hardware threads, filled once | `init`, the getters | pure after the start; threads offline, missing files, numbers that repeat per socket |
| likwid collector | `collectors/likwidMetric.go` | event groups, counter results, lock-file watcher | `Init`, `Read`, `Close` | the lock file may change between any two calls of the C library |
| collectors with counters | `collectors/{infiniband,netstat,rapl,iostat,cpustat,lustre,gpfs,nfs,nfsiostat,schedstat,numastats}Metric.go` | last values and time of the last `Read` | `Read` | failing reads, wrapping counters, devices that come and go: value and time of the last read are renewed in different places |
| beegfs collectors | `collectors/beegfs{meta,storage}Metric.go` | the fields of the last output, per mount point | `Read` | the look-up of the fields |
| other collectors | the rest of `collectors/` | none between reads | `Read` | input and output only |
| sample timer collector | `collectors/sampleTimerMetric.go` | a goroutine with a timer of its own | `Init`, `Read`, `Close` | `Close` when the goroutine has ended |
| message processor, sinks, receivers, messages | cc-lib | external | | |

### What each part has to guarantee

* **Ticker.** A channel that was registered earlier gets every tick before the
  later ones; no channel is more than one tick ahead of another; ticks
  increase; nothing is sent after `Close()` has returned, and it does return.
* **Collector manager.** A serial collector is read alone; a collector is never
  read twice at a time, never read after it was closed, and at most once per
  round; after `Close()` nothing is read; `Close()` returns.
* **Router.** What the processor keeps reaches every output once and in order;
  no input starves; stamps never go back; `Close()` returns.
* **Cache.** The current period is what arrived since the last tick although
  the memory is reused; with one period the evaluation starts from it;
  `Close()` returns.
* **Aggregator.** Every function of the table that has values is evaluated, in
  order, up to the first one that fails; what it gives is the function of the
  matching values of one type, and of nothing else.
* **Topology.** The getters agree with each other and with the machine.
* **Likwid.** What is published was measured in full, each counter is sent once
  and added to the totals of the core, socket and node it belongs to; the library
  is released; a global metric is made from one `Read()`.
* **Counters.** The effect of a failing read is over after the next good one;
  where value and time are renewed together, rates are always right; differences
  add up to what was counted.
* **Program.** A metric is never stamped with an interval before that in which
  it was read; nobody is left blocked on a channel that nobody reads any more;
  the shutdown completes.

The hazards behind these, each with its line, are listed in `PROJECT.json`.

## 2. The modules

| Module | Models | Uses |
|---|---|---|
| `CloseHandshake` | what every `Close()` of the program promises (abstract) | |
| `MultiChanTicker` | the ticker | `CloseHandshake` |
| `CollectorManager` | the collector manager | `CloseHandshake` |
| `TickerManager_proofs` | theorems about the ticker and the collector manager | `MultiChanTicker`, `CollectorManager`, TLAPS |
| `MetricRouter` | the goroutine of the router, action by action | `CloseHandshake` |
| `RouterTraffic` | the router between endless producers and slow sinks | `MetricRouter` |
| `RouterTraffic_proofs` | theorems about the router | `RouterTraffic`, TLAPS |
| `MetricCache` | the cache, and the walk of the aggregator over its lists | |
| `MetricCache_proofs` | theorems about the cache | `MetricCache`, TLAPS |
| `CCMetricCollector` | the program: ticker, manager, router, main, signals, shutdown | `MultiChanTicker`, `CollectorManager`, `MetricRouter` |
| `CCMetricCollector_proofs` | theorems about the program | `CCMetricCollector`, `TickerManager_proofs` |
| `SortedLists` | the ascending list of a finite set of numbers | |
| `MetricAggregator` | the table of functions, `Eval()` and the functions | `SortedLists` |
| `MetricAggregator_proofs` | theorems about the aggregator | `MetricAggregator`, `DataTheorems` |
| `CcTopology` | the table of hardware threads and its getters | `SortedLists` |
| `LikwidCollector` | `Read()` of the likwid collector | `CcTopology` |
| `LikwidCollector_proofs` | theorems about topology and likwid collector | `LikwidCollector`, `DataTheorems`, TLAPS |
| `Counters` | the counters that collectors read (environment) | |
| `CounterCollectors` | `Init()` and `Read()` of eleven collectors | `Counters` |
| `CounterCollectors_proofs` | theorems about these collectors | `CounterCollectors`, `DataTheorems` |
| `DataTheorems` | sums over finite sets, sorted lists, the least and the largest of finitely many numbers | `SortedLists`, TLAPS |
| `MCMultiChanTicker`, `MCCollectorManager`, `MCCCMetricCollector`, `MCMetricAggregator`, `MCLikwidCollector` | instances for TLC | |

### CloseHandshake

`Close()` is written four times with the same protocol: send on the unbuffered
`done`, then wait until the goroutine closes that channel. (The cache leaves the
second half to the router, which waits for the cache's wait group.)
The abstract specification has a caller
(`open`, `sending`, `waiting`, `returned`) and a goroutine (`running`,
`stopping`, `exited`): the request is accepted once, the goroutine stops for
good, and the caller returns only after that. Ticker, manager and router map their
state onto it (`TickerClosesProperly`, `ManagerClosesProperly`,
`RouterClosesProperly`) and are proved to implement it; the first two are checked
in their own runs, the third in the composed one, as part of `ComponentsRefined`.
That the `Close()` of router and cache returns is a liveness property of their runs.

### MultiChanTicker

`channels` is `t.channels`; `tpc` is where the goroutine is; `ts`, `idx` and
`limit` are the tick it hands out, the position in the range loop and the
length of the slice the loop has evaluated. `buffered` is the one tick that
`time.Ticker` keeps; the clock goes on whether or not it is read, so ticks are
dropped for a slow fan-out. `got` records for each channel the last tick it
received.

`append` in `AddChannel` has no lock. It is two steps
(`AddChannelBegin`, `AddChannelEnd`), and a tick that starts between them sees
the outcomes the build can produce: the old slice, the new length with an
element that is not yet visible (a nil channel, never ready), or, when the
slice header is torn, an index out of range (`TornRead`: the process is
gone). `Close()` can get through while a receiver is not reading, because the
inner select also listens to `done`.

### CollectorManager

`ManagerInit` chooses which of the configured collectors did initialise
and in which order the rest is. `mpc` and `k` are the position in the loops of
`Start`; `reading`, `toSend` and `closed` say which `Read()` calls run, what
each will still send, and which collectors were closed. A `Read()` is the
messages it sends into `collInput`, a bounded channel, one `Emit` each: what it
measures does not matter here. `reads` and `rounds` are history.

### MetricRouter and RouterTraffic

`MetricRouter` has one action per case of the select and per step of
`coll_forward`, `recv_forward` and `cache_forward`: stamp, processor verdict
(`Drops`, external), one `Send` per output, `Add()` to the cache, and the loop
that drains up to `max_forward - 1` further messages of the same input.
`RouterTraffic` closes it with producers that never stop and sinks that may be
slow. To keep the state finite although traffic is endless, messages are
numbered modulo `IdMod`, which exceeds the number of messages that can be on
their way, so that a lost, doubled or overtaken message still shows. `EachOnceInOrder`
follows the messages of one source from the sink back to the source: what a sink
was given ends where the channel of the output begins, that ends where the message
in the router's hand begins, and that where the input begins, which ends with the
next number of the source.

### MetricCache

`intervals` is the array of `numPeriods + 1` periods with their lists that are
never cleared. `rotate()` is two steps because `curPeriod` is `numPeriods` for a
moment, which `Add()` can see (`AddCheck` takes no lock, `AddStore` does).
`PeriodIndex` is the arithmetic of `GetPeriod()`. `EvalMetric` is one element of
the loop of `Eval()` over the list, with any verdict of the condition, and it
reads the slot of the period as it is at that time. `numPeriods` is chosen
by `CacheInit` from `PeriodCounts` and never changes.

### CCMetricCollector

The module extends those of ticker, manager and router, and joins their actions
where they meet; the ticker's channels are those of router and manager
(`TickChannels`). A tick is
delivered when the router or the manager is in its select, and `collInput` is
written by `Read()` and read by the router. `main` and `handler` are the
positions in `mainFunc` and `shutdownHandler`. `sigbuf` is the channel of
capacity one that `signal.Notify` was given: a signal that finds it full is
dropped, and a signal after `signal.Stop` ends the process. Sinks and receivers
are cc-lib: they read and send between their `Start()` and `Close()`.

`ComponentsRefined` says that ticker and manager do in this composition only
what their own modules allow, so that what is proved about them alone holds here,
and that the router, called from the shutdown handler, keeps to the close handshake.

The cache is not part of this composition (`num_cache_intervals` is 0, the
default); see the plan.

### MetricAggregator

`functions` is the table, in the order in which `Eval()` walks it. An expression
is what gval, a library, makes of it: a condition is the set of groups of metrics
for which it is true, a function one of the extensions of the language (`sum`,
`min`, `max`, `avg`, `median`, `len`), an expression that compares, one that gives
a string, or one that cannot be evaluated. `Eval()` takes one step per function:
it is skipped without values (`SkipFunction`), fails and leaves the loop
(`EvalError`: the `break` is in a `for`), or gives a result that the router
takes or not (`EvalFunction`). A result of a type without a case in the switch
leaves the message nil, and the log call ends the process. What matches an entry and
what has a type are sets of positions in the list of metrics; `MetricsAt` lists the
metrics at such positions in their order. The functions are
translated with their errors: the median looks at the index `len % 2`, so it
fails for one value and for every even number of them (gval turns the panic into
an error), is right for three values, and the second smallest of five or more. The
list that `slices.Sort()` gives is described by what is at a place of it
(`SortedAt`): fewer values than the place are smaller, and enough are not larger.
`ResultsAreRight` compares every result with a definition that does not use those of
the module; of the median it asks to be the middle one of up to four values. In the
instance that TLC checks three metrics is the bound; the proof is for any number.

### CcTopology and LikwidCollector

A machine is a function from the numbers of hardware threads to the contents of
their files below `/sys`. `InitTopology` fills `cpuData` and the sorted lists,
and the getters are operators on them. A list is sorted when each element is at
its place, the number of elements up to it (`Place` and `SortedList` of
`SortedLists`).
`AggregatorCpuList` is the variant the aggregator has of its own. Of the machines
`TopologyAssumption` says what the kernel guarantees: there is a thread, and the
list of the threads of a core (`topology/core_cpus_list`, which the code looks up
the SMT number in) names the thread it is shown for and is the same for all
threads in it. That list is empty for a thread that is offline, and nothing is assumed
about the numbers of cores, dies, sockets and NUMA domains.

`LikwidCollector` walks through one `Read()`: `pc` is the place in
`takeMeasurement()`. The counts are fixed (`2^t` for thread index `t`), so that a sum
shows which threads are in it; a total is the sum over a set of thread indices
(`Added`). Between any two calls of the library the owner of
the lock file may change, the file may be written, or a signal may come
(`ChangeOwner`, `WriteLockFile`, `Signal`); `events` is what the watcher holds. The
lock file may not be added to the watcher, and then nothing is noticed in this
measurement (`watched`). `sigchan` is the channel that the last measurement has for
signals: not registered, empty, or with a signal in it; a signal makes the next call
fail, and only a measurement that stops its counters takes the channel off again.
`Measure(p)` is the select around each call: a call may be made, fail, or be left
out for a `Chmod` event, and then counts as successful. The library is external:
`lib` is whether it is off, on, or counting. The maps between thread index, number
and core are made and used as in the code, mixed use of index and number included:
on a machine whose numbers have a gap the first measurement writes to a nil map and
the program ends (`Store`). Each event set has one metric, whose formula can be
computed (one count), cannot, or is empty; the global metric adds all of them, so
with an empty one it is 0. `MCLikwidCollector` has no empty one, or the global
metric would show nothing; the theorems cover it. It gives
four machines: two threads per core; two sockets with two dies each whose cores
have the same numbers; one thread offline and no die; numbers with a gap.

### Counters and CounterCollectors

`Counters` keeps what each source has counted at every interval (`hist`), so that
a message can be compared with what it should have said. Resets, arrivals and
departures are bounded events. A collector of one of eleven `Kinds` is chosen at
the start; its `...Init` is the successful `Init()`, its `...Read` is `Read()` with
the set `r` of sources whose values could be read and parsed. Each differs in what
it renews, keeps or forgets for the others:

| Kind | value that cannot be read | time |
|---|---|---|
| netstat, numastats | old value kept | renewed |
| infiniband | forgotten | renewed |
| rapl | kept, with its own time | kept |
| cpustat | kept | renewed |
| schedstat | taken as 0 | renewed |
| nfsiostat | kept, or forgotten with the mount | renewed |
| iostat | kept | none needed |
| lustre | taken as unchanged | renewed |
| gpfs | forgotten, with all of the state | replaced with the values |
| nfs | forgotten | none needed |

A message carries the source, the difference and the time it is divided by.
`clean`, `steady` and `untouched` record which sources were read well the last
time, since when, and since the start; `sum` adds up the differences that were sent
(`Reported`). The assumptions are that there are finitely many sources, and that a
counter grows by less than its modulus between two reads: code that corrects one
wrap cannot see a second one. For rapl `Modulus` is the contents of
`max_energy_range_uj`, which the code adds after a wrap (`raplMetric.go:241`); the
model takes it for the modulus, as the code does. A source of netstat is a canonical
name, and one interface at a time has it, which is what the aliases are for. Absolute
values, and totals that are sums
of what was just read, need no state and are left out.

## 3. What the runs check

| Run | Instance | Result |
|---|---|---|
| `ticker` | 3 channels registered at any time, 4 ticks | order, distance, silence after `Close()`, the handshake |
| `manager` | 2 parallel, 2 serial collectors, any of them failing to initialise, 2 rounds, up to 2 messages per read, channel of 1 | overlap rules of `Read()` and `Close()`, the handshake |
| `router` | 2 outputs of capacity 2, batches of 2, kept and dropped messages, endless | every kept message once and in order per source, on every output; stamps never go back |
| `router_live` | 1 output, cache on | no input starves; `Close()` returns under endless traffic |
| `cache` | 1 or 2 periods, 2 functions, 4 ticks, 3 metrics | the current period holds the interval; with one period the last interval is what the evaluation starts from; `Close()` returns |
| `program` | 1 parallel and 1 serial collector, receivers, 2 ticks, 2 signals | the composition refines ticker, manager and the handshake of the router; stamps are not before reads; nobody blocks on a closed part |
| `program_ends` | as above with and without `-once`, 1 tick, 1 signal | the shutdown completes; `-once` ends |
| `counters` | 11 kinds, 2 sources, 3 intervals, 1 reset, arrival or departure, counters modulo 3 | an error lasts one read; infiniband, rapl and gpfs never send a rate over a wrong time; differences add up |
| `aggregator` | 2 names, 9 functions, 3 metrics of 4 types | every function in its turn; every result is what its function promises; a crash only for the types without a case |
| `likwid` | 4 machines, 3 event sets, 2 reads, 2 changes or signals, 1 invalid count | the getters agree; totals add up; only full measurements are published; the library and the signals are released; global metrics are from one read |
| `router_drop_crash` | 1 output, cache on | **violated**: a dropped message panics in `cache.Add()` |
| `likwid_lock` | as `likwid` | **violated**: the measurement goes on when the lock file has a new owner |

### Findings

* **A dropped message ends the program when the cache is on**
  (`metricRouter.go:254-259`). The comment says that a dropped metric is stored
  in the cache; what is passed to `Add()` is the nil that the processor has
  returned, and `metric.Time()` panics.
* **The likwid collector goes on measuring when the owner of the lock file
  changes** (`likwidMetric.go:474`). From the set-up of the counters on, a `Chmod`
  event only leaves out one call of the library; `ret` still has the 0 of the call
  before, and the next call is made. The documentation of the collector says that
  it subscribes to the file "to stop monitoring if the owner of the lock file
  changes". `MeasuredInFull` is therefore stated with the exception `noticed`.

### Met while modelling

Plain in the code once read, so that no run is spent on them; the models have the
behaviour.

* Cache: with two or more cached intervals `GetPeriod()` does not return the last
  period (`metricCache.go:114, 160-180`): it takes a distance and gets an index, and
  a negative difference is subtracted from `numPeriods` and not added
  (`LastIntervalReturned` is stated for one period). A period is reused
  without cutting its list, and `GetPeriod()` returns the list and not its filled
  part (`metricCache.go:97`), so metrics of earlier intervals are aggregated again;
  `Add()` also writes into the list while `Eval()` walks it. `Add()` looks at
  `curPeriod` without the lock and ignores a metric in the middle of a rotation
  (`metricCache.go:132`): it is lost, and no property says otherwise.
  With one cached interval `rotate()` overwrites `startstamp`
  before it is read (`metricCache.go:99`).
* Manager and main: `done()` closes the parallel collectors only
  (`collectorManager.go:135`). With `-once` the shutdown comes 1.2 intervals after
  the start, and the manager looks at `done` before every serial `Read()`, so serial
  collectors may not be read (`collectorManager.go:171`). A second signal between
  the receive of the handler and `signal.Stop` fills the buffer, and `main` blocks
  in its own send forever (`cc-metric-collector.go:249`). Messages that wait in
  `coll_input` at the next tick get its stamp (`metricRouter.go:246`), and those
  that are still there when the router is closed are lost.
* Aggregator: the median of an even number of values or of one is an error, that of
  five is not the middle one (`metricAggregatorFunctions.go:139`); an error ends
  the evaluation of all later functions (`metricAggregator.go:223`); results of
  type bool or int32 end the process (`metricAggregator.go:281`); the length of a
  list of bool is 0; `<copy>` takes the tag of the last match.
* Counters: netstat, numastats, cpustat, schedstat, nfsiostat and lustre renew
  their time also when a value was not read, so the next rate is the increase of
  two intervals divided by one (`netstatMetric.go:217` and others), although
  e.g. `numastatsMetric.md:31` calls it a "rate value per second". A counter that is
  reset gives a negative value except in lustre and gpfs. A hardware thread
  that is new since `Init()` ends the program in cpustat and schedstat
  (`cpustatMetric.go:142`). A line of nfsstat that cannot be parsed loses the
  increase of those before it (`nfsMetric.go:72`). A total of gpfs over partly
  parsed fields is smaller once, and jumps afterwards. `gpfs_closes_rate` is computed
  from `_oc_`, like `gpfs_opens_rate` (`gpfsMetric.go:192-194`); the model has no names.
  Two interfaces that are shown at the same time under aliases of one canonical name
  share its last values in netstat (`netstatMetric.go:251-276`).
* Likwid: the formula of a metric that cannot be computed is cleared in a copy,
  so the metric is published as 0 (`likwidMetric.go:270`); on a machine whose
  hardware threads have gaps in their numbers the first measurement ends the
  program (`likwidMetric.go:539`); after an error the library keeps its counters
  (`likwidMetric.go:466`) and the channel its registration for signals, which only
  line 564 takes back; `CountersReleased` excepts both. The look at the owner and the
  watch are two steps (`likwidMetric.go:392, 428`), and a lock file that cannot be
  watched is logged only (`likwidMetric.go:430`).
* Beegfs: the look-up leaves out the prefix of the keys (`beegfsmetaMetric.go:207`).
* Sample timer: the goroutine has no loop, so `Close()` blocks after the first tick
  (`sampleTimerMetric.go:104`). It is a template that the manager does not register.

### Bounds

Every bound on a counter or a channel is a constant with the prefix `Max` or the
suffix `Cap` (and `LastTick`, up to which the manager takes ticks, and `Modulus`, where counters wrap). The other constants choose the instance: the collectors and
channels, `NumOutputs`, `NumFunctions`, `PeriodCounts`, `OnceFlags`, `Keep` (the
verdicts of the message processor) and `IdMod` (the ring of message numbers).
Two
rounds are enough for everything that relates a round to the next one (reused
slots, wrapped ring, stale tick); four ticks let the ring of two periods wrap
twice. Two collectors of each kind are the least that lets parallel reads
overlap and a serial loop be cut in its middle. Capacity 1 of a channel is the
worst case for blocking; the larger ones (200) differ only in how long they
take to fill. The ring of `RouterTraffic` makes the traffic itself
unbounded.
Three intervals are a good read, a failing one and a good one again,
which is all that a collector remembers; a modulus of 3 with increases of at most 1
makes counters wrap within one and within several intervals. Three metrics let
one function see values of two types and a median that is computed; two functions
are the least for an order and an early end. Three event sets let one be skipped
between two that are measured, and a second `Read()` meets what the first one left.

### Fairness

Goroutines are weakly fair: the Go scheduler runs what can run. The cases of a
select are strongly fair one by one, because Go chooses among those that
are ready at random with equal chance, so a case that is ready again and again
is taken with probability one. A `Read()` returns and the sinks read their
channels: these are assumptions about code that the program calls. Signals,
incoming messages, the registration of channels and the call of `Close()` have
no fairness: nothing forces them.

`CHECK_DEADLOCK FALSE` is set in every configuration: the system stops when it
was closed or has reached a bound. That no one is stuck is what the liveness
properties say.

## 4. What is proved

### Ticker

`TickerManager_proofs` proves of the ticker, for any set of channels and any bound on the
ticks:

| Theorem | Says |
|---|---|
| `TickerTypeCorrect` | `TickerSpec => []TickerTypeOK` |
| `TickerInvariant` | `TickerSpec => []TickerInv` |
| `EarlierFirstHolds` | an earlier channel is never behind a later one |
| `LockStepHolds` | no channel is ahead by more than the current tick |
| `TicksIncreaseHolds` | ticks of a channel increase |
| `SilentAfterCloseHolds` | no tick after `Close()` has returned |
| `TickerImplementsHandshake` | the ticker implements `CloseHandshake` |

The first safety properties are not inductive: that channel `i` is at the current
tick when the fan-out has passed it says nothing about a channel that is
registered during the fan-out. `TickerInv` states who has which tick at every
point: the positions before `idx` have `ts`, the others have the tick
before or an earlier one, and positions above `limit` were registered after the
tick was taken and have none. It holds at `TickerInit`, every action keeps it
(one lemma per action that touches it, `QuietStep` for the ones that do not),
and it implies `EarlierFirst` and `LockStep`. `CloseInv` relates the
caller of `Close()` to the position of the goroutine and gives the refinement.
The proofs use the assumption on the constants of `MultiChanTicker` only; TLC
evaluates it in every run of `MCMultiChanTicker`.

### Collector manager

`TickerManager_proofs` proves of the manager, for any finite set of collectors of either
kind, any subset of them that initialises, any number of messages per `Read()`
and any capacity of the channel:

| Theorem | Says |
|---|---|
| `ManagerTypeCorrect` | `ManagerSpec => []ManagerTypeOK` |
| `ManagerInvariant` | `ManagerSpec => []ManagerInv` |
| `NoReadOfClosedHolds` | no collector is closed while it is read, or read once it is closed |
| `SerialAloneHolds` | a serial collector is read alone |
| `ReadOncePerRoundHolds` | each tick reads each collector once |
| `NoOverlappingReadsHolds` | no collector is read twice at a time |
| `QuietAfterCloseHolds` | no collector sends after `Close()` has returned |
| `ManagerImplementsHandshake` | the manager implements `CloseHandshake` |

None of the safety properties is inductive alone: a serial collector is read
alone because the wait for the parallel ones is over, and no running collector
is closed because `parallel_run` is true whenever one may still run.
`ManagerInv` therefore says for every position of the goroutine who may be
reading there (`WhoReads`), which collectors have been read in this round and
which only in the round before (`Round`), and how far `Close()` has come
(`Stopping`). The proof has one lemma for each action that starts a round, waits
for the parallel reads, or starts or ends a read, and one case for the steps of
`Close()`; the other actions leave the variables of the invariant alone. `Round`
speaks about the elements before `k`, so that `k` is within the list in both
loops is part of `ManagerTypeOK`. That the lists hold no collector twice
(`Distinct`) comes from the configuration being a map; without it a collector
would be read twice in a round.
The only assumption is `ManagerAssumption`, which
TLC evaluates in every run of `MCCollectorManager`; finiteness of the set
of collectors makes every line-up of them a sequence (`LineUpIsSequence`).

### Metric cache

`MetricCache_proofs` proves, for any number of periods and of aggregation
functions, and any bounds on ticks and metrics:

| Theorem | Says |
|---|---|
| `CacheTypeCorrect` | `CacheSpec => []CacheTypeOK`; `curPeriod` is out of range only inside `rotate()` |
| `CacheInvariant` | `CacheSpec => []CacheInv` |
| `CurrentHoldsIntervalHolds` | the current period holds what was stored since the last tick, in order |
| `LastIntervalReturnedHolds` | with one period, the evaluation starts from the interval that has ended |

`CurrentHoldsInterval` says nothing while `rotate()` holds the lock, and what it
says afterwards depends on the state in between: `RotationOK` carries the
interval over that step (`Filled(intervals[oldPeriod]) = previous`, nothing
stored meanwhile, all other periods empty). `EvaluationOK` bounds the walk of the
aggregator: a list is overwritten under it but never becomes shorter, so that
the element it looks at exists and is a metric. `StoredFills` is the lemma on the
list that is reused in place: `Add()` overwrites or appends, and either way the
filled part grows by the metric. The only assumption is `CacheAssumption`.

### Router

`RouterTraffic_proofs` proves, for any number of outputs, any capacities and batch
lengths, with and without the cache, with and without dropped messages:

| Theorem | Says |
|---|---|
| `TrafficTypeCorrect` | `TrafficSpec => []TrafficTypeOK` |
| `EachOnceInOrderHolds` | every sink gets every kept message once, in the order of its source |
| `StampsOrderedHolds` | stamps never go back on an output |
| `RouterImplementsHandshake` | `Close()` keeps to the handshake |
| `PanicNeedsDropAndCache` | without a cache, or with a processor that keeps everything, the router never panics |

`EachOnceInOrder` is inductive only with `TrafficOK` (wherever the router forwards,
it has one message in its hand) and `SourcesOK` (an input holds messages of its own
source, an output only kept ones). `Numbered` says that a stretch of messages is
numbered without a gap from one number to another; the lemmas on it are about a
message that is appended, taken from the front, or passed on. Each action
moves one message from the front of a stretch to the end of the next, or leaves
them alone. `StampsOrdered` looks only at the outputs; `StampsInv` adds that
no stamp in them is later than the time the router would stamp with now, and
that a message in its hand has that time, since the tick waits for the select.
`PanicNeedsDropAndCache` bounds the finding on dropped messages: it has a hypothesis
on the constants (the cache is on only with a processor that keeps everything), and
under it what the comment at `Add()` says does hold. Its invariant is that all
messages in the inputs and in the hand are kept ones (`AllKept`), and that the router
comes to `Add()` only with a cache (`NoPanic`).

### Program

`CCMetricCollector_proofs` proves, for any collectors, capacities, bounds, settings
of `-once` and of `interval_timestamp`:

| Theorem | Says |
|---|---|
| `TypeCorrect` | `Spec => []TypeOK` |
| `ProgramImplementsTicker`, `ProgramImplementsManager` | ticker and manager do in the program only what their modules allow |
| `ProgramClosesRouter` | called from the handler, the router keeps to the close handshake |
| `ComponentsRefinedHolds` | the three together |
| `NoReadWithoutRouterHolds` | no `Read()` runs when the router no longer takes messages |
| `NoRouterWithoutSinksHolds` | the sinks are closed only when ticker, manager and router are gone |
| `StampNotBeforeReadHolds` | no metric is stamped with an interval before its own |

The refinements come first: each step of the program is a step of the ticker or
leaves it alone, and the same for the manager. The theorems of the two modules then
hold for the program and are cited in what follows. What is left is the interplay. `TicksAgree`: the
manager works on the tick that was handed to it. `ClosedInOrder`: what has returned
at each step of the handler, and that the router leaves its loop only for the
handler. `RouterOK`: the types of the router's state. `NoReadWithoutRouter` is
then `QuietAfterClose` of the manager at the place where the handler has passed
its `Close()`. For the stamps, `Registered` says which channels the ticker has at
each step of `main`: the router is the first of them, so by `EarlierFirst` of the
ticker it never has an older tick than the manager, and a message that is read
carries no later tick than `timestamp` (`StampsInv`).

### Topology and likwid

`LikwidCollector_proofs` proves, for every machine that satisfies
`TopologyAssumption`, any list of event sets, and any bounds on reads, invalid
counts and changes of the lock file:

| Theorem | Says |
|---|---|
| `GettersAgreeHolds` | the getters agree with the machine, with each other and with the list of the aggregator |
| `LikwidTypeCorrect` | `LikwidSpec => []LikwidTypeOK` |
| `LikwidInvariant` | `LikwidSpec => []LikwidInv` |
| `MeasuredInFullHolds` | what is computed from was measured in full, or an event of the watcher was noticed |
| `CountersReleasedHolds` | after a measurement that nothing disturbed the library is off, and after one that did not fail no channel is registered for signals |
| `GlobalFromOneReadHolds` | a global metric other than 0 is from one `Read()` |
| `TotalsAddUpHolds` | totals are the sums of the counts of their threads, and none is sent twice |

`LikwidInv` has four parts: which calls of the library have succeeded at each
place of `takeMeasurement()` (`CallsInOrder`), what may be left on behind it
(`NothingLeftOn`), where the channel for signals is registered (`ChannelOpen`, which is
what shows that it is not when the library is finalized), and that each event set
with metrics in this `Read()` has also
sent its total for the node (`MeasuredAndSent`). For the topology, `SortedListIs`
shows that places are a bijection between a finite set of numbers and an initial
segment, so a sorted list has every element once, in order; everything about the
getters follows from that and from the assumption on the kernel's lists. The totals rest on
three invariants: a result is the count of its thread or invalid (`RawIs`); behind
`Store` the numbers of the threads have no gap, since the program would have ended
(`Stored`), so that index and number, which the code mixes, are the same (`NoGaps`);
and the messages so far are of earlier event sets (`SentBefore`). `CoreGroups` and
`SocketGroups` show that the threads with equal entries in the maps are those of
one core and of one socket.

### Aggregator

`MetricAggregator_proofs` proves, for any names, groups, tags and aggregations, any
table that can be made by adding, replacing and deleting, and any number of metrics:

| Theorem | Says |
|---|---|
| `AggregatorTypeCorrect` | `AggregatorSpec => []AggregatorTypeOK`, with unique names in the table |
| `CrashOnlyForOddTypesHolds` | the process ends only at an expression that compares or with metrics of type int32 |
| `ResultsAreRightHolds` | every result is what its function promises for the matching values of one type |
| `TurnInvariant` | `AggregatorSpec => []TurnInv` |
| `EveryFunctionInTurnHolds` | the functions with values are evaluated in the order of the table, up to the first error |

The type invariant is inductive with the uniqueness of the names: an aggregation is
replaced at the one position its name has, or appended, and `Removed` says what a
list is without one element. For the results, `ValuesAre` shows that the list of
values that is aggregated has each matching metric of the type (`Typed`) once and
nothing else. Each function is then carried from that list back to the positions of
the metrics: the sum by `SumReindexed`, minimum and maximum by `LeastIs` and
`LargestIs`, the median by what is at a place of the sorted list (`SortedAtIs`).
`PromiseKept` puts them together. `CrashOnlyForOddTypes` follows from
`ComputedType`: the types of all other results have a case in the switch. An
invariant of the loop is needed for the order only. `TurnInv` says that the entries
behind which `Eval()` is and that have values are those it has a result for, in
their order; then the next result is for the next of them (`DoneGrows`), and at the
end there are none left. The only assumption is `AggregatorAssumption`, which TLC
evaluates in the run `aggregator`.

### Sums, sorted lists, least and largest

`DataTheorems` proves about the sum of a function over a finite set that it is a
number (`SumType`), that the sum of differences is the difference of the sums
(`SumDifference`), that any element may be taken out first (`SumRemove`), that
what is 0 may be left out (`SumPart`), and that it does not depend on what the values
are indexed by (`SumReindexed`). `SortedListIs` says that a sorted list has every
number of the set once, in order, and `LeastIs` and `LargestIs` that what the
community modules choose as minimum and maximum is one. The sum is defined with a
choice of the next element, by recursion over subsets. The induction over them is
written out as an argument by the smallest counterexample (`LeastSubset`), because
the induction theorems of the library cannot be used here.

### Counters

`CounterCollectors_proofs` proves, for any finite set of sources, any modulus, any
growth below it, and every sequence of good and failing reads, resets, arrivals and
departures:

| Theorem | Says |
|---|---|
| `CountersTypeCorrect` | `CountersSpec => []CountersTypeOK` |
| `CountersInvariant` | `CountersSpec => []CountersInv` |
| `ErrorLastsOneReadHolds` | after two good reads what is sent is the increase between them |
| `RatesAreExactHolds` | a rate of infiniband, rapl or gpfs is the increase in the time it is divided by |
| `DifferencesAddUpHolds` | iostat and lustre send each increase once, nfs at most once |

What is common to the eleven kinds is stated once, as the effects of a `Read()` in
which the sources `r` were good (`Effects`: what is renewed, reported, kept, totalled,
and moved); one lemma per kind shows that its `Read()` has them. The invariant
then speaks about the effects only. It dates the remembered values: those read well by
the last `Read()` are what the source showed then (`CleanInv`, and `TotalInv` for
the total of gpfs), those with an exact rate what it showed at the time kept with them,
however long ago (`SteadyInv`), and what was sent plus what is still to be sent
is what was counted (`AddInv`). A counter that wraps shows its value modulo
`Modulus`; that the correction of the code gives the increase back is the lemmas
at the beginning of the module.

### Not proved

Every safety and action property of the runs that pass is stated by a theorem. Left to
TLC are the properties that something happens in the end, since fairness is out of
the prover's reach here: `NoStarvation`, `RouterCloseTerminates`,
`CacheCloseTerminates`, `ShutdownCompletes` and `OnceEnds`. The two runs that end with
a counterexample are the findings; `PanicNeedsDropAndCache` says under which
conditions the first of them cannot happen.

## 5. What is not modelled

* Parsing of configurations and the command line; logging.
* The message processor, the sinks and the receivers (cc-lib), except where the
  program meets them. `DoAddTags` and `AddOutput` of the router have no state
  beyond what `RouterInit` sets up.
* Time: it is counted in ticks. The cut to whole seconds in
  `int(1.2 * interval)` is outside the model, which assumes an interval of
  whole seconds.
* A signal in the start sequence before the receivers are started: it makes
  the handler close them first, and what `ReceiveManager` does then is cc-lib's.
* The expression language of the aggregator (gval), its regular expressions, and the
  cache of compiled expressions in `EvalBoolCondition` and `EvalFloat64Condition`:
  external, or pure look-ups.
* `Close()` of the likwid collector: it is a serial collector, and the manager does
  not close those. The likwid library itself is external.
* The beegfs collectors: their values never change (see above), so there is no
  property of them to state.
* The sample timer collector: a template that no configuration uses.
* Collectors without state between their reads (nvidia, rocm, slurm cgroups,
  smartmon, load, memory, temperatures, ...): a read is input, parsing and output,
  and an error of one device skips it. The manager sees them as messages.

## 6. Plan

1. *(done)* Ticker, manager, router, cache, program.
2. *(done)* Proofs about the ticker and the collector manager.
3. *(done)* `MetricAggregator`, `CounterCollectors`, `CcTopology` and
   `LikwidCollector`.
4. *(done)* Proofs about the cache, the program, the router, the topology, the likwid
   collector, the collectors with counters, and the aggregator.
5. `RouterCache`: router, cache and aggregator together; aggregates that are
   lost because the router is not in its select, and the shutdown of the pair.
6. `SampleTimer`, once a collector is made from the template.
