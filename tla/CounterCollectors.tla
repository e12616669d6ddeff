-------------------------- MODULE CounterCollectors --------------------------
(***************************************************************************)
(* The collectors in collectors/ that remember the counters of their last  *)
(* Read() and send what has been added since: as a difference, or divided  *)
(* by the time that has passed, as a rate.                                 *)
(*                                                                         *)
(* They differ in what they do when a Read() fails for a source or as a    *)
(* whole: which of last value and time stamp is renewed, forgotten or left *)
(* alone.  One behaviour is the life of one collector, whose kind is       *)
(* chosen at the start.  A collector whose Init() fails is left out by the *)
(* collector manager, so each ...Init is a successful one.                 *)
(*                                                                         *)
(* Left out: absolute values and totals that are sums of values just read  *)
(* (they need no state), names, tags and units, and excluded metrics.      *)
(* A source is what has one entry in the collector: of network interfaces, *)
(* one canonical name, which one interface at a time has.                  *)
(***************************************************************************)
EXTENDS Counters, FiniteSetsExt, Functions

CONSTANTS
  Kinds,   \* the kinds of collectors
  Total,   \* the sum of the sources of a file system (gpfs)
  Modulus  \* where the counters of infiniband and rapl wrap; for rapl it is
           \* what the code takes for it, the contents of max_energy_range_uj

\* A counter that wraps does so at most once from one Read() to the next.
ASSUME CollectorsAssumption ==
  /\ IsFiniteSet(Source)
  /\ Total \notin Source
  /\ Modulus \in Nat \ {0, 1}
  /\ MaxGrowth < Modulus

VARIABLES
  kind,      \* which collector this is
  watched,   \* sources found by Init()
  last,      \* value of the last Read(), by source
  known,     \* sources that have an entry in last
  stamp,     \* time that belongs to the entry
  sent,      \* messages of the last Read()
  panicked,  \* the process is gone
  clean,     \* history: read well the last time, and not reset since
  steady,    \* history: not reset since it was read well
  sum,       \* history: sum of the differences sent
  untouched  \* history: read well by Init() and never reset

collectorVars == <<kind, watched, last, known, stamp, sent, panicked>>
historyVars == <<clean, steady, sum, untouched>>
vars == <<envVars, collectorVars, historyVars>>

Wrapping == {"infiniband", "rapl"}
Entry == Source \cup {Total}

\* What the kernel shows for s now.
Raw(s) ==
  IF kind \in Wrapping THEN (Counted(s) - base[s]) % Modulus
  ELSE Counted(s) - base[s]

Rate(s, d, t) == [calc |-> "rate", src |-> s, diff |-> d, dt |-> t]
Difference(s, d) == [calc |-> "difference", src |-> s, diff |-> d, dt |-> 1]
Message == [calc : {"rate", "difference"}, src : Entry, diff : Int, dt : Nat]

CountersTypeOK ==
  /\ EnvTypeOK
  /\ kind \in Kinds
  /\ watched \subseteq Source
  /\ last \in [Entry -> Nat]
  /\ known \subseteq Entry
  /\ stamp \in [Source -> 0..Now]
  /\ sent \subseteq Message
  /\ panicked \in BOOLEAN
  /\ clean \subseteq Source /\ steady \subseteq Source
  /\ sum \in [Source -> Int]
  /\ untouched \subseteq Source
-----------------------------------------------------------------------------
\* Init() of a collector of kind k found the sources w, made entries for those
\* in e, and could read the counters of those in r.
StartWith(k, w, e, r) ==
  /\ kind = k
  /\ watched = w
  /\ known = e
  /\ last = [x \in Entry |-> IF x \in r THEN Raw(x) ELSE 0]
  /\ stamp = [s \in Source |-> 0]
  /\ sent = {}
  /\ panicked = FALSE
  /\ clean = r /\ steady = r /\ untouched = r
  /\ sum = [s \in Source |-> 0]

\* lastValue is -1 until the first Read().
NetstatInit ==
  \E w \in SUBSET present \ {{}} : StartWith("netstat", w, {}, {})

\* lastStateAvailable is false until the first Read().
InfinibandInit ==
  \E w \in SUBSET present \ {{}} : StartWith("infiniband", w, {}, {})

\* Zones whose name, energy and range could be read; subzones alike.
RaplInit ==
  \E w \in SUBSET present \ {{}} : StartWith("rapl", w, w, w)

NumastatsInit ==
  /\ present # {}
  /\ StartWith("numastats", present, {}, {})

\* A value that cannot be parsed is 0.
CpustatInit ==
  \E r \in SUBSET present : StartWith("cpustat", present, present, r)

SchedstatInit ==
  \E r \in SUBSET present : StartWith("schedstat", present, present, r)

\* Mounts that are there; none when mountstats cannot be read.
NfsIOStatInit ==
  \/ \E r \in SUBSET present : StartWith("nfsiostat", Source, present, r)
  \/ StartWith("nfsiostat", Source, {}, {})

IOstatInit ==
  \E w \in SUBSET present : \E r \in SUBSET w : StartWith("iostat", w, w, r)

LustreInit ==
  /\ present # {}
  /\ \E r \in SUBSET present : StartWith("lustre", present, present, r)

GpfsInit == StartWith("gpfs", Source, {}, {})

NfsInit == StartWith("nfs", Source, present, present)

CollectorInit ==
  /\ EnvInit
  /\ \/ NetstatInit \/ InfinibandInit \/ RaplInit \/ NumastatsInit
     \/ CpustatInit \/ SchedstatInit \/ NfsIOStatInit \/ IOstatInit
     \/ LustreInit \/ GpfsInit \/ NfsInit
  /\ kind \in Kinds
-----------------------------------------------------------------------------
\* Mutant of Remember: what could not be read is marked as in NetstatInit.
RememberInvalid(r) ==
  last' = [x \in Entry |-> IF x \in r THEN Raw(x) ELSE -1]

\* The entries of last for the sources in r become the values read now.
Remember(r) ==
  last' = [x \in Entry |-> IF x \in r THEN Raw(x) ELSE last[x]]

\* The differences that the messages ms report for s.
Reported(ms, s) ==
  SumFunctionOnSet([m \in ms |-> m.diff],
                   {m \in ms : m.calc = "difference" /\ m.src = s})

\* What a Read() of a collector of kind k that could read the sources in r
\* leaves alone, and the history.
EndRead(k, r) ==
  /\ kind = k
  /\ due /\ ~panicked
  /\ due' = FALSE
  /\ clean' = r
  /\ steady' = steady \cup r
  /\ sum' = [s \in Source |-> sum[s] + Reported(sent', s)]
  /\ UNCHANGED <<hist, base, present, events, kind, watched, untouched>>

AllStamped == stamp' = [s \in Source |-> Now]

NonNegative(d) == IF d < 0 THEN 0 ELSE d

\* The time stamp is taken before the file is opened: it is renewed although
\* nothing is read.
NetstatRead(r) ==
  /\ AllStamped
  /\ sent' = {Rate(s, Raw(s) - last[s], Now - stamp[s]) : s \in r \cap known}
  /\ Remember(r)
  /\ known' = known \cup r
  /\ EndRead("netstat", r)
  /\ UNCHANGED panicked

\* Mutant of InfinibandRead: lastStateAvailable stays true after an error.
InfinibandReadKeepsState(r) ==
  /\ AllStamped
  /\ sent' = {Rate(s, (Raw(s) - last[s]) % Modulus, Now - stamp[s]) :
              s \in r \cap known}
  /\ Remember(r)
  /\ known' = known \cup r
  /\ EndRead("infiniband", r)
  /\ UNCHANGED panicked

\* A counter that cannot be read loses its last state; unsigned subtraction
\* wraps like the counter.
InfinibandRead(r) ==
  /\ AllStamped
  /\ sent' = {Rate(s, (Raw(s) - last[s]) % Modulus, Now - stamp[s]) :
              s \in r \cap known}
  /\ Remember(r)
  /\ known' = r
  /\ EndRead("infiniband", r)
  /\ UNCHANGED panicked

\* Each zone has a time stamp of its own, renewed with its energy.
RaplRead(r) ==
  /\ stamp' = [s \in Source |-> IF s \in r THEN Now ELSE stamp[s]]
  /\ sent' = {LET d == Raw(s) - last[s]
              IN Rate(s, IF d < 0 THEN d + Modulus ELSE d, Now - stamp[s]) :
              s \in r}
  /\ Remember(r)
  /\ EndRead("rapl", r)
  /\ UNCHANGED <<known, panicked>>

\* Each domain has a file; one that cannot be opened is skipped, with its
\* previous values kept.
NumastatsRead(r) ==
  /\ AllStamped
  /\ sent' = {Rate(s, Raw(s) - last[s], Now - stamp[s]) : s \in r \cap known}
  /\ Remember(r)
  /\ known' = known \cup r
  /\ EndRead("numastats", r)
  /\ UNCHANGED panicked

\* A thread that Init() has not seen has no map to store its value in.  When
\* the file cannot be opened Read() goes on and finds no lines.
CpustatRead(r) ==
  /\ panicked' = (r \ watched # {})
  /\ IF panicked'
     THEN sent' = {} /\ UNCHANGED <<last, stamp>>
     ELSE /\ AllStamped
          /\ sent' = {Rate(s, Raw(s) - last[s], Now - stamp[s]) : s \in r}
          /\ Remember(r)
  /\ EndRead("cpustat", r)
  /\ UNCHANGED known

\* Like cpustat, but a value that cannot be parsed is taken as 0 and stored:
\* seen are the threads in the file.
SchedstatRead(seen, r) ==
  /\ panicked' = (seen \ watched # {})
  /\ IF panicked'
     THEN sent' = {} /\ UNCHANGED <<last, stamp>>
     ELSE /\ AllStamped
          /\ sent' = {Rate(s, (IF s \in r THEN Raw(s) ELSE 0) - last[s],
                           Now - stamp[s]) : s \in seen}
          /\ last' = [x \in Entry |-> IF x \in r THEN Raw(x)
                                      ELSE IF x \in seen THEN 0 ELSE last[x]]
  /\ EndRead("schedstat", r)
  /\ UNCHANGED known

\* Mounts that were not there the last time are only stored, those that are
\* gone are forgotten; a mount whose value cannot be parsed is still there.
NfsIOStatRead(seen, r) ==
  /\ AllStamped
  /\ sent' = {Rate(s, Raw(s) - last[s], Now - stamp[s]) : s \in r \cap known}
  /\ last' = [x \in Entry |-> IF x \in r THEN Raw(x)
                              ELSE IF x \in seen \cap known THEN last[x] ELSE 0]
  /\ known' = seen
  /\ EndRead("nfsiostat", r)
  /\ UNCHANGED panicked

\* Mutant of IOstatRead: currentValues is not renewed.
IOstatReadForgets(r) ==
  /\ sent' = {Difference(s, Raw(s) - last[s]) : s \in r}
  /\ EndRead("iostat", r)
  /\ UNCHANGED <<last, known, stamp, panicked>>

\* Differences of the devices that Init() has found.
IOstatRead(r) ==
  /\ sent' = {Difference(s, Raw(s) - last[s]) : s \in r}
  /\ Remember(r)
  /\ EndRead("iostat", r)
  /\ UNCHANGED <<known, stamp, panicked>>

\* Mutant of LustreRead: lastTimestamp is not renewed.
LustreReadOldStamp(r) ==
  LET added(s) == NonNegative((IF s \in r THEN Raw(s) ELSE last[s]) - last[s])
  IN /\ sent' = {Difference(s, added(s)) : s \in watched}
                \cup {Rate(s, added(s), Now - stamp[s]) : s \in watched}
     /\ Remember(r)
     /\ EndRead("lustre", r)
     /\ UNCHANGED <<known, panicked, stamp>>

\* A device or line that cannot be read counts as unchanged.
LustreRead(r) ==
  LET added(s) == NonNegative((IF s \in r THEN Raw(s) ELSE last[s]) - last[s])
  IN /\ AllStamped
     /\ sent' = {Difference(s, added(s)) : s \in watched}
                \cup {Rate(s, added(s), Now - stamp[s]) : s \in watched}
     /\ Remember(r)
     /\ EndRead("lustre", r)
     /\ UNCHANGED <<known, panicked>>

\* One file system, whose state is replaced as a whole by what could be
\* parsed, together with the time that mmpmon reports.  What has an old value
\* only is sent as 0.  The total adds what could be parsed.
GpfsRead(r) ==
  LET new == IF r = {} THEN {} ELSE r \cup {Total}
      value(x) == IF x = Total THEN SumFunctionOnSet([s \in r |-> Raw(s)], r)
                  ELSE Raw(x)
      added(x) == NonNegative(value(x) - last[x])
      elapsed == Now - Max({stamp[s] : s \in Source})
  IN /\ sent' = {Difference(x, IF x \in new THEN added(x) ELSE 0) : x \in known}
                \cup {IF x \in new THEN Rate(x, added(x), elapsed)
                      ELSE Rate(x, 0, 1) : x \in known}
     /\ last' = [x \in Entry |-> IF new = {} THEN last[x]
                                 ELSE IF x \in new THEN value(x) ELSE 0]
     /\ known' = IF new = {} THEN known ELSE new
     /\ IF new = {} THEN UNCHANGED stamp ELSE AllStamped
     /\ EndRead("gpfs", r)
     /\ UNCHANGED panicked

\* nfsstat was run; names that are not listed have no value this time.
NfsRead(r) ==
  /\ sent' = {Difference(s, Raw(s) - last[s]) : s \in r \cap known}
  /\ last' = [x \in Entry |-> IF x \in r THEN Raw(x) ELSE 0]
  /\ known' = r
  /\ EndRead("nfs", r)
  /\ UNCHANGED <<stamp, panicked>>

\* A line cannot be parsed: updateStats() leaves its loop after the lines
\* before it, the other names have lost their value, and Read() sends nothing.
NfsReadFails(parsed) ==
  /\ sent' = {}
  /\ last' = [x \in Entry |-> IF x \in parsed THEN Raw(x) ELSE 0]
  /\ known' = parsed
  /\ EndRead("nfs", {})
  /\ UNCHANGED <<stamp, panicked>>

\* The command fails, or reports that the file system is not there: Read()
\* returns before it has changed anything.
CommandFails(k) ==
  /\ sent' = {}
  /\ EndRead(k, {})
  /\ UNCHANGED <<last, known, stamp, panicked>>
-----------------------------------------------------------------------------
\* A Read() finds the sources that are there, and cannot read or parse some of
\* their values.  The file as a whole may be missing: then seen is empty.
ReadCollector ==
  \E seen \in {present, {}} : \E r \in SUBSET seen :
    \/ NetstatRead(r \cap watched)
    \/ InfinibandRead(r \cap watched)
    \/ RaplRead(r \cap watched)
    \/ NumastatsRead(r \cap watched)
    \/ CpustatRead(r)
    \/ SchedstatRead(seen, r)
    \/ NfsIOStatRead(seen, r)
    \/ IOstatRead(r \cap watched)
    \/ LustreRead(r \cap watched)
    \/ GpfsRead(r)
    \/ NfsRead(seen)
    \/ r # seen /\ NfsReadFails(r)
    \/ CommandFails("gpfs")
    \/ CommandFails("nfs")
    \/ CommandFails("iostat")

Environment ==
  /\ \/ PassInterval /\ UNCHANGED historyVars
     \/ \E s \in Source : ResetCounter(s)
          /\ clean' = clean \ {s}
          /\ steady' = steady \ {s}
          /\ untouched' = untouched \ {s}
          /\ UNCHANGED sum
     \/ \E s \in Source : ComeOrGo(s) /\ UNCHANGED historyVars
  /\ ~panicked
  /\ UNCHANGED collectorVars

CountersNext == Environment \/ ReadCollector

CountersSpec == CollectorInit /\ [][CountersNext]_vars
-----------------------------------------------------------------------------
(***************************************************************************)
(* Properties                                                              *)
(***************************************************************************)
Parts(x) == IF x = Total THEN Source ELSE {x}

\* The message says what its source has counted in the time it speaks about.
Right(m) ==
  m.diff = SumFunctionOnSet([s \in Parts(m.src) |-> Growth(s, m.dt)], Parts(m.src))

\* The effect of an error is over after one good Read(): what is sent for a
\* source that was read well this time and the last time is what the source
\* has counted in between, for every collector.
ErrorLastsOneRead ==
  [][\A m \in sent' :
       due /\ ~due' /\ Parts(m.src) \subseteq clean \cap clean' => Right(m)]_vars

\* infiniband, rapl and gpfs never divide by the wrong time: whatever failed
\* since the source was read well for the last time, a rate is the increase in
\* the time it was divided by (if the counter has not wrapped more than once).
RatesAreExact ==
  [][\A m \in sent' :
       /\ kind \in {"infiniband", "rapl", "gpfs"}
       /\ due /\ ~due'
       /\ m.src \in steady \cap clean'
       /\ m.calc = "rate"
       /\ kind \in Wrapping => Growth(m.src, m.dt) < Modulus
       => Right(m)]_vars

\* Differences add up: over any sequence of good and failing reads, iostat
\* and lustre send each increase of a counter once, and nfs at most once.
DifferencesAddUp ==
  \A s \in untouched :
    LET reported == sum[s]
        counted == Counted(s) - hist[1][s]
        pending == Raw(s) - last[s]
    IN /\ kind \in {"iostat", "lustre"} => reported + pending = counted
       /\ kind = "nfs" => reported <= counted

=============================================================================
