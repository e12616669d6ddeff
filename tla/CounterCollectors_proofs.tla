---------------------- MODULE CounterCollectors_proofs ----------------------
(***************************************************************************)
(* The differences and rates of the collectors that read counters, for any *)
(* sources, any growth of the counters and any sequence of good and failed *)
(* Read()s.                                                                *)
(***************************************************************************)
EXTENDS CounterCollectors, DataTheorems

(* Counters that wrap. *)

LEMMA Division ==
  ASSUME NEW M \in Nat \ {0}, NEW a \in Int
  PROVE  a % M \in 0..(M - 1) /\ a = M * (a \div M) + (a % M) /\ a \div M \in Int
  OBVIOUS

LEMMA Multiple ==
  ASSUME NEW M \in Nat \ {0}, NEW k \in Int
  PROVE  /\ k >= 2 => M * k >= 2 * M
         /\ k <= -1 => M * k <= -M
         /\ M * 1 = M /\ M * 0 = 0
<1>1. ASSUME k >= 2
      PROVE  M * k >= 2 * M
  <2>1. M * (k - 2) >= 0
    BY <1>1
  <2>2. M * (k - 2) = M * k - 2 * M
    OBVIOUS
  <2> QED
    BY <2>1, <2>2
<1>2. ASSUME k <= -1
      PROVE  M * k <= -M
  <2>1. M * (-1 - k) >= 0
    BY <1>2
  <2>2. M * (-1 - k) = -M - M * k
    OBVIOUS
  <2> QED
    BY <2>1, <2>2
<1> QED
  BY <1>1, <1>2

\* A number that is small enough is its own remainder, and the counter after one
\* wrap has the same.
LEMMA SmallRemainder ==
  ASSUME NEW M \in Nat \ {0}, NEW d \in 0..(M - 1)
  PROVE  d % M = d /\ (d - M) % M = d
<1>1. d % M = d
  <2> DEFINE k == d \div M
             r == d % M
  <2>1. r \in 0..(M - 1) /\ d = M * k + r /\ k \in Int /\ M * k \in Int
    BY Division
  <2> HIDE DEF k, r
  <2>2. k = 0
    BY <2>1, Multiple
  <2> QED
    BY <2>1, <2>2, Multiple DEF r
<1>2. (d - M) % M = d
  OBVIOUS
<1> QED
  BY <1>1, <1>2

\* From a to b a counter has wrapped at most once.
LEMMA OneWrap ==
  ASSUME NEW M \in Nat \ {0}, NEW a \in Nat, NEW b \in Nat, b - a \in 0..(M - 1)
  PROVE  (b % M) - (a % M) \in {b - a, b - a - M}
<1> DEFINE p == a \div M
           q == b \div M
           k == q - p
           ra == a % M
           rb == b % M
<1>1. ra \in 0..(M - 1) /\ a = M * p + ra /\ p \in Int
  BY Division
<1>2. rb \in 0..(M - 1) /\ b = M * q + rb /\ q \in Int
  BY Division
<1>3. k \in Int /\ M * k = M * q - M * p /\ M * k \in Int /\ M * p \in Int /\ M * q \in Int
  BY <1>1, <1>2
<1> HIDE DEF p, q, k, ra, rb
<1>4. b - a = M * k + rb - ra
  BY <1>1, <1>2, <1>3
<1>5. k = 0 \/ k = 1
  BY <1>1, <1>2, <1>3, <1>4, Multiple
<1>6. rb - ra \in {b - a, b - a - M}
  BY <1>1, <1>2, <1>3, <1>4, <1>5, Multiple
<1> QED
  BY <1>6 DEF ra, rb

\* Both ways in which the collectors look at a wrap give the increase.
LEMMA WrapCorrected ==
  ASSUME NEW M \in Nat \ {0}, NEW a \in Nat, NEW b \in Nat, b - a \in 0..(M - 1)
  PROVE  LET d == (b % M) - (a % M)
         IN  d % M = b - a /\ (IF d < 0 THEN d + M ELSE d) = b - a
<1> DEFINE d == (b % M) - (a % M)
           g == b - a
<1>1. d \in {g, g - M}
  BY OneWrap
<1>2. g \in 0..(M - 1)
  OBVIOUS
<1> HIDE DEF d, g
<1>3. d % M = g /\ (IF d < 0 THEN d + M ELSE d) = g
  <2>1. CASE d = g
    BY <1>2, <2>1, SmallRemainder
  <2>2. CASE d = g - M
    BY <1>2, <2>2, SmallRemainder
  <2> QED
    BY <1>1, <2>1, <2>2
<1> QED
  BY <1>3 DEF d, g
-----------------------------------------------------------------------------
(* The environment. *)

EnvInv ==
  /\ EnvTypeOK
  /\ Len(hist) >= 1 /\ (due => Len(hist) >= 2)
  /\ \A s \in Source : base[s] <= Counted(s)
  /\ \A s \in Source : \A i \in 1..Len(hist) : hist[i][s] <= Counted(s)
  /\ due => \A s \in Source : Growth(s, 1) <= MaxGrowth

LEMMA EnvInitInv == EnvInit => EnvInv
<1> SUFFICES ASSUME EnvInit
             PROVE  EnvInv
  OBVIOUS
<1> DEFINE h == <<[s \in Source |-> 1]>>
<1>1. /\ hist = h /\ base = [s \in Source |-> 0] /\ present \subseteq Source
      /\ due = FALSE /\ events = 0
  BY DEF EnvInit
<1>2. h \in Seq([Source -> Nat]) /\ Len(h) = 1 /\ h[1] = [s \in Source |-> 1]
  OBVIOUS
<1> HIDE DEF h
<1>3. Len(hist) = 1 /\ \A i \in 1..Len(hist) : i = 1
  BY <1>1, <1>2
<1>4. \A s \in Source : Counted(s) = 1 /\ base[s] = 0
  <2>1. hist[Len(hist)] = [s \in Source |-> 1]
    BY <1>1, <1>2, <1>3
  <2> QED
    BY <1>1, <2>1 DEF Counted
<1>5. \A s \in Source : \A i \in 1..Len(hist) : hist[i][s] <= Counted(s)
  <2>1. \A s \in Source : \A i \in 1..Len(hist) : hist[i][s] = Counted(s)
    BY <1>3 DEF Counted
  <2> QED
    BY <1>4, <2>1
<1>6. EnvTypeOK
  <2>1. hist \in Seq([Source -> Nat]) /\ Now = 0
    BY <1>1, <1>2 DEF Now
  <2>2. base \in [Source -> Nat]
    BY <1>1
  <2>3. due \in BOOLEAN
    BY <1>1
  <2>4. Now \in 0..MaxTime /\ events \in 0..MaxEvents
    BY <1>1, <2>1, CountersAssumption
  <2> QED
    BY <1>1, <2>1, <2>2, <2>3, <2>4 DEF EnvTypeOK
<1> QED
  BY <1>1, <1>3, <1>4, <1>5, <1>6 DEF EnvInv

\* One more row in the history.
LEMMA OneRow ==
  ASSUME NEW R, NEW h \in Seq(R), NEW row \in R
  PROVE  /\ Append(h, row) \in Seq(R)
         /\ Len(Append(h, row)) = Len(h) + 1 /\ Len(h) \in Nat
         /\ \A i \in 1..Len(h) : Append(h, row)[i] = h[i]
         /\ Append(h, row)[Len(h) + 1] = row
  OBVIOUS

\* What an interval adds.
LEMMA PassIntervalRow ==
  ASSUME EnvInv, PassInterval
  PROVE  /\ hist' \in Seq([Source -> Nat])
         /\ Len(hist') = Len(hist) + 1 /\ Len(hist) \in Nat \ {0}
         /\ \A i \in 1..Len(hist) : hist'[i] = hist[i]
         /\ \A s \in Source : Counted(s)' - Counted(s) \in 0..MaxGrowth
<1>1. PICK g \in [Source -> 0..MaxGrowth] :
        hist' = Append(hist, [s \in Source |-> Counted(s) + g[s]])
  BY DEF PassInterval
<1> DEFINE row == [s \in Source |-> Counted(s) + g[s]]
<1>2. hist \in Seq([Source -> Nat]) /\ Len(hist) \in Nat \ {0}
  BY DEF EnvInv, EnvTypeOK
<1>3. hist[Len(hist)] \in [Source -> Nat]
  BY <1>2
<1>4. \A s \in Source : Counted(s) \in Nat /\ g[s] \in 0..MaxGrowth
  BY <1>3, CountersAssumption DEF Counted
<1>5. row \in [Source -> Nat]
  BY <1>4, CountersAssumption
<1>6. \A s \in Source : row[s] = Counted(s) + g[s]
  OBVIOUS
<1> HIDE DEF row
<1>7. /\ hist' \in Seq([Source -> Nat])
      /\ Len(hist') = Len(hist) + 1
      /\ \A i \in 1..Len(hist) : hist'[i] = hist[i]
      /\ hist'[Len(hist) + 1] = row
  BY <1>1, <1>2, <1>5, OneRow DEF row
<1>8. \A s \in Source : Counted(s)' = Counted(s) + g[s]
  BY <1>6, <1>7 DEF Counted
<1> QED
  BY <1>2, <1>4, <1>7, <1>8, CountersAssumption

LEMMA PassIntervalInv ==
  ASSUME EnvInv, PassInterval
  PROVE  EnvInv'
<1>1. /\ hist' \in Seq([Source -> Nat])
      /\ Len(hist') = Len(hist) + 1 /\ Len(hist) \in Nat \ {0}
      /\ \A i \in 1..Len(hist) : hist'[i] = hist[i]
      /\ \A s \in Source : Counted(s)' - Counted(s) \in 0..MaxGrowth
  BY PassIntervalRow
<1>2. /\ due' /\ UNCHANGED <<base, present, events>> /\ Len(hist) - 1 < MaxTime
  BY DEF PassInterval, Now
<1>3. \A s \in Source : Counted(s) \in Nat /\ Counted(s)' \in Nat
  BY <1>1 DEF EnvInv, EnvTypeOK, Counted
<1>4. EnvTypeOK'
  BY <1>1, <1>2, CountersAssumption DEF EnvInv, EnvTypeOK, Now
<1>5. \A s \in Source : base'[s] <= Counted(s)'
  BY <1>1, <1>2, <1>3, CountersAssumption DEF EnvInv, EnvTypeOK
<1>6. ASSUME NEW s \in Source, NEW i \in 1..Len(hist')
      PROVE  hist'[i][s] <= Counted(s)'
  <2>1. CASE i \in 1..Len(hist)
    <3>1. hist'[i] = hist[i] /\ hist[i] \in [Source -> Nat]
      <4>1. hist \in Seq([Source -> Nat])
        BY DEF EnvInv, EnvTypeOK
      <4>2. hist[i] \in [Source -> Nat]
        BY <2>1, <4>1
      <4>3. hist'[i] = hist[i]
        BY <1>1, <2>1
      <4> QED
        BY <4>2, <4>3
    <3>2. \A j \in 1..Len(hist) : hist[j][s] <= Counted(s)
      BY DEF EnvInv
    <3>3. hist[i][s] <= Counted(s) /\ hist[i][s] \in Nat
      BY <2>1, <3>1, <3>2
    <3> QED
      BY <1>1, <1>3, <3>1, <3>3, CountersAssumption
  <2>2. CASE i = Len(hist')
    BY <1>3, <2>2 DEF Counted
  <2> QED
    BY <1>1, <2>1, <2>2
<1>7. \A s \in Source : Growth(s, 1)' <= MaxGrowth
  <2>1. Len(hist') - 1 = Len(hist) /\ hist'[Len(hist)] = hist[Len(hist)]
    BY <1>1
  <2>2. \A s \in Source : Growth(s, 1)' = Counted(s)' - Counted(s)
    BY <2>1 DEF Growth, Counted
  <2> QED
    BY <1>1, <2>2, CountersAssumption
<1> QED
  BY <1>1, <1>2, <1>4, <1>5, <1>6, <1>7 DEF EnvInv

LEMMA ResetCounterInv ==
  ASSUME EnvInv, NEW r \in Source, ResetCounter(r)
  PROVE  EnvInv'
<1>1. /\ UNCHANGED <<hist, present, due>>
      /\ base' = [base EXCEPT ![r] = Counted(r)]
      /\ events < MaxEvents /\ events' = events + 1
  BY DEF ResetCounter
<1>2. \A s \in Source : Counted(s)' = Counted(s) /\ Counted(s) \in Nat
                        /\ Growth(s, 1)' = Growth(s, 1)
  BY <1>1 DEF EnvInv, EnvTypeOK, Counted, Growth
<1> QED
  BY <1>1, <1>2, CountersAssumption DEF EnvInv, EnvTypeOK, Now

\* Nothing that matters here.
LEMMA ComeOrGoInv ==
  ASSUME EnvInv, NEW s \in Source, ComeOrGo(s)
  PROVE  EnvInv'
<1>1. /\ UNCHANGED <<hist, base, due>> /\ present' \subseteq Source
      /\ events < MaxEvents /\ events' = events + 1
  BY DEF ComeOrGo, EnvInv, EnvTypeOK
<1>2. \A t \in Source : Counted(t)' = Counted(t) /\ Growth(t, 1)' = Growth(t, 1)
  BY <1>1 DEF Counted, Growth
<1> QED
  BY <1>1, <1>2, CountersAssumption DEF EnvInv, EnvTypeOK, Now

LEMMA ReadEnvInv ==
  ASSUME EnvInv, UNCHANGED <<hist, base, present, events>>, due' = FALSE
  PROVE  EnvInv'
<1>1. \A t \in Source : Counted(t)' = Counted(t) /\ Growth(t, 1)' = Growth(t, 1)
  BY DEF Counted, Growth
<1> QED
  BY <1>1 DEF EnvInv, EnvTypeOK, Now

\* What the kernel shows at the time with index i of the history.
At(s, i) ==
  IF kind \in Wrapping THEN (hist[i][s] - base[s]) % Modulus ELSE hist[i][s] - base[s]

LEMMA RawType ==
  ASSUME EnvInv, NEW s \in Source
  PROVE  /\ Raw(s) \in Nat
         /\ Raw(s) = At(s, Len(hist))
         /\ Counted(s) \in Nat /\ Len(hist) \in Nat \ {0}
<1>1. Counted(s) \in Nat /\ base[s] \in Nat /\ base[s] <= Counted(s)
      /\ Len(hist) \in Nat \ {0}
  BY DEF EnvInv, EnvTypeOK, Counted
<1>2. (Counted(s) - base[s]) % Modulus \in Nat
  BY <1>1, CollectorsAssumption
<1> QED
  BY <1>1, <1>2 DEF Raw, At, Counted
-----------------------------------------------------------------------------
(* What a Read() does, whatever the collector. *)

\* The state has its type, and gpfs has one time stamp for all names.
TypeInv ==
  /\ EnvInv
  /\ CountersTypeOK
  /\ kind = "gpfs" => \A s, t \in Source : stamp[s] = stamp[t]

\* What the message about s says it has counted.
Increase(s) ==
  LET d == Raw(s) - last[s]
  IN CASE kind = "infiniband" -> d % Modulus
       [] kind = "rapl" -> IF d < 0 THEN d + Modulus ELSE d
       [] kind \in {"lustre", "gpfs"} -> NonNegative(d)
       [] OTHER -> d

\* The collectors without a time stamp.
Timeless == {"iostat", "nfs"}

\* The sources in r were read well, and the history says so.
Ends(r) ==
  /\ r \in SUBSET Source
  /\ due /\ ~panicked /\ due' = FALSE
  /\ clean' = r /\ steady' = steady \cup r
  /\ sum' = [s \in Source |-> sum[s] + Reported(sent', s)]
  /\ UNCHANGED <<hist, base, present, events, kind, watched, untouched>>

\* At most one difference is sent for each entry.
OneEach(ms) ==
  \A m, n \in ms :
    m.calc = "difference" /\ n.calc = "difference" /\ m.src = n.src => m = n

Typed ==
  /\ last' \in [Entry -> Nat] /\ known' \subseteq Entry
  /\ stamp' \in [Source -> 0..Now]
  /\ sent' \subseteq Message /\ OneEach(sent')
  /\ panicked' \in BOOLEAN
  /\ kind = "gpfs" => \A s, t \in Source : stamp'[s] = stamp'[t]

\* What was read well is up to date.
Renewed(r) ==
  ~panicked' => \A s \in r : /\ last'[s] = Raw(s)
                             /\ kind \notin Timeless => stamp'[s] = Now

\* What is sent for it is the increase since the last value.
Reports(r) ==
  \A m \in sent' : m.src \in r =>
    /\ m.diff = Increase(m.src)
    /\ m.dt = IF m.calc = "difference" THEN 1 ELSE Now - stamp[m.src]
    /\ kind \in Timeless => m.calc = "difference"

\* In the collectors whose rates are exact, value and time stamp of a source
\* that was not read well stay together or are forgotten together.
Kept(r) ==
  /\ kind \in {"infiniband", "rapl", "gpfs"} =>
       \A s \in Source \ r :
         \/ kind # "rapl" /\ s \notin known'
         \/ /\ last'[s] = last[s] /\ stamp'[s] = stamp[s]
            /\ s \in known' => s \in known
  /\ kind \in {"infiniband", "gpfs"} => \A m \in sent' : m.src \in known

\* The total of gpfs, when all of it could be read.
Totalled(r) ==
  /\ \A m \in sent' : m.src = Total => kind = "gpfs" /\ (r = {} => m.diff = 0)
  /\ (kind = "gpfs" /\ r = Source /\ Source # {}) =>
       LET total == SumFunctionOnSet([s \in Source |-> Raw(s)], Source)
       IN /\ last'[Total] = total
          /\ \A m \in sent' : m.src = Total =>
               /\ m.diff = NonNegative(total - last[Total])
               /\ \A s \in Source :
                    m.dt = IF m.calc = "difference" THEN 1 ELSE Now - stamp[s]

\* What is reported as a difference is what the last value has moved by: for
\* every source that iostat and lustre watch, and for the names of nfs that had
\* a value and have one (when nfsstat fails, they keep it).
Moved(r) ==
  /\ kind \in {"iostat", "lustre"} =>
       \A s \in watched :
         IF s \in r
         THEN /\ last'[s] = Raw(s)
              /\ \E m \in sent' : m.calc = "difference" /\ m.src = s
         ELSE /\ last'[s] = last[s]
              /\ \A m \in sent' : m.calc = "difference" /\ m.src = s => m.diff = 0
  /\ kind = "nfs" =>
       /\ \A s \in Source \cap known' :
            \/ last'[s] = Raw(s)
            \/ s \in known /\ last'[s] = last[s] /\ sent' = {}
       /\ \A m \in sent' : m.src \in known /\ m.diff = Raw(m.src) - last[m.src]

Effects(r) == Ends(r) /\ Typed /\ Renewed(r) /\ Reports(r) /\ Kept(r) /\ Totalled(r) /\ Moved(r)

LEMMA Messages ==
  ASSUME NEW x \in Entry, NEW d \in Int, NEW t \in Nat
  PROVE  /\ Rate(x, d, t) \in Message /\ Difference(x, d) \in Message
         /\ Rate(x, d, t).calc = "rate" /\ Difference(x, d).calc = "difference"
         /\ Rate(x, d, t).src = x /\ Difference(x, d).src = x
         /\ Rate(x, d, t).diff = d /\ Difference(x, d).diff = d
         /\ Rate(x, d, t).dt = t /\ Difference(x, d).dt = 1
  BY DEF Rate, Difference, Message

LEMMA Remembered ==
  ASSUME TypeInv, NEW r \in SUBSET Source, Remember(r)
  PROVE  /\ last' \in [Entry -> Nat]
         /\ \A s \in r : last'[s] = Raw(s)
         /\ \A x \in Entry \ r : last'[x] = last[x]
<1>1. last \in [Entry -> Nat] /\ r \subseteq Entry
  BY DEF TypeInv, CountersTypeOK, Entry
<1>2. \A s \in Source : Raw(s) \in Nat
  BY RawType DEF TypeInv
<1> QED
  BY <1>1, <1>2 DEF Remember

LEMMA Stamped ==
  ASSUME TypeInv, AllStamped
  PROVE  /\ stamp' \in [Source -> 0..Now] /\ \A s \in Source : stamp'[s] = Now
         /\ Now \in Nat
  BY DEF AllStamped, TypeInv, CountersTypeOK, EnvTypeOK

LEMMA Elapsed ==
  ASSUME TypeInv, NEW s \in Source
  PROVE  /\ Now - stamp[s] \in Nat
         /\ last \in [Entry -> Nat] /\ last[s] \in Nat /\ Raw(s) \in Nat
         /\ stamp \in [Source -> 0..Now] /\ known \subseteq Entry /\ s \in Entry
  BY RawType DEF TypeInv, CountersTypeOK, EnvTypeOK, Entry

LEMMA ReadEnds ==
  ASSUME NEW k, NEW r \in SUBSET Source, EndRead(k, r)
  PROVE  Ends(r) /\ kind = k
  BY DEF EndRead, Ends
-----------------------------------------------------------------------------
(* The collectors that send rates only, of the differences in d. *)

LEMMA RatesOnly ==
  ASSUME TypeInv,
         NEW k \in {"netstat", "numastats", "cpustat", "schedstat", "nfsiostat"},
         NEW r \in SUBSET Source, EndRead(k, r),
         last' \in [Entry -> Nat], known' \subseteq Entry,
         stamp' \in [Source -> 0..Now], panicked' \in BOOLEAN,
         Renewed(r),
         NEW K \in SUBSET Source, NEW d \in [Source -> Int],
         sent' = {Rate(s, d[s], Now - stamp[s]) : s \in K},
         \A s \in r \cap K : d[s] = Raw(s) - last[s]
  PROVE  Effects(r)
<1>1. Ends(r) /\ kind = k
  BY ReadEnds
<1>2. ASSUME NEW m \in sent'
      PROVE  /\ m \in Message /\ m.calc = "rate" /\ m.src \in K
             /\ m.diff = d[m.src] /\ m.dt = Now - stamp[m.src]
  <2>1. PICK s \in K : m = Rate(s, d[s], Now - stamp[s])
    BY <1>2
  <2>2. s \in Entry /\ d[s] \in Int /\ Now - stamp[s] \in Nat
    BY Elapsed
  <2> QED
    BY <2>1, <2>2, Messages
<1>3. Typed
  BY <1>1, <1>2 DEF Typed, OneEach
<1>4. Reports(r)
  BY <1>1, <1>2 DEF Reports, Increase, Timeless
<1>5. Kept(r) /\ Totalled(r) /\ Moved(r)
  BY <1>1, <1>2, CollectorsAssumption DEF Kept, Totalled, Moved
<1> QED
  BY <1>1, <1>3, <1>4, <1>5 DEF Effects

\* The increase of each source.
LEMMA Differences ==
  ASSUME TypeInv
  PROVE  /\ [s \in Source |-> Raw(s) - last[s]] \in [Source -> Int]
         /\ \A s \in Source : Raw(s) - last[s] \in Int
<1>1. \A s \in Source : Raw(s) \in Nat /\ last[s] \in Nat
  BY Elapsed
<1>2. ASSUME NEW s \in Source
      PROVE  Raw(s) - last[s] \in Int
  BY <1>1
<1> QED
  BY <1>2

LEMMA RememberedAll ==
  ASSUME TypeInv, NEW r \in SUBSET Source, Remember(r), AllStamped
  PROVE  /\ last' \in [Entry -> Nat] /\ stamp' \in [Source -> 0..Now]
         /\ Renewed(r)
<1>1. last' \in [Entry -> Nat] /\ \A s \in r : last'[s] = Raw(s)
  BY Remembered
<1>2. stamp' \in [Source -> 0..Now] /\ \A s \in Source : stamp'[s] = Now
  BY Stamped
<1> QED
  BY <1>1, <1>2 DEF Renewed

LEMMA SourcesAreEntries ==
  ASSUME TypeInv
  PROVE  Source \subseteq Entry /\ known \subseteq Entry /\ panicked \in BOOLEAN
         /\ present \subseteq Source /\ watched \subseteq Source
  BY DEF TypeInv, CountersTypeOK, EnvTypeOK, Entry

LEMMA NetstatEffects ==
  ASSUME TypeInv, NEW r \in SUBSET Source, NetstatRead(r)
  PROVE  Effects(r)
<1> DEFINE d == [s \in Source |-> Raw(s) - last[s]]
<1>1. d \in [Source -> Int]
  BY Differences
<1>2. EndRead("netstat", r) /\ Remember(r) /\ AllStamped
      /\ known' = known \cup r /\ panicked' = panicked
      /\ sent' = {Rate(s, Raw(s) - last[s], Now - stamp[s]) : s \in r \cap known}
  BY DEF NetstatRead
<1>3. sent' = {Rate(s, d[s], Now - stamp[s]) : s \in r \cap known}
  BY <1>2
<1>4. \A s \in r \cap (r \cap known) : d[s] = Raw(s) - last[s]
  OBVIOUS
<1>5. known' \subseteq Entry /\ panicked' \in BOOLEAN /\ r \cap known \in SUBSET Source
  BY <1>2, SourcesAreEntries
<1> HIDE DEF d
<1> QED
  BY <1>1, <1>2, <1>3, <1>4, <1>5, RememberedAll, RatesOnly

LEMMA NumastatsEffects ==
  ASSUME TypeInv, NEW r \in SUBSET Source, NumastatsRead(r)
  PROVE  Effects(r)
<1> DEFINE d == [s \in Source |-> Raw(s) - last[s]]
<1>1. d \in [Source -> Int]
  BY Differences
<1>2. EndRead("numastats", r) /\ Remember(r) /\ AllStamped
      /\ known' = known \cup r /\ panicked' = panicked
      /\ sent' = {Rate(s, Raw(s) - last[s], Now - stamp[s]) : s \in r \cap known}
  BY DEF NumastatsRead
<1>3. sent' = {Rate(s, d[s], Now - stamp[s]) : s \in r \cap known}
  BY <1>2
<1>4. \A s \in r \cap (r \cap known) : d[s] = Raw(s) - last[s]
  OBVIOUS
<1>5. known' \subseteq Entry /\ panicked' \in BOOLEAN /\ r \cap known \in SUBSET Source
  BY <1>2, SourcesAreEntries
<1> HIDE DEF d
<1> QED
  BY <1>1, <1>2, <1>3, <1>4, <1>5, RememberedAll, RatesOnly

\* The process may be gone.
LEMMA CpustatEffects ==
  ASSUME TypeInv, NEW r \in SUBSET Source, CpustatRead(r)
  PROVE  Effects(r)
<1> DEFINE d == [s \in Source |-> Raw(s) - last[s]]
<1>1. d \in [Source -> Int]
  BY Differences
<1>2. EndRead("cpustat", r) /\ known' = known /\ panicked' \in BOOLEAN
  BY DEF CpustatRead
<1>3. known' \subseteq Entry
  BY <1>2, SourcesAreEntries
<1>4. CASE panicked'
  <2>1. sent' = {} /\ UNCHANGED <<last, stamp>>
    BY <1>4 DEF CpustatRead
  <2>2. last' \in [Entry -> Nat] /\ stamp' \in [Source -> 0..Now]
    BY <2>1 DEF TypeInv, CountersTypeOK
  <2>3. Renewed(r)
    BY <1>4 DEF Renewed
  <2>4. /\ sent' = {Rate(s, d[s], Now - stamp[s]) : s \in {}}
        /\ {} \in SUBSET Source
        /\ \A s \in r \cap {} : d[s] = Raw(s) - last[s]
    BY <2>1
  <2> HIDE DEF d
  <2> QED
    BY <1>1, <1>2, <1>3, <2>2, <2>3, <2>4, RatesOnly
<1>5. CASE ~panicked'
  <2>1. sent' = {Rate(s, Raw(s) - last[s], Now - stamp[s]) : s \in r}
        /\ Remember(r) /\ AllStamped
    BY <1>5 DEF CpustatRead
  <2>2. sent' = {Rate(s, d[s], Now - stamp[s]) : s \in r}
        /\ \A s \in r \cap r : d[s] = Raw(s) - last[s]
    BY <2>1
  <2> HIDE DEF d
  <2> QED
    BY <1>1, <1>2, <1>3, <2>1, <2>2, RememberedAll, RatesOnly
<1> QED
  BY <1>4, <1>5

LEMMA SchedstatEffects ==
  ASSUME TypeInv, NEW seen \in SUBSET Source, NEW r \in SUBSET seen,
         SchedstatRead(seen, r)
  PROVE  Effects(r)
<1> DEFINE d == [s \in Source |-> (IF s \in r THEN Raw(s) ELSE 0) - last[s]]
<1>1. d \in [Source -> Int]
  <2>1. \A s \in Source : Raw(s) \in Nat /\ last[s] \in Nat
    BY Elapsed
  <2> QED
    BY <2>1
<1>2. EndRead("schedstat", r) /\ known' = known /\ panicked' \in BOOLEAN
  BY DEF SchedstatRead
<1>3. known' \subseteq Entry
  BY <1>2, SourcesAreEntries
<1>4. CASE panicked'
  <2>1. sent' = {} /\ UNCHANGED <<last, stamp>>
    BY <1>4 DEF SchedstatRead
  <2>2. last' \in [Entry -> Nat] /\ stamp' \in [Source -> 0..Now]
    BY <2>1 DEF TypeInv, CountersTypeOK
  <2>3. Renewed(r)
    BY <1>4 DEF Renewed
  <2>4. /\ sent' = {Rate(s, d[s], Now - stamp[s]) : s \in {}}
        /\ {} \in SUBSET Source
        /\ \A s \in r \cap {} : d[s] = Raw(s) - last[s]
    BY <2>1
  <2> HIDE DEF d
  <2> QED
    BY <1>1, <1>2, <1>3, <2>2, <2>3, <2>4, RatesOnly
<1>5. CASE ~panicked'
  <2>1. /\ sent' = {Rate(s, (IF s \in r THEN Raw(s) ELSE 0) - last[s],
                         Now - stamp[s]) : s \in seen}
        /\ last' = [x \in Entry |-> IF x \in r THEN Raw(x)
                                    ELSE IF x \in seen THEN 0 ELSE last[x]]
        /\ AllStamped
    BY <1>5 DEF SchedstatRead
  <2>2. sent' = {Rate(s, d[s], Now - stamp[s]) : s \in seen}
        /\ \A s \in r \cap seen : d[s] = Raw(s) - last[s]
    BY <2>1
  <2>3. last' \in [Entry -> Nat] /\ \A s \in r : last'[s] = Raw(s)
    <3>1. \A s \in Source : Raw(s) \in Nat
      BY Elapsed
    <3>2. last \in [Entry -> Nat]
      BY DEF TypeInv, CountersTypeOK
    <3> QED
      BY <2>1, <3>1, <3>2, SourcesAreEntries
  <2>4. stamp' \in [Source -> 0..Now] /\ Renewed(r)
    BY <2>1, <2>3, Stamped DEF Renewed
  <2> HIDE DEF d
  <2> QED
    BY <1>1, <1>2, <1>3, <2>2, <2>3, <2>4, RatesOnly
<1> QED
  BY <1>4, <1>5

LEMMA NfsIOStatEffects ==
  ASSUME TypeInv, NEW seen \in SUBSET Source, NEW r \in SUBSET seen,
         NfsIOStatRead(seen, r)
  PROVE  Effects(r)
<1> DEFINE d == [s \in Source |-> Raw(s) - last[s]]
<1>1. d \in [Source -> Int]
  BY Differences
<1>2. /\ EndRead("nfsiostat", r) /\ AllStamped
      /\ known' = seen /\ panicked' = panicked
      /\ sent' = {Rate(s, Raw(s) - last[s], Now - stamp[s]) : s \in r \cap known}
      /\ last' = [x \in Entry |-> IF x \in r THEN Raw(x)
                                  ELSE IF x \in seen \cap known THEN last[x] ELSE 0]
  BY DEF NfsIOStatRead
<1>3. sent' = {Rate(s, d[s], Now - stamp[s]) : s \in r \cap known}
  BY <1>2
<1>4. \A s \in r \cap (r \cap known) : d[s] = Raw(s) - last[s]
  OBVIOUS
<1>5. known' \subseteq Entry /\ panicked' \in BOOLEAN /\ r \cap known \in SUBSET Source
  BY <1>2, SourcesAreEntries
<1>6. last' \in [Entry -> Nat] /\ \A s \in r : last'[s] = Raw(s)
  <2>1. \A s \in Source : Raw(s) \in Nat
    BY Elapsed
  <2>2. last \in [Entry -> Nat]
    BY DEF TypeInv, CountersTypeOK
  <2> QED
    BY <1>2, <2>1, <2>2, SourcesAreEntries
<1>7. stamp' \in [Source -> 0..Now] /\ Renewed(r)
  BY <1>2, <1>6, Stamped DEF Renewed
<1> HIDE DEF d
<1> QED
  BY <1>1, <1>2, <1>3, <1>4, <1>5, <1>6, <1>7, RatesOnly
-----------------------------------------------------------------------------
(* The collectors whose rates are exact, and those that send differences. *)

\* Whatever they are about.
LEMMA Calculations ==
  ASSUME NEW x, NEW d, NEW t
  PROVE  /\ Rate(x, d, t).calc = "rate" /\ Rate(x, d, t).src = x
         /\ Difference(x, d).calc = "difference" /\ Difference(x, d).src = x
  BY DEF Rate, Difference

\* Messages about the entries in K, with the values in d and the times in t.
About(K, d, t) == {Difference(x, d[x]) : x \in K} \cup {Rate(x, d[x], t[x]) : x \in K}

LEMMA Mixed ==
  ASSUME NEW K \in SUBSET Entry, NEW d \in [K -> Int], NEW t \in [K -> Nat],
         NEW ms \in SUBSET About(K, d, t)
  PROVE  /\ ms \subseteq Message /\ OneEach(ms)
         /\ \A m \in ms : /\ m.src \in K /\ m.diff = d[m.src]
                          /\ m.calc \in {"rate", "difference"}
                          /\ m.dt = IF m.calc = "difference" THEN 1 ELSE t[m.src]
<1>1. ASSUME NEW m \in ms, NEW x \in K, m = Difference(x, d[x])
      PROVE  /\ m \in Message /\ m.calc = "difference" /\ m.src = x
             /\ m.diff = d[x] /\ m.dt = 1
  <2>1. x \in Entry /\ d[x] \in Int
    OBVIOUS
  <2> QED
    BY <1>1, <2>1 DEF Difference, Message
<1>2. ASSUME NEW m \in ms, NEW x \in K, m = Rate(x, d[x], t[x])
      PROVE  /\ m \in Message /\ m.calc = "rate" /\ m.src = x
             /\ m.diff = d[x] /\ m.dt = t[x]
  <2>1. x \in Entry /\ d[x] \in Int /\ t[x] \in Nat
    OBVIOUS
  <2> QED
    BY <1>2, <2>1, Messages
<1>3. ASSUME NEW m \in ms
      PROVE  \/ \E x \in K : m = Difference(x, d[x])
             \/ \E x \in K : m = Rate(x, d[x], t[x])
  BY DEF About
<1>4. ASSUME NEW m \in ms
      PROVE  /\ m \in Message /\ m.src \in K /\ m.diff = d[m.src]
             /\ \/ /\ m.calc = "difference" /\ m.dt = 1
                   /\ m = Difference(m.src, d[m.src])
                \/ m.calc = "rate" /\ m.dt = t[m.src]
  BY <1>1, <1>2, <1>3
<1>5. OneEach(ms)
  BY <1>4 DEF OneEach
<1> QED
  BY <1>4, <1>5

LEMMA InfinibandEffects ==
  ASSUME TypeInv, NEW r \in SUBSET Source, InfinibandRead(r)
  PROVE  Effects(r)
<1> DEFINE K == r \cap known
           d == [s \in K |-> (Raw(s) - last[s]) % Modulus]
           t == [s \in K |-> Now - stamp[s]]
<1>1. /\ EndRead("infiniband", r) /\ Remember(r) /\ AllStamped
      /\ known' = r /\ panicked' = panicked
      /\ sent' = {Rate(s, (Raw(s) - last[s]) % Modulus, Now - stamp[s]) : s \in K}
  BY DEF InfinibandRead
<1>2. Ends(r) /\ kind = "infiniband"
  BY <1>1, ReadEnds
<1>3. \A s \in Source : Raw(s) \in Nat /\ last[s] \in Nat /\ Now - stamp[s] \in Nat
  BY Elapsed
<1>4. d \in [K -> Int] /\ t \in [K -> Nat] /\ K \in SUBSET Entry
  <2>1. ASSUME NEW s \in K
        PROVE  (Raw(s) - last[s]) % Modulus \in Int /\ Now - stamp[s] \in Nat
    BY <1>3, CollectorsAssumption
  <2> QED
    BY <2>1, SourcesAreEntries
<1>5. sent' \in SUBSET About(K, d, t)
      /\ \A m \in sent' : m.calc = "rate"
  <2>1. sent' = {Rate(s, d[s], t[s]) : s \in K}
    BY <1>1
  <2> QED
    BY <2>1, Calculations DEF About
<1>6. /\ sent' \subseteq Message /\ OneEach(sent')
      /\ \A m \in sent' : m.src \in K /\ m.diff = d[m.src] /\ m.dt = t[m.src]
  <2> HIDE DEF d, t, K
  <2> QED
    BY <1>4, <1>5, Mixed
<1>7. \A s \in K : d[s] = (Raw(s) - last[s]) % Modulus /\ t[s] = Now - stamp[s]
  OBVIOUS
<1>8. K \subseteq r /\ K \subseteq known
  OBVIOUS
<1> HIDE DEF d, t, K
<1>9. Typed /\ Renewed(r)
  BY <1>1, <1>2, <1>6, RememberedAll, SourcesAreEntries DEF Typed
<1>10. Reports(r)
  BY <1>2, <1>5, <1>6, <1>7 DEF Reports, Increase, Timeless
<1>11. Kept(r) /\ Totalled(r) /\ Moved(r)
  BY <1>1, <1>2, <1>6, <1>8, CollectorsAssumption DEF Kept, Totalled, Moved
<1> QED
  BY <1>2, <1>9, <1>10, <1>11 DEF Effects

LEMMA RaplEffects ==
  ASSUME TypeInv, NEW r \in SUBSET Source, RaplRead(r)
  PROVE  Effects(r)
<1> DEFINE D(s) == Raw(s) - last[s]
           d == [s \in r |-> IF D(s) < 0 THEN D(s) + Modulus ELSE D(s)]
           t == [s \in r |-> Now - stamp[s]]
<1>1. /\ EndRead("rapl", r) /\ Remember(r)
      /\ stamp' = [s \in Source |-> IF s \in r THEN Now ELSE stamp[s]]
      /\ known' = known /\ panicked' = panicked
      /\ sent' = {Rate(s, IF D(s) < 0 THEN D(s) + Modulus ELSE D(s), Now - stamp[s]) :
                  s \in r}
  BY DEF RaplRead
<1>2. Ends(r) /\ kind = "rapl"
  BY <1>1, ReadEnds
<1>3. \A s \in Source : Raw(s) \in Nat /\ last[s] \in Nat /\ Now - stamp[s] \in Nat
  BY Elapsed
<1>4. d \in [r -> Int] /\ t \in [r -> Nat] /\ r \in SUBSET Entry
  <2>1. ASSUME NEW s \in r
        PROVE  /\ (IF D(s) < 0 THEN D(s) + Modulus ELSE D(s)) \in Int
               /\ Now - stamp[s] \in Nat
    BY <1>3, CollectorsAssumption
  <2> HIDE DEF D
  <2> QED
    BY <2>1, SourcesAreEntries
<1>5. sent' \in SUBSET About(r, d, t)
      /\ \A m \in sent' : m.calc = "rate"
  <2>1. sent' = {Rate(s, d[s], t[s]) : s \in r}
    <3> HIDE DEF D
    <3> QED
      BY <1>1
  <2> QED
    BY <2>1, Calculations DEF About
<1>6. /\ sent' \subseteq Message /\ OneEach(sent')
      /\ \A m \in sent' : m.src \in r /\ m.diff = d[m.src] /\ m.dt = t[m.src]
  <2> HIDE DEF d, t
  <2> QED
    BY <1>4, <1>5, Mixed
<1>7. \A s \in r : /\ d[s] = IF D(s) < 0 THEN D(s) + Modulus ELSE D(s)
                   /\ t[s] = Now - stamp[s]
  OBVIOUS
<1> HIDE DEF d, t
<1>8. stamp' \in [Source -> 0..Now] /\ Renewed(r)
  <2>1. stamp \in [Source -> 0..Now] /\ Now \in Nat
    BY DEF TypeInv, CountersTypeOK, EnvTypeOK
  <2> QED
    BY <1>1, <2>1, Remembered DEF Renewed
<1>9. Typed
  BY <1>1, <1>2, <1>6, <1>8, Remembered, SourcesAreEntries DEF Typed
<1>10. Reports(r)
  BY <1>2, <1>5, <1>6, <1>7 DEF Reports, Increase, Timeless
<1>11. Kept(r)
  <2>1. ASSUME NEW s \in Source \ r
        PROVE  last'[s] = last[s] /\ stamp'[s] = stamp[s]
    BY <1>1, Remembered, SourcesAreEntries
  <2> QED
    BY <1>1, <1>2, <2>1 DEF Kept
<1>12. Totalled(r) /\ Moved(r)
  BY <1>1, <1>2, <1>6, CollectorsAssumption DEF Totalled, Moved
<1> QED
  BY <1>2, <1>8, <1>9, <1>10, <1>11, <1>12 DEF Effects

LEMMA IOstatEffects ==
  ASSUME TypeInv, NEW r \in SUBSET watched, IOstatRead(r)
  PROVE  Effects(r)
<1> DEFINE d == [s \in r |-> Raw(s) - last[s]]
           t == [s \in r |-> 1]
<1>0. r \in SUBSET Source
  BY SourcesAreEntries
<1>1. /\ EndRead("iostat", r) /\ Remember(r)
      /\ UNCHANGED <<known, stamp, panicked>>
      /\ sent' = {Difference(s, Raw(s) - last[s]) : s \in r}
  BY DEF IOstatRead
<1>2. Ends(r) /\ kind = "iostat"
  BY <1>0, <1>1, ReadEnds
<1>3. \A s \in Source : Raw(s) - last[s] \in Int
  BY Differences
<1>4. d \in [r -> Int] /\ t \in [r -> Nat] /\ r \in SUBSET Entry
  BY <1>0, <1>3, SourcesAreEntries
<1>5. sent' = {Difference(s, d[s]) : s \in r}
  BY <1>1
<1>6. /\ sent' \subseteq Message /\ OneEach(sent')
      /\ \A m \in sent' : /\ m.src \in r /\ m.diff = d[m.src]
                          /\ m.dt = IF m.calc = "difference" THEN 1 ELSE t[m.src]
      /\ \A m \in sent' : m.calc = "difference"
      /\ \A s \in r : \E m \in sent' : m.src = s
  <2>1. sent' \in SUBSET About(r, d, t)
    BY <1>5 DEF About
  <2> HIDE DEF d, t
  <2>2. \A m \in sent' : m.calc = "difference"
    BY <1>5, Calculations
  <2>3. ASSUME NEW s \in r
        PROVE  \E m \in sent' : m.src = s
    <3>1. Difference(s, d[s]) \in sent'
      BY <1>5
    <3> QED
      BY <3>1, Calculations
  <2> QED
    BY <1>4, <2>1, <2>2, <2>3, Mixed
<1>7. \A s \in r : d[s] = Raw(s) - last[s]
  OBVIOUS
<1> HIDE DEF d, t
<1>8. /\ last' \in [Entry -> Nat] /\ \A s \in r : last'[s] = Raw(s)
      /\ \A s \in Source \ r : last'[s] = last[s]
  BY <1>0, <1>1, Remembered, SourcesAreEntries
<1>9. Typed
  <2>1. stamp' \in [Source -> 0..Now]
    BY <1>1 DEF TypeInv, CountersTypeOK
  <2> QED
    BY <1>1, <1>2, <1>6, <1>8, <2>1, SourcesAreEntries DEF Typed
<1>10. Reports(r) /\ Renewed(r)
  BY <1>2, <1>6, <1>7, <1>8 DEF Reports, Increase, Renewed, Timeless
<1>11. Kept(r) /\ Totalled(r)
  BY <1>0, <1>2, <1>6, CollectorsAssumption DEF Kept, Totalled
<1>12. Moved(r)
  BY <1>2, <1>6, <1>8, SourcesAreEntries DEF Moved
<1> QED
  BY <1>2, <1>9, <1>10, <1>11, <1>12 DEF Effects

LEMMA LustreEffects ==
  ASSUME TypeInv, NEW r \in SUBSET watched, LustreRead(r)
  PROVE  Effects(r)
<1> DEFINE A(s) == NonNegative((IF s \in r THEN Raw(s) ELSE last[s]) - last[s])
           d == [s \in watched |-> A(s)]
           t == [s \in watched |-> Now - stamp[s]]
<1>0. r \in SUBSET Source /\ watched \in SUBSET Source
  BY SourcesAreEntries
<1>1. /\ EndRead("lustre", r) /\ Remember(r) /\ AllStamped
      /\ UNCHANGED <<known, panicked>>
      /\ sent' = {Difference(s, A(s)) : s \in watched}
                 \cup {Rate(s, A(s), Now - stamp[s]) : s \in watched}
  BY DEF LustreRead
<1>2. Ends(r) /\ kind = "lustre"
  BY <1>0, <1>1, ReadEnds
<1>3. ASSUME NEW s \in Source
      PROVE  /\ A(s) \in Int /\ Now - stamp[s] \in Nat
             /\ s \in r => A(s) = NonNegative(Raw(s) - last[s])
             /\ s \notin r => A(s) = 0
  <2>1. Raw(s) \in Nat /\ last[s] \in Nat /\ Now - stamp[s] \in Nat
    BY Elapsed
  <2> QED
    BY <2>1 DEF NonNegative
<1> HIDE DEF A
<1>4. d \in [watched -> Int] /\ t \in [watched -> Nat] /\ watched \in SUBSET Entry
  BY <1>0, <1>3, SourcesAreEntries
<1>5. sent' = About(watched, d, t)
  BY <1>1 DEF About
<1>6. ASSUME NEW s \in watched
      PROVE  d[s] = A(s) /\ t[s] = Now - stamp[s]
  OBVIOUS
<1> HIDE DEF d, t
<1>7. /\ sent' \subseteq Message /\ OneEach(sent')
      /\ \A m \in sent' : /\ m.src \in watched /\ m.diff = d[m.src]
                          /\ m.dt = IF m.calc = "difference" THEN 1 ELSE t[m.src]
  BY <1>4, <1>5, Mixed
<1>8. ASSUME NEW s \in watched
      PROVE  \E m \in sent' : m.calc = "difference" /\ m.src = s
  <2>1. Difference(s, d[s]) \in sent'
    BY <1>5 DEF About
  <2> QED
    BY <2>1, Calculations
<1>9. /\ last' \in [Entry -> Nat] /\ \A s \in r : last'[s] = Raw(s)
      /\ \A s \in Source \ r : last'[s] = last[s]
  BY <1>0, <1>1, Remembered, SourcesAreEntries
<1>10. stamp' \in [Source -> 0..Now] /\ Renewed(r)
  BY <1>0, <1>1, RememberedAll
<1>11. Typed
  BY <1>1, <1>2, <1>7, <1>9, <1>10, SourcesAreEntries DEF Typed
<1>12. Reports(r)
  BY <1>0, <1>2, <1>3, <1>6, <1>7 DEF Reports, Increase, Timeless
<1>13. Kept(r) /\ Totalled(r)
  BY <1>0, <1>2, <1>7, CollectorsAssumption DEF Kept, Totalled
<1>14. Moved(r)
  BY <1>0, <1>2, <1>3, <1>6, <1>7, <1>8, <1>9 DEF Moved
<1> QED
  BY <1>2, <1>10, <1>11, <1>12, <1>13, <1>14 DEF Effects

LEMMA NfsEffects ==
  ASSUME TypeInv, NEW r \in SUBSET Source, NfsRead(r)
  PROVE  Effects(r)
<1> DEFINE K == r \cap known
           d == [s \in K |-> Raw(s) - last[s]]
           t == [s \in K |-> 1]
<1>1. /\ EndRead("nfs", r) /\ UNCHANGED <<stamp, panicked>> /\ known' = r
      /\ last' = [x \in Entry |-> IF x \in r THEN Raw(x) ELSE 0]
      /\ sent' = {Difference(s, Raw(s) - last[s]) : s \in K}
  BY DEF NfsRead
<1>2. Ends(r) /\ kind = "nfs"
  BY <1>1, ReadEnds
<1>3. \A s \in Source : Raw(s) - last[s] \in Int /\ Raw(s) \in Nat
  BY Differences, Elapsed
<1>4. d \in [K -> Int] /\ t \in [K -> Nat] /\ K \in SUBSET Entry
  BY <1>3, SourcesAreEntries
<1>5. sent' \in SUBSET About(K, d, t)
  BY <1>1 DEF About
<1>6. \A m \in sent' : m.calc = "difference"
  BY <1>1, Calculations
<1>7. K \subseteq known /\ K \subseteq r /\ \A s \in K : d[s] = Raw(s) - last[s]
  OBVIOUS
<1> HIDE DEF K, d, t
<1>8. /\ sent' \subseteq Message /\ OneEach(sent')
      /\ \A m \in sent' : /\ m.src \in K /\ m.diff = d[m.src]
                          /\ m.dt = IF m.calc = "difference" THEN 1 ELSE t[m.src]
  BY <1>4, <1>5, Mixed
<1>9. last' \in [Entry -> Nat] /\ \A s \in r : last'[s] = Raw(s)
  BY <1>1, <1>3, SourcesAreEntries
<1>10. Typed
  <2>1. stamp' \in [Source -> 0..Now]
    BY <1>1 DEF TypeInv, CountersTypeOK
  <2> QED
    BY <1>1, <1>2, <1>8, <1>9, <2>1, SourcesAreEntries DEF Typed
<1>11. Reports(r) /\ Renewed(r)
  BY <1>2, <1>6, <1>7, <1>8, <1>9 DEF Reports, Increase, Renewed, Timeless
<1>12. Kept(r) /\ Totalled(r) /\ Moved(r)
  BY <1>1, <1>2, <1>7, <1>8, <1>9, CollectorsAssumption DEF Kept, Totalled, Moved
<1> QED
  BY <1>2, <1>10, <1>11, <1>12 DEF Effects

\* Nothing has been sent, and no source counts as read.
LEMMA NfsFailEffects ==
  ASSUME TypeInv, NEW parsed \in SUBSET Source, NfsReadFails(parsed)
  PROVE  Effects({})
<1>1. /\ EndRead("nfs", {}) /\ UNCHANGED <<stamp, panicked>> /\ known' = parsed
      /\ last' = [x \in Entry |-> IF x \in parsed THEN Raw(x) ELSE 0]
      /\ sent' = {}
  BY DEF NfsReadFails
<1>2. Ends({}) /\ kind = "nfs"
  BY <1>1, ReadEnds
<1>3. \A s \in Source : Raw(s) \in Nat
  BY Elapsed
<1>4. last' \in [Entry -> Nat] /\ \A s \in parsed : last'[s] = Raw(s)
  BY <1>1, <1>3, SourcesAreEntries
<1>5. Typed
  <2>1. stamp' \in [Source -> 0..Now]
    BY <1>1 DEF TypeInv, CountersTypeOK
  <2> QED
    BY <1>1, <1>2, <1>4, <2>1, SourcesAreEntries DEF Typed, OneEach
<1> QED
  BY <1>1, <1>2, <1>4, <1>5
  DEF Effects, Reports, Renewed, Kept, Totalled, Moved

\* Nothing has happened.
LEMMA CommandFailsEffects ==
  ASSUME TypeInv, NEW k \in {"gpfs", "nfs", "iostat"}, CommandFails(k)
  PROVE  Effects({})
<1>1. /\ EndRead(k, {}) /\ UNCHANGED <<last, known, stamp, panicked>>
      /\ sent' = {}
  BY DEF CommandFails
<1>2. Ends({}) /\ kind = k
  BY <1>1, ReadEnds
<1>3. Typed
  <2>1. /\ last' \in [Entry -> Nat] /\ known' \subseteq Entry
        /\ stamp' \in [Source -> 0..Now] /\ panicked' \in BOOLEAN
    BY <1>1 DEF TypeInv, CountersTypeOK
  <2>2. kind = "gpfs" => \A s, t \in Source : stamp'[s] = stamp'[t]
    BY <1>1 DEF TypeInv
  <2> QED
    BY <1>1, <2>1, <2>2 DEF Typed, OneEach
<1>4. Kept({}) /\ Moved({})
  BY <1>1, <1>2 DEF Kept, Moved
<1>5. Totalled({})
  BY <1>1 DEF Totalled
<1> QED
  BY <1>1, <1>2, <1>3, <1>4, <1>5 DEF Effects, Reports, Renewed

\* When a value is missing, the others still have theirs.
LEMMA GpfsEffects ==
  ASSUME TypeInv, NEW r \in SUBSET Source, GpfsRead(r)
  PROVE  Effects(r)
<1> DEFINE new == IF r = {} THEN {} ELSE r \cup {Total}
           value(x) == IF x = Total THEN SumFunctionOnSet([s \in r |-> Raw(s)], r)
                       ELSE Raw(x)
           A(x) == NonNegative(value(x) - last[x])
           elapsed == Now - Max({stamp[s] : s \in Source})
           d == [x \in known |-> IF x \in new THEN A(x) ELSE 0]
           t == [x \in known |-> IF x \in new THEN elapsed ELSE 1]
<1>1. /\ EndRead("gpfs", r) /\ UNCHANGED panicked
      /\ sent' = {Difference(x, IF x \in new THEN A(x) ELSE 0) : x \in known}
                 \cup {IF x \in new THEN Rate(x, A(x), elapsed)
                       ELSE Rate(x, 0, 1) : x \in known}
      /\ last' = [x \in Entry |-> IF new = {} THEN last[x]
                                  ELSE IF x \in new THEN value(x) ELSE 0]
      /\ known' = IF new = {} THEN known ELSE new
      /\ IF new = {} THEN UNCHANGED stamp ELSE AllStamped
  BY DEF GpfsRead
<1>2. Ends(r) /\ kind = "gpfs"
  BY <1>1, ReadEnds
<1>3. \A s \in Source : Raw(s) \in Nat
  BY Elapsed
<1>4. SumFunctionOnSet([s \in r |-> Raw(s)], r) \in Nat
  <2> DEFINE f == [s \in r |-> Raw(s)]
  <2>1. IsFiniteSet(r) /\ \A s \in r : f[s] \in Nat
    BY <1>3, CollectorsAssumption, FS_Subset
  <2> HIDE DEF f
  <2> QED
    BY <2>1, SumType DEF f
<1>5. new \subseteq Entry /\ r \subseteq new /\ (new = {} <=> r = {})
      /\ (new # {} => new = r \cup {Total})
  BY DEF Entry
<1>6. /\ \A x \in new : value(x) \in Nat
      /\ \A s \in r : value(s) = Raw(s)
      /\ value(Total) = SumFunctionOnSet([s \in r |-> Raw(s)], r)
  BY <1>3, <1>4, CollectorsAssumption
<1> HIDE DEF new, value
<1>7. last \in [Entry -> Nat] /\ known \subseteq Entry /\ panicked \in BOOLEAN
      /\ stamp \in [Source -> 0..Now]
      /\ \A s, u \in Source : stamp[s] = stamp[u]
  BY <1>2 DEF TypeInv, CountersTypeOK
<1>8. \A x \in new : A(x) \in Int
  BY <1>5, <1>6, <1>7 DEF NonNegative
<1>9. ASSUME NEW s \in Source
      PROVE  elapsed = Now - stamp[s] /\ elapsed \in Nat
  <2>1. {stamp[u] : u \in Source} = {stamp[s]} /\ Now - stamp[s] \in Nat
    BY <1>7, Elapsed
  <2>2. Max({stamp[s]}) = stamp[s]
    BY <1>7 DEF Max
  <2> QED
    BY <2>1, <2>2
<1> HIDE DEF elapsed
<1>10. d \in [known -> Int] /\ t \in [known -> Nat] /\ known \in SUBSET Entry
  <2>1. \A x \in new : elapsed \in Nat
    BY <1>5, <1>9
  <2> QED
    BY <1>7, <1>8, <2>1
<1>11. sent' = About(known, d, t)
  <2>1. \A x \in known : Rate(x, d[x], t[x]) =
          IF x \in new THEN Rate(x, A(x), elapsed) ELSE Rate(x, 0, 1)
    OBVIOUS
  <2>2. \A x \in known : d[x] = IF x \in new THEN A(x) ELSE 0
    OBVIOUS
  <2> HIDE DEF A, d, t
  <2> QED
    BY <1>1, <2>1, <2>2 DEF About
<1>12. \A x \in known \cap new : d[x] = A(x) /\ t[x] = elapsed
  OBVIOUS
<1>17. r = {} => \A x \in known : d[x] = 0
  BY <1>5
<1> HIDE DEF d, t
<1>13. /\ sent' \subseteq Message /\ OneEach(sent')
       /\ \A m \in sent' : /\ m.src \in known /\ m.diff = d[m.src]
                           /\ m.dt = IF m.calc = "difference" THEN 1 ELSE t[m.src]
  BY <1>10, <1>11, Mixed
<1>14. /\ last' \in [Entry -> Nat]
       /\ \A x \in new : last'[x] = value(x)
       /\ new = {} => last' = last
  BY <1>1, <1>5, <1>6, <1>7
<1>15. CASE r = {}
  <2>1. last' = last /\ stamp' = stamp /\ known' = known /\ panicked' = panicked
    BY <1>1, <1>5, <1>14, <1>15
  <2>2. Typed
    BY <1>2, <1>7, <1>13, <2>1 DEF Typed
  <2>3. \A m \in sent' : m.diff = 0
    BY <1>13, <1>15, <1>17
  <2> QED
    BY <1>2, <1>13, <1>15, <2>1, <2>2, <2>3
    DEF Effects, Reports, Renewed, Kept, Totalled, Moved
<1>16. CASE r # {}
  <2>1. AllStamped /\ known' = r \cup {Total} /\ panicked' = panicked
    BY <1>1, <1>5, <1>16
  <2>2. stamp' \in [Source -> 0..Now] /\ \A s \in Source : stamp'[s] = Now
    BY <2>1, Stamped
  <2>3. Typed
    <3>1. known' \subseteq Entry
      BY <1>5, <1>16, <2>1
    <3> QED
      BY <1>2, <1>7, <1>13, <1>14, <2>1, <2>2, <3>1 DEF Typed
  <2>4. Renewed(r)
    BY <1>5, <1>6, <1>14, <2>2 DEF Renewed
  <2>5. ASSUME NEW m \in sent', m.src \in r
        PROVE  /\ m.diff = NonNegative(Raw(m.src) - last[m.src])
               /\ m.dt = IF m.calc = "difference" THEN 1 ELSE Now - stamp[m.src]
    BY <1>5, <1>6, <1>9, <1>12, <1>13, <2>5
  <2>6. Reports(r)
    BY <1>2, <2>5 DEF Reports, Increase, Timeless
  <2>7. Kept(r) /\ Moved(r)
    BY <1>2, <1>13, <2>1, CollectorsAssumption DEF Kept, Moved
  <2>8. Totalled(r)
    <3> SUFFICES ASSUME r = Source
                 PROVE  LET total == SumFunctionOnSet([s \in Source |-> Raw(s)], Source)
                        IN /\ last'[Total] = total
                           /\ \A m \in sent' : m.src = Total =>
                                /\ m.diff = NonNegative(total - last[Total])
                                /\ \A s \in Source :
                                     m.dt = IF m.calc = "difference" THEN 1
                                            ELSE Now - stamp[s]
      BY <1>2, <1>16 DEF Totalled
    <3>1. Total \in new
      BY <1>5, <1>16
    <3>2. last'[Total] = value(Total)
      BY <1>14, <3>1
    <3>3. value(Total) = SumFunctionOnSet([s \in Source |-> Raw(s)], Source)
      BY <1>6
    <3>4. ASSUME NEW m \in sent', m.src = Total
          PROVE  /\ m.diff = NonNegative(value(Total) - last[Total])
                 /\ \A s \in Source : m.dt = IF m.calc = "difference" THEN 1
                                              ELSE Now - stamp[s]
      BY <1>9, <1>12, <1>13, <3>1, <3>4
    <3> QED
      BY <3>2, <3>3, <3>4
  <2> QED
    BY <1>2, <2>3, <2>4, <2>6, <2>7, <2>8 DEF Effects
<1> QED
  BY <1>15, <1>16

LEMMA ReadEffects ==
  ASSUME TypeInv, ReadCollector
  PROVE  \E r \in SUBSET Source : Effects(r)
<1>1. PICK seen \in {present, {}} : \E r \in SUBSET seen :
        \/ NetstatRead(r \cap watched) \/ InfinibandRead(r \cap watched)
        \/ RaplRead(r \cap watched) \/ NumastatsRead(r \cap watched)
        \/ CpustatRead(r) \/ SchedstatRead(seen, r) \/ NfsIOStatRead(seen, r)
        \/ IOstatRead(r \cap watched) \/ LustreRead(r \cap watched)
        \/ GpfsRead(r) \/ NfsRead(seen) \/ (r # seen /\ NfsReadFails(r))
        \/ CommandFails("gpfs") \/ CommandFails("nfs") \/ CommandFails("iostat")
  BY DEF ReadCollector
<1>2. seen \in SUBSET Source
  BY SourcesAreEntries
<1>3. PICK r \in SUBSET seen :
        \/ NetstatRead(r \cap watched) \/ InfinibandRead(r \cap watched)
        \/ RaplRead(r \cap watched) \/ NumastatsRead(r \cap watched)
        \/ CpustatRead(r) \/ SchedstatRead(seen, r) \/ NfsIOStatRead(seen, r)
        \/ IOstatRead(r \cap watched) \/ LustreRead(r \cap watched)
        \/ GpfsRead(r) \/ NfsRead(seen) \/ (r # seen /\ NfsReadFails(r))
        \/ CommandFails("gpfs") \/ CommandFails("nfs") \/ CommandFails("iostat")
  BY <1>1
<1> DEFINE rw == r \cap watched
<1>4. r \in SUBSET Source /\ rw \in SUBSET Source /\ rw \in SUBSET watched
      /\ {} \in SUBSET Source
  BY <1>2
<1> HIDE DEF rw
<1>5. CASE NetstatRead(rw)
  BY <1>4, <1>5, NetstatEffects
<1>6. CASE InfinibandRead(rw)
  BY <1>4, <1>6, InfinibandEffects
<1>7. CASE RaplRead(rw)
  BY <1>4, <1>7, RaplEffects
<1>8. CASE NumastatsRead(rw)
  BY <1>4, <1>8, NumastatsEffects
<1>9. CASE CpustatRead(r)
  BY <1>4, <1>9, CpustatEffects
<1>10. CASE SchedstatRead(seen, r)
  BY <1>2, <1>4, <1>10, SchedstatEffects
<1>11. CASE NfsIOStatRead(seen, r)
  BY <1>2, <1>4, <1>11, NfsIOStatEffects
<1>12. CASE IOstatRead(rw)
  BY <1>4, <1>12, IOstatEffects
<1>13. CASE LustreRead(rw)
  BY <1>4, <1>13, LustreEffects
<1>14. CASE GpfsRead(r)
  BY <1>4, <1>14, GpfsEffects
<1>15. CASE NfsRead(seen)
  BY <1>2, <1>15, NfsEffects
<1>16. CASE NfsReadFails(r)
  BY <1>4, <1>16, NfsFailEffects
<1>17. CASE CommandFails("gpfs") \/ CommandFails("nfs") \/ CommandFails("iostat")
  BY <1>4, <1>17, CommandFailsEffects
<1> QED
  BY <1>3, <1>5, <1>6, <1>7, <1>8, <1>9, <1>10, <1>11, <1>12, <1>13, <1>14, <1>15,
     <1>16, <1>17 DEF rw
-----------------------------------------------------------------------------
(* The inductive invariant. *)

\* The index in the history of the time the last Read() belongs to.
ReadIndex == IF due THEN Len(hist) - 1 ELSE Len(hist)

\* What was read well by the last Read() and not reset since is what the source
\* showed then, with that time.
CleanInv ==
  ~panicked => \A s \in clean :
    /\ last[s] = At(s, ReadIndex)
    /\ base[s] <= hist[ReadIndex][s]
    /\ kind \notin Timeless => stamp[s] = ReadIndex - 1

\* What all sources showed at the time with index i.
AllAt(i) == SumFunctionOnSet([s \in Source |-> At(s, i)], Source)

\* The total of gpfs is the sum of its sources, when they all were read well.
TotalInv ==
  kind = "gpfs" /\ clean = Source /\ Source # {} => last[Total] = AllAt(ReadIndex)

\* In the collectors whose rates are exact the time of a source belongs to its
\* value, however long ago it was read.
SteadyInv ==
  ~panicked => \A s \in steady :
    kind = "rapl" \/ (kind \in {"infiniband", "gpfs"} /\ s \in known) =>
      /\ stamp[s] + 1 \in 1..ReadIndex
      /\ last[s] = At(s, stamp[s] + 1)
      /\ base[s] <= hist[stamp[s] + 1][s]

\* The differences sent and the one not sent yet.
Reckoned(s) == sum[s] + (Raw(s) - last[s])

\* What has been sent and what is still to be sent is what has been counted; the
\* names that nfs has lost are not sent again.
AddInv ==
  \A s \in untouched :
    /\ base[s] = 0
    /\ kind \in {"iostat", "lustre"} =>
         s \in watched /\ last[s] <= Raw(s) /\ Reckoned(s) = Counted(s) - hist[1][s]
    /\ kind = "nfs" =>
         /\ sum[s] <= Counted(s) - hist[1][s]
         /\ s \in known => /\ last[s] <= Raw(s)
                           /\ Reckoned(s) <= Counted(s) - hist[1][s]

CountersInv == TypeInv /\ CleanInv /\ TotalInv /\ SteadyInv /\ AddInv

\* What Init() has made of the collector.
Started(w, e, r) ==
  /\ w \subseteq Source /\ e \subseteq Source /\ r \subseteq w
  /\ StartWith(kind, w, e, r) /\ kind \in Kinds
  /\ kind \in {"infiniband", "gpfs"} => r = {}

LEMMA InitStarts ==
  ASSUME CollectorInit
  PROVE  EnvInit /\ \E w, e, r \in SUBSET Source : Started(w, e, r)
<1>1. EnvInit /\ present \subseteq Source /\ kind \in Kinds
      /\ {} \in SUBSET Source /\ Source \in SUBSET Source
  BY DEF CollectorInit, EnvInit
<1>2. ASSUME NEW w \in SUBSET Source, NEW e \in SUBSET Source, NEW r \in SUBSET w, NEW k,
             StartWith(k, w, e, r), k \in {"infiniband", "gpfs"} => r = {}
      PROVE  \E w2, e2, r2 \in SUBSET Source : Started(w2, e2, r2)
  <2>1. kind = k
    BY <1>2 DEF StartWith
  <2>2. Started(w, e, r)
    BY <1>1, <1>2, <2>1 DEF Started
  <2> QED
    BY <2>2
<1>3. CASE NetstatInit
  <2>1. PICK w \in SUBSET present \ {{}} : StartWith("netstat", w, {}, {})
    BY <1>3 DEF NetstatInit
  <2> QED
    BY <1>1, <1>2, <2>1
<1>4. CASE InfinibandInit
  <2>1. PICK w \in SUBSET present \ {{}} : StartWith("infiniband", w, {}, {})
    BY <1>4 DEF InfinibandInit
  <2> QED
    BY <1>1, <1>2, <2>1
<1>5. CASE RaplInit
  <2>1. PICK w \in SUBSET present \ {{}} : StartWith("rapl", w, w, w)
    BY <1>5 DEF RaplInit
  <2> QED
    BY <1>1, <1>2, <2>1
<1>6. CASE NumastatsInit
  BY <1>1, <1>2, <1>6 DEF NumastatsInit
<1>7. CASE CpustatInit
  <2>1. PICK r \in SUBSET present : StartWith("cpustat", present, present, r)
    BY <1>7 DEF CpustatInit
  <2> QED
    BY <1>1, <1>2, <2>1
<1>8. CASE SchedstatInit
  <2>1. PICK r \in SUBSET present : StartWith("schedstat", present, present, r)
    BY <1>8 DEF SchedstatInit
  <2> QED
    BY <1>1, <1>2, <2>1
<1>9. CASE NfsIOStatInit
  <2>1. CASE \E r \in SUBSET present : StartWith("nfsiostat", Source, present, r)
    BY <1>1, <1>2, <2>1
  <2>2. CASE StartWith("nfsiostat", Source, {}, {})
    BY <1>1, <1>2, <2>2
  <2> QED
    BY <1>9, <2>1, <2>2 DEF NfsIOStatInit
<1>10. CASE IOstatInit
  <2>1. PICK w \in SUBSET present : \E r \in SUBSET w : StartWith("iostat", w, w, r)
    BY <1>10 DEF IOstatInit
  <2> QED
    BY <1>1, <1>2, <2>1
<1>11. CASE LustreInit
  <2>1. PICK r \in SUBSET present : StartWith("lustre", present, present, r)
    BY <1>11 DEF LustreInit
  <2> QED
    BY <1>1, <1>2, <2>1
<1>12. CASE GpfsInit
  BY <1>1, <1>2, <1>12 DEF GpfsInit
<1>13. CASE NfsInit
  BY <1>1, <1>2, <1>13 DEF NfsInit
<1> QED
  BY <1>1, <1>3, <1>4, <1>5, <1>6, <1>7, <1>8, <1>9, <1>10, <1>11, <1>12, <1>13
  DEF CollectorInit

LEMMA CountersInit ==
  ASSUME CollectorInit
  PROVE  CountersInv
<1>1. EnvInit /\ EnvInv
  BY InitStarts, EnvInitInv
<1>2. PICK w, e, r \in SUBSET Source : Started(w, e, r)
  BY InitStarts
<1>3. /\ w \subseteq Source /\ e \subseteq Source /\ r \subseteq w /\ kind \in Kinds
      /\ watched = w /\ known = e
      /\ last = [x \in Entry |-> IF x \in r THEN Raw(x) ELSE 0]
      /\ stamp = [s \in Source |-> 0]
      /\ sent = {} /\ panicked = FALSE
      /\ clean = r /\ steady = r /\ untouched = r
      /\ sum = [s \in Source |-> 0]
      /\ kind \in {"infiniband", "gpfs"} => r = {}
  BY <1>2 DEF Started, StartWith
<1>4. /\ due = FALSE /\ Len(hist) = 1 /\ Now = 0 /\ base = [s \in Source |-> 0]
      /\ hist[1] = [s \in Source |-> 1]
  <2>1. hist = <<[s \in Source |-> 1]>>
    BY <1>1 DEF EnvInit
  <2> QED
    BY <1>1, <2>1 DEF EnvInit, Now
<1>5. \A s \in Source : /\ Raw(s) \in Nat /\ Raw(s) = At(s, 1)
                        /\ Counted(s) = hist[1][s] /\ hist[1][s] = 1
  BY <1>1, <1>4, RawType DEF Counted
<1>6. last \in [Entry -> Nat] /\ \A s \in r : last[s] = Raw(s)
  BY <1>3, <1>5 DEF Entry
<1>7. TypeInv
  <2>1. EnvTypeOK
    BY <1>1 DEF EnvInv
  <2>2. stamp \in [Source -> 0..Now] /\ \A s, t \in Source : stamp[s] = stamp[t]
    BY <1>3, <1>4
  <2>3. known \subseteq Entry
    BY <1>3 DEF Entry
  <2>4. sum \in [Source -> Int]
    BY <1>3
  <2>5. watched \subseteq Source /\ panicked \in BOOLEAN /\ sent \subseteq Message
        /\ clean \subseteq Source /\ steady \subseteq Source /\ untouched \subseteq Source
    BY <1>3
  <2>6. CountersTypeOK
    BY <1>3, <1>6, <2>1, <2>2, <2>3, <2>4, <2>5 DEF CountersTypeOK
  <2> QED
    BY <1>1, <2>2, <2>6 DEF TypeInv
<1>8. ReadIndex = 1
  BY <1>4 DEF ReadIndex
<1>9. ASSUME NEW s \in r
      PROVE  /\ last[s] = At(s, 1) /\ base[s] = 0 /\ base[s] <= hist[1][s]
             /\ stamp[s] = 0 /\ s \in watched /\ last[s] = Raw(s) /\ Raw(s) \in Nat
             /\ sum[s] = 0 /\ Counted(s) = hist[1][s] /\ hist[1][s] = 1
  BY <1>3, <1>4, <1>5, <1>6
<1>10. CleanInv /\ TotalInv
  BY <1>3, <1>8, <1>9 DEF CleanInv, TotalInv
<1>11. SteadyInv
  BY <1>3, <1>8, <1>9 DEF SteadyInv
<1>12. AddInv
  <2>1. ASSUME NEW s \in r
        PROVE  /\ Reckoned(s) = 0 /\ Counted(s) - hist[1][s] = 0
               /\ base[s] = 0 /\ s \in watched /\ last[s] <= Raw(s) /\ sum[s] = 0
    BY <1>9 DEF Reckoned
  <2>2. \A s \in untouched : s \in r
    BY <1>3
  <2> QED
    BY <2>1, <2>2 DEF AddInv
<1> QED
  BY <1>7, <1>10, <1>11, <1>12 DEF CountersInv

\* An interval passes: the past is what it was.
LEMMA PassIntervalKeeps ==
  ASSUME CountersInv, PassInterval, UNCHANGED historyVars, UNCHANGED collectorVars
  PROVE  CountersInv'
<1>1. /\ hist' \in Seq([Source -> Nat])
      /\ Len(hist') = Len(hist) + 1 /\ Len(hist) \in Nat \ {0}
      /\ \A i \in 1..Len(hist) : hist'[i] = hist[i]
      /\ \A s \in Source : Counted(s)' - Counted(s) \in 0..MaxGrowth
  BY PassIntervalRow DEF CountersInv, TypeInv
<1>2. EnvInv /\ EnvInv'
  BY PassIntervalInv DEF CountersInv, TypeInv
<1>3. ~due /\ due' /\ base' = base
  BY DEF PassInterval
<1>4. /\ kind' = kind /\ watched' = watched /\ last' = last /\ known' = known
      /\ stamp' = stamp /\ sent' = sent /\ panicked' = panicked
      /\ clean' = clean /\ steady' = steady /\ sum' = sum /\ untouched' = untouched
  BY DEF historyVars, collectorVars
<1>5. TypeInv'
  <2>1. CountersTypeOK /\ (kind = "gpfs" => \A s, t \in Source : stamp[s] = stamp[t])
    BY DEF CountersInv, TypeInv
  <2>2. 0..Now \subseteq 0..Now'
    BY <1>1 DEF Now
  <2>3. stamp' \in [Source -> 0..Now']
    BY <1>4, <2>1, <2>2 DEF CountersTypeOK
  <2>4. EnvTypeOK'
    BY <1>2 DEF EnvInv
  <2>5. CountersTypeOK'
    BY <1>4, <2>1, <2>3, <2>4 DEF CountersTypeOK
  <2> QED
    BY <1>2, <1>4, <2>1, <2>5 DEF TypeInv
<1>6. ReadIndex' = ReadIndex /\ ReadIndex \in 1..Len(hist)
  BY <1>1, <1>3 DEF ReadIndex
<1>7. \A s \in Source : \A i \in 1..Len(hist) : At(s, i)' = At(s, i)
  BY <1>1, <1>3, <1>4 DEF At
<1>8. clean \subseteq Source /\ steady \subseteq Source /\ untouched \subseteq Source
      /\ sum \in [Source -> Int] /\ stamp \in [Source -> 0..Now]
      /\ last \in [Entry -> Nat]
  BY DEF CountersInv, TypeInv, CountersTypeOK
<1>9. CleanInv'
  <2> SUFFICES ASSUME ~panicked, NEW s \in clean
               PROVE  /\ last[s] = At(s, ReadIndex)' /\ base[s] <= hist'[ReadIndex][s]
                      /\ kind \notin Timeless => stamp[s] = ReadIndex - 1
    BY <1>3, <1>4, <1>6 DEF CleanInv
  <2>1. s \in Source /\ CleanInv
    BY <1>8 DEF CountersInv
  <2>2. At(s, ReadIndex)' = At(s, ReadIndex)
    BY <1>6, <1>7, <2>1
  <2>3. hist'[ReadIndex] = hist[ReadIndex]
    BY <1>1, <1>6
  <2>4. /\ last[s] = At(s, ReadIndex) /\ base[s] <= hist[ReadIndex][s]
        /\ kind \notin Timeless => stamp[s] = ReadIndex - 1
    BY <2>1 DEF CleanInv
  <2> QED
    BY <2>2, <2>3, <2>4
<1>12. TotalInv'
  <2>1. [s \in Source |-> At(s, ReadIndex)]' = [s \in Source |-> At(s, ReadIndex)]
    BY <1>6, <1>7
  <2>2. AllAt(ReadIndex)' = AllAt(ReadIndex)
    BY <2>1 DEF AllAt
  <2> QED
    BY <1>4, <2>2 DEF TotalInv, CountersInv
<1>10. SteadyInv'
  <2> SUFFICES ASSUME ~panicked, NEW s \in steady,
                      kind = "rapl" \/ (kind \in {"infiniband", "gpfs"} /\ s \in known)
               PROVE  /\ stamp[s] + 1 \in 1..ReadIndex
                      /\ last[s] = At(s, stamp[s] + 1)'
                      /\ base[s] <= hist'[stamp[s] + 1][s]
    BY <1>3, <1>4, <1>6 DEF SteadyInv
  <2>1. /\ stamp[s] + 1 \in 1..ReadIndex
        /\ last[s] = At(s, stamp[s] + 1)
        /\ base[s] <= hist[stamp[s] + 1][s]
    BY DEF CountersInv, SteadyInv
  <2>2. stamp[s] + 1 \in 1..Len(hist) /\ s \in Source
    BY <1>1, <1>6, <1>8, <2>1
  <2>3. At(s, stamp[s] + 1)' = At(s, stamp[s] + 1)
    BY <1>4, <1>7, <2>2
  <2>4. hist'[stamp[s] + 1] = hist[stamp[s] + 1]
    BY <1>1, <2>2
  <2> QED
    BY <2>1, <2>3, <2>4
<1>11. AddInv'
  <2> SUFFICES ASSUME NEW s \in untouched
               PROVE  /\ base[s] = 0
                      /\ kind \in {"iostat", "lustre"} =>
                           /\ s \in watched /\ last[s] <= Raw(s)'
                           /\ Reckoned(s)' = Counted(s)' - hist'[1][s]
                      /\ kind = "nfs" =>
                           /\ sum[s] <= Counted(s)' - hist'[1][s]
                           /\ s \in known => /\ last[s] <= Raw(s)'
                                             /\ Reckoned(s)' <= Counted(s)' - hist'[1][s]
    BY <1>3, <1>4 DEF AddInv
  <2>1. AddInv
    BY DEF CountersInv
  <2>2. s \in Source /\ hist'[1] = hist[1] /\ s \in Entry
    BY <1>1, <1>8 DEF Entry
  <2>3. hist[1][s] \in Nat
    <3>1. hist[1] \in [Source -> Nat]
      BY <1>1, <1>2 DEF EnvInv, EnvTypeOK
    <3> QED
      BY <2>2, <3>1
  <2>4. /\ Counted(s) \in Nat /\ Counted(s)' \in Nat /\ Counted(s)' >= Counted(s)
        /\ last[s] \in Nat /\ sum[s] \in Int
    <3>1. Counted(s) \in Nat
      BY <1>2, <2>2, RawType
    <3>2. Counted(s)' - Counted(s) \in 0..MaxGrowth
      BY <1>1, <2>2
    <3>3. Counted(s)' \in Nat
      BY <1>1, <2>2 DEF Counted
    <3> QED
      BY <1>8, <2>2, <3>1, <3>2, <3>3, CountersAssumption
  <2>5. kind \in {"iostat", "lustre", "nfs"} =>
          /\ Raw(s) = Counted(s) - base[s] /\ Raw(s)' = Counted(s)' - base[s]
    BY <1>3, <1>4 DEF Raw, Wrapping
  <2>6. base[s] = 0
    BY <2>1 DEF AddInv
  <2>7. ASSUME kind \in {"iostat", "lustre", "nfs"}
        PROVE  /\ Reckoned(s) = sum[s] + (Counted(s) - last[s])
               /\ Reckoned(s)' = sum[s] + (Counted(s)' - last[s])
               /\ Raw(s) = Counted(s) /\ Raw(s)' = Counted(s)'
    BY <1>4, <2>4, <2>5, <2>6, <2>7 DEF Reckoned
  <2>8. CASE kind \in {"iostat", "lustre"}
    <3>1. /\ s \in watched /\ last[s] <= Counted(s)
          /\ sum[s] + (Counted(s) - last[s]) = Counted(s) - hist[1][s]
      BY <2>1, <2>7, <2>8 DEF AddInv
    <3> QED
      BY <2>2, <2>3, <2>4, <2>6, <2>7, <2>8, <3>1
  <2>9. CASE kind = "nfs"
    <3>1. /\ sum[s] <= Counted(s) - hist[1][s]
          /\ s \in known => /\ last[s] <= Counted(s)
                            /\ sum[s] + (Counted(s) - last[s]) <= Counted(s) - hist[1][s]
      BY <2>1, <2>7, <2>9 DEF AddInv
    <3> QED
      BY <2>2, <2>3, <2>4, <2>6, <2>7, <2>9, <3>1
  <2> QED
    BY <2>6, <2>8, <2>9
<1> QED
  BY <1>5, <1>9, <1>10, <1>11, <1>12 DEF CountersInv

\* What another source shows is as it was.
LEMMA OtherSource ==
  ASSUME TypeInv, NEW s \in Source, NEW t \in Source, t # s,
         hist' = hist, kind' = kind, base' = [base EXCEPT ![s] = Counted(s)]
  PROVE  /\ base'[t] = base[t] /\ Counted(t)' = Counted(t) /\ Raw(t)' = Raw(t)
         /\ \A i : At(t, i)' = At(t, i)
<1>1. base'[t] = base[t]
  BY DEF TypeInv, EnvInv, EnvTypeOK
<1>2. Counted(t)' = Counted(t)
  BY DEF Counted
<1> QED
  BY <1>1, <1>2 DEF Raw, At

LEMMA ResetCounterKeeps ==
  ASSUME CountersInv, NEW s \in Source, ResetCounter(s),
         clean' = clean \ {s}, steady' = steady \ {s}, untouched' = untouched \ {s},
         UNCHANGED sum, UNCHANGED collectorVars
  PROVE  CountersInv'
<1>1. hist' = hist /\ due' = due /\ base' = [base EXCEPT ![s] = Counted(s)]
  BY DEF ResetCounter
<1>2. EnvInv'
  BY ResetCounterInv DEF CountersInv, TypeInv
<1>3. /\ kind' = kind /\ watched' = watched /\ last' = last /\ known' = known
      /\ stamp' = stamp /\ sent' = sent /\ panicked' = panicked
  BY DEF collectorVars
<1>4. TypeInv /\ CountersTypeOK
  BY DEF CountersInv, TypeInv
<1>5. TypeInv'
  <2>1. EnvTypeOK' /\ Now' = Now
    BY <1>1, <1>2 DEF EnvInv, Now
  <2>2. CountersTypeOK'
    BY <1>3, <1>4, <2>1 DEF CountersTypeOK
  <2> QED
    BY <1>2, <1>3, <1>4, <2>2 DEF TypeInv
<1>6. clean \subseteq Source /\ steady \subseteq Source /\ untouched \subseteq Source
  BY <1>4 DEF CountersTypeOK
<1>7. ReadIndex' = ReadIndex
  BY <1>1 DEF ReadIndex
<1>8. ASSUME NEW t \in Source \ {s}
      PROVE  /\ base'[t] = base[t] /\ Counted(t)' = Counted(t) /\ Raw(t)' = Raw(t)
             /\ \A i : At(t, i)' = At(t, i)
  BY <1>1, <1>3, <1>4, OtherSource
<1>9. CleanInv' /\ TotalInv'
  <2>1. clean' # Source
    OBVIOUS
  <2>2. CleanInv'
    BY <1>1, <1>3, <1>6, <1>7, <1>8 DEF CleanInv, CountersInv
  <2> QED
    BY <2>1, <2>2 DEF TotalInv
<1>10. SteadyInv'
  BY <1>1, <1>3, <1>6, <1>7, <1>8 DEF SteadyInv, CountersInv
<1>11. AddInv'
  BY <1>1, <1>3, <1>6, <1>8 DEF AddInv, Reckoned, CountersInv
<1> QED
  BY <1>5, <1>9, <1>10, <1>11 DEF CountersInv

LEMMA ComeOrGoKeeps ==
  ASSUME CountersInv, NEW s \in Source, ComeOrGo(s),
         UNCHANGED historyVars, UNCHANGED collectorVars
  PROVE  CountersInv'
<1>1. UNCHANGED <<hist, base, due>>
  BY DEF ComeOrGo
<1>2. EnvInv'
  BY ComeOrGoInv DEF CountersInv, TypeInv
<1>3. /\ kind' = kind /\ watched' = watched /\ last' = last /\ known' = known
      /\ stamp' = stamp /\ sent' = sent /\ panicked' = panicked
      /\ clean' = clean /\ steady' = steady /\ sum' = sum /\ untouched' = untouched
  BY DEF historyVars, collectorVars
<1>4. TypeInv'
  <2>1. EnvTypeOK' /\ Now' = Now
    BY <1>1, <1>2 DEF EnvInv, Now
  <2>2. CountersTypeOK'
    BY <1>3, <2>1 DEF CountersTypeOK, CountersInv, TypeInv
  <2> QED
    BY <1>2, <1>3, <2>2 DEF CountersInv, TypeInv
<1>5. CleanInv' /\ TotalInv'
  BY <1>1, <1>3 DEF CountersInv, CleanInv, TotalInv, AllAt, ReadIndex, At
<1>6. SteadyInv'
  BY <1>1, <1>3 DEF CountersInv, SteadyInv, ReadIndex, At
<1>7. AddInv'
  BY <1>1, <1>3 DEF CountersInv, AddInv, Reckoned, Raw, Counted
<1> QED
  BY <1>4, <1>5, <1>6, <1>7 DEF CountersInv

\* What is reported about an entry: the difference of the message about it, or
\* nothing.
LEMMA ReportedIs ==
  ASSUME NEW ms \in SUBSET Message, OneEach(ms), NEW x
  PROVE  /\ Reported(ms, x) \in Int
         /\ \A m \in ms : m.calc = "difference" /\ m.src = x => Reported(ms, x) = m.diff
         /\ (\A m \in ms : ~(m.calc = "difference" /\ m.src = x)) => Reported(ms, x) = 0
<1> DEFINE M == {m \in ms : m.calc = "difference" /\ m.src = x}
           f == [m \in ms |-> m.diff]
<1>1. Reported(ms, x) = SumFunctionOnSet(f, M)
  BY DEF Reported
<1>2. \A m \in M : m \in ms /\ f[m] = m.diff /\ m.diff \in Int
  BY DEF Message
<1>3. \A m, n \in M : m = n
  BY DEF OneEach
<1>4. \A m \in ms : m.calc = "difference" /\ m.src = x <=> m \in M
  OBVIOUS
<1> HIDE DEF M, f
<1>5. CASE M = {}
  BY <1>1, <1>4, <1>5, SumEmpty
<1>6. ASSUME NEW m \in M
      PROVE  Reported(ms, x) = m.diff /\ m.diff \in Int
  <2>1. M = {m} /\ f[m] \in Int /\ f[m] = m.diff
    BY <1>2, <1>3
  <2>2. SumFunctionOnSet(f, {m}) = f[m]
    BY <2>1, SumOne
  <2> QED
    BY <1>1, <2>1, <2>2
<1>7. CASE M # {}
  <2>1. PICK m \in M : TRUE
    BY <1>7
  <2>2. Reported(ms, x) \in Int /\ \A n \in M : Reported(ms, x) = n.diff
    BY <1>6, <2>1
  <2>3. m \in ms /\ m.calc = "difference" /\ m.src = x
    BY <1>2, <1>4, <2>1
  <2> QED
    BY <1>4, <2>2, <2>3
<1> QED
  BY <1>5, <1>7

\* The world stands still during a Read().
LEMMA SameWorld ==
  ASSUME TypeInv, NEW r, Ends(r)
  PROVE  /\ EnvInv' /\ Now' = Now /\ ReadIndex' = Len(hist) /\ ReadIndex = Len(hist) - 1
         /\ hist' = hist /\ base' = base /\ kind' = kind /\ watched' = watched
         /\ \A s \in Source : /\ Counted(s)' = Counted(s) /\ Raw(s)' = Raw(s)
                              /\ \A i : At(s, i)' = At(s, i)
<1>1. UNCHANGED <<hist, base, present, events, kind, watched, untouched>>
      /\ due /\ due' = FALSE
  BY DEF Ends
<1>2. EnvInv'
  BY <1>1, ReadEnvInv DEF TypeInv
<1> QED
  BY <1>1, <1>2 DEF Now, ReadIndex, Counted, Raw, At

LEMMA ReadKeepsType ==
  ASSUME TypeInv, NEW r, Effects(r)
  PROVE  TypeInv'
<1>1. Ends(r) /\ Typed
  BY DEF Effects
<1>2. EnvInv' /\ Now' = Now /\ kind' = kind /\ watched' = watched
  BY <1>1, SameWorld
<1>3. EnvTypeOK'
  BY <1>2 DEF EnvInv
<1>4. sum' \in [Source -> Int]
  <2>1. sum' = [s \in Source |-> sum[s] + Reported(sent', s)]
    BY <1>1 DEF Ends
  <2>2. ASSUME NEW s \in Source
        PROVE  sum[s] + Reported(sent', s) \in Int
    <3>1. sum[s] \in Int
      BY DEF TypeInv, CountersTypeOK
    <3>2. Reported(sent', s) \in Int
      BY <1>1, ReportedIs DEF Typed
    <3> QED
      BY <3>1, <3>2
  <2> QED
    BY <2>1, <2>2
<1>5. /\ clean' \subseteq Source /\ steady' \subseteq Source
      /\ untouched' \subseteq Source
  BY <1>1 DEF Ends, TypeInv, CountersTypeOK
<1>6. /\ last' \in [Entry -> Nat] /\ known' \subseteq Entry
      /\ stamp' \in [Source -> 0..Now'] /\ sent' \subseteq Message /\ panicked' \in BOOLEAN
  BY <1>1, <1>2 DEF Typed
<1>7. kind' \in Kinds /\ watched' \subseteq Source
  BY <1>2 DEF TypeInv, CountersTypeOK
<1>8. CountersTypeOK'
  BY <1>3, <1>4, <1>5, <1>6, <1>7 DEF CountersTypeOK
<1>9. kind' = "gpfs" => \A s, t \in Source : stamp'[s] = stamp'[t]
  BY <1>1, <1>2 DEF Typed
<1> QED
  BY <1>2, <1>8, <1>9 DEF TypeInv

LEMMA ReadKeepsClean ==
  ASSUME TypeInv, NEW r, Effects(r)
  PROVE  CleanInv' /\ TotalInv'
<1>1. /\ Ends(r) /\ Renewed(r) /\ Totalled(r)
      /\ r \subseteq Source /\ clean' = r /\ due
  BY DEF Effects, Ends
<1>2. /\ ReadIndex' = Len(hist) /\ hist' = hist /\ base' = base /\ kind' = kind
      /\ \A s \in Source : \A i : At(s, i)' = At(s, i)
  BY <1>1, SameWorld
<1>3. ASSUME ~panicked', NEW s \in r
      PROVE  /\ last'[s] = At(s, Len(hist)) /\ base[s] <= hist[Len(hist)][s]
             /\ kind \notin Timeless => stamp'[s] = Len(hist) - 1
  <2>1. s \in Source /\ Raw(s) = At(s, Len(hist)) /\ base[s] <= Counted(s)
    BY <1>1, RawType DEF TypeInv, EnvInv
  <2> QED
    BY <1>1, <1>3, <2>1 DEF Renewed, Counted, Now
<1>4. CleanInv'
  <2> SUFFICES ASSUME ~panicked', NEW s \in r
               PROVE  /\ last'[s] = At(s, ReadIndex)' /\ base[s] <= hist[ReadIndex'][s]
                      /\ kind \notin Timeless => stamp'[s] = ReadIndex' - 1
    BY <1>1, <1>2 DEF CleanInv
  <2>1. At(s, ReadIndex)' = At(s, Len(hist))
    BY <1>1, <1>2
  <2> QED
    BY <1>2, <1>3, <2>1
<1>5. TotalInv'
  <2> SUFFICES ASSUME kind = "gpfs", r = Source, Source # {}
               PROVE  last'[Total] = AllAt(ReadIndex)'
    BY <1>1, <1>2 DEF TotalInv
  <2>1. last'[Total] = SumFunctionOnSet([s \in Source |-> Raw(s)], Source)
    BY <1>1 DEF Totalled
  <2>2. \A s \in Source : At(s, ReadIndex)' = Raw(s)
    BY <1>2, RawType DEF TypeInv
  <2>3. [s \in Source |-> At(s, ReadIndex)]' = [s \in Source |-> Raw(s)]
    BY <2>2
  <2> QED
    BY <2>1, <2>3 DEF AllAt
<1> QED
  BY <1>4, <1>5

LEMMA ReadKeepsSteady ==
  ASSUME TypeInv, SteadyInv, NEW r, Effects(r)
  PROVE  SteadyInv'
<1>1. /\ Ends(r) /\ Renewed(r) /\ Kept(r)
      /\ r \subseteq Source /\ steady' = steady \cup r /\ due /\ ~panicked
      /\ steady \subseteq Source
  BY DEF Effects, Ends, TypeInv, CountersTypeOK
<1>2. /\ ReadIndex' = Len(hist) /\ ReadIndex = Len(hist) - 1
      /\ hist' = hist /\ base' = base /\ kind' = kind
      /\ \A s \in Source : \A i : At(s, i)' = At(s, i)
      /\ Len(hist) \in Nat /\ Len(hist) >= 2
  <2>1. Len(hist) \in Nat /\ Len(hist) >= 2
    BY <1>1 DEF TypeInv, EnvInv, EnvTypeOK
  <2> QED
    BY <1>1, <2>1, SameWorld
<1> SUFFICES ASSUME ~panicked', NEW s \in steady',
                    kind = "rapl" \/ (kind \in {"infiniband", "gpfs"} /\ s \in known')
             PROVE  /\ stamp'[s] + 1 \in 1..Len(hist)
                    /\ last'[s] = At(s, stamp[s] + 1)'
                    /\ base[s] <= hist[stamp'[s] + 1][s]
  BY <1>2 DEF SteadyInv
<1>3. s \in Source
  BY <1>1
<1>4. CASE s \in r
  <2>1. last'[s] = Raw(s) /\ stamp'[s] = Now
    BY <1>1, <1>4 DEF Renewed, Timeless
  <2>2. Raw(s) = At(s, Len(hist)) /\ base[s] <= Counted(s)
    BY <1>3, RawType DEF TypeInv, EnvInv
  <2>3. stamp'[s] + 1 = Len(hist)
    BY <1>2, <2>1 DEF Now
  <2>4. At(s, stamp[s] + 1)' = At(s, Len(hist))
    BY <1>2, <1>3, <2>3
  <2> QED
    BY <1>2, <2>1, <2>2, <2>3, <2>4 DEF Counted
<1>5. CASE s \notin r
  <2>1. s \in steady /\ last'[s] = last[s] /\ stamp'[s] = stamp[s]
        /\ (kind = "rapl" \/ s \in known)
    BY <1>1, <1>3, <1>5 DEF Kept
  <2>2. /\ stamp[s] + 1 \in 1..ReadIndex /\ last[s] = At(s, stamp[s] + 1)
        /\ base[s] <= hist[stamp[s] + 1][s]
    BY <1>1, <2>1 DEF SteadyInv
  <2>3. At(s, stamp[s] + 1)' = At(s, stamp[s] + 1)
    BY <1>2, <1>3, <2>1
  <2> QED
    BY <1>2, <2>1, <2>2, <2>3
<1> QED
  BY <1>4, <1>5

\* What a Read() has sent for s is what its last value has moved by.
LEMMA ReadKeepsAdd ==
  ASSUME TypeInv, AddInv, NEW r, Effects(r)
  PROVE  AddInv'
<1>1. /\ Ends(r) /\ Typed /\ Moved(r) /\ Reports(r)
      /\ r \subseteq Source /\ untouched' = untouched
      /\ sum' = [s \in Source |-> sum[s] + Reported(sent', s)]
  BY DEF Effects, Ends
<1>2. /\ hist' = hist /\ base' = base /\ kind' = kind /\ watched' = watched
      /\ \A s \in Source : Counted(s)' = Counted(s) /\ Raw(s)' = Raw(s)
  BY <1>1, SameWorld
<1>3. untouched \subseteq Source /\ sum \in [Source -> Int] /\ last' \in [Entry -> Nat]
  BY <1>1 DEF TypeInv, CountersTypeOK, Typed
<1> SUFFICES ASSUME NEW s \in untouched
             PROVE  /\ base[s] = 0
                    /\ kind \in {"iostat", "lustre"} =>
                         /\ s \in watched /\ last'[s] <= Raw(s)
                         /\ Reckoned(s)' = Counted(s) - hist[1][s]
                    /\ kind = "nfs" =>
                         /\ sum'[s] <= Counted(s) - hist[1][s]
                         /\ s \in known' => /\ last'[s] <= Raw(s)
                                            /\ Reckoned(s)' <= Counted(s) - hist[1][s]
  BY <1>1, <1>2, <1>3 DEF AddInv
<1> DEFINE rep == Reported(sent', s)
           G == Counted(s) - hist[1][s]
<1>4. /\ s \in Source /\ s \in Entry /\ sum'[s] = sum[s] + rep
      /\ Raw(s) \in Nat /\ last[s] \in Nat /\ sum[s] \in Int /\ last'[s] \in Nat
  BY <1>1, <1>3, Elapsed
<1>5. /\ rep \in Int
      /\ \A m \in sent' : m.calc = "difference" /\ m.src = s => rep = m.diff
      /\ (\A m \in sent' : ~(m.calc = "difference" /\ m.src = s)) => rep = 0
  BY <1>1, ReportedIs DEF Typed
<1>6. Reckoned(s) = sum[s] + (Raw(s) - last[s])
      /\ Reckoned(s)' = sum'[s] + (Raw(s) - last'[s])
  BY <1>2, <1>4 DEF Reckoned
<1>7. /\ base[s] = 0
      /\ kind \in {"iostat", "lustre"} =>
           s \in watched /\ last[s] <= Raw(s) /\ Reckoned(s) = G
      /\ kind = "nfs" =>
           sum[s] <= G /\ (s \in known => last[s] <= Raw(s) /\ Reckoned(s) <= G)
  BY DEF AddInv
<1>8. G \in Int
  <2>1. hist \in Seq([Source -> Nat]) /\ Len(hist) >= 1
    BY DEF TypeInv, EnvInv, EnvTypeOK
  <2>2. hist[1] \in [Source -> Nat]
    BY <2>1
  <2>3. Counted(s) \in Nat
    BY <1>4, RawType DEF TypeInv
  <2> QED
    BY <1>4, <2>2, <2>3
<1> HIDE DEF rep, G
<1>9. CASE kind \in {"iostat", "lustre"}
  <2>1. /\ s \in watched /\ last[s] <= Raw(s) /\ sum[s] + (Raw(s) - last[s]) = G
    BY <1>6, <1>7, <1>9
  <2>2. CASE s \in r
    <3>1. last'[s] = Raw(s)
      BY <1>1, <1>9, <2>1, <2>2 DEF Moved
    <3>2. PICK m \in sent' : m.calc = "difference" /\ m.src = s
      BY <1>1, <1>9, <2>1, <2>2 DEF Moved
    <3>3. m.diff = Increase(s)
      BY <1>1, <2>2, <3>2 DEF Reports
    <3>4. Increase(s) = Raw(s) - last[s]
      BY <1>4, <1>9, <2>1 DEF Increase, NonNegative
    <3>5. rep = Raw(s) - last[s]
      BY <1>5, <3>2, <3>3, <3>4
    <3> QED
      BY <1>4, <1>6, <1>7, <1>8, <1>9, <2>1, <3>1, <3>5 DEF G
  <2>3. CASE s \notin r
    <3>1. last'[s] = last[s]
      BY <1>1, <1>9, <2>1, <2>3 DEF Moved
    <3>2. \A m \in sent' : m.calc = "difference" /\ m.src = s => m.diff = 0
      BY <1>1, <1>9, <2>1, <2>3 DEF Moved
    <3>3. rep = 0
      BY <1>5, <3>2
    <3> QED
      BY <1>4, <1>6, <1>7, <1>8, <1>9, <2>1, <3>1, <3>3 DEF G
  <2> QED
    BY <2>2, <2>3
<1>10. CASE kind = "nfs"
  <2>1. sum[s] <= G /\ (s \in known => /\ last[s] <= Raw(s)
                                       /\ sum[s] + (Raw(s) - last[s]) <= G)
    BY <1>6, <1>7, <1>10
  <2>2. \A m \in sent' : m.src \in known /\ m.diff = Raw(m.src) - last[m.src]
    BY <1>1, <1>10 DEF Moved
  <2>3. rep = 0 \/ (s \in known /\ rep = Raw(s) - last[s])
    BY <1>5, <2>2
  <2>4. sum'[s] <= G
    BY <1>4, <1>5, <1>8, <2>1, <2>3
  <2>5. ASSUME s \in known'
        PROVE  last'[s] <= Raw(s) /\ sum'[s] + (Raw(s) - last'[s]) <= G
    <3>1. last'[s] = Raw(s) \/ (s \in known /\ last'[s] = last[s] /\ sent' = {})
      BY <1>1, <1>4, <1>10, <2>5 DEF Moved
    <3>2. CASE last'[s] = Raw(s)
      BY <1>4, <1>5, <1>8, <2>4, <3>2
    <3>3. CASE s \in known /\ last'[s] = last[s] /\ sent' = {}
      <4>1. rep = 0
        BY <1>5, <3>3
      <4> QED
        BY <1>4, <1>8, <2>1, <3>3, <4>1
    <3> QED
      BY <3>1, <3>2, <3>3
  <2> QED
    BY <1>6, <1>7, <1>10, <2>4, <2>5 DEF G
<1> QED
  BY <1>7, <1>9, <1>10

\* The induction.
LEMMA CountersInductive ==
  ASSUME CountersInv, [CountersNext]_vars
  PROVE  CountersInv'
<1>1. CASE PassInterval /\ UNCHANGED historyVars /\ UNCHANGED collectorVars
  BY <1>1, PassIntervalKeeps
<1>2. ASSUME NEW s \in Source, ResetCounter(s),
             clean' = clean \ {s}, steady' = steady \ {s}, untouched' = untouched \ {s},
             UNCHANGED sum, UNCHANGED collectorVars
      PROVE  CountersInv'
  BY <1>2, ResetCounterKeeps
<1>3. ASSUME NEW s \in Source, ComeOrGo(s), UNCHANGED historyVars, UNCHANGED collectorVars
      PROVE  CountersInv'
  BY <1>3, ComeOrGoKeeps
<1>4. CASE ReadCollector
  <2>1. PICK r \in SUBSET Source : Effects(r)
    BY <1>4, ReadEffects DEF CountersInv
  <2> QED
    BY <2>1, ReadKeepsType, ReadKeepsClean, ReadKeepsSteady, ReadKeepsAdd DEF CountersInv
<1>5. CASE UNCHANGED vars
  <2>1. UNCHANGED <<hist, base, present, due, events>>
        /\ UNCHANGED <<kind, watched, last, known, stamp, sent, panicked>>
        /\ UNCHANGED <<clean, steady, sum, untouched>>
    BY <1>5 DEF vars, envVars, collectorVars, historyVars
  <2>2. TypeInv'
    BY <2>1 DEF CountersInv, TypeInv, EnvInv, EnvTypeOK, CountersTypeOK, Now, Counted, Growth
  <2>3. CleanInv' /\ TotalInv' /\ SteadyInv'
    BY <2>1 DEF CountersInv, CleanInv, TotalInv, AllAt, SteadyInv, ReadIndex, At
  <2>4. AddInv'
    BY <2>1 DEF CountersInv, AddInv, Reckoned, Raw, Counted
  <2> QED
    BY <2>2, <2>3, <2>4 DEF CountersInv
<1> QED
  BY <1>1, <1>2, <1>3, <1>4, <1>5 DEF CountersNext, Environment

\* The invariant holds in every state.
THEOREM CountersInvariant == CountersSpec => []CountersInv
<1>1. CollectorInit => CountersInv
  BY CountersInit
<1>2. CountersInv /\ [CountersNext]_vars => CountersInv'
  BY CountersInductive
<1> QED
  BY <1>1, <1>2, PTL DEF CountersSpec

\* Every variable keeps its type: an entry is a value that was read, a time stamp
\* is a time that has passed, and a message has a source, a number and a time.
THEOREM CountersTypeCorrect == CountersSpec => []CountersTypeOK
<1>1. CountersInv => CountersTypeOK
  BY DEF CountersInv, TypeInv
<1> QED
  BY <1>1, CountersInvariant, PTL

\* Over any sequence of good and failed Read()s the differences that iostat and
\* lustre send add up to what a source has counted, less what is still to be
\* sent; those of nfs never add up to more.
THEOREM DifferencesAddUpHolds == CountersSpec => []DifferencesAddUp
<1>1. ASSUME CountersInv
      PROVE  DifferencesAddUp
  <2> SUFFICES ASSUME NEW s \in untouched
               PROVE  /\ kind \in {"iostat", "lustre"} =>
                           sum[s] + (Raw(s) - last[s]) = Counted(s) - hist[1][s]
                      /\ kind = "nfs" => sum[s] <= Counted(s) - hist[1][s]
    BY DEF DifferencesAddUp
  <2> QED
    BY <1>1 DEF CountersInv, AddInv, Reckoned
<1> QED
  BY <1>1, CountersInvariant, PTL
-----------------------------------------------------------------------------
(* What is sent is what has been counted. *)

\* From a value that belongs to an earlier time a collector sends what has been
\* counted since: in spite of a wrap, and of a guard against negative values.
LEMMA IncreaseIs ==
  ASSUME TypeInv, NEW s \in Source, NEW i \in 1..Len(hist),
         last[s] = At(s, i), base[s] <= hist[i][s],
         kind \in Wrapping => Counted(s) - hist[i][s] < Modulus
  PROVE  Increase(s) = Counted(s) - hist[i][s] /\ Increase(s) \in Nat
<1>1. /\ Counted(s) \in Nat /\ base[s] \in Nat /\ hist[i][s] \in Nat
      /\ hist[i][s] <= Counted(s)
  <2>1. hist \in Seq([Source -> Nat]) /\ base \in [Source -> Nat]
    BY DEF TypeInv, EnvInv, EnvTypeOK
  <2>2. hist[i] \in [Source -> Nat]
    BY <2>1
  <2>3. hist[i][s] <= Counted(s)
    BY DEF TypeInv, EnvInv
  <2> QED
    BY <2>1, <2>2, <2>3, RawType DEF TypeInv
<1> DEFINE a == hist[i][s] - base[s]
           b == Counted(s) - base[s]
<1>2. a \in Nat /\ b \in Nat /\ b - a = Counted(s) - hist[i][s] /\ b - a \in Nat
  BY <1>1
<1>3. /\ last[s] = IF kind \in Wrapping THEN a % Modulus ELSE a
      /\ Raw(s) = IF kind \in Wrapping THEN b % Modulus ELSE b
  BY DEF At, Raw
<1>4. Modulus \in Nat \ {0}
  BY CollectorsAssumption
<1> HIDE DEF a, b
<1>5. CASE kind \in Wrapping
  <2> DEFINE d == (b % Modulus) - (a % Modulus)
  <2>1. b - a \in 0..(Modulus - 1)
    BY <1>2, <1>4, <1>5
  <2>2. d % Modulus = b - a /\ (IF d < 0 THEN d + Modulus ELSE d) = b - a
    BY <1>2, <1>4, <2>1, WrapCorrected
  <2>3. Raw(s) - last[s] = d
    BY <1>3, <1>5
  <2> HIDE DEF d
  <2>4. Increase(s) = b - a
    BY <1>5, <2>2, <2>3 DEF Increase, Wrapping
  <2> QED
    BY <1>2, <2>4
<1>6. CASE kind \notin Wrapping
  <2>1. Raw(s) - last[s] = b - a /\ ~(b - a < 0)
    BY <1>2, <1>3, <1>6
  <2>2. Increase(s) = b - a
    BY <1>6, <2>1 DEF Increase, Wrapping, NonNegative
  <2> QED
    BY <1>2, <2>2
<1> QED
  BY <1>5, <1>6

\* A message about one source.
LEMMA RightOne ==
  ASSUME NEW m, m.src \in Source, m.diff \in Int, m.diff = Growth(m.src, m.dt)
  PROVE  Right(m)
<1> DEFINE f == [s \in Parts(m.src) |-> Growth(s, m.dt)]
<1>1. Parts(m.src) = {m.src}
  BY CollectorsAssumption DEF Parts
<1>2. f[m.src] = m.diff /\ f[m.src] \in Int
  BY <1>1
<1> HIDE DEF f
<1>3. SumFunctionOnSet(f, {m.src}) = m.diff
  BY <1>2, SumOne
<1> QED
  BY <1>1, <1>3 DEF Right, f

\* Only a Read() ends an interval.
LEMMA ReadIsDue ==
  ASSUME CountersInv, [CountersNext]_vars, due, ~due'
  PROVE  \E r \in SUBSET Source : Effects(r)
<1>1. ReadCollector
  BY DEF CountersNext, Environment, PassInterval, ResetCounter, ComeOrGo, vars, envVars
<1> QED
  BY <1>1, ReadEffects DEF CountersInv

\* The growth in the last interval.
LEMMA LastInterval ==
  ASSUME TypeInv, due
  PROVE  /\ Len(hist) \in Nat /\ Len(hist) >= 2 /\ ReadIndex = Len(hist) - 1
         /\ \A s \in Source : /\ Growth(s, 1) = Counted(s) - hist[ReadIndex][s]
                              /\ Growth(s, 1) \in 0..MaxGrowth
                              /\ hist[ReadIndex][s] \in Nat
<1>1. hist \in Seq([Source -> Nat])
  BY DEF TypeInv, EnvInv, EnvTypeOK
<1>2. Len(hist) \in Nat /\ Len(hist) >= 2
  BY <1>1 DEF TypeInv, EnvInv
<1>3. ReadIndex = Len(hist) - 1 /\ ReadIndex \in 1..Len(hist)
  BY <1>2 DEF ReadIndex
<1>4. hist[ReadIndex] \in [Source -> Nat]
  BY <1>1, <1>3
<1>5. ASSUME NEW s \in Source
      PROVE  /\ Growth(s, 1) = Counted(s) - hist[ReadIndex][s]
             /\ Growth(s, 1) \in 0..MaxGrowth
             /\ hist[ReadIndex][s] \in Nat
  <2>1. Growth(s, 1) = Counted(s) - hist[ReadIndex][s]
    BY <1>3 DEF Growth
  <2>2. hist[ReadIndex][s] <= Counted(s) /\ Growth(s, 1) <= MaxGrowth
    BY <1>3 DEF TypeInv, EnvInv
  <2>3. Counted(s) \in Nat /\ hist[ReadIndex][s] \in Nat
    BY <1>4, RawType DEF TypeInv
  <2> QED
    BY <2>1, <2>2, <2>3, CountersAssumption
<1> QED
  BY <1>2, <1>3, <1>5

\* The total of gpfs: the sum of the differences is the difference of the sums.
LEMMA TotalIncrease ==
  ASSUME TypeInv, due, kind = "gpfs", last[Total] = AllAt(ReadIndex)
  PROVE  LET total == SumFunctionOnSet([s \in Source |-> Raw(s)], Source)
         IN  NonNegative(total - last[Total])
               = SumFunctionOnSet([s \in Source |-> Growth(s, 1)], Source)
<1> DEFINE e == [s \in Source |-> Raw(s)]
           f == [s \in Source |-> At(s, ReadIndex)]
           d == [s \in Source |-> Growth(s, 1)]
<1>1. ASSUME NEW s \in Source
      PROVE  /\ e[s] \in Int /\ f[s] \in Int /\ d[s] \in Nat
             /\ d[s] = e[s] - f[s]
  <2>1. Raw(s) = Counted(s) - base[s] /\ At(s, ReadIndex) = hist[ReadIndex][s] - base[s]
    BY DEF Raw, At, Wrapping
  <2>2. Counted(s) \in Nat /\ base[s] \in Nat
    BY RawType DEF TypeInv, EnvInv, EnvTypeOK
  <2>3. /\ Growth(s, 1) = Counted(s) - hist[ReadIndex][s]
        /\ Growth(s, 1) \in 0..MaxGrowth /\ hist[ReadIndex][s] \in Nat
    BY LastInterval
  <2> QED
    BY <2>1, <2>2, <2>3, CountersAssumption
<1> HIDE DEF e, f, d
<1>2. IsFiniteSet(Source)
  BY CollectorsAssumption
<1>3. SumFunctionOnSet(d, Source) = SumFunctionOnSet(e, Source) - SumFunctionOnSet(f, Source)
  BY <1>1, <1>2, SumDifference
<1>4. SumFunctionOnSet(d, Source) \in Nat
  BY <1>1, <1>2, SumType
<1>5. last[Total] = SumFunctionOnSet(f, Source)
  BY DEF AllAt, f
<1>6. NonNegative(SumFunctionOnSet(e, Source) - last[Total]) = SumFunctionOnSet(d, Source)
  BY <1>3, <1>4, <1>5 DEF NonNegative
<1> QED
  BY <1>6 DEF e, d

LEMMA RightAfterGoodRead ==
  ASSUME CountersInv, due, NEW r \in SUBSET Source, Effects(r), NEW m \in sent',
         Parts(m.src) \subseteq clean \cap clean'
  PROVE  Right(m)
<1>1. /\ Ends(r) /\ Typed /\ Reports(r) /\ Totalled(r)
      /\ clean' = r /\ ~panicked /\ TypeInv /\ CleanInv /\ TotalInv
  BY DEF Effects, Ends, CountersInv
<1>2. m.src \in Source \cup {Total} /\ m.diff \in Int
  BY <1>1 DEF Typed, Message, Entry
<1>3. /\ Len(hist) \in Nat /\ Len(hist) >= 2 /\ ReadIndex = Len(hist) - 1
      /\ \A s \in Source : /\ Growth(s, 1) = Counted(s) - hist[ReadIndex][s]
                           /\ Growth(s, 1) \in 0..MaxGrowth
  BY <1>1, LastInterval
<1>4. CASE m.src \in Source
  <2> DEFINE s == m.src
  <2>1. s \in clean /\ s \in r
    BY <1>1, <1>4, CollectorsAssumption DEF Parts
  <2>2. /\ last[s] = At(s, ReadIndex) /\ base[s] <= hist[ReadIndex][s]
        /\ kind \notin Timeless => stamp[s] = ReadIndex - 1
    BY <1>1, <2>1 DEF CleanInv
  <2>3. kind \in Wrapping => Counted(s) - hist[ReadIndex][s] < Modulus
    BY <1>3, <1>4, CollectorsAssumption, CountersAssumption
  <2>4. Increase(s) = Growth(s, 1)
    BY <1>1, <1>3, <1>4, <2>2, <2>3, IncreaseIs
  <2>5. m.diff = Increase(s) /\ m.dt = 1
    BY <1>1, <1>3, <2>1, <2>2 DEF Reports, Now
  <2> QED
    BY <1>2, <1>4, <2>4, <2>5, RightOne
<1>5. CASE m.src = Total
  <2>1. Parts(m.src) = Source /\ Source = clean /\ Source = r /\ kind = "gpfs"
    BY <1>1, <1>5 DEF Parts, Totalled, TypeInv, CountersTypeOK
  <2>2. CASE Source = {}
    <3>1. m.diff = 0
      BY <1>1, <1>5, <2>1, <2>2 DEF Totalled
    <3> QED
      BY <2>1, <2>2, <3>1, SumEmpty DEF Right
  <2>3. CASE Source # {}
    <3>1. PICK s \in Source : TRUE
      BY <2>3
    <3>2. last[Total] = AllAt(ReadIndex) /\ stamp[s] = ReadIndex - 1
      BY <1>1, <2>1, <2>3, <3>1 DEF TotalInv, CleanInv, Timeless
    <3>3. /\ m.diff = NonNegative(SumFunctionOnSet([u \in Source |-> Raw(u)], Source)
                                  - last[Total])
          /\ m.dt = IF m.calc = "difference" THEN 1 ELSE Now - stamp[s]
      BY <1>1, <1>5, <2>1, <2>3, <3>1 DEF Totalled
    <3>4. m.dt = 1
      BY <1>3, <3>2, <3>3 DEF Now
    <3>5. m.diff = SumFunctionOnSet([u \in Source |-> Growth(u, 1)], Source)
      BY <1>1, <2>1, <3>2, <3>3, TotalIncrease
    <3> QED
      BY <2>1, <3>4, <3>5 DEF Right
  <2> QED
    BY <2>2, <2>3
<1> QED
  BY <1>2, <1>4, <1>5

\* Whatever has failed before: after two good Read()s in a row a message says what
\* its source has counted in between.
THEOREM ErrorLastsOneReadHolds == CountersSpec => ErrorLastsOneRead
<1>1. CountersInv /\ [CountersNext]_vars
        => [\A m \in sent' :
              due /\ ~due' /\ Parts(m.src) \subseteq clean \cap clean' => Right(m)]_vars
  <2> SUFFICES ASSUME CountersInv, [CountersNext]_vars, NEW m \in sent', due, ~due',
                      Parts(m.src) \subseteq clean \cap clean'
               PROVE  Right(m)
    OBVIOUS
  <2> QED
    BY ReadIsDue, RightAfterGoodRead
<1> QED
  BY <1>1, CountersInvariant, PTL DEF CountersSpec, ErrorLastsOneRead

LEMMA RightRate ==
  ASSUME CountersInv, due, NEW r \in SUBSET Source, Effects(r), NEW m \in sent',
         kind \in {"infiniband", "rapl", "gpfs"},
         m.src \in steady \cap clean', m.calc = "rate",
         kind \in Wrapping => Growth(m.src, m.dt) < Modulus
  PROVE  Right(m)
<1> DEFINE s == m.src
           i == stamp[s] + 1
<1>1. /\ Ends(r) /\ Typed /\ Reports(r) /\ Kept(r)
      /\ clean' = r /\ ~panicked /\ TypeInv /\ SteadyInv
  BY DEF Effects, Ends, CountersInv
<1>2. s \in Source /\ s \in steady /\ s \in r /\ m.diff \in Int
  BY <1>1 DEF Typed, Message
<1>3. kind = "rapl" \/ s \in known
  BY <1>1 DEF Kept
<1>4. i \in 1..ReadIndex /\ last[s] = At(s, i) /\ base[s] <= hist[i][s]
  BY <1>1, <1>2, <1>3 DEF SteadyInv
<1>5. Len(hist) \in Nat /\ ReadIndex = Len(hist) - 1
  BY <1>1, LastInterval
<1>6. m.diff = Increase(s) /\ m.dt = Now - stamp[s]
  BY <1>1, <1>2 DEF Reports
<1>7. Growth(s, m.dt) = Counted(s) - hist[i][s]
  <2>1. stamp[s] \in Int
    BY <1>1, <1>2 DEF TypeInv, CountersTypeOK
  <2>2. Len(hist) - m.dt = i
    BY <1>5, <1>6, <2>1 DEF Now
  <2> QED
    BY <2>2 DEF Growth
<1>8. i \in 1..Len(hist)
  BY <1>4, <1>5
<1> HIDE DEF i
<1>9. kind \in Wrapping => Counted(s) - hist[i][s] < Modulus
  BY <1>7
<1>10. Increase(s) = Counted(s) - hist[i][s]
  BY <1>1, <1>2, <1>4, <1>8, <1>9, IncreaseIs
<1> QED
  BY <1>2, <1>6, <1>7, <1>10, RightOne

\* Whatever has failed since a source was read well for the last time, and however
\* long ago that was: the rates of infiniband, rapl and gpfs are the increase in the
\* time they are divided by.
THEOREM RatesAreExactHolds == CountersSpec => RatesAreExact
<1>1. CountersInv /\ [CountersNext]_vars
        => [\A m \in sent' :
              /\ kind \in {"infiniband", "rapl", "gpfs"}
              /\ due /\ ~due'
              /\ m.src \in steady \cap clean'
              /\ m.calc = "rate"
              /\ kind \in Wrapping => Growth(m.src, m.dt) < Modulus
              => Right(m)]_vars
  <2> SUFFICES ASSUME CountersInv, [CountersNext]_vars, NEW m \in sent',
                      kind \in {"infiniband", "rapl", "gpfs"}, due, ~due',
                      m.src \in steady \cap clean', m.calc = "rate",
                      kind \in Wrapping => Growth(m.src, m.dt) < Modulus
               PROVE  Right(m)
    OBVIOUS
  <2> QED
    BY ReadIsDue, RightRate
<1> QED
  BY <1>1, CountersInvariant, PTL DEF CountersSpec, RatesAreExact
=============================================================================
