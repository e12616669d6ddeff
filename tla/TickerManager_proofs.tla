------------------------ MODULE TickerManager_proofs ------------------------
(***************************************************************************)
(* Proofs about the ticker and about the collector manager, the two        *)
(* goroutines that the program runs exactly as their modules describe them. *)
(* Each is proved alone, for any set of channels or of collectors and any  *)
(* bounds: its types, its inductive invariant, and what follows from it.   *)
(***************************************************************************)
EXTENDS MultiChanTicker, CollectorManager, FiniteSetTheorems, TLAPS

(***************************************************************************)
(* The ticker                                                              *)
(***************************************************************************)
\* Wherever the goroutine arrives, it is in one of three places, and it
\* delivers only to a channel that is stored.
LEMMA ArriveCases ==
  ASSUME NEW i \in Nat, NEW n \in Nat
  PROVE  /\ Arrive(i, n) \in {"select", "stuck", "deliver"}
         /\ Arrive(i, n) = "select" <=> i > n
         /\ Arrive(i, n) = "deliver" => i <= n /\ i <= Len(channels)
  BY DEF Arrive

\* The lengths a range expression may read are at least the number of the
\* channels that are stored.
LEMMA VisibleLengthsBound ==
  ASSUME channels \in Seq(Chan), NEW n \in VisibleLengths
  PROVE  n \in Nat /\ n >= Len(channels)
  BY DEF VisibleLengths

\* The state of the ticker has its type: AddChannel() only ever stores
\* channels, and the goroutine is always at a place of its loop.
THEOREM TickerTypeCorrect == TickerSpec => []TickerTypeOK
<1>1. TickerInit => TickerTypeOK
  BY TickerAssumption DEF TickerInit, TickerTypeOK
<1>2. TickerTypeOK /\ [TickerNext]_tvars => TickerTypeOK'
  <2> SUFFICES ASSUME TickerTypeOK, [TickerNext]_tvars
               PROVE  TickerTypeOK'
    OBVIOUS
  <2> USE TickerAssumption DEF TickerTypeOK
  <2>1. CASE ClockTick
    BY <2>1 DEF ClockTick
  <2>2. ASSUME NEW c \in Chan, AddChannelBegin(c)
        PROVE  TickerTypeOK'
    BY <2>2 DEF AddChannelBegin
  <2>3. ASSUME NEW c \in Chan, Deliver(c)
        PROVE  TickerTypeOK'
    <3>1. Arrive(idx + 1, limit) \in {"select", "stuck", "deliver"}
      BY DEF Arrive
    <3>2. got' \in [Chan -> Nat]
      BY <2>3 DEF Deliver
    <3> QED
      BY <2>3, <3>1, <3>2 DEF Deliver
  <2>4. CASE AddChannelEnd
    BY <2>4 DEF AddChannelEnd
  <2>5. CASE TakeTick
    <3>1. limit' \in Nat
      BY <2>5, VisibleLengthsBound DEF TakeTick
    <3>2. tpc' \in {"select", "stuck", "deliver"}
      BY <2>5 DEF TakeTick, Arrive
    <3> QED
      BY <2>5, <3>1, <3>2 DEF TakeTick
  <2>6. CASE TornRead
    BY <2>6 DEF TornRead
  <2>7. CASE CallTickerClose
    BY <2>7 DEF CallTickerClose
  <2>8. CASE AcceptTickerDone
    BY <2>8 DEF AcceptTickerDone
  <2>9. CASE TickerExit
    BY <2>9 DEF TickerExit
  <2>10. CASE TickerCloseReturns
    BY <2>10 DEF TickerCloseReturns
  <2>11. CASE UNCHANGED tvars
    BY <2>11 DEF tvars
  <2> QED
    BY <2>1, <2>2, <2>3, <2>4, <2>5, <2>6, <2>7, <2>8, <2>9, <2>10, <2>11
       DEF TickerNext
<1> QED
  BY <1>1, <1>2, PTL DEF TickerSpec
-----------------------------------------------------------------------------
\* A step that leaves the channels, what they have received and the tick in
\* hand alone can disturb little of the invariant.
LEMMA QuietStep ==
  ASSUME TickerTypeOK, TickerInv,
         UNCHANGED <<channels, ts, idx, limit, got>>,
         tpc' = tpc \/ (tpc' # "deliver" /\ tpc' # "select"),
         \A i \in 1..Len(channels) : channels[i] # adding',
         ts <= clock' /\ buffered' <= clock',
         buffered' # 0 => ts < buffered'
  PROVE  TickerInv'
  BY DEF TickerTypeOK, TickerInv, EarlierFirst, LockStep

\* AddChannel() stores a channel: it has received nothing yet, so it may
\* stand behind all others.
LEMMA AddChannelEndInv ==
  ASSUME TickerTypeOK, TickerInv, AddChannelEnd
  PROVE  TickerInv'
<1> USE TickerAssumption DEF TickerTypeOK
<1> DEFINE n == Len(channels)
<1>1. /\ n \in Nat
      /\ Len(channels') = n + 1
      /\ channels'[n + 1] = adding
      /\ \A i \in 1..n : channels'[i] = channels[i]
      /\ adding \in Chan
  BY DEF AddChannelEnd
<1>2. got[adding] = 0
  <2>1. got[adding] # 0 => \E i \in 1..Len(channels) : channels[i] = adding
    BY <1>1 DEF TickerInv
  <2>2. \A i \in 1..Len(channels) : channels[i] # adding
    BY DEF TickerInv
  <2> QED
    BY <2>1, <2>2
<1>3. UNCHANGED <<clock, buffered, tpc, ts, idx, limit, got>>
  BY DEF AddChannelEnd
<1>4. \A i \in 1..(n + 1) : i \in 1..n \/ i = n + 1
  BY <1>1
<1>5. \A i, j \in 1..Len(channels') : channels'[i] = channels'[j] => i = j
  <2>1. /\ \A i, j \in 1..n : channels[i] = channels[j] => i = j
        /\ \A i \in 1..n : channels[i] # adding
    BY DEF TickerInv
  <2> QED
    BY <1>1, <1>4, <2>1
<1>6. \A i \in 1..Len(channels') : channels'[i] # adding'
  BY <1>1, <1>4 DEF TickerInv, AddChannelEnd
<1>7. \A c \in Chan : got'[c] # 0 =>
        \E i \in 1..Len(channels') : i <= limit' /\ channels'[i] = c
  BY <1>1, <1>3 DEF TickerInv
<1>8. tpc' = "deliver" =>
        /\ idx' \in 1..Len(channels') /\ idx' <= limit'
        /\ \A i \in 1..(idx' - 1) : got'[channels'[i]] = ts'
        /\ \A i \in idx'..Len(channels') : got'[channels'[i]] < ts'
  <2> SUFFICES ASSUME tpc = "deliver"
               PROVE  /\ idx \in 1..(n + 1)
                      /\ idx <= limit
                      /\ \A i \in 1..(idx - 1) : got[channels'[i]] = ts
                      /\ \A i \in idx..(n + 1) : got[channels'[i]] < ts
    BY <1>1, <1>3
  <2>1. idx \in 1..n /\ idx <= limit
    BY DEF TickerInv
  <2>2. \A i \in 1..(idx - 1) : got[channels'[i]] = ts
    <3>1. \A i \in 1..(idx - 1) : got[channels[i]] = ts
      BY DEF TickerInv
    <3>2. \A i \in 1..(idx - 1) : channels'[i] = channels[i]
      BY <1>1, <2>1
    <3> QED
      BY <3>1, <3>2
  <2>3. got[channels[idx]] < ts /\ channels[idx] \in Chan
    BY <2>1 DEF TickerInv
  <2>4. 0 < ts
    BY <2>3
  <2>5. \A i \in idx..n : got[channels[i]] < ts
    BY DEF TickerInv
  <2>6. ASSUME NEW i \in idx..(n + 1)
        PROVE  got[channels'[i]] < ts
    <3>1. i \in idx..n \/ i = n + 1
      BY <1>1, <2>1
    <3>2. CASE i \in idx..n
      <4>1. i \in 1..n
        BY <2>1, <3>2
      <4>2. channels'[i] = channels[i]
        BY <1>1, <4>1
      <4> QED
        BY <2>5, <3>2, <4>2
    <3>3. CASE i = n + 1
      <4>1. channels'[i] = adding
        BY <1>1, <3>3
      <4> QED
        BY <1>2, <2>4, <4>1
    <3> QED
      BY <3>1, <3>2, <3>3
  <2> QED
    BY <2>1, <2>2, <2>6
<1>9. EarlierFirst'
  <2> SUFFICES ASSUME NEW i \in 1..(n + 1), NEW j \in 1..(n + 1), i < j
               PROVE  got[channels'[j]] <= got[channels'[i]]
    BY <1>1, <1>3 DEF EarlierFirst
  <2>1. i \in 1..n /\ channels[i] \in Chan /\ channels'[i] = channels[i]
    BY <1>1
  <2>2. CASE j \in 1..n
    BY <1>1, <2>1, <2>2 DEF TickerInv, EarlierFirst
  <2>3. CASE j = n + 1
    BY <1>1, <1>2, <2>1, <2>3
  <2> QED
    BY <1>4, <2>2, <2>3
<1>10. LockStep'
  <2> SUFFICES ASSUME NEW i \in 1..(n + 1), NEW j \in 1..(n + 1), i < j,
                      got[channels'[j]] # 0
               PROVE  \/ got[channels'[i]] = got[channels'[j]]
                      \/ /\ got[channels'[i]] = ts
                         /\ i < idx /\ idx <= j /\ tpc # "select"
    BY <1>1, <1>3 DEF LockStep
  <2>1. i \in 1..n /\ j \in 1..n
    BY <1>1, <1>2, <1>4
  <2>2. channels'[i] = channels[i] /\ channels'[j] = channels[j]
    BY <1>1, <2>1
  <2>3. LockStep
    BY DEF TickerInv
  <2> QED
    BY <2>1, <2>2, <2>3 DEF LockStep
<1> QED
  BY <1>3, <1>5, <1>6, <1>7, <1>8, <1>9, <1>10 DEF TickerInv

\* A new tick is taken: nobody has it yet, and everybody in the old slice has
\* the one before.
LEMMA TakeTickInv ==
  ASSUME TickerTypeOK, TickerInv, TakeTick
  PROVE  TickerInv'
<1> USE DEF TickerTypeOK
<1>1. /\ UNCHANGED <<clock, channels, adding, got>>
      /\ ts' = buffered /\ buffered' = 0 /\ idx' = 1
      /\ ts < ts' /\ ts' <= clock
      /\ tpc = "select"
  BY DEF TakeTick, TickerInv
<1>2. limit' \in Nat /\ limit' >= Len(channels)
  BY VisibleLengthsBound DEF TakeTick
<1>3. tpc' = "deliver" => 1 <= Len(channels) /\ 1 <= limit'
  BY <1>2, ArriveCases DEF TakeTick
<1>4. \A c \in Chan : got[c] < ts'
  BY <1>1 DEF TickerInv
<1>5. \A c \in Chan : got'[c] # 0 =>
        \E i \in 1..Len(channels') : i <= limit' /\ channels'[i] = c
  BY <1>1, <1>2 DEF TickerInv
<1>6. tpc' = "deliver" =>
        /\ idx' \in 1..Len(channels') /\ idx' <= limit'
        /\ \A i \in 1..(idx' - 1) : got'[channels'[i]] = ts'
        /\ \A i \in idx'..Len(channels') : got'[channels'[i]] < ts'
  BY <1>1, <1>3, <1>4
<1>7. EarlierFirst'
  BY <1>1 DEF TickerInv, EarlierFirst
<1>8. LockStep'
  BY <1>1 DEF TickerInv, LockStep
<1> QED
  BY <1>1, <1>4, <1>5, <1>6, <1>7, <1>8 DEF TickerInv

\* The channel at idx receives the tick.
LEMMA DeliverInv ==
  ASSUME TickerTypeOK, TickerInv, NEW c \in Chan, Deliver(c)
  PROVE  TickerInv'
<1> USE DEF TickerTypeOK
<1>1. /\ tpc = "deliver" /\ idx \in 1..Len(channels) /\ idx <= limit
      /\ channels[idx] = c
      /\ \A i \in 1..(idx - 1) : got[channels[i]] = ts
      /\ \A i \in idx..Len(channels) : got[channels[i]] < ts
      /\ idx' = idx + 1
      /\ UNCHANGED <<clock, buffered, channels, adding, ts, limit>>
      /\ idx' \in Nat /\ limit \in Nat
  BY DEF Deliver, TickerInv
<1>2. /\ got'[channels[idx]] = ts
      /\ \A i \in 1..Len(channels) : i # idx => got'[channels[i]] = got[channels[i]]
      /\ \A d \in Chan : d # c => got'[d] = got[d]
  BY <1>1 DEF Deliver, TickerInv
<1>3. /\ tpc' = "select" <=> idx + 1 > limit
      /\ tpc' = "deliver" => idx + 1 <= Len(channels) /\ idx + 1 <= limit
  BY <1>1, ArriveCases DEF Deliver
<1>4. \A i \in 1..Len(channels) : got[channels[i]] # 0 => i <= limit
  <2> SUFFICES ASSUME NEW i \in 1..Len(channels), got[channels[i]] # 0
               PROVE  i <= limit
    OBVIOUS
  <2>1. PICK h \in 1..Len(channels) : h <= limit /\ channels[h] = channels[i]
    BY DEF TickerInv
  <2>2. h = i
    BY <2>1 DEF TickerInv
  <2> QED
    BY <2>1, <2>2
<1>5. \A d \in Chan : got'[d] <= ts'
  BY <1>1, <1>2 DEF TickerInv
<1>6. \A d \in Chan : got'[d] # 0 =>
        \E i \in 1..Len(channels') : i <= limit' /\ channels'[i] = d
  BY <1>1, <1>2 DEF TickerInv
<1>7. tpc' = "deliver" =>
        /\ idx' \in 1..Len(channels') /\ idx' <= limit'
        /\ \A i \in 1..(idx' - 1) : got'[channels'[i]] = ts'
        /\ \A i \in idx'..Len(channels') : got'[channels'[i]] < ts'
  <2> SUFFICES ASSUME tpc' = "deliver"
               PROVE  /\ idx + 1 \in 1..Len(channels) /\ idx + 1 <= limit
                      /\ \A i \in 1..idx : got'[channels[i]] = ts
                      /\ \A i \in (idx + 1)..Len(channels) :
                           got'[channels[i]] < ts
    <3>1. (idx + 1) - 1 = idx
      BY <1>1
    <3> QED
      BY <1>1, <3>1
  <2>1. idx + 1 \in 1..Len(channels) /\ idx + 1 <= limit
    BY <1>1, <1>3
  <2>2. \A i \in 1..idx : got'[channels[i]] = ts
    <3> SUFFICES ASSUME NEW i \in 1..idx
                 PROVE  got'[channels[i]] = ts
      OBVIOUS
    <3> QED
      BY <1>1, <1>2
  <2>3. \A i \in (idx + 1)..Len(channels) : got'[channels[i]] < ts
    <3> SUFFICES ASSUME NEW i \in (idx + 1)..Len(channels)
                 PROVE  got'[channels[i]] < ts
      OBVIOUS
    <3>1. i \in idx..Len(channels) /\ i # idx
      BY <1>1
    <3> QED
      BY <1>1, <1>2, <3>1
  <2> QED
    BY <2>1, <2>2, <2>3
<1>8. EarlierFirst'
  <2> SUFFICES ASSUME NEW i \in 1..Len(channels), NEW j \in 1..Len(channels),
                      i < j
               PROVE  got'[channels[j]] <= got'[channels[i]]
    BY <1>1 DEF EarlierFirst
  <2>1. got[channels[j]] <= got[channels[i]]
    BY DEF TickerInv, EarlierFirst
  <2>2. channels[i] \in Chan /\ channels[j] \in Chan
    OBVIOUS
  <2>3. CASE i = idx
    BY <1>1, <1>2, <1>5, <2>2, <2>3
  <2>4. CASE j = idx
    BY <1>1, <1>2, <2>2, <2>4
  <2>5. CASE i # idx /\ j # idx
    BY <1>2, <2>1, <2>5
  <2> QED
    BY <2>3, <2>4, <2>5
<1>9. LockStep'
  <2> SUFFICES ASSUME NEW i \in 1..Len(channels), NEW j \in 1..Len(channels),
                      i < j, got'[channels[j]] # 0
               PROVE  \/ got'[channels[i]] = got'[channels[j]]
                      \/ /\ got'[channels[i]] = ts
                         /\ i < idx + 1 /\ idx + 1 <= j /\ tpc' # "select"
    BY <1>1 DEF LockStep
  <2>1. j <= idx => got'[channels[j]] = ts
    BY <1>1, <1>2
  <2>2. i <= idx => got'[channels[i]] = ts
    BY <1>1, <1>2
  <2>3. CASE j <= idx
    BY <2>1, <2>2, <2>3
  <2>4. CASE i <= idx /\ idx < j
    <3>1. got[channels[j]] # 0
      BY <1>1, <1>2, <2>4
    <3>2. j <= limit
      BY <1>4, <3>1
    <3> QED
      BY <1>1, <1>3, <2>2, <2>4, <3>2
  <2>5. CASE idx < i
    <3>1. got[channels[j]] # 0
      <4>1. j # idx
        BY <1>1, <2>5
      <4> QED
        BY <1>2, <4>1
    <3>2. got[channels[i]] = got[channels[j]]
      BY <1>1, <2>5, <3>1 DEF TickerInv, LockStep
    <3> QED
      BY <1>1, <1>2, <2>5, <3>2
  <2> QED
    BY <1>1, <2>3, <2>4, <2>5
<1> QED
  BY <1>1, <1>5, <1>6, <1>7, <1>8, <1>9 DEF TickerInv

\* TickerInv is inductive: no step of the ticker, of the code that registers
\* channels or of the caller of Close() breaks it.
THEOREM TickerInvariant == TickerSpec => []TickerInv
<1>1. TickerInit => TickerInv
  BY TickerAssumption DEF TickerInit, TickerInv, EarlierFirst, LockStep
<1>2. TickerTypeOK /\ TickerInv /\ [TickerNext]_tvars => TickerInv'
  <2> SUFFICES ASSUME TickerTypeOK, TickerInv, [TickerNext]_tvars
               PROVE  TickerInv'
    OBVIOUS
  <2>1. CASE ClockTick
    BY <2>1, QuietStep DEF ClockTick, TickerTypeOK, TickerInv
  <2>2. ASSUME NEW c \in Chan, AddChannelBegin(c)
        PROVE  TickerInv'
    BY <2>2, QuietStep DEF AddChannelBegin, TickerTypeOK, TickerInv
  <2>3. ASSUME NEW c \in Chan, Deliver(c)
        PROVE  TickerInv'
    BY <2>3, DeliverInv
  <2>4. CASE AddChannelEnd
    BY <2>4, AddChannelEndInv
  <2>5. CASE TakeTick
    BY <2>5, TakeTickInv
  <2>6. CASE TornRead
    BY <2>6, QuietStep DEF TornRead, TickerTypeOK, TickerInv
  <2>7. CASE CallTickerClose
    BY <2>7, QuietStep DEF CallTickerClose, TickerTypeOK, TickerInv
  <2>8. CASE AcceptTickerDone
    BY <2>8, QuietStep DEF AcceptTickerDone, TickerTypeOK, TickerInv
  <2>9. CASE TickerExit
    BY <2>9, QuietStep DEF TickerExit, TickerTypeOK, TickerInv
  <2>10. CASE TickerCloseReturns
    BY <2>10, QuietStep DEF TickerCloseReturns, TickerTypeOK, TickerInv
  <2>11. CASE UNCHANGED tvars
    BY <2>11, QuietStep DEF tvars, TickerTypeOK, TickerInv
  <2> QED
    BY <2>1, <2>2, <2>3, <2>4, <2>5, <2>6, <2>7, <2>8, <2>9, <2>10, <2>11
       DEF TickerNext
<1> QED
  BY <1>1, <1>2, TickerTypeCorrect, PTL DEF TickerSpec

\* A channel registered earlier is never behind one registered later.
THEOREM EarlierFirstHolds == TickerSpec => []EarlierFirst
<1>1. TickerInv => EarlierFirst
  BY DEF TickerInv
<1> QED
  BY <1>1, TickerInvariant, PTL

\* No receiver is ahead of another one by more than the tick being handed out.
THEOREM LockStepHolds == TickerSpec => []LockStep
<1>1. TickerInv => LockStep
  BY DEF TickerInv
<1> QED
  BY <1>1, TickerInvariant, PTL

\* What a channel receives only ever grows.
THEOREM TicksIncreaseHolds == TickerSpec => TicksIncrease
<1>1. TickerTypeOK /\ TickerInv /\ [TickerNext]_tvars =>
        [\A c \in Chan : got'[c] # got[c] => got'[c] > got[c]]_tvars
  <2> SUFFICES ASSUME TickerTypeOK, TickerInv, TickerNext,
                      NEW c \in Chan, got'[c] # got[c]
               PROVE  got'[c] > got[c]
    OBVIOUS
  <2>1. Deliver(c)
    <3>1. \E d \in Chan : Deliver(d)
      BY DEF TickerNext, ClockTick, AddChannelBegin, AddChannelEnd, TakeTick,
             TornRead, CallTickerClose, AcceptTickerDone, TickerExit,
             TickerCloseReturns
    <3>2. \A d \in Chan : Deliver(d) => d = c
      BY DEF Deliver, TickerTypeOK
    <3> QED
      BY <3>1, <3>2
  <2>2. got'[c] = ts
    BY <2>1 DEF Deliver, TickerTypeOK
  <2>3. got[c] < ts
    BY <2>1 DEF Deliver, TickerTypeOK, TickerInv
  <2> QED
    BY <2>2, <2>3 DEF TickerTypeOK
<1> QED
  BY <1>1, TickerTypeCorrect, TickerInvariant, PTL DEF TickerSpec, TicksIncrease
-----------------------------------------------------------------------------
\* Where the caller of Close() and the goroutine can be together.
CloseInv ==
  /\ tclose = "waiting" => tpc \in {"done", "exited"}
  /\ tclose = "returned" => tpc = "exited"

LEMMA CloseInvariant == TickerSpec => []CloseInv
<1>1. TickerInit => CloseInv
  BY DEF TickerInit, CloseInv
<1>2. CloseInv /\ [TickerNext]_tvars => CloseInv'
  BY DEF CloseInv, TickerNext, tvars, ClockTick, AddChannelBegin, AddChannelEnd,
         TakeTick, TornRead, Deliver, CallTickerClose, AcceptTickerDone,
         TickerExit, TickerCloseReturns
<1> QED
  BY <1>1, <1>2, PTL DEF TickerSpec

\* After Close() has returned nobody receives a tick any more.
THEOREM SilentAfterCloseHolds == TickerSpec => SilentAfterClose
<1>1. CloseInv /\ [TickerNext]_tvars =>
        [tclose = "returned" => UNCHANGED <<got, ts, tpc>>]_tvars
  BY DEF CloseInv, TickerNext, tvars, ClockTick, AddChannelBegin, AddChannelEnd,
         TakeTick, TornRead, Deliver, CallTickerClose, AcceptTickerDone,
         TickerExit, TickerCloseReturns
<1> QED
  BY <1>1, CloseInvariant, PTL DEF TickerSpec, SilentAfterClose

\* The ticker implements the close handshake: its steps are steps of the
\* handshake or leave closer and loop alone.
THEOREM TickerImplementsHandshake == TickerSpec => TickerClosesProperly
<1> DEFINE loop == CASE tpc = "done" -> "stopping"
                     [] tpc = "exited" -> "exited"
                     [] OTHER -> "running"
<1>1. TickerInit => TickerHandshake!Init
  BY DEF TickerInit, TickerHandshake!Init
<1>2. TickerTypeOK /\ CloseInv /\ [TickerNext]_tvars =>
        [TickerHandshake!Next]_<<tclose, loop>>
  <2> SUFFICES ASSUME TickerTypeOK, CloseInv, [TickerNext]_tvars
               PROVE  TickerHandshake!Next \/ UNCHANGED <<tclose, loop>>
    OBVIOUS
  <2> USE DEF TickerTypeOK
  <2>1. CASE ClockTick
    BY <2>1 DEF ClockTick
  <2>2. CASE \E c \in Chan : AddChannelBegin(c)
    BY <2>2 DEF AddChannelBegin
  <2>3. CASE \E c \in Chan : Deliver(c)
    <3>1. tpc = "deliver" /\ tpc' \in {"select", "stuck", "deliver"}
      BY <2>3 DEF Deliver, Arrive
    <3> QED
      BY <2>3, <3>1 DEF Deliver
  <2>4. CASE AddChannelEnd
    BY <2>4 DEF AddChannelEnd
  <2>5. CASE TakeTick
    <3>1. tpc = "select" /\ tpc' \in {"select", "stuck", "deliver"}
      BY <2>5 DEF TakeTick, Arrive
    <3> QED
      BY <2>5, <3>1 DEF TakeTick
  <2>6. CASE TornRead
    BY <2>6 DEF TornRead
  <2>7. CASE CallTickerClose
    BY <2>7 DEF CallTickerClose, TickerHandshake!Next, TickerHandshake!Call
  <2>8. CASE AcceptTickerDone
    BY <2>8 DEF AcceptTickerDone, TickerHandshake!Next, TickerHandshake!Accept
  <2>9. CASE TickerExit
    BY <2>9 DEF TickerExit, TickerHandshake!Next, TickerHandshake!Finish
  <2>10. CASE TickerCloseReturns
    BY <2>10 DEF TickerCloseReturns, TickerHandshake!Next,
                 TickerHandshake!Return
  <2>11. CASE UNCHANGED tvars
    BY <2>11 DEF tvars
  <2> QED
    BY <2>1, <2>2, <2>3, <2>4, <2>5, <2>6, <2>7, <2>8, <2>9, <2>10, <2>11
       DEF TickerNext
<1> QED
  BY <1>1, <1>2, TickerTypeCorrect, CloseInvariant, PTL
     DEF TickerSpec, TickerClosesProperly, TickerHandshake!Spec,
         TickerHandshake!hvars
-----------------------------------------------------------------------------
(***************************************************************************)
(* The collector manager                                                   *)
(***************************************************************************)
\* The managers of a configuration are lists without repetition.
LEMMA LineUpIsSequence ==
  ASSUME NEW S, IsFiniteSet(S), NEW f \in LineUps(S)
  PROVE  f \in Seq(S) /\ Distinct(f)
<1>1. Cardinality(S) \in Nat
  BY FS_CardinalityType
<1>2. PICK n \in 0..Cardinality(S) :
        f \in [1..n -> S] /\ \A i, j \in 1..n : f[i] = f[j] => i = j
  BY DEF LineUps
<1>3. n \in Nat
  BY <1>1
<1>4. f \in Seq(S) /\ Len(f) = n
  BY <1>2, <1>3
<1> QED
  BY <1>2, <1>4 DEF Distinct

\* Both kinds of collectors are finitely many.
LEMMA KindsAreFinite ==
  IsFiniteSet(ParallelCollector) /\ IsFiniteSet(Collector \ ParallelCollector)
<1>1. /\ ParallelCollector \in SUBSET Collector
      /\ Collector \ ParallelCollector \in SUBSET Collector
  BY ManagerAssumption
<1> QED
  BY <1>1, FS_Subset, ManagerAssumption

\* The state of the manager has its type: indices stay in the loops they
\* belong to, and only configured collectors are read or closed.
THEOREM ManagerTypeCorrect == ManagerSpec => []ManagerTypeOK
<1>1. ManagerInit => ManagerTypeOK
  <2> SUFFICES ASSUME ManagerInit
               PROVE  ManagerTypeOK
    OBVIOUS
  <2>1. collectors \in Seq(ParallelCollector)
    BY KindsAreFinite, LineUpIsSequence DEF ManagerInit
  <2>2. serial \in Seq(Collector \ ParallelCollector)
    BY KindsAreFinite, LineUpIsSequence DEF ManagerInit
  <2>3. /\ reads \in [Collector -> Nat]
        /\ toSend \in [Collector -> Nat]
    BY DEF ManagerInit
  <2>4. collInput \in Seq(CollMsg)
    BY DEF ManagerInit
  <2>5. parallelRun \in BOOLEAN
    BY DEF ManagerInit
  <2> QED
    BY <2>1, <2>2, <2>3, <2>4, <2>5 DEF ManagerInit, ManagerTypeOK
<1>2. ManagerTypeOK /\ [ManagerNext]_mvars => ManagerTypeOK'
  <2> SUFFICES ASSUME ManagerTypeOK, [ManagerNext]_mvars
               PROVE  ManagerTypeOK'
    OBVIOUS
  <2> USE ManagerAssumption DEF ManagerTypeOK
  <2>1. CASE ManagerStart
    BY <2>1 DEF ManagerStart
  <2>2. ASSUME NEW t \in (tick + 1)..LastTick, ReceiveTick(t)
        PROVE  ManagerTypeOK'
    BY <2>2 DEF ReceiveTick
  <2>3. CASE LaunchParallel
    <3>1. collectors[k] \in Collector
      BY <2>3 DEF LaunchParallel
    <3>2. /\ reads' \in [Collector -> Nat]
          /\ reading' \subseteq Collector
          /\ toSend' \in [Collector -> Nat]
      BY <2>3, <3>1 DEF LaunchParallel, BeginRead
    <3>3. /\ k' \in Nat \ {0}
          /\ mpc' \in {"launch", "join"}
          /\ mpc' = "launch" => k' \in 1..Len(collectors')
      BY <2>3 DEF LaunchParallel
    <3> QED
      BY <2>3, <3>2, <3>3 DEF LaunchParallel
  <2>4. CASE JoinParallel
    <3>1. /\ mpc' \in {"select", "serial"}
          /\ k' = 1
          /\ mpc' = "serial" => k' \in 1..Len(serial')
      BY <2>4 DEF JoinParallel
    <3>2. parallelRun' \in BOOLEAN
      BY <2>4 DEF JoinParallel
    <3>3. UNCHANGED <<collectors, serial, tick, rounds, reads, reading, toSend,
                      closed, collInput, mclose>>
      BY <2>4 DEF JoinParallel
    <3> QED
      BY <3>1, <3>2, <3>3
  <2>5. CASE StartSerial
    BY <2>5 DEF StartSerial, BeginRead
  <2>6. ASSUME NEW c \in Collector, Emit(c)
        PROVE  ManagerTypeOK'
    BY <2>6 DEF Emit, CollMsg
  <2>7. ASSUME NEW c \in Collector, FinishRead(c)
        PROVE  ManagerTypeOK'
    BY <2>7 DEF FinishRead
  <2>8. CASE CallManagerClose
    BY <2>8 DEF CallManagerClose
  <2>9. CASE AcceptManagerDone
    BY <2>9 DEF AcceptManagerDone
  <2>10. CASE DoneWait
    <3>1. parallelRun' \in BOOLEAN
      BY <2>10 DEF DoneWait
    <3>2. /\ k' = 1
          /\ mpc' = "closing"
          /\ UNCHANGED <<collectors, serial, tick, rounds, reads, reading,
                         toSend, closed, collInput, mclose>>
      BY <2>10 DEF DoneWait
    <3> QED
      BY <3>1, <3>2
  <2>11. CASE CloseCollector
    BY <2>11 DEF CloseCollector
  <2>12. CASE ManagerExit
    BY <2>12 DEF ManagerExit
  <2>13. CASE ManagerCloseReturns
    BY <2>13 DEF ManagerCloseReturns
  <2>14. CASE Consume
    BY <2>14 DEF Consume
  <2>15. CASE UNCHANGED mvars
    BY <2>15 DEF mvars
  <2> QED
    BY <2>1, <2>2, <2>3, <2>4, <2>5, <2>6, <2>7, <2>8, <2>9, <2>10, <2>11,
       <2>12, <2>13, <2>14, <2>15 DEF ManagerNext, ManagerStep
<1> QED
  BY <1>1, <1>2, PTL DEF ManagerSpec
-----------------------------------------------------------------------------
\* No collector is in both lists.
LEMMA Apart ==
  ASSUME ManagerTypeOK,
         NEW i \in 1..Len(collectors), NEW j \in 1..Len(serial)
  PROVE  /\ collectors[i] \in Collector
         /\ serial[j] \in Collector
         /\ collectors[i] # serial[j]
<1>1. ParallelCollector \subseteq Collector
  BY ManagerAssumption
<1>2. collectors[i] \in ParallelCollector
  BY DEF ManagerTypeOK
<1>3. serial[j] \in Collector \ ParallelCollector
  BY DEF ManagerTypeOK
<1> QED
  BY <1>1, <1>2, <1>3

\* The number of reads is that of the rounds, or one behind.
LEMMA OneBehind ==
  ASSUME NEW r \in Nat, NEW n \in Nat, r = n \/ r + 1 = n
  PROVE  r <= n /\ n <= r + 1
  OBVIOUS

\* A step that reads nothing, and stays in its loop or leaves it for done(),
\* does not disturb the progress of the round.
LEMMA RoundKept ==
  ASSUME ManagerTypeOK, Round,
         UNCHANGED <<collectors, serial, rounds, reads>>,
         \/ UNCHANGED <<mpc, k>>
         \/ mpc' \in {"done", "closing", "exited"}
  PROVE  Round'
<1>1. \A c \in Configured' : reads'[c] <= rounds' /\ rounds' <= reads'[c] + 1
  BY DEF Round, Configured, Elements
<1>2. CASE mpc' \in {"done", "closing", "exited"}
  BY <1>1, <1>2 DEF Round
<1>3. CASE UNCHANGED <<mpc, k>>
  BY <1>1, <1>3 DEF Round, AllRead, ReadBefore
<1> QED
  BY <1>2, <1>3

\* A new round begins when all collectors have been read in the one before.
LEMMA ReceiveTickInv ==
  ASSUME ManagerTypeOK, ManagerInv, NEW t \in Nat, ReceiveTick(t)
  PROVE  ManagerInv'
<1> USE DEF ManagerTypeOK
<1>1. /\ mpc = "select"
      /\ rounds' = rounds + 1
      /\ k' = 1
      /\ UNCHANGED <<collectors, serial, reads, reading, closed, mclose>>
      /\ parallelRun'
  BY DEF ReceiveTick
<1>2. mpc' = IF collectors = <<>> THEN "join" ELSE "launch"
  BY DEF ReceiveTick
<1>3. reading = {}
  BY <1>1 DEF ManagerInv, WhoReads
<1>4. /\ \A i \in 1..Len(collectors) : reads[collectors[i]] = rounds
      /\ \A i \in 1..Len(serial) : reads[serial[i]] = rounds
  BY <1>1 DEF ManagerInv, Round, AllRead
<1>5. WhoReads'
  BY <1>1, <1>2, <1>3 DEF WhoReads
<1>6. Round'
  <2>1. ReadBefore(collectors, 1)' /\ ReadBefore(serial, 1)'
    <3>1. \A i \in Nat \ {0} : ~(i < 1)
      OBVIOUS
    <3> QED
      BY <1>1, <1>4, <3>1 DEF ReadBefore
  <2>4. ReadBefore(collectors, k)' /\ mpc' \in {"join", "launch"}
    BY <1>1, <1>2, <2>1 DEF ReadBefore
  <2>2. mpc' = "join" => AllRead(collectors)'
    BY <1>1, <1>2 DEF AllRead
  <2>3. \A c \in Configured' : reads'[c] <= rounds' /\ rounds' <= reads'[c] + 1
    <3>1. \A c \in Configured : reads[c] = rounds
      BY <1>4 DEF Configured, Elements
    <3>2. Configured' = Configured
      BY <1>1 DEF Configured, Elements
    <3>3. rounds \in Nat /\ rounds' = rounds + 1 /\ reads' = reads
      BY <1>1
    <3> HIDE DEF ManagerTypeOK
    <3> QED
      BY <3>1, <3>2, <3>3
  <2> QED
    BY <2>1, <2>2, <2>3, <2>4 DEF Round
<1>7. Stopping'
  BY <1>1, <1>2 DEF ManagerInv, Stopping
<1>8. Distinct(collectors)' /\ Distinct(serial)'
  BY <1>1 DEF ManagerInv, Distinct
<1> QED
  BY <1>5, <1>6, <1>7, <1>8 DEF ManagerInv

\* The loop over the parallel collectors starts one that was not read in this
\* round and whose Read() is not running.
LEMMA LaunchParallelInv ==
  ASSUME ManagerTypeOK, ManagerInv, LaunchParallel
  PROVE  ManagerInv' /\ collectors[k] \notin reading
<1> USE DEF ManagerTypeOK
<1> DEFINE c == collectors[k]
<1>1. /\ mpc = "launch"
      /\ k \in 1..Len(collectors)
      /\ c \in Collector
      /\ parallelRun
      /\ reading \subseteq {collectors[i] : i \in 1..(k - 1)}
      /\ Distinct(collectors)
      /\ Distinct(serial)
  BY ManagerAssumption DEF LaunchParallel, ManagerInv, WhoReads
<1>2. /\ reading' = reading \cup {c}
      /\ reads' = [reads EXCEPT ![c] = @ + 1]
      /\ k' = k + 1
      /\ mpc' = IF k = Len(collectors) THEN "join" ELSE "launch"
      /\ UNCHANGED <<collectors, serial, rounds, parallelRun, closed, mclose>>
  BY DEF LaunchParallel, BeginRead
<1>3. c \notin reading
  <2>1. ASSUME NEW i \in 1..(k - 1)
        PROVE  collectors[i] # c
    <3>1. i \in 1..Len(collectors) /\ i # k
      BY <1>1
    <3> QED
      BY <1>1, <3>1 DEF Distinct
  <2> QED
    BY <1>1, <2>1
<1>4. WhoReads'
  <2>1. reading' \subseteq {collectors[i] : i \in 1..k}
    <3>1. k \in 1..k /\ 1..(k - 1) \subseteq 1..k
      BY <1>1
    <3> QED
      BY <1>1, <1>2, <3>1
  <2>2. reading' \subseteq {collectors'[i] : i \in 1..(k' - 1)}
    <3>1. k' - 1 = k
      BY <1>1, <1>2
    <3> QED
      BY <1>2, <2>1, <3>1
  <2>3. mpc' = "join" => reading' \subseteq Elements(collectors')
    BY <1>1, <1>2, <2>1 DEF Elements
  <2>4. parallelRun' /\ mpc' \in {"join", "launch"}
    BY <1>1, <1>2
  <2> QED
    BY <2>2, <2>3, <2>4 DEF WhoReads
<1>5. Round'
  <2>1. /\ \A i \in 1..Len(collectors) :
             IF i < k THEN reads[collectors[i]] = rounds
                      ELSE reads[collectors[i]] + 1 = rounds
        /\ \A i \in 1..Len(serial) :
             IF i < 1 THEN reads[serial[i]] = rounds
                      ELSE reads[serial[i]] + 1 = rounds
    BY <1>1 DEF ManagerInv, Round, ReadBefore
  <2>2. \A i \in 1..Len(collectors) :
          reads'[collectors[i]] = IF i = k THEN reads[c] + 1
                                           ELSE reads[collectors[i]]
    BY <1>1, <1>2 DEF Distinct
  <2>3. \A i \in 1..Len(serial) : reads'[serial[i]] = reads[serial[i]]
    BY <1>1, <1>2, Apart
  <2>4. ReadBefore(collectors, k)'
    <3>1. ASSUME NEW i \in 1..Len(collectors)
          PROVE  IF i < k + 1 THEN reads'[collectors[i]] = rounds
                              ELSE reads'[collectors[i]] + 1 = rounds
      <4>1. CASE i = k
        BY <1>1, <2>1, <2>2, <4>1
      <4>2. CASE i # k
        <5>1. i < k + 1 <=> i < k
          BY <1>1, <4>2
        <5> QED
          BY <2>1, <2>2, <4>2, <5>1
      <4> QED
        BY <4>1, <4>2
    <3> QED
      BY <1>2, <3>1 DEF ReadBefore
  <2>5. ReadBefore(serial, 1)'
    BY <1>2, <2>1, <2>3 DEF ReadBefore
  <2>6. mpc' = "join" => AllRead(collectors)'
    BY <1>1, <1>2, <2>1, <2>2 DEF AllRead
  <2>7. \A d \in Configured' : reads'[d] <= rounds' /\ rounds' <= reads'[d] + 1
    <3>1. /\ \A i \in 1..Len(collectors) :
               reads'[collectors[i]] <= rounds /\ rounds <= reads'[collectors[i]] + 1
          /\ \A i \in 1..Len(serial) :
               reads'[serial[i]] <= rounds /\ rounds <= reads'[serial[i]] + 1
      <4>1. reads' \in [Collector -> Nat]
        BY <1>1, <1>2
      <4>2. /\ \A i \in 1..Len(collectors) : reads'[collectors[i]] \in Nat
            /\ \A i \in 1..Len(serial) : reads'[serial[i]] \in Nat
        BY <4>1, ManagerAssumption
      <4>3. /\ \A i \in 1..Len(collectors) :
                 \/ reads'[collectors[i]] = rounds
                 \/ reads'[collectors[i]] + 1 = rounds
            /\ \A i \in 1..Len(serial) : reads'[serial[i]] + 1 = rounds
        BY <1>2, <2>4, <2>5 DEF ReadBefore
      <4> QED
        BY <4>2, <4>3, OneBehind
    <3> QED
      BY <1>2, <3>1 DEF Configured, Elements
  <2> QED
    BY <1>1, <1>2, <2>4, <2>5, <2>6, <2>7 DEF Round
<1>6. Stopping'
  BY <1>1, <1>2 DEF ManagerInv, Stopping
<1>7. Distinct(collectors)' /\ Distinct(serial)'
  BY <1>1, <1>2 DEF Distinct
<1> QED
  BY <1>3, <1>4, <1>5, <1>6, <1>7 DEF ManagerInv

\* After collector_wg.Wait() no Read() is running.
LEMMA JoinParallelInv ==
  ASSUME ManagerTypeOK, ManagerInv, JoinParallel
  PROVE  ManagerInv'
<1> USE DEF ManagerTypeOK
<1>1. /\ mpc = "join"
      /\ reading = {}
      /\ k' = 1
      /\ mpc' = IF serial = <<>> THEN "select" ELSE "serial"
      /\ UNCHANGED <<collectors, serial, rounds, reads, reading, closed, mclose>>
  BY DEF JoinParallel
<1>2. WhoReads'
  BY <1>1 DEF WhoReads
<1>3. Round'
  <2>1. AllRead(collectors) /\ ReadBefore(serial, 1)
    BY <1>1 DEF ManagerInv, Round
  <2>2. AllRead(collectors)' /\ ReadBefore(serial, 1)'
    BY <1>1, <2>1 DEF AllRead, ReadBefore
  <2>3. serial = <<>> => AllRead(serial)'
    BY <1>1 DEF AllRead
  <2>4. \A c \in Configured' : reads'[c] <= rounds' /\ rounds' <= reads'[c] + 1
    BY <1>1 DEF ManagerInv, Round, Configured, Elements
  <2>5. ReadBefore(serial, k)'
    BY <1>1, <2>2 DEF ReadBefore
  <2> QED
    BY <1>1, <2>2, <2>3, <2>4, <2>5 DEF Round
<1>4. Stopping'
  BY <1>1 DEF ManagerInv, Stopping
<1>5. Distinct(collectors)' /\ Distinct(serial)'
  BY <1>1 DEF ManagerInv, Distinct
<1> QED
  BY <1>2, <1>3, <1>4, <1>5 DEF ManagerInv

\* A serial collector is started when no Read() is running.
LEMMA StartSerialInv ==
  ASSUME ManagerTypeOK, ManagerInv, StartSerial
  PROVE  ManagerInv' /\ reading = {}
<1> USE DEF ManagerTypeOK
<1> DEFINE c == serial[k]
<1>1. /\ mpc = "serial"
      /\ k \in 1..Len(serial)
      /\ c \in Collector
      /\ reading = {}
      /\ Distinct(collectors)
      /\ Distinct(serial)
  BY ManagerAssumption DEF StartSerial, ManagerInv, WhoReads
<1>2. /\ reading' = {c}
      /\ reads' = [reads EXCEPT ![c] = @ + 1]
      /\ mpc' = "reading"
      /\ UNCHANGED <<collectors, serial, k, rounds, closed, mclose>>
  BY <1>1 DEF StartSerial, BeginRead
<1>3. WhoReads'
  BY <1>1, <1>2 DEF WhoReads
<1>4. Round'
  <2>1. /\ \A i \in 1..Len(collectors) : reads[collectors[i]] = rounds
        /\ \A i \in 1..Len(serial) :
             IF i < k THEN reads[serial[i]] = rounds
                      ELSE reads[serial[i]] + 1 = rounds
    BY <1>1 DEF ManagerInv, Round, AllRead, ReadBefore
  <2>2. \A i \in 1..Len(serial) :
          reads'[serial[i]] = IF i = k THEN reads[c] + 1 ELSE reads[serial[i]]
    BY <1>1, <1>2 DEF Distinct
  <2>3. \A i \in 1..Len(collectors) : reads'[collectors[i]] = rounds
    BY <1>1, <1>2, <2>1, Apart
  <2>4. ASSUME NEW i \in 1..Len(serial)
        PROVE  IF i < k + 1 THEN reads'[serial[i]] = rounds
                            ELSE reads'[serial[i]] + 1 = rounds
    <3>1. CASE i = k
      BY <1>1, <2>1, <2>2, <3>1
    <3>2. CASE i # k
      <4>1. i < k + 1 <=> i < k
        BY <1>1, <3>2
      <4> QED
        BY <2>1, <2>2, <3>2, <4>1
    <3> QED
      BY <3>1, <3>2
  <2>5. \A d \in Configured' : reads'[d] <= rounds' /\ rounds' <= reads'[d] + 1
    <3>1. \A i \in 1..Len(serial) : reads'[serial[i]] \in Nat
      <4>1. reads' \in [Collector -> Nat]
        BY <1>1, <1>2
      <4> QED
        BY <4>1, ManagerAssumption
    <3>2. \A i \in 1..Len(serial) :
            reads'[serial[i]] <= rounds /\ rounds <= reads'[serial[i]] + 1
      <4>1. \A i \in 1..Len(serial) :
              reads'[serial[i]] = rounds \/ reads'[serial[i]] + 1 = rounds
        BY <2>4
      <4> QED
        BY <3>1, <4>1, OneBehind
    <3>3. ASSUME NEW d \in Configured'
          PROVE  reads'[d] <= rounds /\ rounds <= reads'[d] + 1
      <4>1. CASE \E i \in 1..Len(collectors) : d = collectors[i]
        <5>1. reads'[d] = rounds
          BY <2>3, <4>1
        <5>2. rounds \in Nat
          OBVIOUS
        <5> QED
          BY <5>1, <5>2
      <4>2. CASE \E i \in 1..Len(serial) : d = serial[i]
        BY <3>2, <4>2
      <4> QED
        BY <1>2, <4>1, <4>2 DEF Configured, Elements
    <3> QED
      BY <1>2, <3>3
  <2>6. AllRead(collectors)' /\ ReadBefore(serial, k + 1)'
    BY <1>2, <2>3, <2>4 DEF AllRead, ReadBefore
  <2> QED
    BY <1>2, <2>5, <2>6 DEF Round
<1>5. Stopping'
  BY <1>1, <1>2 DEF ManagerInv, Stopping
<1>6. Distinct(collectors)' /\ Distinct(serial)'
  BY <1>1, <1>2 DEF Distinct
<1> QED
  BY <1>1, <1>3, <1>4, <1>5, <1>6 DEF ManagerInv

\* A Read() that returns frees its collector, and moves the serial loop on.
LEMMA FinishReadInv ==
  ASSUME ManagerTypeOK, ManagerInv, NEW c \in Collector, FinishRead(c)
  PROVE  ManagerInv'
<1> USE DEF ManagerTypeOK
<1>1. /\ c \in reading
      /\ reading' = reading \ {c}
      /\ UNCHANGED <<collectors, serial, rounds, reads, parallelRun, closed,
                     mclose>>
  BY DEF FinishRead
<1>2. Distinct(collectors)' /\ Distinct(serial)'
  BY <1>1 DEF ManagerInv, Distinct
<1>3. CASE mpc = "reading"
  <2>1. /\ reading = {serial[k]}
        /\ k' = k + 1
        /\ mpc' = IF k = Len(serial) THEN "select" ELSE "serial"
    BY <1>3 DEF FinishRead, ManagerInv, WhoReads
  <2>2. reading' = {}
    BY <1>1, <2>1
  <2>3. WhoReads'
    BY <2>1, <2>2 DEF WhoReads
  <2>4. Round'
    <3>1. AllRead(collectors)' /\ ReadBefore(serial, k + 1)
      BY <1>1, <1>3 DEF ManagerInv, Round, AllRead
    <3>2. ReadBefore(serial, k)'
      BY <1>1, <2>1, <3>1 DEF ReadBefore
    <3>3. k = Len(serial) => AllRead(serial)'
      BY <1>1, <3>1 DEF ReadBefore, AllRead
    <3>4. \A d \in Configured' : reads'[d] <= rounds' /\ rounds' <= reads'[d] + 1
      BY <1>1 DEF ManagerInv, Round, Configured, Elements
    <3> QED
      BY <2>1, <3>1, <3>2, <3>3, <3>4 DEF Round
  <2>5. Stopping'
    BY <1>1, <1>3, <2>1 DEF ManagerInv, Stopping
  <2> QED
    BY <1>2, <2>3, <2>4, <2>5 DEF ManagerInv
<1>4. CASE mpc # "reading"
  <2>1. UNCHANGED <<mpc, k>>
    BY <1>4 DEF FinishRead
  <2>2. WhoReads'
    BY <1>1, <1>4, <2>1 DEF ManagerInv, WhoReads
  <2>3. Round'
    BY <1>1, <2>1, RoundKept DEF ManagerInv
  <2>4. Stopping'
    BY <1>1, <2>1 DEF ManagerInv, Stopping
  <2> QED
    BY <1>2, <2>2, <2>3, <2>4 DEF ManagerInv
<1> QED
  BY <1>3, <1>4
-----------------------------------------------------------------------------
\* The inductive invariant of the manager: who may be reading at every place
\* of its loops, how far the round is, and what Close() has reached.
THEOREM ManagerInvariant == ManagerSpec => []ManagerInv
<1>1. ManagerInit => ManagerInv
  <2> SUFFICES ASSUME ManagerInit
               PROVE  ManagerInv
    OBVIOUS
  <2>1. /\ collectors \in Seq(ParallelCollector) /\ Distinct(collectors)
        /\ serial \in Seq(Collector \ ParallelCollector) /\ Distinct(serial)
    BY KindsAreFinite, LineUpIsSequence DEF ManagerInit
  <2>2. \A c \in Collector : reads[c] = 0
    BY DEF ManagerInit
  <2>3. /\ \A i \in 1..Len(collectors) : reads[collectors[i]] = 0
        /\ \A i \in 1..Len(serial) : reads[serial[i]] = 0
    BY <2>1, <2>2, ManagerAssumption
  <2>4. Round
    BY <2>3 DEF ManagerInit, Round, AllRead, Configured, Elements
  <2>5. WhoReads /\ Stopping
    BY DEF ManagerInit, WhoReads, Stopping
  <2> QED
    BY <2>1, <2>4, <2>5 DEF ManagerInv
<1>2. ManagerTypeOK /\ ManagerInv /\ [ManagerNext]_mvars => ManagerInv'
  <2> SUFFICES ASSUME ManagerTypeOK, ManagerInv, [ManagerNext]_mvars
               PROVE  ManagerInv'
    OBVIOUS
  <2> USE DEF ManagerTypeOK
  <2>1. CASE ManagerStart
    <3>1. Round'
      BY <2>1 DEF ManagerStart, ManagerInv, Round, AllRead, Configured, Elements
    <3>2. WhoReads' /\ Stopping'
      BY <2>1 DEF ManagerStart, ManagerInv, WhoReads, Stopping
    <3> QED
      BY <2>1, <3>1, <3>2 DEF ManagerStart, ManagerInv, Distinct
  <2>2. ASSUME NEW t \in (tick + 1)..LastTick, ReceiveTick(t)
        PROVE  ManagerInv'
    BY <2>2, ReceiveTickInv, ManagerAssumption
  <2>3. CASE LaunchParallel
    BY <2>3, LaunchParallelInv
  <2>4. CASE JoinParallel
    BY <2>4, JoinParallelInv
  <2>5. CASE StartSerial
    BY <2>5, StartSerialInv
  <2>6. ASSUME NEW c \in Collector, FinishRead(c)
        PROVE  ManagerInv'
    BY <2>6, FinishReadInv
  <2>7. CASE \/ \E c \in Collector : Emit(c)
             \/ CallManagerClose
             \/ ManagerCloseReturns
             \/ Consume
             \/ UNCHANGED mvars
    <3>1. UNCHANGED <<collectors, serial, mpc, k, rounds, reads, reading,
                      parallelRun, closed>>
      BY <2>7 DEF Emit, CallManagerClose, ManagerCloseReturns, Consume, mvars
    <3>2. Round'
      BY <3>1, RoundKept DEF ManagerInv
    <3>3. WhoReads'
      BY <3>1 DEF ManagerInv, WhoReads, Elements
    <3>4. Stopping'
      BY <2>7, <3>1 DEF Emit, CallManagerClose, ManagerCloseReturns, Consume,
                        mvars, ManagerInv, Stopping
    <3> QED
      BY <3>1, <3>2, <3>3, <3>4 DEF ManagerInv, Distinct
  <2>8. CASE AcceptManagerDone \/ DoneWait \/ CloseCollector \/ ManagerExit
    <3>1. /\ UNCHANGED <<collectors, serial, rounds, reads, reading>>
          /\ mpc' \in {"done", "closing", "exited"}
      BY <2>8 DEF AcceptManagerDone, DoneWait, CloseCollector, ManagerExit
    <3>2. Round'
      BY <3>1, RoundKept DEF ManagerInv
    <3>3. WhoReads'
      <4>1. CASE AcceptManagerDone
        <5>1. /\ mpc \in {"select", "launch", "serial"}
              /\ mpc' = "done"
              /\ UNCHANGED <<collectors, reading, parallelRun>>
          BY <4>1 DEF AcceptManagerDone
        <5>2. ASSUME mpc = "launch"
              PROVE  parallelRun /\ reading \subseteq Elements(collectors)
          <6>1. k \in 1..Len(collectors)
            BY <5>2
          <6>2. {collectors[i] : i \in 1..(k - 1)} \subseteq Elements(collectors)
            BY <6>1 DEF Elements
          <6> QED
            BY <5>2, <6>2 DEF ManagerInv, WhoReads
        <5>3. /\ reading \subseteq Elements(collectors)
              /\ parallelRun \/ reading = {}
          BY <5>1, <5>2 DEF ManagerInv, WhoReads
        <5>4. Elements(collectors)' = Elements(collectors)
          BY <5>1 DEF Elements
        <5> QED
          BY <5>1, <5>3, <5>4 DEF WhoReads
      <4>2. CASE DoneWait \/ CloseCollector \/ ManagerExit
        <5>1. reading = {}
          BY <4>2 DEF DoneWait, CloseCollector, ManagerExit, ManagerInv, WhoReads
        <5>2. mpc' \in {"closing", "exited"}
          BY <4>2 DEF DoneWait, CloseCollector, ManagerExit
        <5> QED
          BY <3>1, <5>1, <5>2 DEF WhoReads
      <4> QED
        BY <2>8, <4>1, <4>2
    <3>4. Stopping'
      BY <2>8 DEF AcceptManagerDone, DoneWait, CloseCollector, ManagerExit,
                  ManagerInv, Stopping
    <3> QED
      BY <3>1, <3>2, <3>3, <3>4 DEF ManagerInv, Distinct
  <2> QED
    BY <2>1, <2>2, <2>3, <2>4, <2>5, <2>6, <2>7, <2>8
       DEF ManagerNext, ManagerStep
<1> QED
  BY <1>1, <1>2, ManagerTypeCorrect, PTL DEF ManagerSpec

\* A collector is never closed while its Read() runs, nor read after that.
THEOREM NoReadOfClosedHolds == ManagerSpec => []NoReadOfClosed
<1>1. ManagerInv => NoReadOfClosed
  BY DEF ManagerInv, WhoReads, Stopping, NoReadOfClosed
<1> QED
  BY <1>1, ManagerInvariant, PTL

\* The Read() of a serial collector overlaps with no other Read().
THEOREM SerialAloneHolds == ManagerSpec => []SerialAlone
<1>1. ManagerTypeOK /\ ManagerInv => SerialAlone
  <2> SUFFICES ASSUME ManagerTypeOK, ManagerInv,
                      NEW c \in reading \cap Elements(serial)
               PROVE  reading = {c}
    BY DEF SerialAlone
  <2>1. c \notin Elements(collectors)
    BY DEF ManagerTypeOK, Elements
  <2>2. ~(reading \subseteq Elements(collectors))
    BY <2>1
  <2>3. mpc = "reading"
    <3>1. mpc # "launch"
      BY <2>2 DEF ManagerTypeOK, ManagerInv, WhoReads, Elements
    <3> QED
      BY <2>2, <3>1 DEF ManagerTypeOK, ManagerInv, WhoReads
  <2> QED
    BY <2>3 DEF ManagerInv, WhoReads
<1> QED
  BY <1>1, ManagerTypeCorrect, ManagerInvariant, PTL

\* Every round reads every collector once: none is skipped or read twice.
THEOREM ReadOncePerRoundHolds == ManagerSpec => []ReadOncePerRound
<1>1. ManagerInv => ReadOncePerRound
  BY DEF ManagerInv, Round, AllRead, ReadOncePerRound, Configured, Elements
<1> QED
  BY <1>1, ManagerInvariant, PTL

\* After Close() has returned no Read() is running.
THEOREM QuietAfterCloseHolds == ManagerSpec => []QuietAfterClose
<1>1. ManagerInv => QuietAfterClose
  BY DEF ManagerInv, WhoReads, Stopping, QuietAfterClose
<1> QED
  BY <1>1, ManagerInvariant, PTL

\* A Read() of a collector is only started when the one before has returned.
THEOREM NoOverlappingReadsHolds == ManagerSpec => NoOverlappingReads
<1>1. ManagerTypeOK /\ ManagerInv /\ [ManagerNext]_mvars =>
        [\A c \in Collector : reads'[c] # reads[c] => c \notin reading]_mvars
  <2> SUFFICES ASSUME ManagerTypeOK, ManagerInv, [ManagerNext]_mvars,
                      NEW c \in Collector, reads'[c] # reads[c]
               PROVE  c \notin reading
    BY DEF mvars
  <2>1. LaunchParallel \/ StartSerial
    BY DEF ManagerNext, ManagerStep, ManagerStart, ReceiveTick, JoinParallel,
           Emit, FinishRead, CallManagerClose, AcceptManagerDone, DoneWait,
           CloseCollector, ManagerExit, ManagerCloseReturns, Consume, mvars
  <2>2. CASE LaunchParallel
    <3>1. reads' = [reads EXCEPT ![collectors[k]] = @ + 1]
      BY <2>2 DEF LaunchParallel, BeginRead
    <3>2. c = collectors[k]
      BY <3>1 DEF ManagerTypeOK
    <3> QED
      BY <2>2, <3>2, LaunchParallelInv
  <2>3. CASE StartSerial
    BY <2>3, StartSerialInv
  <2> QED
    BY <2>1, <2>2, <2>3
<1> QED
  BY <1>1, ManagerTypeCorrect, ManagerInvariant, PTL
     DEF ManagerSpec, NoOverlappingReads

\* The manager implements the close handshake.
THEOREM ManagerImplementsHandshake == ManagerSpec => ManagerClosesProperly
<1> DEFINE loop == CASE mpc \in {"done", "closing"} -> "stopping"
                     [] mpc = "exited" -> "exited"
                     [] OTHER -> "running"
<1>1. ManagerInit => ManagerHandshake!Init
  BY DEF ManagerInit, ManagerHandshake!Init
<1>2. ManagerTypeOK /\ ManagerInv /\ [ManagerNext]_mvars =>
        [ManagerHandshake!Next]_<<mclose, loop>>
  <2> SUFFICES ASSUME ManagerTypeOK, ManagerInv, [ManagerNext]_mvars
               PROVE  ManagerHandshake!Next \/ UNCHANGED <<mclose, loop>>
    OBVIOUS
  <2>1. CASE \/ ManagerStart
             \/ \E t \in (tick + 1)..LastTick : ReceiveTick(t)
             \/ LaunchParallel
             \/ JoinParallel
             \/ StartSerial
    <3>1. /\ mpc \notin {"done", "closing", "exited"}
          /\ mpc' \notin {"done", "closing", "exited"}
          /\ UNCHANGED mclose
      BY <2>1 DEF ManagerStart, ReceiveTick, LaunchParallel, JoinParallel,
                  StartSerial
    <3> QED
      BY <3>1
  <2>2. ASSUME NEW c \in Collector, FinishRead(c)
        PROVE  UNCHANGED <<mclose, loop>>
    BY <2>2 DEF FinishRead
  <2>3. CASE \/ \E c \in Collector : Emit(c)
             \/ CloseCollector
             \/ Consume
             \/ UNCHANGED mvars
    BY <2>3 DEF Emit, CloseCollector, Consume, mvars
  <2>4. CASE CallManagerClose
    BY <2>4 DEF CallManagerClose, ManagerHandshake!Next, ManagerHandshake!Call
  <2>5. CASE AcceptManagerDone
    BY <2>5 DEF AcceptManagerDone, ManagerHandshake!Next,
                ManagerHandshake!Accept
  <2>6. CASE DoneWait
    BY <2>6 DEF DoneWait
  <2>7. CASE ManagerExit
    BY <2>7 DEF ManagerExit, ManagerHandshake!Next, ManagerHandshake!Finish
  <2>8. CASE ManagerCloseReturns
    BY <2>8 DEF ManagerCloseReturns, ManagerHandshake!Next,
                ManagerHandshake!Return
  <2> QED
    BY <2>1, <2>2, <2>3, <2>4, <2>5, <2>6, <2>7, <2>8
       DEF ManagerNext, ManagerStep
<1> QED
  BY <1>1, <1>2, ManagerTypeCorrect, ManagerInvariant, PTL
     DEF ManagerSpec, ManagerClosesProperly, ManagerHandshake!Spec,
         ManagerHandshake!hvars
=============================================================================
