------------------------ MODULE RouterTraffic_proofs ------------------------
(***************************************************************************)
(* Proofs about the metric router between its producers and its sinks, for *)
(* any number of outputs, any capacities and batch lengths, with and       *)
(* without the cache.                                                      *)
(***************************************************************************)
EXTENDS RouterTraffic, TLAPS

\* Where one message leads the numbering: from a to b.
OneNumber(m, s, a, b) ==
  IF m.src = s /\ m.keep THEN m.n = a /\ b = (m.n + 1) % IdMod ELSE b = a

\* Sequences with the same elements are numbered alike.
LEMMA NumberedSame ==
  ASSUME NEW p, NEW q, NEW s, NEW a, NEW b,
         Len(p) = Len(q), \A i \in 1..Len(p) : p[i] = q[i],
         Numbered(p, s, a, b)
  PROVE  Numbered(q, s, a, b)
<1>1. Of(s, p) = Of(s, q) /\ \A i \in Of(s, q) : p[i] = q[i]
  BY DEF Of
<1> QED
  BY <1>1 DEF Numbered

\* Nothing on the way: what is expected is what comes next.
LEMMA NumberedNone ==
  ASSUME NEW q, NEW s, NEW a, NEW b, Of(s, q) = {}
  PROVE  Numbered(q, s, a, b) <=> b = a
  BY DEF Numbered

LEMMA NumberedOne ==
  ASSUME NEW m, NEW s, NEW a, NEW b
  PROVE  Numbered(<<m>>, s, a, b) <=> OneNumber(m, s, a, b)
<1>1. Of(s, <<m>>) = IF m.src = s /\ m.keep THEN {1} ELSE {}
  BY DEF Of
<1>2. CASE m.src = s /\ m.keep
  BY <1>1, <1>2 DEF Numbered, OneNumber
<1>3. CASE ~(m.src = s /\ m.keep)
  BY <1>1, <1>3 DEF Numbered, OneNumber
<1> QED
  BY <1>2, <1>3

\* One message more at the end ...
LEMMA NumberedLonger ==
  ASSUME NEW p, NEW q, NEW m, NEW s, NEW a, NEW b, NEW c,
         Len(p) \in Nat, Len(q) = Len(p) + 1,
         \A i \in 1..Len(p) : q[i] = p[i], q[Len(p) + 1] = m,
         Numbered(p, s, a, b), OneNumber(m, s, b, c)
  PROVE  Numbered(q, s, a, c)
<1> DEFINE n == Len(p) + 1
<1>1. n \in Nat /\ n \in 1..Len(q) /\ n \notin Of(s, p)
  BY DEF Of
<1>2. \A i \in Of(s, p) : i \in Nat /\ i < n /\ q[i] = p[i]
  BY DEF Of
<1>3. CASE m.src = s /\ m.keep
  <2>1. Of(s, q) = Of(s, p) \cup {n} /\ q[n] = m
    BY <1>3 DEF Of
  <2>2. m.n = b /\ c = (m.n + 1) % IdMod
    BY <1>3 DEF OneNumber
  <2> HIDE DEF n
  <2>3. \A i \in Of(s, q) : (\A j \in Of(s, q) : i <= j) => q[i].n = a
    <3> SUFFICES ASSUME NEW i \in Of(s, q), \A j \in Of(s, q) : i <= j
                 PROVE  q[i].n = a
      OBVIOUS
    <3>1. CASE i = n
      <4>1. ASSUME NEW j \in Of(s, p)
            PROVE  FALSE
        <5>1. j \in Nat /\ j < n /\ n <= j
          BY <1>2, <2>1, <3>1
        <5> QED
          BY <1>1, <5>1
      <4> QED
        BY <2>1, <2>2, <3>1, <4>1 DEF Numbered
    <3>2. CASE i \in Of(s, p)
      BY <1>2, <2>1, <3>2 DEF Numbered
    <3> QED
      BY <2>1, <3>1, <3>2
  <2>4. \A i \in Of(s, q) :
          (\A j \in Of(s, q) : j <= i) => c = (q[i].n + 1) % IdMod
    BY <1>1, <1>2, <2>1, <2>2
  <2>5. \A i, j \in Of(s, q) :
          (i < j /\ \A h \in Of(s, q) : h <= i \/ j <= h)
            => q[j].n = (q[i].n + 1) % IdMod
    <3> SUFFICES ASSUME NEW i \in Of(s, q), NEW j \in Of(s, q), i < j,
                        \A h \in Of(s, q) : h <= i \/ j <= h
                 PROVE  q[j].n = (q[i].n + 1) % IdMod
      OBVIOUS
    <3>1. i \in Of(s, p)
      BY <1>1, <1>2, <2>1
    <3>2. CASE j = n
      <4>1. \A h \in Of(s, p) : h <= i
        BY <1>1, <1>2, <2>1, <3>2
      <4>2. b = (p[i].n + 1) % IdMod
        BY <3>1, <4>1 DEF Numbered
      <4> QED
        BY <1>2, <2>1, <2>2, <3>1, <3>2, <4>2
    <3>3. CASE j \in Of(s, p)
      BY <1>2, <2>1, <3>1, <3>3 DEF Numbered
    <3> QED
      BY <2>1, <3>2, <3>3
  <2>6. Of(s, q) # {}
    BY <2>1
  <2> QED
    BY <2>3, <2>4, <2>5, <2>6 DEF Numbered
<1>4. CASE ~(m.src = s /\ m.keep)
  <2>1. Of(s, q) = Of(s, p) /\ c = b
    BY <1>4 DEF Of, OneNumber
  <2> QED
    BY <1>2, <2>1 DEF Numbered
<1> QED
  BY <1>3, <1>4

\* ... and one less at the front.
LEMMA NumberedShorter ==
  ASSUME NEW p, NEW q, NEW s, NEW a, NEW c,
         Len(p) \in Nat, Len(p) > 0, Len(q) = Len(p) - 1,
         \A i \in 1..Len(q) : q[i] = p[i + 1],
         Numbered(p, s, a, c)
  PROVE  LET b == IF p[1].src = s /\ p[1].keep
                  THEN (p[1].n + 1) % IdMod ELSE a
         IN  OneNumber(p[1], s, a, b) /\ Numbered(q, s, b, c)
<1>1. /\ \A i \in Of(s, q) : /\ i \in Nat /\ i > 0
                             /\ i + 1 \in Of(s, p) /\ q[i] = p[i + 1]
      /\ \A i \in Of(s, p) : /\ i \in Nat /\ i > 0
                             /\ i # 1 => i - 1 \in Of(s, q)
  <2>1. ASSUME NEW i \in Of(s, q)
        PROVE  /\ i \in Nat /\ i > 0
               /\ i + 1 \in Of(s, p) /\ q[i] = p[i + 1]
    <3>1. i \in 1..Len(q) /\ i + 1 \in 1..Len(p)
      BY DEF Of
    <3> QED
      BY <3>1 DEF Of
  <2>2. ASSUME NEW i \in Of(s, p)
        PROVE  /\ i \in Nat /\ i > 0
               /\ i # 1 => i - 1 \in Of(s, q)
    <3>1. i \in 1..Len(p) /\ p[i].src = s /\ p[i].keep
      BY DEF Of
    <3>2. i # 1 => i - 1 \in 1..Len(q) /\ (i - 1) + 1 = i
      BY <3>1
    <3>3. i # 1 => q[i - 1] = p[i]
      BY <3>2
    <3> QED
      BY <3>1, <3>2, <3>3 DEF Of
  <2> QED
    BY <2>1, <2>2
<1>2. CASE p[1].src = s /\ p[1].keep
  <2>1. 1 \in Of(s, p)
    BY <1>2 DEF Of
  <2>2. p[1].n = a
    BY <1>1, <2>1 DEF Numbered
  <2> DEFINE b == (p[1].n + 1) % IdMod
  <2>3. Of(s, q) = {} => c = b
    <3> SUFFICES ASSUME Of(s, q) = {}
                 PROVE  c = b
      OBVIOUS
    <3>1. \A j \in Of(s, p) : j <= 1
      BY <1>1
    <3> QED
      BY <2>1, <3>1 DEF Numbered
  <2>4. ASSUME NEW i \in Of(s, q), \A j \in Of(s, q) : i <= j
        PROVE  q[i].n = b
    <3>1. \A h \in Of(s, p) : h <= 1 \/ i + 1 <= h
      BY <1>1, <2>4
    <3>2. 1 < i + 1 /\ i + 1 \in Of(s, p)
      BY <1>1
    <3> QED
      BY <1>1, <2>1, <3>1, <3>2 DEF Numbered
  <2>5. ASSUME NEW i \in Of(s, q), \A j \in Of(s, q) : j <= i
        PROVE  c = (q[i].n + 1) % IdMod
    <3>1. \A h \in Of(s, p) : h <= i + 1
      BY <1>1, <2>5
    <3> QED
      BY <1>1, <3>1 DEF Numbered
  <2>6. ASSUME NEW i \in Of(s, q), NEW j \in Of(s, q), i < j,
               \A h \in Of(s, q) : h <= i \/ j <= h
        PROVE  q[j].n = (q[i].n + 1) % IdMod
    <3> DEFINE x == i + 1
               y == j + 1
    <3>1. ASSUME NEW h \in Of(s, p)
          PROVE  h <= x \/ y <= h
      <4>1. i \in Nat /\ j \in Nat /\ h \in Nat /\ i > 0
        BY <1>1
      <4>2. h = 1 \/ h - 1 <= i \/ j <= h - 1
        BY <1>1, <2>6
      <4> QED
        BY <4>1, <4>2
    <3>2. /\ x < y
          /\ x \in Of(s, p) /\ q[i] = p[x]
          /\ y \in Of(s, p) /\ q[j] = p[y]
      BY <1>1, <2>6
    <3> HIDE DEF x, y
    <3>3. p[y].n = (p[x].n + 1) % IdMod
      BY <3>1, <3>2 DEF Numbered
    <3> QED
      BY <3>2, <3>3
  <2>7. Numbered(q, s, b, c)
    BY <2>3, <2>4, <2>5, <2>6 DEF Numbered
  <2> QED
    BY <1>2, <2>2, <2>7 DEF OneNumber
<1>3. CASE ~(p[1].src = s /\ p[1].keep)
  <2>1. 1 \notin Of(s, p)
    BY <1>3 DEF Of
  <2>2. Of(s, q) = {} => c = a
    BY <1>1, <2>1 DEF Numbered
  <2>3. ASSUME NEW i \in Of(s, q), \A j \in Of(s, q) : i <= j
        PROVE  q[i].n = a
    <3>1. \A h \in Of(s, p) : i + 1 <= h
      BY <1>1, <2>1, <2>3
    <3> QED
      BY <1>1, <3>1 DEF Numbered
  <2>4. ASSUME NEW i \in Of(s, q), \A j \in Of(s, q) : j <= i
        PROVE  c = (q[i].n + 1) % IdMod
    <3>1. \A h \in Of(s, p) : h <= i + 1
      BY <1>1, <2>1, <2>4
    <3> QED
      BY <1>1, <3>1 DEF Numbered
  <2>5. ASSUME NEW i \in Of(s, q), NEW j \in Of(s, q), i < j,
               \A h \in Of(s, q) : h <= i \/ j <= h
        PROVE  q[j].n = (q[i].n + 1) % IdMod
    <3> DEFINE x == i + 1
               y == j + 1
    <3>1. ASSUME NEW h \in Of(s, p)
          PROVE  h <= x \/ y <= h
      <4>1. i \in Nat /\ j \in Nat /\ h \in Nat /\ i > 0
        BY <1>1
      <4>2. h = 1 \/ h - 1 <= i \/ j <= h - 1
        BY <1>1, <2>5
      <4> QED
        BY <4>1, <4>2
    <3>2. /\ x < y
          /\ x \in Of(s, p) /\ q[i] = p[x]
          /\ y \in Of(s, p) /\ q[j] = p[y]
      BY <1>1, <2>5
    <3> HIDE DEF x, y
    <3>3. p[y].n = (p[x].n + 1) % IdMod
      BY <3>1, <3>2 DEF Numbered
    <3> QED
      BY <3>2, <3>3
  <2>6. Numbered(q, s, a, c)
    BY <2>2, <2>3, <2>4, <2>5 DEF Numbered
  <2> QED
    BY <1>3, <2>6 DEF OneNumber
<1> QED
  BY <1>2, <1>3
-----------------------------------------------------------------------------
(* The numbering through the router. *)

\* The variables have their types, and there is a message in hand wherever one
\* is used.
TrafficOK ==
  /\ TrafficTypeOK
  /\ rpc \in {"forward", "add", "batch"} => Len(cur) = 1

\* Each input holds messages of its own source, and the outputs only messages
\* the processor has kept.
SourcesOK ==
  /\ \A i \in 1..Len(collInput) : collInput[i].src = "coll"
  /\ \A i \in 1..Len(recvInput) : recvInput[i].src = "recv"
  /\ \A o \in 1..NumOutputs : \A i \in 1..Len(outputs[o]) :
       outputs[o][i].msg.keep

\* What is on the way from s to o, with the numbers at which the output ends
\* and the input begins.
OnTheWay(o, s, a, b) ==
  /\ Numbered(Sent(o), s, expect[o][s], a)
  /\ Numbered(Held(o), s, a, b)
  /\ Numbered(Queued(s), s, b, produced[s])

LEMMA EachOnceDef ==
  EachOnceInOrder <=>
    \A o \in 1..NumOutputs, s \in Source :
      \E a, b \in 0..(IdMod - 1) : OnTheWay(o, s, a, b)
  BY DEF EachOnceInOrder, OnTheWay

LEMMA MessageType ==
  ASSUME NEW m \in Message
  PROVE  /\ m.src \in Source /\ m.keep \in BOOLEAN
         /\ m.n \in 0..(IdMod - 1) /\ m.n \in Nat
         /\ Drops(m) <=> ~m.keep
<1>1. m \in TrafficMessage /\ Drops(m) = TrafficDrops(m)
  BY TrafficAssumption
<1>2. m.src \in Source /\ m.keep \in BOOLEAN /\ m.n \in 0..(IdMod - 1)
  BY <1>1 DEF TrafficMessage
<1>3. m.n \in Nat
  BY <1>2
<1>4. Drops(m) <=> ~m.keep
  BY <1>1, Zenon DEF TrafficDrops
<1> QED
  BY <1>2, <1>3, <1>4

\* The numbers there are, and the one after each of them.
LEMMA Numbers == IdMod \in Nat /\ 0 \in 0..(IdMod - 1)
<1>1. IdMod \in Nat /\ IdMod > InCap + OutCap + 1
  BY TrafficAssumption
<1>2. InCap \in Nat /\ OutCap \in Nat
  BY TrafficAssumption, RouterAssumption
<1> QED
  BY <1>1, <1>2

LEMMA NextNumber ==
  ASSUME NEW n \in 0..(IdMod - 1)
  PROVE  (n + 1) % IdMod \in 0..(IdMod - 1)
<1>1. IdMod \in Nat /\ IdMod > 0 /\ n + 1 \in Nat
  BY Numbers
<1> QED
  BY <1>1

LEMMA OneNumberType ==
  ASSUME NEW m \in Message, NEW s, NEW a \in 0..(IdMod - 1), NEW b,
         OneNumber(m, s, a, b)
  PROVE  b \in 0..(IdMod - 1)
  BY MessageType, NextNumber DEF OneNumber

LEMMA EmptyNumbered ==
  ASSUME NEW s, NEW a, NEW b
  PROVE  Numbered(<<>>, s, a, b) <=> b = a
<1>1. Of(s, <<>>) = {}
  BY DEF Of
<1> QED
  BY <1>1, NumberedNone

LEMMA AppendNumbered ==
  ASSUME NEW q \in Seq(Message), NEW m \in Message, NEW s, NEW a, NEW b, NEW c,
         Numbered(q, s, a, b), OneNumber(m, s, b, c)
  PROVE  Numbered(Append(q, m), s, a, c)
<1>1. /\ Len(q) \in Nat /\ Len(Append(q, m)) = Len(q) + 1
      /\ \A i \in 1..Len(q) : Append(q, m)[i] = q[i]
      /\ Append(q, m)[Len(q) + 1] = m
  OBVIOUS
<1> QED
  BY <1>1, NumberedLonger

LEMMA TailNumbered ==
  ASSUME NEW q \in Seq(Message), q # <<>>, NEW s, NEW a \in 0..(IdMod - 1),
         NEW c, Numbered(q, s, a, c)
  PROVE  \E b \in 0..(IdMod - 1) :
           OneNumber(Head(q), s, a, b) /\ Numbered(Tail(q), s, b, c)
<1>1. /\ Len(q) \in Nat /\ Len(q) > 0 /\ Len(Tail(q)) = Len(q) - 1
      /\ \A i \in 1..Len(Tail(q)) : Tail(q)[i] = q[i + 1]
      /\ Head(q) = q[1] /\ q[1] \in Message
  OBVIOUS
<1> DEFINE b == IF q[1].src = s /\ q[1].keep THEN (q[1].n + 1) % IdMod ELSE a
<1>2. OneNumber(q[1], s, a, b) /\ Numbered(Tail(q), s, b, c)
  BY <1>1, NumberedShorter
<1>3. b \in 0..(IdMod - 1)
  BY <1>1, <1>2, OneNumberType
<1> QED
  BY <1>1, <1>2, <1>3

\* Steps that leave the messages where they are.
LEMMA QuietWay ==
  ASSUME EachOnceInOrder,
         UNCHANGED <<outputs, collInput, recvInput, expect, produced>>,
         \A o \in 1..NumOutputs : Held(o)' = Held(o)
  PROVE  EachOnceInOrder'
<1>1. \A o \in 1..NumOutputs, s \in Source, a, b \in 0..(IdMod - 1) :
         OnTheWay(o, s, a, b) => OnTheWay(o, s, a, b)'
  BY DEF OnTheWay, Sent, Queued
<1>2. \A o \in 1..NumOutputs, s \in Source :
         \E a, b \in 0..(IdMod - 1) : OnTheWay(o, s, a, b)'
  BY <1>1, EachOnceDef
<1> QED
  BY <1>2 DEF EachOnceInOrder, OnTheWay

\* The router takes the next message of an input into its hands.
LEMMA TakeWay ==
  ASSUME EachOnceInOrder, NEW src \in {"coll", "recv"}, NEW m \in Message,
         Queued(src) \in Seq(Message), Queued(src) # <<>>,
         m = Head(Queued(src)), m.src = src,
         Queued(src)' = Tail(Queued(src)),
         \A s \in Source \ {src} : Queued(s)' = Queued(s),
         \A o \in 1..NumOutputs : Held(o) = <<>> /\ Held(o)' = <<m>>,
         UNCHANGED <<outputs, expect, produced>>
  PROVE  EachOnceInOrder'
<1>1. ASSUME NEW o \in 1..NumOutputs, NEW s \in Source,
             NEW a \in 0..(IdMod - 1), NEW b \in 0..(IdMod - 1),
             OnTheWay(o, s, a, b)
      PROVE  \E c \in 0..(IdMod - 1) : OnTheWay(o, s, a, c)'
  <2>1. Numbered(Sent(o)', s, expect'[o][s], a)
    BY <1>1 DEF OnTheWay, Sent
  <2>2. b = a /\ Numbered(Queued(s), s, a, produced[s])
    BY <1>1, EmptyNumbered DEF OnTheWay
  <2>3. CASE s = src
    <3>1. PICK c \in 0..(IdMod - 1) :
                 /\ OneNumber(m, s, a, c)
                 /\ Numbered(Tail(Queued(src)), s, c, produced[s])
      BY <2>2, <2>3, TailNumbered
    <3>2. Numbered(Held(o)', s, a, c)
      BY <3>1, NumberedOne
    <3>3. Numbered(Queued(s)', s, c, produced'[s])
      BY <2>3, <3>1
    <3> QED
      BY <2>1, <3>2, <3>3 DEF OnTheWay
  <2>4. CASE s # src
    <3>1. OneNumber(m, s, a, a)
      BY <2>4 DEF OneNumber
    <3>2. Numbered(Held(o)', s, a, a)
      BY <3>1, NumberedOne
    <3>3. Numbered(Queued(s)', s, a, produced'[s])
      BY <2>2, <2>4
    <3> QED
      BY <2>1, <3>2, <3>3 DEF OnTheWay
  <2> QED
    BY <2>3, <2>4
<1>2. \A o \in 1..NumOutputs, s \in Source :
         \E a, b \in 0..(IdMod - 1) : OnTheWay(o, s, a, b)'
  BY <1>1, EachOnceDef
<1> QED
  BY <1>2 DEF EachOnceInOrder, OnTheWay

\* A source numbers its next message, or lets the processor drop one.
LEMMA CountedNumber ==
  ASSUME produced \in [Source -> 0..(IdMod - 1)], NEW src \in Source,
         NEW keep \in BOOLEAN, Count(src, keep)
  PROVE  /\ NewMessage(src, keep) \in Message
         /\ NewMessage(src, keep).src = src
         /\ produced' \in [Source -> 0..(IdMod - 1)]
         /\ \A s \in Source :
              OneNumber(NewMessage(src, keep), s, produced[s], produced'[s])
<1> DEFINE m == NewMessage(src, keep)
           next == (produced[src] + 1) % IdMod
<1>0. m = [src |-> src, n |-> m.n, keep |-> keep]
  BY DEF NewMessage
<1>1. m.src = src /\ (m.keep <=> keep) /\ (keep => m.n = produced[src])
  BY DEF NewMessage
<1>2. m.n \in 0..(IdMod - 1)
  BY Numbers DEF NewMessage
<1>3. next \in 0..(IdMod - 1)
  BY NextNumber
<1>4. produced' = IF keep THEN [produced EXCEPT ![src] = next] ELSE produced
  BY DEF Count
<1> HIDE DEF m
<1>5. keep => next = (m.n + 1) % IdMod
  BY <1>1
<1> HIDE DEF next
<1>6. m \in Message
  <2>1. \A x \in 0..(IdMod - 1) :
           [src |-> src, n |-> x, keep |-> keep] \in TrafficMessage
    BY Zenon DEF TrafficMessage
  <2>2. m \in TrafficMessage
    BY <1>0, <1>2, <2>1, Zenon
  <2> QED
    BY <2>2, TrafficAssumption
<1>7. produced' \in [Source -> 0..(IdMod - 1)]
  BY <1>3, <1>4
<1>8. ASSUME NEW s \in Source
      PROVE  OneNumber(m, s, produced[s], produced'[s])
  <2>1. CASE s = src /\ keep
    <3>1. produced'[s] = next
      BY <1>4, <2>1
    <3>2. m.src = s /\ m.keep /\ m.n = produced[s] /\ next = (m.n + 1) % IdMod
      BY <1>1, <1>5, <2>1, Zenon
    <3> QED
      BY <3>1, <3>2 DEF OneNumber
  <2>2. CASE ~(s = src /\ keep)
    <3>1. produced'[s] = produced[s]
      BY <1>4, <2>2
    <3>2. ~(m.src = s /\ m.keep)
      BY <1>1, <2>2, Zenon
    <3> QED
      BY <3>1, <3>2 DEF OneNumber
  <2> QED
    BY <2>1, <2>2
<1> QED
  BY <1>1, <1>6, <1>7, <1>8 DEF m

\* A producer puts its next message into an input.
LEMMA ProduceWay ==
  ASSUME EachOnceInOrder, NEW src \in {"coll", "recv"}, NEW m \in Message,
         Queued(src) \in Seq(Message), m.src = src,
         \A s \in Source : OneNumber(m, s, produced[s], produced'[s]),
         Queued(src)' = Append(Queued(src), m),
         \A s \in Source \ {src} : Queued(s)' = Queued(s),
         \A o \in 1..NumOutputs : Held(o)' = Held(o),
         UNCHANGED <<outputs, expect>>
  PROVE  EachOnceInOrder'
<1>1. ASSUME NEW o \in 1..NumOutputs, NEW s \in Source,
             NEW a \in 0..(IdMod - 1), NEW b \in 0..(IdMod - 1),
             OnTheWay(o, s, a, b)
      PROVE  OnTheWay(o, s, a, b)'
  <2>1. /\ Numbered(Sent(o)', s, expect'[o][s], a)
        /\ Numbered(Held(o)', s, a, b)
    BY <1>1 DEF OnTheWay, Sent
  <2>2. Numbered(Queued(s), s, b, produced[s])
    BY <1>1 DEF OnTheWay
  <2>3. OneNumber(m, s, produced[s], produced'[s])
    OBVIOUS
  <2>4. CASE s = src
    BY <2>1, <2>2, <2>3, <2>4, AppendNumbered DEF OnTheWay
  <2>5. CASE s # src
    <3>1. produced'[s] = produced[s] /\ Queued(s)' = Queued(s)
      BY <2>3, <2>5 DEF OneNumber
    <3> QED
      BY <2>1, <2>2, <3>1 DEF OnTheWay
  <2> QED
    BY <2>4, <2>5
<1>2. \A o \in 1..NumOutputs, s \in Source :
         \E a, b \in 0..(IdMod - 1) : OnTheWay(o, s, a, b)'
  BY <1>1, EachOnceDef
<1> QED
  BY <1>2 DEF EachOnceInOrder, OnTheWay

\* The cache hands an aggregate over: it has no queue.
LEMMA CacheWay ==
  ASSUME EachOnceInOrder, NEW m \in Message, m.src = "cache",
         \A s \in Source : OneNumber(m, s, produced[s], produced'[s]),
         produced' \in [Source -> 0..(IdMod - 1)],
         \A o \in 1..NumOutputs : Held(o) = <<>> /\ Held(o)' = <<m>>,
         UNCHANGED <<outputs, expect, collInput, recvInput>>
  PROVE  EachOnceInOrder'
<1>1. ASSUME NEW o \in 1..NumOutputs, NEW s \in Source,
             NEW a \in 0..(IdMod - 1), NEW b \in 0..(IdMod - 1),
             OnTheWay(o, s, a, b)
      PROVE  \E c \in 0..(IdMod - 1) : OnTheWay(o, s, a, c)'
  <2>1. Numbered(Sent(o)', s, expect'[o][s], a)
    BY <1>1 DEF OnTheWay, Sent
  <2>2. b = a /\ Numbered(Queued(s), s, a, produced[s])
    BY <1>1, EmptyNumbered DEF OnTheWay
  <2>3. OneNumber(m, s, produced[s], produced'[s])
    OBVIOUS
  <2>4. CASE s = "cache"
    <3>1. Queued(s) = <<>> /\ Queued(s)' = <<>>
      BY <2>4 DEF Queued
    <3>2. produced[s] = a
      BY <2>2, <3>1, EmptyNumbered
    <3>3. Numbered(Held(o)', s, a, produced'[s])
      BY <2>3, <3>2, NumberedOne
    <3>4. Numbered(Queued(s)', s, produced'[s], produced'[s])
      BY <3>1, EmptyNumbered
    <3> QED
      BY <2>1, <3>3, <3>4 DEF OnTheWay
  <2>5. CASE s # "cache"
    <3>1. OneNumber(m, s, a, a) /\ produced'[s] = produced[s]
      BY <2>3, <2>5 DEF OneNumber
    <3>2. Numbered(Held(o)', s, a, a)
      BY <3>1, NumberedOne
    <3>3. Numbered(Queued(s)', s, a, produced'[s])
      BY <2>2, <3>1 DEF Queued
    <3> QED
      BY <2>1, <3>2, <3>3 DEF OnTheWay
  <2> QED
    BY <2>4, <2>5
<1>2. \A o \in 1..NumOutputs, s \in Source :
         \E a, b \in 0..(IdMod - 1) : OnTheWay(o, s, a, b)'
  BY <1>1, EachOnceDef
<1> QED
  BY <1>2 DEF EachOnceInOrder, OnTheWay

\* The message in hand.
LEMMA InHand ==
  ASSUME TrafficOK, rpc \in {"forward", "add", "batch"}
  PROVE  cur[1] \in Stamped /\ cur[1].msg \in Message /\ cur[1].stamp \in Nat
<1>1. cur \in Seq(Stamped) /\ Len(cur) = 1
  BY DEF TrafficOK, TrafficTypeOK, RouterTypeOK
<1>2. 1 \in 1..Len(cur)
  BY <1>1
<1>3. cur[1] \in Stamped
  BY <1>1, <1>2
<1> QED
  BY <1>3 DEF Stamped

\* What an output holds, as the sequence of its messages.
LEMMA SentType ==
  ASSUME TrafficOK, NEW o \in 1..NumOutputs
  PROVE  /\ outputs[o] \in Seq(Stamped)
         /\ Len(Sent(o)) = Len(outputs[o]) /\ Len(outputs[o]) \in Nat
         /\ \A i \in 1..Len(outputs[o]) :
              /\ Sent(o)[i] = outputs[o][i].msg
              /\ outputs[o][i] \in Stamped
              /\ outputs[o][i].msg \in Message
<1>1. outputs[o] \in Seq(Stamped)
  BY DEF TrafficOK, TrafficTypeOK, RouterTypeOK
<1>2. Len(outputs[o]) \in Nat
        /\ \A i \in 1..Len(outputs[o]) : outputs[o][i] \in Stamped
  BY <1>1
<1>3. \A e \in Stamped : e.msg \in Message
  BY DEF Stamped
<1>4. Len(Sent(o)) = Len(outputs[o])
        /\ \A i \in 1..Len(outputs[o]) : Sent(o)[i] = outputs[o][i].msg
  BY <1>2 DEF Sent
<1> QED
  BY <1>1, <1>2, <1>3, <1>4

\* The message in hand goes to the next output.
LEMMA SendWay ==
  ASSUME TrafficOK, EachOnceInOrder, Send, UNCHANGED <<expect, produced>>
  PROVE  EachOnceInOrder'
<1> DEFINE m == cur[1].msg
<1>1. /\ rpc = "forward" /\ rpc' = "forward" /\ out' = out + 1
      /\ outputs' = [outputs EXCEPT ![out] = Append(outputs[out], cur[1])]
      /\ UNCHANGED <<cur, collInput, recvInput>>
      /\ out <= NumOutputs
  BY DEF Send
<1>2. out \in 1..NumOutputs /\ outputs \in [1..NumOutputs -> Seq(Stamped)]
  BY <1>1, RouterAssumption DEF TrafficOK, TrafficTypeOK, RouterTypeOK
<1>3. ASSUME NEW o \in 1..NumOutputs, NEW s \in Source,
             NEW a \in 0..(IdMod - 1), NEW b \in 0..(IdMod - 1),
             OnTheWay(o, s, a, b)
      PROVE  \E c \in 0..(IdMod - 1) : OnTheWay(o, s, c, b)'
  <2>1. Numbered(Queued(s)', s, b, produced'[s])
    BY <1>1, <1>3 DEF OnTheWay, Queued
  <2>2. CASE o = out
    <3>1. Held(o) = <<m>> /\ Held(o)' = <<>>
      BY <1>1, <1>2, <2>2 DEF Held
    <3>2. OneNumber(m, s, a, b)
      BY <1>3, <3>1, NumberedOne DEF OnTheWay
    <3>3. /\ outputs'[o] = Append(outputs[o], cur[1])
          /\ outputs[o] \in Seq(Stamped) /\ cur[1] \in Stamped
      BY <1>1, <1>2, <2>2, InHand
    <3>4. /\ Len(outputs'[o]) = Len(outputs[o]) + 1
          /\ \A i \in 1..Len(outputs[o]) : outputs'[o][i] = outputs[o][i]
          /\ outputs'[o][Len(outputs[o]) + 1] = cur[1]
      BY <3>3
    <3>5. /\ Len(Sent(o)') = Len(outputs'[o])
          /\ \A i \in 1..Len(outputs'[o]) : Sent(o)'[i] = outputs'[o][i].msg
      <4>1. Len(outputs'[o]) \in Nat
        BY <3>3
      <4> QED
        BY <4>1 DEF Sent
    <3>6. /\ Len(Sent(o)) \in Nat /\ Len(Sent(o)') = Len(Sent(o)) + 1
          /\ \A i \in 1..Len(Sent(o)) : Sent(o)'[i] = Sent(o)[i]
          /\ Sent(o)'[Len(Sent(o)) + 1] = m
      <4>1. /\ Len(Sent(o)) = Len(outputs[o]) /\ Len(outputs[o]) \in Nat
            /\ \A i \in 1..Len(outputs[o]) : Sent(o)[i] = outputs[o][i].msg
        BY SentType
      <4>2. Len(Sent(o)) \in Nat /\ Len(Sent(o)') = Len(Sent(o)) + 1
        BY <3>4, <3>5, <4>1
      <4>3. ASSUME NEW i \in 1..Len(Sent(o))
            PROVE  Sent(o)'[i] = Sent(o)[i]
        <5>1. i \in 1..Len(outputs[o]) /\ i \in 1..Len(outputs'[o])
          BY <3>4, <4>1
        <5> QED
          BY <3>4, <3>5, <4>1, <5>1
      <4>4. Sent(o)'[Len(outputs[o]) + 1] = m
        <5>1. Len(outputs[o]) + 1 \in 1..Len(outputs'[o])
          BY <3>4, <4>1
        <5> QED
          BY <3>4, <3>5, <5>1
      <4> QED
        BY <4>1, <4>2, <4>3, <4>4
    <3>7. Numbered(Sent(o)', s, expect'[o][s], b)
      BY <1>3, <3>2, <3>6, NumberedLonger DEF OnTheWay
    <3>8. Numbered(Held(o)', s, b, b)
      BY <3>1, EmptyNumbered
    <3> QED
      BY <2>1, <3>7, <3>8 DEF OnTheWay
  <2>3. CASE o # out
    <3>1. outputs'[o] = outputs[o]
      BY <1>1, <1>2, <2>3
    <3>2. Held(o)' = Held(o)
      <4>1. out <= o <=> out + 1 <= o
        BY <1>2, <2>3
      <4> QED
        BY <1>1, <4>1 DEF Held
    <3>3. Sent(o)' = Sent(o)
      BY <3>1 DEF Sent
    <3>4. Numbered(Sent(o)', s, expect'[o][s], a) /\ Numbered(Held(o)', s, a, b)
      BY <1>3, <3>2, <3>3 DEF OnTheWay
    <3> QED
      BY <2>1, <3>4 DEF OnTheWay
  <2> QED
    BY <2>2, <2>3
<1>4. \A o \in 1..NumOutputs, s \in Source :
         \E a, b \in 0..(IdMod - 1) : OnTheWay(o, s, a, b)'
  BY <1>3, EachOnceDef
<1> QED
  BY <1>4 DEF EachOnceInOrder, OnTheWay

\* The message in hand was dropped or is at all outputs.
LEMMA ForwardedWay ==
  ASSUME TrafficOK, EachOnceInOrder, Forwarded, UNCHANGED <<expect, produced>>
  PROVE  EachOnceInOrder'
<1> DEFINE m == cur[1].msg
<1>1. /\ rpc = "forward" /\ rpc' # "forward"
      /\ Drops(m) \/ out > NumOutputs
      /\ UNCHANGED <<outputs, collInput, recvInput>>
  BY DEF Forwarded
<1>2. m \in Message /\ out \in Nat
  BY <1>1, InHand, RouterAssumption DEF TrafficOK, TrafficTypeOK, RouterTypeOK
<1>3. ASSUME NEW o \in 1..NumOutputs, NEW s \in Source,
             NEW a \in 0..(IdMod - 1), NEW b \in 0..(IdMod - 1),
             OnTheWay(o, s, a, b)
      PROVE  OnTheWay(o, s, a, a)'
  <2>1. b = a
    <3>1. CASE Held(o) = <<>>
      BY <1>3, <3>1, EmptyNumbered DEF OnTheWay
    <3>2. CASE Held(o) # <<>>
      <4>1. Held(o) = <<m>> /\ out <= o
        BY <3>2 DEF Held
      <4>2. Drops(m)
        BY <1>1, <1>2, <4>1, RouterAssumption
      <4>3. ~m.keep
        BY <1>2, <4>2, MessageType
      <4>4. OneNumber(m, s, a, b)
        BY <1>3, <4>1, NumberedOne DEF OnTheWay
      <4> QED
        BY <4>3, <4>4 DEF OneNumber
    <3> QED
      BY <3>1, <3>2
  <2>2. Held(o)' = <<>>
    BY <1>1 DEF Held
  <2>3. Numbered(Held(o)', s, a, a)
    BY <2>2, EmptyNumbered
  <2>4. /\ Numbered(Sent(o)', s, expect'[o][s], a)
        /\ Numbered(Queued(s)', s, a, produced'[s])
    BY <1>1, <1>3, <2>1 DEF OnTheWay, Sent, Queued
  <2> QED
    BY <2>3, <2>4 DEF OnTheWay
<1>4. \A o \in 1..NumOutputs, s \in Source :
         \E a, b \in 0..(IdMod - 1) : OnTheWay(o, s, a, b)'
  BY <1>3, EachOnceDef
<1> QED
  BY <1>4 DEF EachOnceInOrder, OnTheWay

\* A sink takes the next message of its output.
LEMMA SinkWay ==
  ASSUME TrafficOK, SourcesOK, EachOnceInOrder, NEW t \in 1..NumOutputs,
         SinkTake(t)
  PROVE  EachOnceInOrder'
<1> DEFINE m == Head(outputs[t]).msg
           v == (m.n + 1) % IdMod
<1>1. /\ outputs[t] # <<>>
      /\ expect' = [expect EXCEPT ![t][m.src] = v]
      /\ outputs' = [outputs EXCEPT ![t] = Tail(outputs[t])]
      /\ UNCHANGED <<rpc, out, cur, collInput, recvInput, produced>>
  BY DEF SinkTake
<1>2. /\ outputs \in [1..NumOutputs -> Seq(Stamped)]
      /\ expect \in [1..NumOutputs -> [Source -> 0..(IdMod - 1)]]
  BY DEF TrafficOK, TrafficTypeOK, RouterTypeOK
<1>3. /\ outputs[t] \in Seq(Stamped)
      /\ 1 \in 1..Len(outputs[t]) /\ Head(outputs[t]) = outputs[t][1]
      /\ Len(Tail(outputs[t])) = Len(outputs[t]) - 1
      /\ \A i \in 1..(Len(outputs[t]) - 1) :
           Tail(outputs[t])[i] = outputs[t][i + 1]
  BY <1>1, <1>2
<1>4. m \in Message /\ m.src \in Source /\ m.keep
  BY <1>3, SentType, MessageType DEF SourcesOK
<1>5. ASSUME NEW o \in 1..NumOutputs, NEW s \in Source,
             NEW a \in 0..(IdMod - 1), NEW b \in 0..(IdMod - 1),
             OnTheWay(o, s, a, b)
      PROVE  OnTheWay(o, s, a, b)'
  <2>1. Numbered(Held(o)', s, a, b) /\ Numbered(Queued(s)', s, b, produced'[s])
    BY <1>1, <1>5 DEF OnTheWay, Held, Queued
  <2>2. CASE o = t
    <3>1. outputs'[o] = Tail(outputs[o])
      BY <1>1, <1>2, <2>2
    <3>2. /\ Len(Sent(o)') = Len(outputs'[o])
          /\ \A i \in 1..Len(outputs'[o]) : Sent(o)'[i] = outputs'[o][i].msg
      <4>1. Len(outputs'[o]) \in Nat
        BY <1>1, <1>3, <2>2, <3>1
      <4> QED
        BY <4>1 DEF Sent
    <3>3. /\ Len(Sent(o)) \in Nat /\ Len(Sent(o)) > 0 /\ Sent(o)[1] = m
          /\ Len(Sent(o)') = Len(Sent(o)) - 1
          /\ \A i \in 1..Len(Sent(o)') : Sent(o)'[i] = Sent(o)[i + 1]
      <4>1. /\ Len(Sent(o)) = Len(outputs[o]) /\ Len(outputs[o]) \in Nat
            /\ \A i \in 1..Len(outputs[o]) : Sent(o)[i] = outputs[o][i].msg
        BY SentType
      <4>2. Len(Sent(o)) \in Nat /\ Len(Sent(o)) > 0 /\ Sent(o)[1] = m
              /\ Len(Sent(o)') = Len(Sent(o)) - 1
        BY <1>3, <2>2, <3>1, <3>2, <4>1
      <4>3. ASSUME NEW i \in 1..Len(Sent(o)')
            PROVE  Sent(o)'[i] = Sent(o)[i + 1]
        <5>1. i \in 1..(Len(outputs[o]) - 1) /\ i + 1 \in 1..Len(outputs[o])
          BY <4>1, <4>2
        <5>2. Sent(o)'[i] = Tail(outputs[o])[i].msg
          BY <3>1, <3>2
        <5>3. Tail(outputs[o])[i] = outputs[o][i + 1]
          BY <1>3, <2>2, <5>1
        <5> QED
          BY <4>1, <5>1, <5>2, <5>3
      <4> QED
        BY <4>2, <4>3
    <3>4. Numbered(Sent(o), s, expect[o][s], a)
      BY <1>5 DEF OnTheWay
    <3>5. Numbered(Sent(o)', s, IF m.src = s THEN v ELSE expect[o][s], a)
      BY <1>4, <3>3, <3>4, NumberedShorter
    <3>6. expect'[o][s] = IF m.src = s THEN v ELSE expect[o][s]
      BY <1>1, <1>2, <1>4, <2>2
    <3> QED
      BY <2>1, <3>5, <3>6 DEF OnTheWay
  <2>3. CASE o # t
    <3>1. outputs'[o] = outputs[o] /\ expect'[o] = expect[o]
      BY <1>1, <1>2, <2>3
    <3>2. Numbered(Sent(o)', s, expect'[o][s], a)
      BY <1>5, <3>1 DEF OnTheWay, Sent
    <3> QED
      BY <2>1, <3>2 DEF OnTheWay
  <2> QED
    BY <2>2, <2>3
<1>6. \A o \in 1..NumOutputs, s \in Source :
         \E a, b \in 0..(IdMod - 1) : OnTheWay(o, s, a, b)'
  BY <1>5, EachOnceDef
<1> QED
  BY <1>6 DEF EachOnceInOrder, OnTheWay
-----------------------------------------------------------------------------
(* Type correctness. *)

LEMMA StampType ==
  ASSUME TrafficOK, NEW m \in Message
  PROVE  Stamp(m) \in Seq(Stamped) /\ Len(Stamp(m)) = 1
<1>1. timestamp \in Nat
  BY DEF TrafficOK, TrafficTypeOK, RouterTypeOK
<1>2. [msg |-> m, stamp |-> IF IntervalStamp THEN timestamp ELSE 0] \in Stamped
  BY <1>1 DEF Stamped
<1> QED
  BY <1>2 DEF Stamp

\* The head and the rest of an input.
LEMMA InputType ==
  ASSUME NEW q \in Seq(Message), q # <<>>
  PROVE  /\ Head(q) \in Message /\ Tail(q) \in Seq(Message)
         /\ 1 \in 1..Len(q) /\ Head(q) = q[1]
         /\ \A i \in 1..Len(Tail(q)) :
              i + 1 \in 1..Len(q) /\ Tail(q)[i] = q[i + 1]
  OBVIOUS

\* Taking a message, from an input or from the cache.
LEMMA TakenType ==
  ASSUME TrafficOK,
         cur' \in Seq(Stamped), Len(cur') = 1,
         batch' \in 0..(MaxForward - 1), out' = 1,
         rpc' = "forward", from' \in {"coll", "recv", "cache"},
         collInput' \in Seq(Message), recvInput' \in Seq(Message),
         produced' \in [Source -> 0..(IdMod - 1)],
         UNCHANGED <<timestamp, outputs, rclose, expect>>
  PROVE  TrafficOK'
<1>1. 1 \in 1..(NumOutputs + 1)
  BY RouterAssumption
<1> QED
  BY <1>1 DEF TrafficOK, TrafficTypeOK, RouterTypeOK

LEMMA RouterStepType ==
  ASSUME TrafficOK, RouterStep, UNCHANGED <<produced, expect>>
  PROVE  TrafficOK'
<1> USE DEF TrafficOK, TrafficTypeOK, RouterTypeOK
<1>0. 0 \in 0..(MaxForward - 1)
  BY RouterAssumption
<1>1. CASE TakeColl
  <2>1. /\ Head(collInput) \in Message /\ collInput' \in Seq(Message)
        /\ cur' = Stamp(Head(collInput))
        /\ UNCHANGED <<timestamp, recvInput, outputs, rclose>>
        /\ rpc' = "forward" /\ from' = "coll" /\ out' = 1 /\ batch' = 0
    BY <1>1, InputType DEF TakeColl
  <2> QED
    BY <1>0, <2>1, StampType, TakenType
<1>2. CASE TakeRecv
  <2>1. /\ Head(recvInput) \in Message /\ recvInput' \in Seq(Message)
        /\ cur' = Stamp(Head(recvInput))
        /\ UNCHANGED <<timestamp, collInput, outputs, rclose>>
        /\ rpc' = "forward" /\ from' = "recv" /\ out' = 1 /\ batch' = 0
    BY <1>2, InputType DEF TakeRecv
  <2> QED
    BY <1>0, <2>1, StampType, TakenType
<1>3. CASE Send
  <2>1. /\ rpc = "forward" /\ out <= NumOutputs /\ out' = out + 1
        /\ Len(outputs[out]) < OutCap
        /\ outputs' = [outputs EXCEPT ![out] = Append(outputs[out], cur[1])]
        /\ UNCHANGED <<rpc, from, cur, batch, timestamp, collInput, recvInput,
                       rclose>>
    BY <1>3 DEF Send
  <2>2. out \in 1..NumOutputs /\ out' \in 1..(NumOutputs + 1)
    BY <2>1, RouterAssumption
  <2>3. cur[1] \in Stamped /\ outputs[out] \in Seq(Stamped)
    BY <2>1, <2>2, InHand
  <2>4. /\ Append(outputs[out], cur[1]) \in Seq(Stamped)
        /\ Len(Append(outputs[out], cur[1])) = Len(outputs[out]) + 1
        /\ Len(outputs[out]) \in Nat
    BY <2>3
  <2>5. /\ outputs' \in [1..NumOutputs -> Seq(Stamped)]
        /\ \A o \in 1..NumOutputs : Len(outputs'[o]) <= OutCap
    BY <2>1, <2>2, <2>4, RouterAssumption
  <2> QED
    BY <2>1, <2>2, <2>5
<1>4. CASE Forwarded \/ AddToCache
  BY <1>4 DEF Forwarded, AddToCache
<1>5. CASE BatchColl
  <2>1. /\ collInput # <<>> /\ batch < MaxForward - 1 /\ batch' = batch + 1
        /\ collInput' = Tail(collInput)
        /\ cur' = Stamp(Head(collInput))
        /\ UNCHANGED <<timestamp, recvInput, outputs, rclose, from>>
        /\ rpc' = "forward" /\ out' = 1
    BY <1>5 DEF BatchColl, MoreInBatch
  <2>2. Head(collInput) \in Message /\ collInput' \in Seq(Message)
    BY <2>1, InputType
  <2>3. batch' \in 0..(MaxForward - 1)
    BY <2>1, RouterAssumption
  <2> QED
    BY <2>1, <2>2, <2>3, StampType, TakenType
<1>6. CASE BatchRecv
  <2>1. /\ recvInput # <<>> /\ batch < MaxForward - 1 /\ batch' = batch + 1
        /\ recvInput' = Tail(recvInput)
        /\ cur' = Stamp(Head(recvInput))
        /\ UNCHANGED <<timestamp, collInput, outputs, rclose, from>>
        /\ rpc' = "forward" /\ out' = 1
    BY <1>6 DEF BatchRecv, MoreInBatch
  <2>2. Head(recvInput) \in Message /\ recvInput' \in Seq(Message)
    BY <2>1, InputType
  <2>3. batch' \in 0..(MaxForward - 1)
    BY <2>1, RouterAssumption
  <2> QED
    BY <2>1, <2>2, <2>3, StampType, TakenType
<1>7. CASE EndBatch
  BY <1>7 DEF EndBatch
<1>8. CASE AcceptRouterDone \/ RouterExit
  BY <1>8 DEF AcceptRouterDone, RouterExit
<1> QED
  BY <1>1, <1>2, <1>3, <1>4, <1>5, <1>6, <1>7, <1>8 DEF RouterStep

LEMMA ProducerType ==
  ASSUME TrafficOK, NEW keep \in Keep,
         ProduceColl(keep) \/ ProduceRecv(keep) \/ ProduceCache(keep)
  PROVE  TrafficOK'
<1> USE DEF TrafficOK, TrafficTypeOK, RouterTypeOK
<1>1. keep \in BOOLEAN
  BY TrafficAssumption
<1>2. produced \in [Source -> 0..(IdMod - 1)]
  OBVIOUS
<1>3. "coll" \in Source /\ "recv" \in Source /\ "cache" \in Source
  BY DEF Source
<1>4. CASE ProduceColl(keep)
  <2>1. /\ NewMessage("coll", keep) \in Message
        /\ produced' \in [Source -> 0..(IdMod - 1)]
    BY <1>1, <1>2, <1>3, <1>4, CountedNumber DEF ProduceColl
  <2>2. collInput' \in Seq(Message)
    BY <1>4, <2>1 DEF ProduceColl
  <2> QED
    BY <1>4, <2>1, <2>2 DEF ProduceColl
<1>5. CASE ProduceRecv(keep)
  <2>1. /\ NewMessage("recv", keep) \in Message
        /\ produced' \in [Source -> 0..(IdMod - 1)]
    BY <1>1, <1>2, <1>3, <1>5, CountedNumber DEF ProduceRecv
  <2>2. recvInput' \in Seq(Message)
    BY <1>5, <2>1 DEF ProduceRecv
  <2> QED
    BY <1>5, <2>1, <2>2 DEF ProduceRecv
<1>6. CASE ProduceCache(keep)
  <2> DEFINE m == NewMessage("cache", keep)
  <2>1. m \in Message /\ produced' \in [Source -> 0..(IdMod - 1)]
    BY <1>1, <1>2, <1>3, <1>6, CountedNumber DEF ProduceCache
  <2> HIDE DEF m
  <2>2. /\ cur' = <<[msg |-> m, stamp |-> 0]>>
        /\ from' = "cache" /\ rpc' = "forward" /\ out' = 1 /\ batch' = 0
        /\ UNCHANGED <<timestamp, collInput, recvInput, outputs, rclose, expect>>
    BY <1>6 DEF ProduceCache, TakeCache, m
  <2>3. [msg |-> m, stamp |-> 0] \in Stamped
    BY <2>1 DEF Stamped
  <2>4. cur' \in Seq(Stamped) /\ Len(cur') = 1
    BY <2>2, <2>3
  <2>5. 0 \in 0..(MaxForward - 1)
    BY RouterAssumption
  <2> QED
    BY <2>1, <2>2, <2>4, <2>5, TakenType
<1> QED
  BY <1>4, <1>5, <1>6

LEMMA SinkType ==
  ASSUME TrafficOK, NEW t \in 1..NumOutputs, SinkTake(t)
  PROVE  TrafficOK'
<1> USE DEF TrafficOK, TrafficTypeOK, RouterTypeOK
<1> DEFINE m == Head(outputs[t]).msg
           v == (m.n + 1) % IdMod
<1>1. /\ outputs[t] # <<>>
      /\ expect' = [expect EXCEPT ![t][m.src] = v]
      /\ outputs' = [outputs EXCEPT ![t] = Tail(outputs[t])]
      /\ UNCHANGED <<rpc, from, cur, batch, out, timestamp, collInput,
                     recvInput, rclose, produced>>
  BY DEF SinkTake
<1>2. outputs[t] \in Seq(Stamped) /\ Len(outputs[t]) <= OutCap
  OBVIOUS
<1>3. /\ Tail(outputs[t]) \in Seq(Stamped) /\ Head(outputs[t]) \in Stamped
      /\ Len(Tail(outputs[t])) = Len(outputs[t]) - 1 /\ Len(outputs[t]) \in Nat
  BY <1>1, <1>2
<1>4. m \in Message
  BY <1>3 DEF Stamped
<1>5. m.src \in Source /\ v \in 0..(IdMod - 1)
  BY <1>4, MessageType, NextNumber
<1> HIDE DEF m, v
<1>6. expect' \in [1..NumOutputs -> [Source -> 0..(IdMod - 1)]]
  BY <1>1, <1>5
<1>7. outputs' \in [1..NumOutputs -> Seq(Stamped)]
  BY <1>1, <1>3
<1>8. \A o \in 1..NumOutputs : Len(outputs'[o]) <= OutCap
  BY <1>1, <1>2, <1>3, RouterAssumption
<1> QED
  BY <1>1, <1>6, <1>7, <1>8

LEMMA TrafficOKInv == TrafficSpec => []TrafficOK
<1>1. TrafficInit => TrafficOK
  <2> SUFFICES ASSUME TrafficInit
               PROVE  TrafficOK
    OBVIOUS
  <2>1. /\ 0 \in 0..(MaxForward - 1) /\ 1 \in 1..(NumOutputs + 1)
        /\ OutCap \in Nat
    BY RouterAssumption
  <2>2. RouterTypeOK
    BY <2>1 DEF TrafficInit, RouterInit, RouterTypeOK
  <2>3. 0 \in 0..(IdMod - 1)
    BY Numbers
  <2>4. /\ produced \in [Source -> 0..(IdMod - 1)]
        /\ expect \in [1..NumOutputs -> [Source -> 0..(IdMod - 1)]]
    BY <2>3 DEF TrafficInit
  <2>5. rpc = "idle"
    BY DEF TrafficInit, RouterInit
  <2> QED
    BY <2>2, <2>4, <2>5 DEF TrafficOK, TrafficTypeOK
<1>2. TrafficOK /\ [TrafficNext]_vars => TrafficOK'
  <2> SUFFICES ASSUME TrafficOK, [TrafficNext]_vars
               PROVE  TrafficOK'
    OBVIOUS
  <2>1. CASE \E keep \in Keep :
               ProduceColl(keep) \/ ProduceRecv(keep) \/ ProduceCache(keep)
    BY <2>1, ProducerType
  <2>2. CASE \E o \in 1..NumOutputs : SinkTake(o)
    BY <2>2, SinkType
  <2>3. CASE RouterStep /\ UNCHANGED <<produced, expect>>
    BY <2>3, RouterStepType
  <2>4. CASE /\ \/ RouterStart \/ CallRouterClose \/ RouterCloseReturns
             /\ UNCHANGED <<produced, expect>>
    BY <2>4 DEF RouterStart, CallRouterClose, RouterCloseReturns, TrafficOK,
                TrafficTypeOK, RouterTypeOK
  <2>5. CASE /\ \E t \in (timestamp + 1)..MaxTick : RouterTick(t)
             /\ UNCHANGED <<produced, expect>>
    <3>1. PICK t \in (timestamp + 1)..MaxTick : RouterTick(t)
      BY <2>5
    <3>2. timestamp \in Nat
      BY DEF TrafficOK, TrafficTypeOK, RouterTypeOK
    <3>3. t \in Nat
      BY <3>2, TrafficAssumption
    <3>4. timestamp' \in Nat
      BY <3>1, <3>3 DEF RouterTick
    <3> QED
      BY <2>5, <3>1, <3>4 DEF RouterTick, TrafficOK, TrafficTypeOK, RouterTypeOK
  <2>6. CASE UNCHANGED vars
    BY <2>6 DEF vars, rvars, TrafficOK, TrafficTypeOK, RouterTypeOK
  <2> QED
    BY <2>1, <2>2, <2>3, <2>4, <2>5, <2>6 DEF TrafficNext
<1> QED
  BY <1>1, <1>2, PTL DEF TrafficSpec

\* Every variable of the router, its producers and its sinks keeps its type.
THEOREM TrafficTypeCorrect == TrafficSpec => []TrafficTypeOK
<1>1. TrafficOK => TrafficTypeOK
  BY DEF TrafficOK
<1> QED
  BY <1>1, TrafficOKInv, PTL
-----------------------------------------------------------------------------
(* Each message once and in order. *)

\* SourcesOK speaks of the inputs and the outputs only.
LEMMA SourcesKept ==
  ASSUME SourcesOK, UNCHANGED <<collInput, recvInput, outputs>>
  PROVE  SourcesOK'
  BY DEF SourcesOK

LEMMA TakeSources ==
  ASSUME TrafficOK, SourcesOK, RouterStep, ~Send
  PROVE  SourcesOK'
<1>1. /\ collInput \in Seq(Message) /\ recvInput \in Seq(Message)
  BY DEF TrafficOK, TrafficTypeOK, RouterTypeOK
<1>2. CASE TakeColl \/ BatchColl
  <2>1. /\ collInput # <<>> /\ collInput' = Tail(collInput)
        /\ UNCHANGED <<recvInput, outputs>>
    BY <1>2 DEF TakeColl, BatchColl, MoreInBatch
  <2>2. \A i \in 1..Len(collInput') : collInput'[i].src = "coll"
    BY <1>1, <2>1, InputType DEF SourcesOK
  <2> QED
    BY <2>1, <2>2 DEF SourcesOK
<1>3. CASE TakeRecv \/ BatchRecv
  <2>1. /\ recvInput # <<>> /\ recvInput' = Tail(recvInput)
        /\ UNCHANGED <<collInput, outputs>>
    BY <1>3 DEF TakeRecv, BatchRecv, MoreInBatch
  <2>2. \A i \in 1..Len(recvInput') : recvInput'[i].src = "recv"
    BY <1>1, <2>1, InputType DEF SourcesOK
  <2> QED
    BY <2>1, <2>2 DEF SourcesOK
<1>4. CASE Forwarded \/ AddToCache \/ EndBatch \/ AcceptRouterDone \/ RouterExit
  <2>1. UNCHANGED <<collInput, recvInput, outputs>>
    BY <1>4 DEF Forwarded, AddToCache, EndBatch, AcceptRouterDone, RouterExit
  <2> QED
    BY <2>1, SourcesKept
<1> QED
  BY <1>2, <1>3, <1>4 DEF RouterStep

\* Only what the processor keeps is sent.
LEMMA SendSources ==
  ASSUME TrafficOK, SourcesOK, Send
  PROVE  SourcesOK'
<1>1. /\ rpc = "forward" /\ ~Drops(cur[1].msg) /\ out <= NumOutputs
      /\ outputs' = [outputs EXCEPT ![out] = Append(outputs[out], cur[1])]
      /\ UNCHANGED <<collInput, recvInput>>
  BY DEF Send
<1>2. cur[1].msg.keep /\ cur[1] \in Stamped
  BY <1>1, InHand, MessageType
<1>3. outputs \in [1..NumOutputs -> Seq(Stamped)]
  BY DEF TrafficOK, TrafficTypeOK, RouterTypeOK
<1>4. ASSUME NEW o \in 1..NumOutputs, NEW i \in 1..Len(outputs'[o])
      PROVE  outputs'[o][i].msg.keep
  <2>1. CASE o = out
    <3>1. outputs'[o] = Append(outputs[o], cur[1]) /\ outputs[o] \in Seq(Stamped)
      BY <1>1, <1>3, <2>1
    <3>2. CASE i \in 1..Len(outputs[o])
      <4>1. outputs'[o][i] = outputs[o][i]
        BY <1>2, <3>1, <3>2
      <4> QED
        BY <3>2, <4>1 DEF SourcesOK
    <3>3. CASE i \notin 1..Len(outputs[o])
      <4>1. outputs'[o][i] = cur[1]
        BY <1>2, <3>1, <3>3
      <4> QED
        BY <1>2, <4>1
    <3> QED
      BY <3>2, <3>3
  <2>2. CASE o # out
    <3>1. outputs'[o] = outputs[o]
      BY <1>1, <1>3, <2>2
    <3> QED
      BY <3>1 DEF SourcesOK
  <2> QED
    BY <2>1, <2>2
<1> QED
  BY <1>1, <1>4 DEF SourcesOK

LEMMA ProduceSources ==
  ASSUME TrafficOK, SourcesOK, NEW keep \in Keep,
         ProduceColl(keep) \/ ProduceRecv(keep) \/ ProduceCache(keep)
  PROVE  SourcesOK'
<1>1. /\ collInput \in Seq(Message) /\ recvInput \in Seq(Message)
      /\ produced \in [Source -> 0..(IdMod - 1)]
  BY DEF TrafficOK, TrafficTypeOK, RouterTypeOK
<1>2. keep \in BOOLEAN /\ "coll" \in Source /\ "recv" \in Source
  BY TrafficAssumption DEF Source
<1>3. CASE ProduceColl(keep)
  <2>1. /\ NewMessage("coll", keep) \in Message
        /\ NewMessage("coll", keep).src = "coll"
    BY <1>1, <1>2, <1>3, CountedNumber DEF ProduceColl
  <2>2. /\ collInput' = Append(collInput, NewMessage("coll", keep))
        /\ UNCHANGED <<recvInput, outputs>>
    BY <1>3 DEF ProduceColl
  <2>3. \A i \in 1..Len(collInput') : collInput'[i].src = "coll"
    BY <1>1, <2>1, <2>2 DEF SourcesOK
  <2> QED
    BY <2>2, <2>3 DEF SourcesOK
<1>4. CASE ProduceRecv(keep)
  <2>1. /\ NewMessage("recv", keep) \in Message
        /\ NewMessage("recv", keep).src = "recv"
    BY <1>1, <1>2, <1>4, CountedNumber DEF ProduceRecv
  <2>2. /\ recvInput' = Append(recvInput, NewMessage("recv", keep))
        /\ UNCHANGED <<collInput, outputs>>
    BY <1>4 DEF ProduceRecv
  <2>3. \A i \in 1..Len(recvInput') : recvInput'[i].src = "recv"
    BY <1>1, <2>1, <2>2 DEF SourcesOK
  <2> QED
    BY <2>2, <2>3 DEF SourcesOK
<1>5. CASE ProduceCache(keep)
  <2>1. UNCHANGED <<collInput, recvInput, outputs>>
    BY <1>5 DEF ProduceCache, TakeCache
  <2> QED
    BY <2>1, SourcesKept
<1> QED
  BY <1>3, <1>4, <1>5

LEMMA SinkSources ==
  ASSUME TrafficOK, SourcesOK, NEW t \in 1..NumOutputs, SinkTake(t)
  PROVE  SourcesOK'
<1>1. /\ outputs[t] # <<>>
      /\ outputs' = [outputs EXCEPT ![t] = Tail(outputs[t])]
      /\ UNCHANGED <<collInput, recvInput>>
  BY DEF SinkTake
<1>2. outputs \in [1..NumOutputs -> Seq(Stamped)]
  BY DEF TrafficOK, TrafficTypeOK, RouterTypeOK
<1>3. ASSUME NEW o \in 1..NumOutputs, NEW i \in 1..Len(outputs'[o])
      PROVE  outputs'[o][i].msg.keep
  <2>1. CASE o = t
    <3>1. outputs'[o] = Tail(outputs[o]) /\ outputs[o] \in Seq(Stamped)
            /\ outputs[o] # <<>>
      BY <1>1, <1>2, <2>1
    <3>2. i + 1 \in 1..Len(outputs[o]) /\ outputs'[o][i] = outputs[o][i + 1]
      BY <3>1
    <3> QED
      BY <3>2 DEF SourcesOK
  <2>2. CASE o # t
    <3>1. outputs'[o] = outputs[o]
      BY <1>1, <1>2, <2>2
    <3> QED
      BY <3>1 DEF SourcesOK
  <2> QED
    BY <2>1, <2>2
<1> QED
  BY <1>1, <1>3 DEF SourcesOK

\* The steps of the goroutine keep the numbering.
LEMMA RouterStepWay ==
  ASSUME TrafficOK, SourcesOK, EachOnceInOrder, RouterStep,
         UNCHANGED <<produced, expect>>
  PROVE  EachOnceInOrder'
<1>1. /\ collInput \in Seq(Message) /\ recvInput \in Seq(Message)
  BY DEF TrafficOK, TrafficTypeOK, RouterTypeOK
<1>2. CASE TakeColl \/ BatchColl
  <2> DEFINE m == Head(collInput)
  <2>1. /\ collInput # <<>> /\ collInput' = Tail(collInput)
        /\ cur' = Stamp(m) /\ rpc # "forward" /\ rpc' = "forward" /\ out' = 1
        /\ UNCHANGED <<recvInput, outputs>>
    BY <1>2 DEF TakeColl, BatchColl, MoreInBatch
  <2>2. m \in Message /\ m.src = "coll"
    BY <1>1, <2>1, InputType DEF SourcesOK
  <2>3. cur'[1].msg = m
    BY <2>1 DEF Stamp
  <2>4. \A o \in 1..NumOutputs : Held(o) = <<>> /\ Held(o)' = <<m>>
    BY <2>1, <2>3 DEF Held
  <2>5. /\ Queued("coll") = collInput /\ Queued("coll")' = collInput'
        /\ \A s \in Source \ {"coll"} : Queued(s)' = Queued(s)
    BY <2>1 DEF Queued, Source
  <2> HIDE DEF m
  <2>6. m = Head(Queued("coll"))
    BY <2>5 DEF m
  <2> QED
    BY <1>1, <2>1, <2>2, <2>4, <2>5, <2>6, TakeWay
<1>3. CASE TakeRecv \/ BatchRecv
  <2> DEFINE m == Head(recvInput)
  <2>1. /\ recvInput # <<>> /\ recvInput' = Tail(recvInput)
        /\ cur' = Stamp(m) /\ rpc # "forward" /\ rpc' = "forward" /\ out' = 1
        /\ UNCHANGED <<collInput, outputs>>
    BY <1>3 DEF TakeRecv, BatchRecv, MoreInBatch
  <2>2. m \in Message /\ m.src = "recv"
    BY <1>1, <2>1, InputType DEF SourcesOK
  <2>3. cur'[1].msg = m
    BY <2>1 DEF Stamp
  <2>4. \A o \in 1..NumOutputs : Held(o) = <<>> /\ Held(o)' = <<m>>
    BY <2>1, <2>3 DEF Held
  <2>5. /\ Queued("recv") = recvInput /\ Queued("recv")' = recvInput'
        /\ \A s \in Source \ {"recv"} : Queued(s)' = Queued(s)
    BY <2>1 DEF Queued, Source
  <2> HIDE DEF m
  <2>6. m = Head(Queued("recv"))
    BY <2>5 DEF m
  <2> QED
    BY <1>1, <2>1, <2>2, <2>4, <2>5, <2>6, TakeWay
<1>4. CASE Send
  BY <1>4, SendWay
<1>5. CASE Forwarded
  BY <1>5, ForwardedWay
<1>6. CASE AddToCache \/ EndBatch \/ AcceptRouterDone \/ RouterExit
  <2>1. /\ UNCHANGED <<outputs, collInput, recvInput>>
        /\ rpc # "forward" /\ rpc' # "forward"
    BY <1>6 DEF AddToCache, EndBatch, AcceptRouterDone, RouterExit
  <2>2. \A o \in 1..NumOutputs : Held(o)' = Held(o)
    BY <2>1 DEF Held
  <2> QED
    BY <2>1, <2>2, QuietWay
<1> QED
  BY <1>2, <1>3, <1>4, <1>5, <1>6 DEF RouterStep

LEMMA ProducerWay ==
  ASSUME TrafficOK, SourcesOK, EachOnceInOrder, NEW keep \in Keep,
         ProduceColl(keep) \/ ProduceRecv(keep) \/ ProduceCache(keep)
  PROVE  EachOnceInOrder'
<1>1. /\ collInput \in Seq(Message) /\ recvInput \in Seq(Message)
      /\ produced \in [Source -> 0..(IdMod - 1)]
  BY DEF TrafficOK, TrafficTypeOK, RouterTypeOK
<1>2. keep \in BOOLEAN
  BY TrafficAssumption
<1>3. "coll" \in Source /\ "recv" \in Source /\ "cache" \in Source
  BY DEF Source
<1>4. CASE ProduceColl(keep)
  <2> DEFINE m == NewMessage("coll", keep)
  <2>1. /\ m \in Message /\ m.src = "coll"
        /\ \A s \in Source : OneNumber(m, s, produced[s], produced'[s])
    BY <1>1, <1>2, <1>3, <1>4, CountedNumber DEF ProduceColl
  <2> HIDE DEF m
  <2>2. /\ collInput' = Append(collInput, m)
        /\ UNCHANGED <<rpc, cur, out, recvInput, outputs, expect>>
    BY <1>4 DEF ProduceColl, m
  <2>3. /\ Queued("coll") = collInput /\ Queued("coll")' = collInput'
        /\ \A s \in Source \ {"coll"} : Queued(s)' = Queued(s)
        /\ \A o \in 1..NumOutputs : Held(o)' = Held(o)
    BY <2>2 DEF Queued, Source, Held
  <2> QED
    BY <1>1, <2>1, <2>2, <2>3, ProduceWay
<1>5. CASE ProduceRecv(keep)
  <2> DEFINE m == NewMessage("recv", keep)
  <2>1. /\ m \in Message /\ m.src = "recv"
        /\ \A s \in Source : OneNumber(m, s, produced[s], produced'[s])
    BY <1>1, <1>2, <1>3, <1>5, CountedNumber DEF ProduceRecv
  <2> HIDE DEF m
  <2>2. /\ recvInput' = Append(recvInput, m)
        /\ UNCHANGED <<rpc, cur, out, collInput, outputs, expect>>
    BY <1>5 DEF ProduceRecv, m
  <2>3. /\ Queued("recv") = recvInput /\ Queued("recv")' = recvInput'
        /\ \A s \in Source \ {"recv"} : Queued(s)' = Queued(s)
        /\ \A o \in 1..NumOutputs : Held(o)' = Held(o)
    BY <2>2 DEF Queued, Source, Held
  <2> QED
    BY <1>1, <2>1, <2>2, <2>3, ProduceWay
<1>6. CASE ProduceCache(keep)
  <2> DEFINE m == NewMessage("cache", keep)
  <2>1. /\ m \in Message /\ m.src = "cache"
        /\ \A s \in Source : OneNumber(m, s, produced[s], produced'[s])
        /\ produced' \in [Source -> 0..(IdMod - 1)]
    BY <1>1, <1>2, <1>3, <1>6, CountedNumber DEF ProduceCache
  <2> HIDE DEF m
  <2>2. /\ rpc # "forward" /\ rpc' = "forward" /\ out' = 1
        /\ cur' = <<[msg |-> m, stamp |-> 0]>>
        /\ UNCHANGED <<collInput, recvInput, outputs, expect>>
    BY <1>6 DEF ProduceCache, TakeCache, m
  <2>3. cur'[1].msg = m
    BY <2>2
  <2>4. \A o \in 1..NumOutputs : Held(o) = <<>> /\ Held(o)' = <<m>>
    BY <2>2, <2>3 DEF Held
  <2> QED
    BY <2>1, <2>2, <2>4, CacheWay
<1> QED
  BY <1>4, <1>5, <1>6

LEMMA WayInv == TrafficSpec => [](SourcesOK /\ EachOnceInOrder)
<1>1. TrafficInit => SourcesOK /\ EachOnceInOrder
  <2> SUFFICES ASSUME TrafficInit
               PROVE  SourcesOK /\ EachOnceInOrder
    OBVIOUS
  <2>1. /\ collInput = <<>> /\ recvInput = <<>> /\ rpc = "idle"
        /\ \A o \in 1..NumOutputs : outputs[o] = <<>>
        /\ \A s \in Source : produced[s] = 0
        /\ \A o \in 1..NumOutputs, s \in Source : expect[o][s] = 0
    BY DEF TrafficInit, RouterInit
  <2>2. SourcesOK
    BY <2>1 DEF SourcesOK
  <2>3. ASSUME NEW o \in 1..NumOutputs, NEW s \in Source
        PROVE  OnTheWay(o, s, 0, 0)
    <3>1. Held(o) = <<>> /\ Queued(s) = <<>>
      BY <2>1 DEF Held, Queued
    <3>2. Of(s, Sent(o)) = {}
      <4>1. Len(Sent(o)) = 0
        BY <2>1 DEF Sent
      <4> QED
        BY <4>1 DEF Of
    <3>3. Numbered(Sent(o), s, 0, 0) /\ Numbered(<<>>, s, 0, 0)
      BY <3>2, NumberedNone, EmptyNumbered
    <3> QED
      BY <2>1, <3>1, <3>3 DEF OnTheWay
  <2>4. \A o \in 1..NumOutputs, s \in Source :
           \E a, b \in 0..(IdMod - 1) : OnTheWay(o, s, a, b)
    BY <2>3, Numbers
  <2> QED
    BY <2>2, <2>4, EachOnceDef
<1>2. TrafficOK /\ (SourcesOK /\ EachOnceInOrder) /\ [TrafficNext]_vars
        => (SourcesOK /\ EachOnceInOrder)'
  <2> SUFFICES ASSUME TrafficOK, SourcesOK, EachOnceInOrder, [TrafficNext]_vars
               PROVE  SourcesOK' /\ EachOnceInOrder'
    OBVIOUS
  <2>1. CASE \E keep \in Keep :
               ProduceColl(keep) \/ ProduceRecv(keep) \/ ProduceCache(keep)
    BY <2>1, ProduceSources, ProducerWay
  <2>2. CASE \E o \in 1..NumOutputs : SinkTake(o)
    BY <2>2, SinkSources, SinkWay
  <2>3. CASE RouterStep /\ UNCHANGED <<produced, expect>>
    BY <2>3, TakeSources, SendSources, RouterStepWay
  <2>4. CASE /\ \/ RouterStart \/ CallRouterClose \/ RouterCloseReturns
                \/ \E t \in (timestamp + 1)..MaxTick : RouterTick(t)
             /\ UNCHANGED <<produced, expect>>
    <3>1. /\ UNCHANGED <<outputs, collInput, recvInput, cur, out>>
          /\ rpc' = rpc \/ (rpc # "forward" /\ rpc' # "forward")
      BY <2>4 DEF RouterStart, CallRouterClose, RouterCloseReturns, RouterTick
    <3>2. \A o \in 1..NumOutputs : Held(o)' = Held(o)
      BY <3>1 DEF Held
    <3> QED
      BY <2>4, <3>1, <3>2, SourcesKept, QuietWay
  <2>5. CASE UNCHANGED vars
    <3>1. /\ UNCHANGED <<outputs, collInput, recvInput, expect, produced>>
          /\ \A o \in 1..NumOutputs : Held(o)' = Held(o)
      BY <2>5 DEF vars, rvars, Held
    <3> QED
      BY <3>1, SourcesKept, QuietWay
  <2> QED
    BY <2>1, <2>2, <2>3, <2>4, <2>5 DEF TrafficNext
<1> QED
  BY <1>1, <1>2, TrafficOKInv, PTL DEF TrafficSpec

\* Every output receives every message the processor keeps, once and in the
\* order of its source, for any number of outputs, any capacities and any
\* length of the batches.
THEOREM EachOnceInOrderHolds == TrafficSpec => []EachOnceInOrder
  BY WayInv, PTL
-----------------------------------------------------------------------------
(* The order of the stamps. *)

\* What SetTime() is called with at this moment.
StampNow == IF IntervalStamp THEN timestamp ELSE 0

\* The stamps in q never go back and none is later than t.  Aggregates from
\* the cache keep their own time.
Rising(q, t) ==
  /\ \A i, j \in 1..Len(q) :
       (i < j /\ q[i].msg.src # "cache" /\ q[j].msg.src # "cache")
         => q[i].stamp <= q[j].stamp
  /\ \A i \in 1..Len(q) : q[i].msg.src # "cache" => q[i].stamp <= t

\* The message in hand has the stamp of this moment: the interval tick waits
\* for the select.
StampsInv ==
  /\ \A o \in 1..NumOutputs : Rising(outputs[o], StampNow)
  /\ (rpc = "forward" /\ cur[1].msg.src # "cache") => cur[1].stamp = StampNow

LEMMA StampNowType ==
  ASSUME TrafficOK
  PROVE  StampNow \in Nat
<1>1. timestamp \in Nat
  BY DEF TrafficOK, TrafficTypeOK, RouterTypeOK
<1> QED
  BY <1>1 DEF StampNow

\* A later bound is a bound.
LEMMA RisingLater ==
  ASSUME NEW q \in Seq(Stamped), NEW t \in Nat, NEW u \in Nat, t <= u,
         Rising(q, t)
  PROVE  Rising(q, u)
<1>1. \A i \in 1..Len(q) : q[i].stamp \in Nat
  <2>1. \A e \in Stamped : e.stamp \in Nat
    BY DEF Stamped
  <2>2. \A i \in 1..Len(q) : q[i] \in Stamped
    OBVIOUS
  <2> QED
    BY <2>1, <2>2
<1>2. \A i \in 1..Len(q) : q[i].msg.src # "cache" => q[i].stamp <= u
  <2> SUFFICES ASSUME NEW i \in 1..Len(q), q[i].msg.src # "cache"
               PROVE  q[i].stamp <= u
    OBVIOUS
  <2>1. q[i].stamp \in Nat /\ q[i].stamp <= t
    BY <1>1 DEF Rising
  <2> QED
    BY <2>1
<1> QED
  BY <1>2 DEF Rising

LEMMA RisingAppend ==
  ASSUME NEW q \in Seq(Stamped), NEW e \in Stamped, NEW t, Rising(q, t),
         e.msg.src # "cache" => e.stamp = t, t \in Nat
  PROVE  Rising(Append(q, e), t)
<1> DEFINE r == Append(q, e)
           n == Len(q) + 1
<1>1. /\ Len(r) = n /\ Len(q) \in Nat /\ n \in Nat
      /\ \A i \in 1..Len(q) : r[i] = q[i]
      /\ r[n] = e
      /\ \A i \in 1..n : i \in 1..Len(q) \/ i = n
      /\ \A i \in 1..Len(q) : i < n
  OBVIOUS
<1> HIDE DEF r, n
<1>2. ASSUME NEW i \in 1..Len(r), r[i].msg.src # "cache"
      PROVE  r[i].stamp <= t
  <2>1. CASE i \in 1..Len(q)
    BY <1>1, <1>2, <2>1 DEF Rising
  <2>2. CASE i = n
    BY <1>1, <1>2, <2>2
  <2> QED
    BY <1>1, <2>1, <2>2
<1>3. ASSUME NEW i \in 1..Len(r), NEW j \in 1..Len(r), i < j,
             r[i].msg.src # "cache", r[j].msg.src # "cache"
      PROVE  r[i].stamp <= r[j].stamp
  <2>1. CASE j = n
    <3>1. r[j].stamp = t
      BY <1>1, <1>3, <2>1
    <3> QED
      BY <1>2, <1>3, <3>1
  <2>2. CASE j \in 1..Len(q)
    <3>1. i \in 1..Len(q)
      BY <1>1, <1>3, <2>2
    <3> QED
      BY <1>1, <1>3, <2>2, <3>1 DEF Rising
  <2> QED
    BY <1>1, <2>1, <2>2
<1>4. Rising(r, t)
  BY <1>2, <1>3 DEF Rising
<1> QED
  BY <1>4 DEF r

LEMMA RisingTail ==
  ASSUME NEW q \in Seq(Stamped), q # <<>>, NEW t, Rising(q, t)
  PROVE  Rising(Tail(q), t)
<1> DEFINE r == Tail(q)
<1>1. \A i \in 1..Len(r) : i + 1 \in 1..Len(q) /\ r[i] = q[i + 1]
  OBVIOUS
<1>2. \A i, j \in 1..Len(r) : i < j => i + 1 < j + 1
  OBVIOUS
<1> HIDE DEF r
<1>3. Rising(r, t)
  BY <1>1, <1>2 DEF Rising
<1> QED
  BY <1>3 DEF r

\* What does not touch outputs, and leaves no message in hand that was not
\* there before.
LEMMA StampsKept ==
  ASSUME TrafficOK, TrafficOK', StampsInv, UNCHANGED outputs,
         StampNow <= StampNow',
         \/ rpc' # "forward"
         \/ UNCHANGED <<rpc, cur, timestamp>>
         \/ cur'[1].msg.src # "cache" => cur'[1].stamp = StampNow'
  PROVE  StampsInv'
<1>1. StampNow \in Nat /\ StampNow' \in Nat
  <2>1. timestamp' \in Nat
    BY DEF TrafficOK, TrafficTypeOK, RouterTypeOK
  <2> QED
    BY <2>1, StampNowType DEF StampNow
<1>2. \A o \in 1..NumOutputs : outputs[o] \in Seq(Stamped)
  BY DEF TrafficOK, TrafficTypeOK, RouterTypeOK
<1>3. \A o \in 1..NumOutputs : Rising(outputs'[o], StampNow')
  BY <1>1, <1>2, RisingLater DEF StampsInv
<1>4. (rpc' = "forward" /\ cur'[1].msg.src # "cache")
        => cur'[1].stamp = StampNow'
  BY DEF StampsInv, StampNow
<1> QED
  BY <1>3, <1>4 DEF StampsInv

LEMMA StampsInvInv == TrafficSpec => []StampsInv
<1>1. TrafficInit => StampsInv
  BY DEF TrafficInit, RouterInit, StampsInv, Rising
<1>2. TrafficOK /\ TrafficOK' /\ StampsInv /\ [TrafficNext]_vars => StampsInv'
  <2> SUFFICES ASSUME TrafficOK, TrafficOK', StampsInv, [TrafficNext]_vars
               PROVE  StampsInv'
    OBVIOUS
  <2>1. StampNow \in Nat
    BY StampNowType
  <2>2. outputs \in [1..NumOutputs -> Seq(Stamped)]
    BY DEF TrafficOK, TrafficTypeOK, RouterTypeOK
  <2>3. CASE \E o \in 1..NumOutputs : SinkTake(o)
    <3>1. PICK t \in 1..NumOutputs : SinkTake(t)
      BY <2>3
    <3>2. /\ outputs' = [outputs EXCEPT ![t] = Tail(outputs[t])]
          /\ outputs[t] # <<>> /\ UNCHANGED <<rpc, cur, timestamp>>
      BY <3>1 DEF SinkTake
    <3>3. ASSUME NEW o \in 1..NumOutputs
          PROVE  Rising(outputs'[o], StampNow)
      <4>1. outputs'[o] = IF o = t THEN Tail(outputs[o]) ELSE outputs[o]
        BY <2>2, <3>2
      <4>2. Rising(outputs[o], StampNow) /\ outputs[o] \in Seq(Stamped)
        BY <2>2 DEF StampsInv
      <4> QED
        BY <3>2, <4>1, <4>2, RisingTail
    <3>4. StampNow' = StampNow
      BY <3>2 DEF StampNow
    <3> QED
      BY <3>2, <3>3, <3>4 DEF StampsInv
  <2>4. CASE Send
    <3>1. /\ outputs' = [outputs EXCEPT ![out] = Append(outputs[out], cur[1])]
          /\ rpc = "forward" /\ UNCHANGED <<rpc, cur, timestamp>>
      BY <2>4 DEF Send
    <3>2. cur[1] \in Stamped
      BY <3>1, InHand
    <3>3. cur[1].msg.src # "cache" => cur[1].stamp = StampNow
      BY <3>1 DEF StampsInv
    <3>4. ASSUME NEW o \in 1..NumOutputs
          PROVE  Rising(outputs'[o], StampNow)
      <4>1. outputs'[o] = IF o = out THEN Append(outputs[o], cur[1])
                          ELSE outputs[o]
        BY <2>2, <3>1
      <4>2. Rising(outputs[o], StampNow) /\ outputs[o] \in Seq(Stamped)
        BY <2>2 DEF StampsInv
      <4>3. Rising(Append(outputs[o], cur[1]), StampNow)
        BY <2>1, <3>2, <3>3, <4>2, RisingAppend
      <4> QED
        BY <4>1, <4>2, <4>3
    <3>5. StampNow' = StampNow
      BY <3>1 DEF StampNow
    <3> QED
      BY <3>1, <3>3, <3>4, <3>5 DEF StampsInv
  <2>5. CASE TakeColl \/ TakeRecv \/ BatchColl \/ BatchRecv
    <3>1. /\ UNCHANGED <<outputs, timestamp>>
          /\ cur' = Stamp(Head(collInput)) \/ cur' = Stamp(Head(recvInput))
      BY <2>5 DEF TakeColl, TakeRecv, BatchColl, BatchRecv
    <3>2. StampNow' = StampNow /\ cur'[1].stamp = StampNow
      BY <3>1 DEF Stamp, StampNow
    <3> QED
      BY <2>1, <3>1, <3>2, StampsKept
  <2>6. CASE \E keep \in Keep :
               ProduceColl(keep) \/ ProduceRecv(keep) \/ ProduceCache(keep)
    <3>1. PICK keep \in Keep :
                 ProduceColl(keep) \/ ProduceRecv(keep) \/ ProduceCache(keep)
      BY <2>6
    <3>2. UNCHANGED <<outputs, timestamp>>
      BY <3>1 DEF ProduceColl, ProduceRecv, ProduceCache, TakeCache
    <3>3. CASE ProduceColl(keep) \/ ProduceRecv(keep)
      <4>1. UNCHANGED <<rpc, cur, timestamp>>
        BY <3>3 DEF ProduceColl, ProduceRecv
      <4> QED
        BY <2>1, <3>2, <4>1, StampsKept DEF StampNow
    <3>4. CASE ProduceCache(keep)
      <4>1. cur'[1].msg = NewMessage("cache", keep)
        BY <3>4 DEF ProduceCache, TakeCache
      <4>2. cur'[1].msg.src = "cache"
        BY <4>1 DEF NewMessage
      <4> QED
        BY <2>1, <3>2, <4>2, StampsKept DEF StampNow
    <3> QED
      BY <3>1, <3>3, <3>4
  <2>7. CASE \/ Forwarded \/ AddToCache \/ EndBatch \/ AcceptRouterDone
             \/ RouterExit \/ RouterStart
    <3>1. /\ UNCHANGED <<outputs, timestamp>> /\ rpc' # "forward"
          /\ StampNow' = StampNow
      BY <2>7 DEF Forwarded, AddToCache, EndBatch, AcceptRouterDone, RouterExit,
                  RouterStart, StampNow
    <3> QED
      BY <2>1, <3>1, StampsKept
  <2>8. CASE \E t \in (timestamp + 1)..MaxTick : RouterTick(t)
    <3>1. PICK t \in (timestamp + 1)..MaxTick : RouterTick(t)
      BY <2>8
    <3>2. /\ UNCHANGED outputs /\ rpc' # "forward"
          /\ timestamp' = t
      BY <3>1 DEF RouterTick
    <3>3. timestamp \in Nat
      BY DEF TrafficOK, TrafficTypeOK, RouterTypeOK
    <3>4. StampNow <= StampNow'
      BY <3>2, <3>3, TrafficAssumption DEF StampNow
    <3> QED
      BY <3>2, <3>4, StampsKept
  <2>9. CASE CallRouterClose \/ RouterCloseReturns \/ UNCHANGED vars
    <3>1. /\ UNCHANGED <<outputs, rpc, cur, timestamp>> /\ StampNow' = StampNow
      BY <2>9 DEF CallRouterClose, RouterCloseReturns, vars, rvars, StampNow
    <3> QED
      BY <2>1, <3>1, StampsKept
  <2> QED
    BY <2>3, <2>4, <2>5, <2>6, <2>7, <2>8, <2>9 DEF TrafficNext, RouterStep
<1> QED
  BY <1>1, <1>2, TrafficOKInv, PTL DEF TrafficSpec

\* A sink sees the messages of an interval before those of the next one.
THEOREM StampsOrderedHolds == TrafficSpec => []StampsOrdered
<1>1. StampsInv => StampsOrdered
  BY DEF StampsInv, Rising, StampsOrdered
<1> QED
  BY <1>1, StampsInvInv, PTL
-----------------------------------------------------------------------------
(* Close(), and the panic in the cache. *)

\* A step that neither accepts a request nor ends the goroutine is none of the
\* handshake.
LEMMA RouterRunsOn ==
  ASSUME rclose' = rclose,
         \/ rpc' = rpc
         \/ /\ rpc \notin {"done", "exited"}
            /\ rpc' \in {"select", "forward", "add", "batch", "crashed"}
  PROVE  UNCHANGED <<rclose, RouterLoop>>
  BY DEF RouterLoop

\* Close() returns only after the goroutine has left its loop for good, with
\* any traffic and any sinks: the router implements the close handshake.
THEOREM RouterImplementsHandshake == TrafficSpec => RouterClosesProperly
<1>1. TrafficInit => RouterHandshake!Init
  BY DEF TrafficInit, RouterInit, RouterLoop, RouterHandshake!Init
<1>2. [TrafficNext]_vars => [RouterHandshake!Next]_<<rclose, RouterLoop>>
  <2> SUFFICES ASSUME [TrafficNext]_vars
               PROVE  RouterHandshake!Next \/ UNCHANGED <<rclose, RouterLoop>>
    OBVIOUS
  <2>1. CASE \E keep \in Keep : ProduceColl(keep) \/ ProduceRecv(keep)
    BY <2>1, RouterRunsOn DEF ProduceColl, ProduceRecv
  <2>2. CASE \E keep \in Keep : ProduceCache(keep)
    BY <2>2, RouterRunsOn DEF ProduceCache, TakeCache
  <2>3. CASE \E o \in 1..NumOutputs : SinkTake(o)
    BY <2>3, RouterRunsOn DEF SinkTake
  <2>4. CASE RouterStart \/ \E t \in (timestamp + 1)..MaxTick : RouterTick(t)
    BY <2>4, RouterRunsOn DEF RouterStart, RouterTick
  <2>5. CASE TakeColl \/ TakeRecv \/ Send \/ Forwarded \/ AddToCache
    BY <2>5, RouterRunsOn DEF TakeColl, TakeRecv, Send, Forwarded, AddToCache
  <2>6. CASE BatchColl \/ BatchRecv \/ EndBatch
    BY <2>6, RouterRunsOn DEF BatchColl, BatchRecv, EndBatch
  <2>7. CASE AcceptRouterDone
    BY <2>7 DEF AcceptRouterDone, RouterLoop, RouterHandshake!Next, RouterHandshake!Accept
  <2>8. CASE RouterExit
    BY <2>8 DEF RouterExit, RouterLoop, RouterHandshake!Next, RouterHandshake!Finish
  <2>9. CASE CallRouterClose
    BY <2>9 DEF CallRouterClose, RouterLoop, RouterHandshake!Next, RouterHandshake!Call
  <2>10. CASE RouterCloseReturns
    BY <2>10 DEF RouterCloseReturns, RouterLoop, RouterHandshake!Next, RouterHandshake!Return
  <2>11. CASE UNCHANGED vars
    BY <2>11, RouterRunsOn DEF vars, rvars
  <2> QED
    BY <2>1, <2>2, <2>3, <2>4, <2>5, <2>6, <2>7, <2>8, <2>9, <2>10, <2>11
       DEF TrafficNext, RouterStep
<1> QED
  BY <1>1, <1>2, PTL
     DEF TrafficSpec, RouterClosesProperly, RouterHandshake!Spec,
         RouterHandshake!hvars, RouterLoop

\* Every message in the inputs and in the hands of the router is one that the
\* processor keeps.
AllKept ==
  /\ \A i \in 1..Len(collInput) : collInput[i].keep
  /\ \A i \in 1..Len(recvInput) : recvInput[i].keep
  /\ rpc \in {"forward", "add", "batch"} => cur[1].msg.keep

\* Nothing has panicked; only with the cache is the router at its Add().
NoPanic ==
  /\ rpc # "crashed"
  /\ rpc = "add" => Caching

\* With the cache on and a processor that keeps everything, AllKept holds.
LEMMA AllKeptStep ==
  ASSUME TrafficOK, AllKept, Keep \subseteq {TRUE}, [TrafficNext]_vars
  PROVE  AllKept'
<1>1. /\ collInput \in Seq(Message) /\ recvInput \in Seq(Message)
      /\ Len(collInput) \in Nat /\ Len(recvInput) \in Nat
  BY DEF TrafficOK, TrafficTypeOK, RouterTypeOK
<1>2. ASSUME NEW keep \in Keep, ProduceColl(keep)
      PROVE  AllKept'
  <2>1. collInput' = Append(collInput, NewMessage("coll", keep))
    BY <1>2 DEF ProduceColl
  <2>2. NewMessage("coll", keep).keep
    BY DEF NewMessage
  <2>3. \A i \in 1..Len(collInput') : collInput'[i].keep
    BY <1>1, <2>1, <2>2 DEF AllKept
  <2>4. UNCHANGED <<recvInput, rpc, cur>>
    BY <1>2 DEF ProduceColl
  <2> QED
    BY <2>3, <2>4 DEF AllKept
<1>3. ASSUME NEW keep \in Keep, ProduceRecv(keep)
      PROVE  AllKept'
  <2>1. recvInput' = Append(recvInput, NewMessage("recv", keep))
    BY <1>3 DEF ProduceRecv
  <2>2. NewMessage("recv", keep).keep
    BY DEF NewMessage
  <2>3. \A i \in 1..Len(recvInput') : recvInput'[i].keep
    BY <1>1, <2>1, <2>2 DEF AllKept
  <2>4. UNCHANGED <<collInput, rpc, cur>>
    BY <1>3 DEF ProduceRecv
  <2> QED
    BY <2>3, <2>4 DEF AllKept
<1>4. ASSUME NEW keep \in Keep, ProduceCache(keep)
      PROVE  AllKept'
  <2>1. cur' = <<[msg |-> NewMessage("cache", keep), stamp |-> 0]>>
    BY <1>4 DEF ProduceCache, TakeCache
  <2>2. cur'[1].msg.keep
    BY <2>1 DEF NewMessage
  <2>3. UNCHANGED <<collInput, recvInput>>
    BY <1>4 DEF ProduceCache, TakeCache
  <2> QED
    BY <2>2, <2>3 DEF AllKept
<1>5. CASE TakeColl \/ BatchColl
  <2>1. collInput # <<>> /\ collInput' = Tail(collInput) /\ recvInput' = recvInput
    BY <1>5 DEF TakeColl, BatchColl, MoreInBatch
  <2>2. cur'[1].msg = collInput[1]
    BY <1>5, <2>1 DEF TakeColl, BatchColl, Stamp
  <2>3. /\ 1 \in 1..Len(collInput)
        /\ Len(collInput') = Len(collInput) - 1
        /\ \A i \in 1..Len(collInput') : collInput'[i] = collInput[i + 1]
    BY <1>1, <2>1
  <2>4. collInput[1].keep /\ \A i \in 1..Len(collInput') : collInput'[i].keep
    BY <1>1, <2>3 DEF AllKept
  <2> QED
    BY <2>1, <2>2, <2>4 DEF AllKept
<1>6. CASE TakeRecv \/ BatchRecv
  <2>1. recvInput # <<>> /\ recvInput' = Tail(recvInput) /\ collInput' = collInput
    BY <1>6 DEF TakeRecv, BatchRecv, MoreInBatch
  <2>2. cur'[1].msg = recvInput[1]
    BY <1>6, <2>1 DEF TakeRecv, BatchRecv, Stamp
  <2>3. /\ 1 \in 1..Len(recvInput)
        /\ Len(recvInput') = Len(recvInput) - 1
        /\ \A i \in 1..Len(recvInput') : recvInput'[i] = recvInput[i + 1]
    BY <1>1, <2>1
  <2>4. recvInput[1].keep /\ \A i \in 1..Len(recvInput') : recvInput'[i].keep
    BY <1>1, <2>3 DEF AllKept
  <2> QED
    BY <2>1, <2>2, <2>4 DEF AllKept
<1>7. CASE Send \/ Forwarded \/ AddToCache
  BY <1>7 DEF Send, Forwarded, AddToCache, AllKept
<1>8. CASE EndBatch \/ AcceptRouterDone \/ RouterExit
  BY <1>8 DEF EndBatch, AcceptRouterDone, RouterExit, AllKept
<1>9. CASE \/ RouterStart \/ CallRouterClose \/ RouterCloseReturns
           \/ \E t \in (timestamp + 1)..MaxTick : RouterTick(t)
  BY <1>9 DEF RouterStart, CallRouterClose, RouterCloseReturns, RouterTick, AllKept
<1>10. CASE \E o \in 1..NumOutputs : SinkTake(o)
  BY <1>10 DEF SinkTake, AllKept
<1>11. CASE UNCHANGED vars
  BY <1>11 DEF vars, rvars, AllKept
<1> QED
  BY <1>2, <1>3, <1>4, <1>5, <1>6, <1>7, <1>8, <1>9, <1>10, <1>11
     DEF TrafficNext, RouterStep

\* Only the step into the cache can panic.
LEMMA NoPanicStep ==
  ASSUME TrafficOK, NoPanic, Caching => AllKept, [TrafficNext]_vars
  PROVE  NoPanic'
<1>1. CASE AddToCache
  <2>1. rpc = "add" /\ cur[1].msg.keep
    BY <1>1 DEF AddToCache, NoPanic, AllKept
  <2>2. ~Drops(cur[1].msg)
    BY <2>1, InHand, MessageType
  <2>3. rpc' = "batch"
    BY <1>1, <2>2 DEF AddToCache
  <2> QED
    BY <2>3 DEF NoPanic
<1>2. CASE Forwarded
  BY <1>2 DEF Forwarded, NoPanic
<1>3. CASE [TrafficNext]_vars /\ ~AddToCache /\ ~Forwarded
  <2>1. rpc' = rpc \/ rpc' \in {"select", "forward", "done", "exited"}
    BY <1>3 DEF TrafficNext, RouterStep, vars, rvars, ProduceColl, ProduceRecv,
                ProduceCache, TakeCache, SinkTake, RouterStart, RouterTick,
                CallRouterClose, RouterCloseReturns, TakeColl, TakeRecv, Send,
                BatchColl, BatchRecv, EndBatch, AcceptRouterDone, RouterExit
  <2> QED
    BY <2>1 DEF NoPanic
<1> QED
  BY <1>1, <1>2, <1>3

\* The panic in the cache needs both, a cache and a message that the processor
\* drops: without the one or the other what the comment at Add() says holds.
THEOREM PanicNeedsDropAndCache ==
  ASSUME Caching => Keep \subseteq {TRUE}
  PROVE  TrafficSpec => []DroppedIsStored
<1> DEFINE KeptInv == NoPanic /\ (Caching => AllKept)
<1>1. TrafficInit => KeptInv
  BY DEF TrafficInit, RouterInit, NoPanic, AllKept
<1>2. TrafficOK /\ KeptInv /\ [TrafficNext]_vars => KeptInv'
  BY AllKeptStep, NoPanicStep
<1>3. KeptInv => DroppedIsStored
  BY DEF NoPanic, DroppedIsStored
<1> HIDE DEF KeptInv
<1> QED
  BY <1>1, <1>2, <1>3, TrafficOKInv, PTL DEF TrafficSpec
=============================================================================
