---------------------------- MODULE DataTheorems ----------------------------
(***************************************************************************)
(* Facts about the data the models compute with: sorted lists of numbers,  *)
(* the least and the largest of some numbers, and sums over finite sets.   *)
(***************************************************************************)
EXTENDS Integers, SequencesExt, SortedLists, FiniteSetTheorems,
        WellFoundedInduction, TLAPS

(* Sorted lists. *)

\* The places of a finite set of integers.
LEMMA PlaceType ==
  ASSUME NEW S, S \subseteq Int, IsFiniteSet(S), NEW x \in S
  PROVE  Place(S, x) \in 1..Cardinality(S)
<1> DEFINE upTo == {y \in S : y <= x}
<1>1. /\ IsFiniteSet(upTo) /\ Cardinality(upTo) <= Cardinality(S)
      /\ Cardinality(upTo) \in Nat /\ Cardinality(S) \in Nat
  <2>1. upTo \in SUBSET S
    OBVIOUS
  <2> QED
    BY <2>1, FS_Subset, FS_CardinalityType
<1>2. upTo # {}
  OBVIOUS
<1>3. Cardinality(upTo) # 0
  BY <1>1, <1>2, FS_EmptySet
<1> HIDE DEF upTo
<1>4. Place(S, x) = Cardinality(upTo)
  BY DEF Place, upTo
<1> QED
  BY <1>1, <1>3, <1>4

\* A larger number has a later place.
LEMMA PlaceOrder ==
  ASSUME NEW S, S \subseteq Int, IsFiniteSet(S), NEW x \in S, NEW y \in S, x < y
  PROVE  Place(S, x) < Place(S, y)
<1> DEFINE upTo(z) == {w \in S : w <= z}
<1>1. upTo(x) \in SUBSET upTo(y) /\ upTo(y) \in SUBSET S /\ upTo(x) # upTo(y)
  <2>1. y \in upTo(y) /\ y \notin upTo(x)
    OBVIOUS
  <2>2. \A w \in S : w <= x => w <= y
    OBVIOUS
  <2>3. upTo(x) \subseteq upTo(y) /\ upTo(y) \subseteq S
    BY <2>2
  <2> HIDE DEF upTo
  <2> QED
    BY <2>1, <2>3
<1> HIDE DEF upTo
<1>2. IsFiniteSet(upTo(y))
  BY <1>1, FS_Subset
<1>3. /\ IsFiniteSet(upTo(x)) /\ Cardinality(upTo(x)) <= Cardinality(upTo(y))
      /\ Cardinality(upTo(x)) # Cardinality(upTo(y))
  BY <1>1, <1>2, FS_Subset
<1>4. Cardinality(upTo(x)) \in Nat /\ Cardinality(upTo(y)) \in Nat
  BY <1>2, <1>3, FS_CardinalityType
<1>5. Place(S, x) = Cardinality(upTo(x)) /\ Place(S, y) = Cardinality(upTo(y))
  BY DEF Place, upTo
<1> QED
  BY <1>3, <1>4, <1>5

\* The sorted list has every element at its place.
LEMMA SortedListIs ==
  ASSUME NEW S, S \subseteq Int, IsFiniteSet(S)
  PROVE  /\ Cardinality(S) \in Nat
         /\ SortedList(S) \in Seq(S) /\ Len(SortedList(S)) = Cardinality(S)
         /\ DOMAIN SortedList(S) = 1..Cardinality(S)
         /\ \A i \in 1..Cardinality(S) : /\ SortedList(S)[i] \in S
                                         /\ Place(S, SortedList(S)[i]) = i
         /\ \A x \in S : /\ Place(S, x) \in 1..Cardinality(S)
                         /\ SortedList(S)[Place(S, x)] = x
         /\ ToSet(SortedList(S)) = S
<1> DEFINE n == Cardinality(S)
           place == [x \in S |-> Place(S, x)]
<1>1. n \in Nat
  BY FS_CardinalityType
<1>2. \A x \in S : Place(S, x) \in 1..n
  BY PlaceType
<1>3. \A x, y \in S : Place(S, x) = Place(S, y) => x = y
  <2> SUFFICES ASSUME NEW x \in S, NEW y \in S, x # y
               PROVE  Place(S, x) # Place(S, y)
    OBVIOUS
  <2>1. Place(S, x) \in Int /\ Place(S, y) \in Int
    BY <1>1, <1>2
  <2>2. x < y => Place(S, x) < Place(S, y)
    BY PlaceOrder
  <2>3. y < x => Place(S, y) < Place(S, x)
    BY PlaceOrder
  <2>4. x < y \/ y < x
    OBVIOUS
  <2> QED
    BY <2>1, <2>2, <2>3, <2>4
<1>4. \A i \in 1..n : \E x \in S : Place(S, x) = i
  <2>1. place \in Injection(S, 1..n)
    BY <1>2, <1>3 DEF Injection, IsInjective
  <2>2. IsFiniteSet(1..n) /\ Cardinality(1..n) = n
    BY <1>1, FS_Interval
  <2>3. place \in Surjection(S, 1..n)
    BY <2>1, <2>2, FS_Injection
  <2> QED
    BY <2>3 DEF Surjection
<1> HIDE DEF n, place
<1>5. \A i \in 1..n : SortedList(S)[i] \in S /\ Place(S, SortedList(S)[i]) = i
  BY <1>4 DEF SortedList, n
<1>6. DOMAIN SortedList(S) = 1..n
  BY DEF SortedList, n
<1>7. SortedList(S) \in Seq(S) /\ Len(SortedList(S)) = n
  <2>1. SortedList(S) \in [1..n -> S]
    BY <1>5, <1>6 DEF SortedList, n
  <2> QED
    BY <1>1, <2>1
<1>8. \A x \in S : SortedList(S)[Place(S, x)] = x
  BY <1>2, <1>3, <1>5
<1>9. ToSet(SortedList(S)) = S
  BY <1>2, <1>5, <1>6, <1>8 DEF ToSet
<1> QED
  BY <1>1, <1>2, <1>5, <1>6, <1>7, <1>8, <1>9 DEF n

\* The values in a list are finitely many.
LEMMA ImageFinite ==
  ASSUME NEW n \in Nat, NEW f
  PROVE  IsFiniteSet({f[i] : i \in 1..n})
<1> DEFINE T == {f[i] : i \in 1..n}
           g == [i \in 1..n |-> f[i]]
<1>1. g \in Surjection(1..n, T)
  BY DEF Surjection
<1>2. IsFiniteSet(1..n)
  BY FS_Interval
<1> QED
  BY <1>1, <1>2, FS_Surjection

-----------------------------------------------------------------------------
(* The least and the largest number. *)

\* The least of the numbers in a finite set is at the first place.
LEMMA LeastIs ==
  ASSUME NEW S, S \subseteq Int, IsFiniteSet(S), S # {}
  PROVE  Min(S) \in S /\ \A y \in S : Min(S) <= y
<1> DEFINE x == SortedList(S)[1]
<1>1. Cardinality(S) \in Nat \ {0}
  BY FS_CardinalityType, FS_EmptySet
<1>2. x \in S /\ Place(S, x) = 1
  <2>1. 1 \in 1..Cardinality(S)
    BY <1>1
  <2> QED
    BY <2>1, SortedListIs
<1> HIDE DEF x
<1>3. ASSUME NEW y \in S
      PROVE  x <= y
  <2>1. Place(S, y) \in 1..Cardinality(S)
    BY PlaceType
  <2>2. ~(y < x)
    <3>1. y < x => Place(S, y) < Place(S, x)
      BY <1>2, PlaceOrder
    <3> QED
      BY <1>2, <2>1, <3>1
  <2> QED
    BY <1>2, <2>2
<1> QED
  BY <1>2, <1>3 DEF Min

\* The largest one is at the last.
LEMMA LargestIs ==
  ASSUME NEW S, S \subseteq Int, IsFiniteSet(S), S # {}
  PROVE  Max(S) \in S /\ \A y \in S : Max(S) >= y
<1> DEFINE n == Cardinality(S)
           x == SortedList(S)[n]
<1>1. n \in Nat \ {0}
  BY FS_CardinalityType, FS_EmptySet
<1>2. x \in S /\ Place(S, x) = n
  <2>1. n \in 1..Cardinality(S)
    BY <1>1
  <2> QED
    BY <2>1, SortedListIs
<1> HIDE DEF x
<1>3. ASSUME NEW y \in S
      PROVE  x >= y
  <2>1. Place(S, y) \in 1..n
    BY PlaceType
  <2>2. ~(x < y)
    <3>1. x < y => Place(S, x) < Place(S, y)
      BY <1>2, PlaceOrder
    <3> QED
      BY <1>1, <1>2, <2>1, <3>1
  <2> QED
    BY <1>2, <2>2
<1> QED
  BY <1>2, <1>3 DEF Max

\* The least of some positions is one of them.
LEMMA MinIn ==
  ASSUME NEW I, I \subseteq Nat, I # {}
  PROVE  Min(I) \in I /\ \A i \in I : Min(I) <= i
<1>1. PICK n \in I : \A m \in I : ~(<<m, n>> \in OpToRel(<, Nat))
  BY WFMin, NatLessThanWellFounded
<1>2. ASSUME NEW m \in I
      PROVE  n <= m
  <2>1. m \in Nat /\ n \in Nat
    OBVIOUS
  <2>2. ~(m < n)
    BY <1>1, <2>1 DEF OpToRel
  <2> QED
    BY <2>1, <2>2
<1> QED
  BY <1>2 DEF Min

-----------------------------------------------------------------------------
(* Sums.  SumFunctionOnSet is defined by recursion over the subsets of the  *)
(* set, and the induction is one over their strict inclusion, by the smallest *)
(* counterexample.                                                         *)

\* The element that is added next.
Pick(s) == CHOOSE x \in s : TRUE

\* The partial sums of f, for the sets in D.
IsSumOn(D, f, g) ==
  g = [s \in D |-> IF s = {} THEN 0 ELSE f[Pick(s)] + g[s \ {Pick(s)}]]

\* Without the element that is picked a set is smaller.
LEMMA PickedOut ==
  ASSUME NEW s, IsFiniteSet(s), s # {}
  PROVE  /\ Pick(s) \in s
         /\ IsFiniteSet(s \ {Pick(s)})
         /\ Cardinality(s \ {Pick(s)}) = Cardinality(s) - 1
         /\ Cardinality(s) \in Nat
<1>1. Pick(s) \in s
  BY DEF Pick
<1> QED
  BY <1>1, FS_RemoveElement, FS_CardinalityType

\* There are partial sums for the subsets of every finite set.
LEMMA SumExists ==
  ASSUME NEW S, IsFiniteSet(S), NEW f
  PROVE  \E g : IsSumOn(SUBSET S, f, g)
<1> DEFINE Small(n) == {s \in SUBSET S : Cardinality(s) <= n}
           Bad == {n \in Nat : ~ \E g : IsSumOn(Small(n), f, g)}
<1>1. \A s \in SUBSET S : IsFiniteSet(s) /\ Cardinality(s) \in Nat
  BY FS_Subset, FS_CardinalityType
<1>2. Bad = {}
  <2> SUFFICES ASSUME Bad # {}
               PROVE  FALSE
    OBVIOUS
  <2>1. PICK n \in Bad : \A m \in Bad : ~(<<m, n>> \in OpToRel(<, Nat))
    BY WFMin, NatLessThanWellFounded
  <2>2. \A m \in Nat : m < n => m \notin Bad
    BY <2>1 DEF OpToRel
  <2>3. CASE n = 0
    <3>1. Small(0) \subseteq {{}}
      BY <1>1, FS_EmptySet
    <3>2. IsSumOn(Small(0), f, [s \in Small(0) |-> 0])
      BY <3>1 DEF IsSumOn
    <3> QED
      BY <2>3, <3>2
  <2>4. CASE n # 0
    <3>1. n - 1 \in Nat /\ n - 1 < n
      BY <2>4
    <3>2. PICK g : IsSumOn(Small(n - 1), f, g)
      BY <2>2, <3>1
    <3> DEFINE h == [s \in Small(n) |->
                       IF s = {} THEN 0 ELSE f[Pick(s)] + g[s \ {Pick(s)}]]
    <3>3. ASSUME NEW s \in Small(n), s # {}
          PROVE  h[s \ {Pick(s)}] = g[s \ {Pick(s)}]
      <4> DEFINE u == s \ {Pick(s)}
      <4>1. u \in Small(n - 1)
        BY <1>1, <3>1, <3>3, PickedOut
      <4>2. u \in Small(n)
        BY <1>1, <3>1, <4>1
      <4>3. g[u] = IF u = {} THEN 0 ELSE f[Pick(u)] + g[u \ {Pick(u)}]
        BY <3>2, <4>1 DEF IsSumOn
      <4> HIDE DEF u
      <4> QED
        BY <4>2, <4>3 DEF u
    <3>4. IsSumOn(Small(n), f, h)
      BY <3>3 DEF IsSumOn
    <3> QED
      BY <3>4
  <2> QED
    BY <2>3, <2>4
<1>3. Cardinality(S) \in Nat /\ Small(Cardinality(S)) = SUBSET S
  BY <1>1, FS_Subset
<1> QED
  BY <1>2, <1>3

\* SumFunctionOnSet is the last of the partial sums.
LEMMA SumIsSum ==
  ASSUME NEW S, IsFiniteSet(S), NEW f
  PROVE  \E g : IsSumOn(SUBSET S, f, g) /\ SumFunctionOnSet(f, S) = g[S]
<1> DEFINE g == CHOOSE h : IsSumOn(SUBSET S, f, h)
<1>1. SumFunctionOnSet(f, S) = g[S]
  BY Zenon
  DEF SumFunctionOnSet, FoldFunctionOnSet, MapThenFoldSet, IsSumOn, Pick
<1>2. IsSumOn(SUBSET S, f, g)
  BY SumExists
<1> QED
  BY <1>1, <1>2

\* Nothing adds up to 0.
THEOREM SumEmpty ==
  ASSUME NEW f
  PROVE  SumFunctionOnSet(f, {}) = 0
  BY SumIsSum, FS_EmptySet DEF IsSumOn

\* The sum over one element is its value.
THEOREM SumOne ==
  ASSUME NEW f, NEW x, f[x] \in Int
  PROVE  SumFunctionOnSet(f, {x}) = f[x]
<1>1. IsFiniteSet({x}) /\ Pick({x}) = x
  BY FS_Singleton DEF Pick
<1>2. PICK g : IsSumOn(SUBSET {x}, f, g) /\ SumFunctionOnSet(f, {x}) = g[{x}]
  BY <1>1, SumIsSum
<1>3. g[{}] = 0
  BY <1>2 DEF IsSumOn
<1>4. g[{x}] = f[x] + g[{}]
  <2>1. {x} \ {x} = {}
    OBVIOUS
  <2> QED
    BY <1>1, <1>2, <2>1 DEF IsSumOn
<1> QED
  BY <1>2, <1>3, <1>4

\* What goes wrong for some subset of a finite set goes wrong for one of them, but
\* for none of the subsets of that.
LEMMA LeastSubset ==
  ASSUME NEW S, IsFiniteSet(S), NEW Bad, Bad \subseteq SUBSET S, Bad # {}
  PROVE  \E s \in Bad : \A t \in SUBSET s : t # s => t \notin Bad
<1> DEFINE R == StrictSubsetOrdering(S)
<1>1. IsWellFoundedOn(R, SUBSET S)
  BY FS_StrictSubsetOrderingWellFounded, FS_FiniteSubsetsOfFinite
<1>2. PICK s \in Bad : \A t \in Bad : ~(<<t, s>> \in R)
  BY <1>1, WFMin
<1>3. ASSUME NEW t \in SUBSET s, t # s
      PROVE  t \notin Bad
  <2>1. <<t, s>> \in R
    BY <1>3 DEF StrictSubsetOrdering
  <2> QED
    BY <1>2, <2>1
<1> QED
  BY <1>3

\* s is in the family Bad, but the set from which it is made by adding one
\* element is not.
FirstIn(Bad, s) == s = {} \/ (Pick(s) \in s /\ s \ {Pick(s)} \notin Bad)

\* The induction over the subsets of a finite set, one element after the other.
LEMMA SmallestSubset ==
  ASSUME NEW S, IsFiniteSet(S), NEW Bad, Bad \subseteq SUBSET S, Bad # {}
  PROVE  \E s \in Bad : FirstIn(Bad, s)
<1>1. PICK s \in Bad : \A t \in SUBSET s : t # s => t \notin Bad
  BY LeastSubset
<1>2. ASSUME s # {}
      PROVE  /\ Pick(s) \in s
             /\ s \ {Pick(s)} \in SUBSET s /\ s \ {Pick(s)} # s
  <2>1. Pick(s) \in s
    BY <1>2 DEF Pick
  <2> QED
    BY <2>1
<1> QED
  BY <1>1, <1>2 DEF FirstIn

\* A sum of integers is one, and one of natural numbers, too.
THEOREM SumType ==
  ASSUME NEW S, IsFiniteSet(S), NEW f, NEW N \in {Nat, Int},
         \A x \in S : f[x] \in N
  PROVE  SumFunctionOnSet(f, S) \in N
<1>1. PICK g : IsSumOn(SUBSET S, f, g) /\ SumFunctionOnSet(f, S) = g[S]
  BY SumIsSum
<1> DEFINE Bad == {s \in SUBSET S : g[s] \notin N}
<1>2. ASSUME Bad # {}
      PROVE  FALSE
  <2>0. Bad \subseteq SUBSET S
    OBVIOUS
  <2> HIDE DEF Bad
  <2>1. PICK s \in Bad : FirstIn(Bad, s)
    BY <1>2, <2>0, SmallestSubset
  <2> USE DEF Bad, FirstIn
  <2>2. CASE s = {}
    BY <1>1, <2>1, <2>2 DEF IsSumOn
  <2>3. CASE s # {}
    <3>1. g[s] = f[Pick(s)] + g[s \ {Pick(s)}]
      BY <1>1, <2>3 DEF IsSumOn
    <3>2. f[Pick(s)] \in N /\ g[s \ {Pick(s)}] \in N
      BY <2>1, <2>3
    <3> QED
      BY <2>1, <3>1, <3>2
  <2> QED
    BY <2>2, <2>3
<1> QED
  BY <1>1, <1>2

\* The sum of the differences is the difference of the sums.
THEOREM SumDifference ==
  ASSUME NEW S, IsFiniteSet(S), NEW e, NEW f, NEW d,
         \A x \in S : e[x] \in Int /\ f[x] \in Int /\ d[x] = e[x] - f[x]
  PROVE  SumFunctionOnSet(d, S) = SumFunctionOnSet(e, S) - SumFunctionOnSet(f, S)
<1>1. PICK ge : IsSumOn(SUBSET S, e, ge) /\ SumFunctionOnSet(e, S) = ge[S]
  BY SumIsSum
<1>2. PICK gf : IsSumOn(SUBSET S, f, gf) /\ SumFunctionOnSet(f, S) = gf[S]
  BY SumIsSum
<1>3. PICK gd : IsSumOn(SUBSET S, d, gd) /\ SumFunctionOnSet(d, S) = gd[S]
  BY SumIsSum
<1> DEFINE Bad == {s \in SUBSET S : ~(/\ ge[s] \in Int /\ gf[s] \in Int
                                      /\ gd[s] = ge[s] - gf[s])}
<1>4. ASSUME Bad # {}
      PROVE  FALSE
  <2>0. Bad \subseteq SUBSET S
    OBVIOUS
  <2> HIDE DEF Bad
  <2>1. PICK s \in Bad : FirstIn(Bad, s)
    BY <1>4, <2>0, SmallestSubset
  <2> USE DEF Bad, FirstIn
  <2>2. CASE s = {}
    <3>1. ge[{}] = 0 /\ gf[{}] = 0 /\ gd[{}] = 0
      BY <1>1, <1>2, <1>3 DEF IsSumOn
    <3> QED
      BY <2>1, <2>2, <3>1
  <2>3. CASE s # {}
    <3> DEFINE x == Pick(s)
               u == s \ {Pick(s)}
    <3>1. /\ ge[s] = e[x] + ge[u] /\ gf[s] = f[x] + gf[u] /\ gd[s] = d[x] + gd[u]
      BY <1>1, <1>2, <1>3, <2>3 DEF IsSumOn
    <3>2. ge[u] \in Int /\ gf[u] \in Int /\ gd[u] = ge[u] - gf[u]
      BY <2>1, <2>3
    <3>3. e[x] \in Int /\ f[x] \in Int /\ d[x] = e[x] - f[x]
      BY <2>1, <2>3
    <3> HIDE DEF x, u
    <3>4. ge[s] \in Int /\ gf[s] \in Int /\ gd[s] = ge[s] - gf[s]
      BY <3>1, <3>2, <3>3
    <3> QED
      BY <2>1, <3>4
  <2> QED
    BY <2>2, <2>3
<1> QED
  BY <1>1, <1>2, <1>3, <1>4

\* The sum over a part of a set is one of the partial sums.
LEMMA SumPartial ==
  ASSUME NEW S, IsFiniteSet(S), NEW f, NEW g, IsSumOn(SUBSET S, f, g),
         NEW s \in SUBSET S
  PROVE  SumFunctionOnSet(f, s) = g[s]
<1>0. IsFiniteSet(s)
  BY FS_Subset
<1>1. PICK h : IsSumOn(SUBSET s, f, h) /\ SumFunctionOnSet(f, s) = h[s]
  BY <1>0, SumIsSum
<1> DEFINE Bad == {t \in SUBSET s : g[t] # h[t]}
<1>2. ASSUME Bad # {}
      PROVE  FALSE
  <2>0. Bad \subseteq SUBSET s
    OBVIOUS
  <2> HIDE DEF Bad
  <2>1. PICK t \in Bad : FirstIn(Bad, t)
    BY <1>0, <1>2, <2>0, SmallestSubset
  <2>2. /\ g[t] = IF t = {} THEN 0 ELSE f[Pick(t)] + g[t \ {Pick(t)}]
        /\ h[t] = IF t = {} THEN 0 ELSE f[Pick(t)] + h[t \ {Pick(t)}]
    BY <1>1, <2>0 DEF IsSumOn
  <2>3. t # {} => g[t \ {Pick(t)}] = h[t \ {Pick(t)}]
    BY <2>0, <2>1 DEF Bad, FirstIn
  <2>4. g[t] # h[t]
    BY DEF Bad
  <2> QED
    BY <2>2, <2>3, <2>4
<1> QED
  BY <1>1, <1>2

\* Any element may be added first.
THEOREM SumRemove ==
  ASSUME NEW S, IsFiniteSet(S), NEW f, \A y \in S : f[y] \in Int, NEW x \in S
  PROVE  SumFunctionOnSet(f, S) = f[x] + SumFunctionOnSet(f, S \ {x})
<1>1. PICK g : IsSumOn(SUBSET S, f, g)
  BY SumExists
<1>2. \A s \in SUBSET S : SumFunctionOnSet(f, s) = g[s]
  BY <1>1, SumPartial
<1>3. \A s \in SUBSET S : g[s] \in Int
  <2> SUFFICES ASSUME NEW s \in SUBSET S
               PROVE  g[s] \in Int
    OBVIOUS
  <2>1. IsFiniteSet(s) /\ \A y \in s : f[y] \in Int
    BY FS_Subset
  <2>2. SumFunctionOnSet(f, s) \in Int
    BY <2>1, SumType
  <2> QED
    BY <1>2, <2>2
<1> DEFINE Bad == {s \in SUBSET S : \E y \in s : g[s] # f[y] + g[s \ {y}]}
<1>4. ASSUME Bad # {}
      PROVE  FALSE
  <2>0. Bad \subseteq SUBSET S
    OBVIOUS
  <2>1. PICK s \in Bad : \A t \in SUBSET s : t # s => t \notin Bad
    <3> HIDE DEF Bad
    <3> QED
      BY <1>4, <2>0, LeastSubset
  <2>2. PICK y \in s : g[s] # f[y] + g[s \ {y}]
    OBVIOUS
  <2> DEFINE p == Pick(s)
             u == (s \ {p}) \ {y}
  <2>3. p \in s /\ g[s] = f[p] + g[s \ {p}]
    BY <1>1, <2>0, <2>2 DEF IsSumOn, Pick
  <2>4. p # y
    BY <2>2, <2>3
  <2> HIDE DEF p
  <2>5. g[s \ {p}] = f[y] + g[u]
    BY <2>0, <2>1, <2>3, <2>4
  <2>6. u = (s \ {y}) \ {p} /\ u \in SUBSET S
    BY <2>0
  <2>7. g[s \ {y}] = f[p] + g[u]
    <3> DEFINE t == s \ {y}
    <3>1. t \in SUBSET s /\ t # s /\ p \in t /\ t \in SUBSET S
      BY <2>0, <2>3, <2>4
    <3>2. t \notin Bad
      BY <2>1, <3>1
    <3> HIDE DEF t
    <3>3. g[t] = f[p] + g[t \ {p}]
      BY <3>1, <3>2
    <3> QED
      BY <2>6, <3>3 DEF t
  <2> HIDE DEF u
  <2>8. f[p] \in Int /\ f[y] \in Int /\ g[u] \in Int
    BY <1>3, <2>0, <2>3, <2>6
  <2> QED
    BY <2>2, <2>3, <2>5, <2>7, <2>8
<1>5. g[S] = f[x] + g[S \ {x}]
  BY <1>4
<1> QED
  BY <1>2, <1>5

\* What is 0 adds nothing: the sum is that of the part where f is g.
THEOREM SumPart ==
  ASSUME NEW S, IsFiniteSet(S), NEW f, NEW T \in SUBSET S, NEW g,
         \A x \in T : f[x] = g[x] /\ g[x] \in Int,
         \A x \in S \ T : f[x] = 0
  PROVE  SumFunctionOnSet(f, S) = SumFunctionOnSet(g, T)
<1> DEFINE Bad == {s \in SUBSET S :
                     SumFunctionOnSet(f, s) # SumFunctionOnSet(g, s \cap T)}
<1>1. ASSUME Bad # {}
      PROVE  FALSE
  <2>0. Bad \subseteq SUBSET S
    OBVIOUS
  <2> HIDE DEF Bad
  <2>1. PICK s \in Bad : FirstIn(Bad, s)
    BY <1>1, <2>0, SmallestSubset
  <2>2. SumFunctionOnSet(f, s) # SumFunctionOnSet(g, s \cap T)
    BY DEF Bad
  <2>3. CASE s = {}
    <3>1. s \cap T = {}
      BY <2>3
    <3> QED
      BY <2>2, <2>3, <3>1, SumEmpty
  <2>4. CASE s # {}
    <3> DEFINE p == Pick(s)
               u == s \ {p}
    <3>1. p \in s /\ SumFunctionOnSet(f, u) = SumFunctionOnSet(g, u \cap T)
      BY <2>0, <2>1, <2>4 DEF FirstIn, Bad
    <3>2. IsFiniteSet(s) /\ IsFiniteSet(s \cap T) /\ IsFiniteSet(u)
      <4>1. s \in SUBSET S /\ s \cap T \in SUBSET S /\ u \in SUBSET S
        BY <2>0
      <4> QED
        BY <4>1, FS_Subset
    <3> HIDE DEF p
    <3>3. \A x \in s : f[x] \in Int
      BY <2>0
    <3>4. SumFunctionOnSet(f, s) = f[p] + SumFunctionOnSet(f, u)
      BY <3>1, <3>2, <3>3, SumRemove
    <3>5. CASE p \in T
      <4>1. /\ SumFunctionOnSet(g, s \cap T)
                 = g[p] + SumFunctionOnSet(g, (s \cap T) \ {p})
        <5>1. p \in s \cap T /\ \A x \in s \cap T : g[x] \in Int
          BY <3>1, <3>5
        <5> QED
          BY <3>2, <5>1, SumRemove
      <4>2. (s \cap T) \ {p} = u \cap T
        OBVIOUS
      <4> QED
        BY <2>2, <3>1, <3>4, <3>5, <4>1, <4>2
    <3>6. CASE p \notin T
      <4>1. f[p] = 0 /\ s \cap T = u \cap T
        BY <2>0, <3>1, <3>6
      <4>2. SumFunctionOnSet(f, u) \in Int
        <5>1. \A x \in u : f[x] \in Int
          BY <3>3
        <5> QED
          BY <3>2, <5>1, SumType
      <4> HIDE DEF u
      <4>3. SumFunctionOnSet(f, s) = SumFunctionOnSet(f, u)
        BY <3>4, <4>1, <4>2
      <4> QED
        BY <2>2, <3>1, <4>1, <4>3
    <3> QED
      BY <3>5, <3>6
  <2> QED
    BY <2>3, <2>4
<1>2. S \cap T = T
  OBVIOUS
<1> QED
  BY <1>1, <1>2

\* The sum does not depend on what the values are indexed by.
THEOREM SumReindexed ==
  ASSUME NEW S, IsFiniteSet(S), NEW f, NEW g, NEW h,
         \A x \in S : g[x] = f[h[x]] /\ f[h[x]] \in Int,
         \A x, y \in S : h[x] = h[y] => x = y
  PROVE  SumFunctionOnSet(g, S) = SumFunctionOnSet(f, {h[x] : x \in S})
<1> DEFINE Image(s) == {h[x] : x \in s}
           Bad == {s \in SUBSET S :
                     SumFunctionOnSet(g, s) # SumFunctionOnSet(f, Image(s))}
<1>1. ASSUME Bad # {}
      PROVE  FALSE
  <2>0. Bad \subseteq SUBSET S
    OBVIOUS
  <2>1. PICK s \in Bad : FirstIn(Bad, s)
    <3> HIDE DEF Bad
    <3> QED
      BY <1>1, <2>0, SmallestSubset
  <2>2. s \in SUBSET S /\ SumFunctionOnSet(g, s) # SumFunctionOnSet(f, Image(s))
    OBVIOUS
  <2>3. s # {}
    <3> SUFFICES ASSUME s = {} PROVE FALSE
      OBVIOUS
    <3>1. Image(s) = {}
      OBVIOUS
    <3> HIDE DEF Image
    <3> QED
      BY <2>2, <3>1, SumEmpty
  <2> DEFINE p == Pick(s)
             u == s \ {p}
  <2>4. /\ p \in s /\ u \in SUBSET S
        /\ SumFunctionOnSet(g, u) = SumFunctionOnSet(f, Image(u))
    <3> HIDE DEF Image
    <3> QED
      BY <2>1, <2>2, <2>3 DEF FirstIn
  <2> HIDE DEF p
  <2>5. IsFiniteSet(s) /\ IsFiniteSet(Image(s))
    <3>1. IsFiniteSet(s)
      BY <2>2, FS_Subset
    <3> DEFINE k == [x \in s |-> h[x]]
    <3>2. k \in Surjection(s, Image(s))
      BY DEF Surjection
    <3> QED
      BY <3>1, <3>2, FS_Surjection
  <2>6. SumFunctionOnSet(g, s) = g[p] + SumFunctionOnSet(g, u)
    <3>1. \A x \in s : g[x] \in Int
      BY <2>2
    <3> QED
      BY <2>4, <2>5, <3>1, SumRemove
  <2>7. SumFunctionOnSet(f, Image(s)) = f[h[p]] + SumFunctionOnSet(f, Image(u))
    <3>1. Image(s) \ {h[p]} = Image(u)
      <4>1. \A x \in s : x # p => h[x] # h[p]
        BY <2>2, <2>4
      <4> QED
        BY <4>1
    <3>2. h[p] \in Image(s) /\ \A y \in Image(s) : f[y] \in Int
      BY <2>2, <2>4
    <3> HIDE DEF Image, u
    <3> QED
      BY <2>5, <3>1, <3>2, SumRemove
  <2>8. g[p] = f[h[p]]
    BY <2>2, <2>4
  <2> QED
    BY <2>2, <2>4, <2>6, <2>7, <2>8
<1> QED
  BY <1>1
=============================================================================
