----------------------------- MODULE SortedLists -----------------------------
(***************************************************************************)
(* Ascending lists of numbers, each number once.                           *)
(***************************************************************************)
EXTENDS Integers, FiniteSets

\* The place of x in the ascending order of S, and the elements in that order.
Place(S, x) == Cardinality({y \in S : y <= x})
SortedList(S) == [i \in 1..Cardinality(S) |-> CHOOSE x \in S : Place(S, x) = i]
=============================================================================
