------------------------------- MODULE Sorting ------------------------------
(***************************************************************************)
(* Sorted lists of numbers, without the sort: a member's place is how many *)
(* members are not above it.                                               *)
(***************************************************************************)
EXTENDS Naturals, FiniteSets

Rank(ids, k) == Cardinality({a \in ids : a <= k})
Sorted(ids) == [i \in 1..Cardinality(ids) |-> CHOOSE k \in ids : Rank(ids, k) = i]
=============================================================================
