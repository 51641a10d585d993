------------------------------ MODULE Selection ------------------------------
(***************************************************************************)
(* Choosing and ordering the elements of a sequence, as list               *)
(* comprehensions and sorted() do.  An element's place is told by the      *)
(* number of those before it, so that nothing is recursive; SelectSeq and  *)
(* SortSeq would say the same, but have no definition to reason from.      *)
(***************************************************************************)
EXTENDS Integers, Sequences, FiniteSets

(* The members of a finite set in an order; before[x] are those before x.   *)
Arranged(before) ==
  [k \in 1 .. Cardinality(DOMAIN before) |->
     CHOOSE x \in DOMAIN before : Cardinality(before[x]) = k - 1]

(* The elements of s at the given positions, or all of them in that order.  *)
Picked(s, order) == [k \in DOMAIN order |-> s[order[k]]]

Ascending(P) == Arranged([n \in P |-> {m \in P : m < n}])

(* The elements of s at the positions in P, in the order of s.              *)
Chosen(s, P) == Picked(s, Ascending(P))

Select(s, Test(_)) == Chosen(s, {n \in DOMAIN s : Test(s[n])})

(* Repeats go, the first of each stays.                                     *)
Distinct(s) == Chosen(s, {n \in DOMAIN s : \A m \in 1 .. n - 1 : s[m] # s[n]})
=============================================================================
