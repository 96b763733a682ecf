----------------------------- MODULE Ascending -----------------------------
(***************************************************************************)
(* The elements of a finite set of integers in ascending order: what       *)
(* sort_unstable makes of distinct keys, and a walk along the bytes of a   *)
(* file of the places it comes by.                                         *)
(***************************************************************************)
EXTENDS Integers, FiniteSets

\* The i-th element is the one with i - 1 elements below it.
Ascending(S) ==
  [i \in 1 .. Cardinality(S) |-> CHOOSE x \in S : Cardinality({y \in S : y < x}) = i - 1]

\* What a filter keeps of a sequence: the elements at these places, in their order.
Restricted(s, places) == [k \in 1 .. Cardinality(places) |-> s[Ascending(places)[k]]]
=============================================================================
