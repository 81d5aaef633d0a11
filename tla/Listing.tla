------------------------------- MODULE Listing -------------------------------
(***************************************************************************)
(* Lists whose elements have places: a table keeps a list as rows with a   *)
(* position each, and a list some elements leave closes up.                *)
(***************************************************************************)
EXTENDS Naturals, FiniteSets

(* The n-th of some numbers, in ascending order. *)
NthOf(places, n) == CHOOSE i \in places : Cardinality({j \in places : j <= i}) = n

(* What stands at some numbers, as a sequence in the order of the numbers. *)
Closed(placed) ==
  [n \in 1..Cardinality(DOMAIN placed) |-> placed[NthOf(DOMAIN placed, n)]]
=============================================================================
