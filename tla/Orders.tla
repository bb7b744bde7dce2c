------------------------------- MODULE Orders --------------------------------
(* Rows in the order of a column whose values differ: ORDER BY ... ASC.     *)
EXTENDS Naturals, FiniteSets

Ascending(S) ==
  [k \in 1..Cardinality(S) |-> CHOOSE x \in S : Cardinality({y \in S : y < x}) = k - 1]
=============================================================================
