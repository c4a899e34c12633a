-------------------------------- MODULE Order --------------------------------
(***************************************************************************)
(* What the code gets from its sorted maps and sorts: the least of a set of   *)
(* numbers, and the members of a finite set in a strict total order, as a     *)
(* function of how many members stand before each.                          *)
(***************************************************************************)
EXTENDS Naturals, FiniteSets

Minimum(S) == CHOOSE n \in S : \A m \in S : n <= m

InOrder(S, Below(_, _)) ==
  [n \in 1 .. Cardinality(S) |-> CHOOSE x \in S : Cardinality({y \in S : Below(y, x)}) = n - 1]
=============================================================================
