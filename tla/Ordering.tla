------------------------------ MODULE Ordering ------------------------------
(* Sorting by an order that tells any two elements of a set apart, as       *)
(* Python's sorted does with a key: the n-th element has n - 1 before it.   *)
EXTENDS Integers, FiniteSets

InOrder(S, Before(_, _)) ==
  [n \in 1 .. Cardinality(S) |-> CHOOSE x \in S : Cardinality({y \in S : Before(y, x)}) = n - 1]
=============================================================================
