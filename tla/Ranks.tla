------------------------------- MODULE Ranks -------------------------------
(***************************************************************************)
(* The list comprehensions with a condition that the services read their   *)
(* rows with: the elements of a sequence at some places, in their order.   *)
(***************************************************************************)
EXTENDS Integers, Sequences, FiniteSets

\* The element of a set of numbers that has k elements up to it.
Nth(numbers, k) == CHOOSE i \in numbers : Cardinality({j \in numbers : j <= i}) = k

\* The elements at these places.
ElementsAt(seq, places) == [k \in 1..Cardinality(places) |-> seq[Nth(places, k)]]
=============================================================================
