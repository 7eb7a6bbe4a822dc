------------------------------- MODULE Ordered -------------------------------
(***************************************************************************)
(* Filtering a sequence by place: the places that are kept, from the first *)
(* on.  A set of places has its i-th where i of them are not beyond it, so *)
(* that what is filtered can be reasoned about by counting.                *)
(***************************************************************************)
EXTENDS Naturals, FiniteSets, Sequences

\* The place of a number among those of a set, and the set from the least on.
Rank(places, n) == Cardinality({m \in places : m <= n})
InOrder(places) == [i \in 1..Cardinality(places) |-> CHOOSE n \in places : Rank(places, n) = i]

\* The elements of a sequence at some of its places, and those that are in a set.
At(seq, places) == LET order == InOrder(places) IN [i \in DOMAIN order |-> seq[order[i]]]
Picked(seq, set) == At(seq, {i \in DOMAIN seq : seq[i] \in set})
=============================================================================
