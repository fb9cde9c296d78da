--------------------------------- MODULE Orders ---------------------------------
(***************************************************************************)
(* What Python's sort and its list comprehensions make of a list, stated   *)
(* so that it can be reasoned about: nothing is folded or recursive.       *)
(* An order is the set of the pairs of which the first comes before.       *)
(***************************************************************************)
EXTENDS Integers, FiniteSets, Sequences

\* Those that come before x.
Below(S, R, x) == {y \in S : <<y, x>> \in R}

\* A finite set in an order that is strict and total on it: the k-th has k - 1 before it.
InOrder(S, R) ==
    [k \in 1..Cardinality(S) |-> CHOOSE x \in S : Cardinality(Below(S, R, x)) = k - 1]

StrictTotal(S, R) ==
    /\ \A x \in S : <<x, x>> \notin R
    /\ \A x, y, z \in S : <<x, y>> \in R /\ <<y, z>> \in R => <<x, z>> \in R
    /\ \A x, y \in S : x = y \/ <<x, y>> \in R \/ <<y, x>> \in R

Ascending(places) == {p \in places \X places : p[1] < p[2]}

\* What a list has at some of its places, in its order.
At(list, places) ==
    LET order == InOrder(places, Ascending(places))
    IN [k \in 1..Cardinality(places) |-> list[order[k]]]

\* list.sort on these, by an order of the elements: where it has neither first, they stay as they are.
StableSort(list, places, R) ==
    LET Before(i, j) == <<list[i], list[j]>> \in R \/ (<<list[j], list[i]>> \notin R /\ i < j)
        order == InOrder(places, {p \in places \X places : Before(p[1], p[2])})
    IN [k \in 1..Cardinality(places) |-> list[order[k]]]

Take(list, n) == SubSeq(list, 1, IF n < Len(list) THEN n ELSE Len(list))
===============================================================================
