------------------------------ MODULE Sorting ------------------------------
(* Sorting and filtering, as the code's sorted(), ORDER BY and comprehensions  *)
(* do it: by the number of elements that come before, so that it can be        *)
(* reasoned about for elements of any number.                                  *)
EXTENDS Integers, Sequences, FiniteSets

\* The elements of a finite set in the order of a relation, a set of pairs.
InOrder(S, before) ==
    [n \in 1..Cardinality(S) |->
        CHOOSE x \in S : Cardinality({y \in S : <<y, x>> \in before}) = n - 1]

Ascending(S) == InOrder(S, {p \in S \X S : p[1] < p[2]})

\* The elements of a sequence that are in some of its places.
Picked(s, places) == [n \in 1..Cardinality(places) |-> s[Ascending(places)[n]]]
=============================================================================
