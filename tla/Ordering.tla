------------------------------- MODULE Ordering -------------------------------
(***************************************************************************)
(* sorted(): the members of a finite set as a sequence, in the order of a  *)
(* strict total order on them.  Defined by counting, so that the provers   *)
(* see what SortSeq of the standard module TLC hides from them.            *)
(***************************************************************************)
EXTENDS Integers, FiniteSets

InSequence(S, before(_, _)) ==
    [k \in 1..Cardinality(S) |->
        CHOOSE c \in S : Cardinality({d \in S : before(d, c)}) = k - 1]

\* What a list comprehension keeps: the members of s at these places of it, in
\* their order.
AtPlaces(s, places) ==
    LET order == InSequence(places, <) IN [k \in DOMAIN order |-> s[order[k]]]

\* The comparison of tuples: their first difference decides.
Precedes(a, b) ==
    \E k \in DOMAIN a : a[k] < b[k] /\ \A j \in 1..(k - 1) : a[j] = b[j]

=============================================================================
