------------------------------ MODULE Positions ------------------------------
(***************************************************************************)
(* Numbers in ascending order, and the items of a list at some of its      *)
(* positions: what a loop that filters a slice, or ORDER BY id, makes of   *)
(* them.  Defined without recursion, so that ListFacts can say what    *)
(* they contain.                                                           *)
(***************************************************************************)
EXTENDS Integers, FiniteSets

\* The k-th of the numbers in S, the least first.
Kth(S, k) == CHOOSE x \in S : Cardinality({y \in S : y < x}) = k - 1

Ascending(S) == [k \in 1 .. Cardinality(S) |-> Kth(S, k)]

\* The items of the list at the positions in S, in their order in the list.
Kept(list, S) == [k \in 1 .. Cardinality(S) |-> list[Kth(S, k)]]
=============================================================================
