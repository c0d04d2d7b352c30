---------------------------- MODULE Collections ----------------------------
(* Sums and orders of finite collections, as the databases compute them for  *)
(* SUM and ORDER BY, and the loops with reduce() and sort().                 *)
EXTENDS Integers, FiniteSets, Functions

SumOver(f, S) == FoldFunctionOnSet(+, 0, f, S)

\* The elements of S in the order of their numbers, which differ: the i-th has
\* i - 1 before it.
InOrder(S, number) ==
    [i \in 1..Cardinality(S) |->
        CHOOSE x \in S : Cardinality({y \in S : number[y] < number[x]}) = i - 1]

Ascending(S) == InOrder(S, [n \in S |-> n])
=============================================================================
