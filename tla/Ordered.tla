------------------------------ MODULE Ordered ------------------------------
(***************************************************************************)
(* What sorting a finite set makes of it: Python's sorted with a key, or   *)
(* ORDER BY, where no two elements compare equal.                          *)
(***************************************************************************)
EXTENDS Naturals, FiniteSets

(* The elements of S by the strict order R, a set of pairs.                *)
Sorted(S, R) ==
    [k \in 1..Cardinality(S) |->
        CHOOSE x \in S : Cardinality({y \in S : <<y, x>> \in R}) = k - 1]

Ascending(S) == Sorted(S, {p \in S \X S : p[1] < p[2]})
=============================================================================
