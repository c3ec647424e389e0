------------------------------ MODULE Ordering ------------------------------
(***************************************************************************)
(* Sorted lists of finite sets.  An element stands at the position that    *)
(* the number of its predecessors gives, which a proof can use where a     *)
(* sorting algorithm would need induction.                                 *)
(***************************************************************************)
EXTENDS Naturals, Sequences, FiniteSets

\* The elements of S that come before x; less is a set of pairs.
Predecessors(S, less, x) == {y \in S : <<y, x>> \in less}

\* The elements of S in ascending order (sort.Slice, ORDER BY).
InOrder(S, less) ==
    [i \in 1 .. Cardinality(S) |->
        CHOOSE x \in S : Cardinality(Predecessors(S, less, x)) = i - 1]

\* A scan of s that keeps the positions in I.
Scan(s, I) ==
    LET at == InOrder(I, {p \in I \X I : p[1] < p[2]})
    IN  [n \in DOMAIN at |-> s[at[n]]]
=============================================================================
