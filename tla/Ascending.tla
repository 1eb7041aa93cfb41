----------------------------- MODULE Ascending -----------------------------
(***************************************************************************)
(* Sequences made of sets and of pairs, written without the operators that *)
(* only TLC evaluates (SortSeq, SelectSeq): theorems rest on them.         *)
(***************************************************************************)
EXTENDS Integers, Sequences, FiniteSets

\* The members of a finite set of integers, in ascending order.
InOrder(S) ==
    [i \in 1..Cardinality(S) |-> CHOOSE x \in S : Cardinality({y \in S : y <= x}) = i]

\* The elements of s that are in S, in the order of s.
Listed(s, S) ==
    LET places == InOrder({i \in DOMAIN s : s[i] \in S})
    IN  [i \in DOMAIN places |-> s[places[i]]]

\* A sequence of pairs, one after the other.
Pairs(s) == [i \in 1..(2 * Len(s)) |-> s[(i + 1) \div 2][2 - (i % 2)]]
=============================================================================
