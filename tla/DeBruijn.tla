------------------------------ MODULE DeBruijn ------------------------------
(***************************************************************************)
(* gcbench/heapgen/debruijn.go: the graph MakeDeBruijn2 builds.  Its nodes *)
(* are the indices of the slice graph; the caller keeps node 0 only.       *)
(***************************************************************************)
EXTENDS Integers

CONSTANT IntBits        \* width of an int

\* (What the powers of two are is an induction beyond the provers.)
ASSUME IntBitsAssumption ==
    /\ IntBits \in Nat \ {0, 1}
    /\ \A k \in 0..(IntBits - 2) : 2^k > 0 /\ 2^(k + 1) = 2 * 2^k

\* numNodes := 1 << uint(power): the sign bit, then nothing.
NumNodes(power) ==
    IF power < 0 \/ power >= IntBits THEN 0
    ELSE IF power = IntBits - 1 THEN -(2^(IntBits - 1)) ELSE 2^power

\* Mutant of Edge: the leading digit is not dropped.
EdgeUncut(n, i, digit) == 2 * i + digit

\* node.ptrs[digit] of node i.
Edge(n, i, digit) == ((2 * i) % n) + digit

\* "bad power", or an edge past the end of the slice.
Panics(power) ==
    LET n == NumNodes(power) IN
    n <= 0 \/ power < 0 \/ \E i \in 0..(n - 1), digit \in 0..1 : Edge(n, i, digit) >= n

\* The nodes at most k edges away from the one kept.
Within(n, k) ==
    LET ball[j \in 0..k] ==
          IF j = 0 THEN {0}
          ELSE LET near == ball[j - 1]
               IN  near \cup {Edge(n, i, digit) : i \in near, digit \in 0..1}
    IN  ball[k]
=============================================================================
