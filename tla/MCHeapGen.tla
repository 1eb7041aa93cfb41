----------------------------- MODULE MCHeapGen ------------------------------
(* Small instances of HeapGen for TLC. *)
EXTENDS HeapGen

\* With ints of 6 bits: an AST, graphs of 2, 4 and 8 nodes, and the powers
\* that are negative, zero, or too large.
MCGens == {<<"AST", 2>>} \cup ({"deBruijn2"} \X {-1, 0, 1, 2, 3, 5, 6})
=============================================================================
