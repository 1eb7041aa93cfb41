------------------------------- MODULE MCRPC -------------------------------
(* Small instances of RPC for TLC. *)
EXTENDS RPC, TLC

\* Shards, requests and connections are interchangeable; safety only.
MCSymmetry == Permutations(Shards) \cup Permutations(Reqs) \cup Permutations(Conns)
=============================================================================
