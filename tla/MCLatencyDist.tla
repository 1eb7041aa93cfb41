--------------------------- MODULE MCLatencyDist ---------------------------
(* Small instances of LatencyDist for TLC. *)
EXTENDS LatencyDist, TLC

\* With NB = 4 and LM = 10: nothing, the lowest bucket, an inner one, the
\* bottom of the last (below its midpoint), and a duration past latencyMax.
MCDurations == {0, 1, 2, 6, 12}

\* The P99 of rpc.go and largeobject.go, a median, and a quartile, which of
\* three samples finds the middle one, at neither end of the sorted samples.
MCQuantiles == {<<1, 4>>, <<1, 2>>, <<99, 100>>}

MCSymmetry == Permutations(Calls)
=============================================================================
