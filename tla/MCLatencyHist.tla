--------------------------- MODULE MCLatencyHist ---------------------------
(* Small instances of LatencyHist for TLC. *)
EXTENDS LatencyHist
=============================================================================
