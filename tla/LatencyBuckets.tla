--------------------------- MODULE LatencyBuckets ---------------------------
(***************************************************************************)
(* The exponential buckets of gcbench/lat.go: bucket b of NB holds the     *)
(* durations from LM^(b/NB) up to LM^((b+1)/NB), LM being latencyMax.      *)
(* The source computes with math.Log and math.Pow and truncates; here the  *)
(* same truncated values are counted with integer powers, so a rounding    *)
(* error of the floating point library is not modelled.                    *)
(***************************************************************************)
EXTENDS Integers, FiniteSets

CONSTANTS
    NB,     \* len(d.Buckets)
    LM      \* latencyMax, in ns

ASSUME BucketsAssumption == NB \in Nat \ {0} /\ LM \in Nat \ {0, 1}

\* Powers grow with the exponent and with the base.  (A fact of arithmetic, so
\* no restriction; that it follows is an induction beyond the provers.)
ASSUME PowersAssumption ==
    /\ \A j, k \in 0..NB : j <= k => LM^j <= LM^k
    /\ \A x, y \in 1..LM : x < y => x^NB < y^NB

\* int(NB * log(t) / log(LM)), cut off at NB, for t >= 1.
LogBucket(t) == Cardinality({k \in 1..NB : LM^k <= t^NB})

\* Mutant of ToBucket: no cut-off at the last bucket.
ToBucketUncut(t) == IF t < 1 THEN 0 ELSE LogBucket(t)

ToBucket(t) ==
    IF t < 1 THEN 0
    ELSE IF LogBucket(t) >= NB THEN NB - 1
    ELSE LogBucket(t)

\* Duration(pow(LM, b/NB)), for b in 0..NB.
Power(b) == Cardinality({x \in 1..LM : x^NB <= LM^b})

FromBucket(b) == [lo |-> IF b = 0 THEN 0 ELSE Power(b), hi |-> Power(b + 1)]

Midpoint(b) == (FromBucket(b).lo + FromBucket(b).hi) \div 2
=============================================================================
