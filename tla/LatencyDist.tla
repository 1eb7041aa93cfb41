---------------------------- MODULE LatencyDist ----------------------------
(***************************************************************************)
(* gcbench/lat.go: goroutines record durations with LatencyDist.Add while  *)
(* or before a reporting goroutine asks for quantiles.                     *)
(*                                                                         *)
(* Every atomic operation of Add and every plain load of Quantile is a     *)
(* step of its own.  The loads of Quantile race with Add unless the caller *)
(* waits for the recording goroutines first:                               *)
(*   WaitForAdds = TRUE   the RPC client, after wg.Wait (rpc.go:197-206)   *)
(*   WaitForAdds = FALSE  LargeObject, whose workers never stop            *)
(*                        (largeobject.go:74-80)                           *)
(***************************************************************************)
EXTENDS LatencyBuckets

CONSTANTS
    Calls,        \* calls of Add, each by a goroutine of its own
    Durations,    \* what they may record, in ns, by a monotonic clock
    Quantiles,    \* arguments of Quantile, as fractions <<num, den>>
    WaitForAdds

ASSUME LatencyAssumption ==
    /\ IsFiniteSet(Calls)
    /\ Durations \subseteq Nat
    /\ \A q \in Quantiles : q \in Nat \X (Nat \ {0}) /\ q[1] <= q[2]
    /\ WaitForAdds \in BOOLEAN

VARIABLES
    N, Max, Buckets,  \* the LatencyDist
    pc, t, max,       \* of each Add: program counter, argument, local max
    rpc, q, n, b,     \* of Quantile: program counter, argument, locals
    result            \* what Quantile returned

adds == <<pc, t, max>>
dist == <<N, Max, Buckets>>
reader == <<rpc, q, n, b, result>>
vars == <<dist, adds, reader>>

\* The Adds at or past a program counter.
AddPCs == {"idle", "loadMax", "swapMax", "bucket", "done"}
Begun == {c \in Calls : pc[c] # "idle"}
PastMax == {c \in Calls : pc[c] \in {"bucket", "done"}}
Done == {c \in Calls : pc[c] = "done"}

\* "panic", of an Add that indexes outside the buckets, is none of AddPCs.
TypeOK ==
    /\ N \in Nat
    /\ Max \in Int
    /\ Buckets \in [0..(NB - 1) -> Nat]
    /\ pc \in [Calls -> AddPCs]
    /\ t \in [Calls -> Durations \cup {0}]
    /\ max \in [Calls -> Int]
    /\ rpc \in {"idle", "clamp", "setLast", "scan", "skip", "mid", "max",
                "done", "panic"}
    /\ q \in Quantiles
    /\ n \in Int
    /\ b \in 0..NB /\ (rpc = "skip" => b < NB)
    /\ result \in Int

Init ==
    /\ N = 0 /\ Max = 0 /\ Buckets = [i \in 0..(NB - 1) |-> 0]
    /\ pc = [c \in Calls |-> "idle"]
    /\ t = [c \in Calls |-> 0]
    /\ max = [c \in Calls |-> 0]
    /\ rpc = "idle" /\ n = 0 /\ b = 0 /\ result = 0
    /\ q \in Quantiles

-----------------------------------------------------------------------------
(* Add. *)

Goes(c, from, to) == pc[c] = from /\ pc' = [pc EXCEPT ![c] = to]

\* The call, and its increment of d.N.
Begin(c, d) ==
    /\ WaitForAdds => rpc = "idle"
    /\ Goes(c, "idle", "loadMax")
    /\ t' = [t EXCEPT ![c] = d]
    /\ N' = N + 1
    /\ UNCHANGED <<Max, Buckets, max, reader>>

\* The load of d.Max and the test of the loop.
LoadMax(c) ==
    /\ Goes(c, "loadMax", IF t[c] > Max THEN "swapMax" ELSE "bucket")
    /\ max' = [max EXCEPT ![c] = Max]
    /\ UNCHANGED <<dist, t, reader>>

\* Mutant of SwapMax: the maximum is stored without comparing.
StoreMax(c) ==
    /\ Goes(c, "swapMax", "bucket")
    /\ Max' = t[c]
    /\ UNCHANGED <<N, Buckets, t, max, reader>>

\* Mutant of SwapMax: a failed swap gives up.
SwapMaxOnce(c) ==
    /\ Goes(c, "swapMax", "bucket")
    /\ Max' = IF max[c] = Max THEN t[c] ELSE Max
    /\ UNCHANGED <<N, Buckets, t, max, reader>>

\* Mutant of SwapMax: a failed swap tries again without loading d.Max.
SwapMaxStale(c) ==
    /\ max[c] = Max
    /\ Max' = t[c]
    /\ Goes(c, "swapMax", "bucket")
    /\ UNCHANGED <<N, Buckets, t, max, reader>>

\* CompareAndSwap: a failure loads d.Max again.
SwapMax(c) ==
    /\ \/ max[c] = Max /\ Max' = t[c] /\ Goes(c, "swapMax", "bucket")
       \/ max[c] # Max /\ Goes(c, "swapMax", "loadMax") /\ UNCHANGED Max
    /\ UNCHANGED <<N, Buckets, t, max, reader>>

\* d.Buckets[b] panics outside the array.
AddBucket(c) ==
    /\ IF ToBucket(t[c]) \in 0..(NB - 1)
       THEN /\ Goes(c, "bucket", "done")
            /\ Buckets' = [Buckets EXCEPT ![ToBucket(t[c])] = @ + 1]
       ELSE Goes(c, "bucket", "panic") /\ UNCHANGED Buckets
    /\ UNCHANGED <<N, Max, t, max, reader>>

-----------------------------------------------------------------------------
(* Quantile. *)

ReaderGoes(from, to) == rpc = from /\ rpc' = to

\* int64(q * float64(d.N+1)), which no q in 0..1 makes negative.
Rank(p) == (p[1] * (N + 1)) \div p[2]

\* The call.  A report asks for one quantile after another.
Call(p) ==
    /\ rpc \in {"idle", "done"}
    /\ WaitForAdds => Begun = Done
    /\ rpc' = "clamp"
    /\ q' = p
    /\ n' = Rank(p)
    /\ UNCHANGED <<dist, adds, b, result>>

Clamp ==
    /\ ReaderGoes("clamp", IF n > N - 1 THEN "setLast" ELSE "scan")
    /\ b' = 0
    /\ UNCHANGED <<dist, adds, q, n, result>>

\* Mutant of SetLast: the rank is one too high.
SetPastLast ==
    /\ ReaderGoes("setLast", "scan")
    /\ n' = N
    /\ UNCHANGED <<dist, adds, q, b, result>>

SetLast ==
    /\ ReaderGoes("setLast", "scan")
    /\ n' = N - 1
    /\ UNCHANGED <<dist, adds, q, b, result>>

\* Mutant of Scan: the loop stops one sample too early.
ScanShort ==
    /\ ReaderGoes("scan", IF b = NB THEN "panic"
                          ELSE IF n > Buckets[b] THEN "skip" ELSE "mid")
    /\ UNCHANGED <<dist, adds, q, n, b, result>>

\* The loop's test: d.Buckets[b] panics past the last bucket.
Scan ==
    /\ ReaderGoes("scan", IF b = NB THEN "panic"
                          ELSE IF n >= Buckets[b] THEN "skip" ELSE "mid")
    /\ UNCHANGED <<dist, adds, q, n, b, result>>

\* n, b = n-d.Buckets[b], b+1 loads the bucket once more.
Skip ==
    /\ ReaderGoes("skip", "scan")
    /\ n' = n - Buckets[b]
    /\ b' = b + 1
    /\ UNCHANGED <<dist, adds, q, result>>

\* Mutant of Mid: the midpoint is returned whatever d.Max says.
MidUncut ==
    /\ ReaderGoes("mid", "done")
    /\ result' = Midpoint(b)
    /\ UNCHANGED <<dist, adds, q, n, b>>

\* mid > d.Max ...
Mid ==
    /\ ReaderGoes("mid", IF Midpoint(b) > Max THEN "max" ELSE "done")
    /\ result' = Midpoint(b)
    /\ UNCHANGED <<dist, adds, q, n, b>>

\* ... loads d.Max again to return it.
ReturnMax ==
    /\ ReaderGoes("max", "done")
    /\ result' = Max
    /\ UNCHANGED <<dist, adds, q, n, b>>

Quantile == Clamp \/ SetLast \/ Scan \/ Skip \/ Mid \/ ReturnMax

-----------------------------------------------------------------------------
Add(c) == LoadMax(c) \/ SwapMax(c) \/ AddBucket(c)

\* A panic ends the process: no step follows it.
Live == rpc # "panic" /\ \A c \in Calls : pc[c] # "panic"

Next ==
    /\ Live
    /\ \/ \E c \in Calls : Add(c) \/ \E d \in Durations : Begin(c, d)
       \/ Quantile
       \/ \E p \in Quantiles : Call(p)

Spec == Init /\ [][Next]_vars

\* A goroutine inside Add, and one inside Quantile, are scheduled.
FairSpec == /\ Spec
            /\ \A c \in Calls : WF_vars(Live /\ Add(c))
            /\ WF_vars(Live /\ Quantile)

-----------------------------------------------------------------------------
(***************************************************************************)
(* No sample is lost or counted twice, however the Adds interleave: N      *)
(* counts the calls begun, each bucket the finished calls whose duration   *)
(* belongs to it, and Max is the greatest duration past the swap loop.     *)
(***************************************************************************)
Recorded ==
    /\ N = Cardinality(Begun)
    /\ \A i \in 0..(NB - 1) :
         Buckets[i] = Cardinality({c \in Done : ToBucket(t[c]) = i})
    /\ \A c \in PastMax : t[c] <= Max
    /\ Max = 0 \/ \E c \in PastMax : t[c] = Max

\* No interleaving of swaps ever replaces the maximum by a smaller one.
MaxNeverDecreases == [][Max' >= Max]_vars

(***************************************************************************)
(* "Find the bucket containing this quantile." (lat.go:227): the scan      *)
(* stops at a bucket, and does not run past the last one.                  *)
(***************************************************************************)
QuantileInRange == rpc # "panic"

(***************************************************************************)
(* Once all samples are in, the bucket found contains the quantile, or is  *)
(* too high by one sample: at least the fraction q of the samples lies in  *)
(* it or below it, and less than one sample more than that fraction lies   *)
(* below it (lat.go:226-237).  The exact quantile would have N in place of *)
(* N + 1: the code takes int(q*(N+1)), a rank from one, for an index from  *)
(* zero, so its median of three samples is the largest of them.            *)
(***************************************************************************)
Below(i) == {c \in Done : ToBucket(t[c]) < i}

QuantileIsRanked ==
    (rpc = "done" /\ WaitForAdds /\ N > 0) =>
        /\ q[1] * N <= q[2] * Cardinality(Below(b + 1))
        /\ q[2] * Cardinality(Below(b)) <= q[1] * (N + 1)

(***************************************************************************)
(* The answer lies within the bounds of that bucket although it is cut off *)
(* at the maximum, and some sample is at least as large (lat.go:239-246).  *)
(***************************************************************************)
QuantileInBounds ==
    (rpc = "done" /\ WaitForAdds /\ N > 0) =>
        /\ FromBucket(b).lo <= result /\ result <= FromBucket(b).hi
        /\ \E c \in Done : result <= t[c]

\* Even a quantile that races with Adds never answers more than the maximum
\* recorded so far, because the maximum it compared with can only grow.
QuantileBelowMax == rpc = "done" => result <= Max

\* An Add that has begun returns: its swap loop cannot be starved for ever.
AddReturns == \A c \in Calls : pc[c] # "idle" ~> (pc[c] = "done" \/ rpc = "panic")
=============================================================================
