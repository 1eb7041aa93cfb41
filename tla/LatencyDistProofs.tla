------------------------- MODULE LatencyDistProofs -------------------------
(***************************************************************************)
(* Proofs about LatencyDist for any number of concurrent Adds and any      *)
(* number of buckets.                                                      *)
(***************************************************************************)
EXTENDS LatencyDist, FiniteSetTheorems, TLAPS

-----------------------------------------------------------------------------
(* Buckets and ranks. *)

\* ToBucket never leaves the array, whatever the duration.
LEMMA ToBucketType ==
  ASSUME NEW d
  PROVE  ToBucket(d) \in 0..(NB - 1)
  <1>1. {k \in 1..NB : LM^k <= d^NB} \in SUBSET (1..NB)
    OBVIOUS
  <1>2. IsFiniteSet(1..NB)
    BY FS_Interval, BucketsAssumption
  <1>3. LogBucket(d) \in Nat
    BY <1>1, <1>2, FS_Subset, FS_CardinalityType DEF LogBucket
  <1> QED
    BY <1>3, BucketsAssumption DEF ToBucket

LEMMA RankType ==
  ASSUME N \in Nat, NEW p \in Quantiles
  PROVE  Rank(p) \in Nat
  <1>1. p[1] \in Nat /\ p[2] \in Nat /\ p[2] > 0
    BY LatencyAssumption
  <1> DEFINE x == p[1] * (N + 1)
             y == p[2]
  <1>2. x \in Nat /\ y \in Nat /\ y > 0
    BY <1>1
  <1>3. x \div y \in Nat
    <2> HIDE DEF x, y
    <2> QED
      BY <1>2
  <1> QED
    BY <1>3 DEF Rank

LEMMA MidpointType ==
  ASSUME NEW i
  PROVE  Midpoint(i) \in Int
  <1>1. ASSUME NEW k PROVE Power(k) \in Nat
    <2>1. {x \in 1..LM : x^NB <= LM^k} \in SUBSET (1..LM)
      OBVIOUS
    <2>2. IsFiniteSet(1..LM)
      BY FS_Interval, BucketsAssumption
    <2> QED
      BY <2>1, <2>2, FS_Subset, FS_CardinalityType DEF Power
  <1>2. FromBucket(i).lo \in Nat /\ FromBucket(i).hi \in Nat
    BY <1>1 DEF FromBucket
  <1> QED
    BY <1>2 DEF Midpoint

-----------------------------------------------------------------------------
(* Type correctness. *)

LEMMA DurationType ==
  ASSUME TypeOK, NEW c \in Calls
  PROVE  t[c] \in Nat
  <1>1. Durations \cup {0} \subseteq Nat
    BY LatencyAssumption
  <1> QED
    BY <1>1 DEF TypeOK

LEMMA TypeStep ==
  ASSUME TypeOK, [Next]_vars
  PROVE  TypeOK'
  <1>0. \A c \in Calls : t[c] \in Nat
    BY DurationType
  <1> USE DEF TypeOK, dist, adds, reader, AddPCs, Goes, ReaderGoes
  <1>1. ASSUME NEW c \in Calls, NEW d \in Durations, Begin(c, d) PROVE TypeOK'
    BY <1>1 DEF Begin
  <1>2. ASSUME NEW c \in Calls, LoadMax(c) PROVE TypeOK'
    BY <1>2 DEF LoadMax
  <1>3. ASSUME NEW c \in Calls, SwapMax(c) PROVE TypeOK'
    <2>1. Max' \in Int
      BY <1>0, <1>3 DEF SwapMax
    <2>2. pc' \in [Calls -> AddPCs]
      BY <1>3 DEF SwapMax
    <2> QED
      BY <1>3, <2>1, <2>2 DEF SwapMax
  \* The only index that an Add counts at lies within the array.
  <1>4. ASSUME NEW c \in Calls, AddBucket(c) PROVE TypeOK'
    BY <1>4, ToBucketType DEF AddBucket
  <1>5. ASSUME NEW p \in Quantiles, Call(p) PROVE TypeOK'
    BY <1>5, RankType DEF Call
  <1>6. CASE Clamp \/ SetLast
    BY <1>6, BucketsAssumption DEF Clamp, SetLast
  <1>7. CASE Scan
    BY <1>7, BucketsAssumption DEF Scan
  <1>8. CASE Skip
    BY <1>8, BucketsAssumption DEF Skip
  <1>9. CASE Mid \/ ReturnMax
    BY <1>9, MidpointType DEF Mid, ReturnMax
  <1>10. CASE UNCHANGED vars
    BY <1>10 DEF vars
  <1> QED
    BY <1>1, <1>2, <1>3, <1>4, <1>5, <1>6, <1>7, <1>8, <1>9, <1>10
       DEF Next, Add, Quantile

(***************************************************************************)
(* Every variable keeps its type, and no Add panics: the index that        *)
(* ToBucket gives lies within the array for every duration (lat.go:40-58). *)
(***************************************************************************)
THEOREM TypeCorrect == Spec => []TypeOK
  <1>1. Init => TypeOK
    BY BucketsAssumption DEF Init, TypeOK, AddPCs
  <1>2. TypeOK /\ [Next]_vars => TypeOK'
    BY TypeStep
  <1> QED
    BY <1>1, <1>2, PTL DEF Spec

-----------------------------------------------------------------------------
(* What the Adds record. *)

LEMMA CallsFinite ==
  ASSUME NEW S \in SUBSET Calls
  PROVE  /\ IsFiniteSet(S)
         /\ Cardinality(S) \in Nat
         /\ \A c \in Calls \ S : Cardinality(S \cup {c}) = Cardinality(S) + 1
  <1>1. IsFiniteSet(S)
    BY LatencyAssumption, FS_Subset
  <1> QED
    BY <1>1, FS_CardinalityType, FS_AddElement

\* The finished calls that bucket i has to count.
InBucket(i) == {c \in Done : ToBucket(t[c]) = i}

\* A swap is only tried by a call that beats the maximum it loaded.
SwapRaises == \A c \in Calls : pc[c] = "swapMax" => max[c] < t[c]

RecordedInv == Recorded /\ SwapRaises

\* The histogram does not move with a step that leaves the finished calls alone.
LEMMA SameBuckets ==
  ASSUME TypeOK, Recorded, Buckets' = Buckets, Done' = Done,
         \A c \in Done : t'[c] = t[c]
  PROVE  \A i \in 0..(NB - 1) : Buckets'[i] = Cardinality({c \in Done' : ToBucket(t'[c]) = i})
  <1>1. ASSUME NEW i \in 0..(NB - 1)
        PROVE  {c \in Done' : ToBucket(t'[c]) = i} = {c \in Done : ToBucket(t[c]) = i}
    OBVIOUS
  <1> QED
    BY <1>1 DEF Recorded

LEMMA BeginRecords ==
  ASSUME TypeOK, RecordedInv, NEW c \in Calls, NEW d \in Durations, Begin(c, d)
  PROVE  RecordedInv'
  <1> USE DEF RecordedInv, TypeOK
  <1>1. /\ pc[c] = "idle" /\ pc' = [pc EXCEPT ![c] = "loadMax"]
        /\ t' = [t EXCEPT ![c] = d] /\ N' = N + 1 /\ UNCHANGED <<Max, Buckets, max>>
    BY DEF Begin, Goes
  <1>2. Begun' = Begun \cup {c} /\ c \notin Begun /\ Begun \in SUBSET Calls
    BY <1>1 DEF Begun
  <1>3. N' = Cardinality(Begun')
    BY <1>1, <1>2, CallsFinite DEF Recorded
  <1>4. Done' = Done /\ PastMax' = PastMax /\ c \notin PastMax /\ Done \subseteq PastMax
    BY <1>1 DEF Done, PastMax
  <1>5. \A e \in PastMax : t'[e] = t[e]
    BY <1>1, <1>4 DEF PastMax
  <1>6. SwapRaises'
    BY <1>1 DEF SwapRaises
  <1> QED
    BY <1>1, <1>3, <1>4, <1>5, <1>6, SameBuckets DEF Recorded

LEMMA MaxRecords ==
  ASSUME TypeOK, RecordedInv, NEW c \in Calls, LoadMax(c) \/ SwapMax(c)
  PROVE  RecordedInv' /\ Max' >= Max
  <1>3. \A e \in Calls : t[e] \in Nat
    BY DurationType
  <1> USE DEF RecordedInv, TypeOK
  <1>1. /\ pc[c] \in {"loadMax", "swapMax"} /\ UNCHANGED <<N, Buckets, t>>
        /\ pc' \in [Calls -> AddPCs] /\ \A e \in Calls \ {c} : pc'[e] = pc[e]
        /\ pc'[c] \in {"loadMax", "swapMax", "bucket"}
    BY DEF LoadMax, SwapMax, Goes, dist, AddPCs
  <1>2. Begun' = Begun /\ Done' = Done
    BY <1>1 DEF Begun, Done
  <1>4. CASE pc'[c] # "bucket"
    <2>1. Max' = Max /\ PastMax' = PastMax
      BY <1>1, <1>4 DEF LoadMax, SwapMax, Goes, dist, PastMax
    <2>2. SwapRaises'
      BY <1>1, <1>3, <1>4 DEF SwapRaises, LoadMax, SwapMax, Goes
    <2> QED
      BY <1>1, <1>2, <2>1, <2>2, SameBuckets DEF Recorded
  <1>5. CASE pc'[c] = "bucket"
    <2>1. PastMax' = PastMax \cup {c}
      BY <1>1, <1>5 DEF PastMax
    <2>2. \/ Max' = Max /\ t[c] <= Max
          \/ Max' = t[c] /\ Max < t[c]
      BY <1>1, <1>3, <1>5 DEF LoadMax, SwapMax, Goes, dist, SwapRaises
    <2>3. SwapRaises'
      BY <1>1, <1>5 DEF SwapRaises, LoadMax, SwapMax, Goes
    <2>4. Max' >= Max
      BY <1>3, <2>2
    <2>5. ASSUME NEW e \in PastMax' PROVE t'[e] <= Max'
      <3>0. e \in Calls /\ t' = t
        BY <1>1 DEF PastMax
      <3>1. t'[e] = t[e] /\ t[e] \in Nat
        BY <1>3, <3>0
      <3>2. CASE e = c
        BY <2>2, <3>1, <3>2
      <3>3. CASE e \in PastMax
        <4>1. t[e] <= Max /\ t[c] \in Nat
          BY <1>3, <3>3 DEF Recorded
        <4> QED
          BY <2>2, <3>1, <4>1
      <3> QED
        BY <2>1, <3>2, <3>3
    <2>6. Max' = 0 \/ \E e \in PastMax' : t'[e] = Max'
      BY <1>1, <2>1, <2>2 DEF Recorded
    <2> QED
      BY <1>1, <1>2, <2>3, <2>4, <2>5, <2>6, SameBuckets DEF Recorded
  <1> QED
    BY <1>4, <1>5

LEMMA BucketRecords ==
  ASSUME TypeOK, RecordedInv, NEW c \in Calls, AddBucket(c)
  PROVE  RecordedInv'
  <1> USE DEF RecordedInv, TypeOK
  <1> DEFINE k == ToBucket(t[c])
  <1>1. /\ pc[c] = "bucket" /\ pc' = [pc EXCEPT ![c] = "done"]
        /\ Buckets' = [Buckets EXCEPT ![k] = @ + 1] /\ UNCHANGED <<N, Max, t, max>>
    BY ToBucketType DEF AddBucket, Goes
  <1>2. Begun' = Begun /\ PastMax' = PastMax /\ Done' = Done \cup {c} /\ c \notin Done
    BY <1>1 DEF Begun, PastMax, Done
  <1>3. SwapRaises'
    BY <1>1 DEF SwapRaises
  <1>4. ASSUME NEW i \in 0..(NB - 1)
        PROVE  Buckets'[i] = Cardinality({e \in Done' : ToBucket(t'[e]) = i})
    <2>0. Buckets[i] = Cardinality(InBucket(i))
      BY DEF Recorded, InBucket
    <2>1. CASE i = k
      <3>1. {e \in Done' : ToBucket(t'[e]) = i} = InBucket(i) \cup {c}
        BY <1>1, <1>2, <2>1 DEF InBucket
      <3>2. c \notin InBucket(i) /\ InBucket(i) \in SUBSET Calls
        BY <1>2 DEF InBucket, Done
      <3> QED
        BY <1>1, <2>0, <2>1, <3>1, <3>2, CallsFinite
    <2>2. CASE i # k
      <3>1. {e \in Done' : ToBucket(t'[e]) = i} = InBucket(i)
        BY <1>1, <1>2, <2>2 DEF InBucket
      <3> QED
        BY <1>1, <2>0, <2>2, <3>1
    <2> QED
      BY <2>1, <2>2
  <1> QED
    BY <1>1, <1>2, <1>3, <1>4 DEF Recorded

LEMMA RecordedStep ==
  ASSUME TypeOK, RecordedInv, [Next]_vars
  PROVE  RecordedInv' /\ Max' >= Max
  <1>1. CASE UNCHANGED <<dist, adds>>
    BY <1>1
       DEF TypeOK, RecordedInv, Recorded, SwapRaises, dist, adds, Begun, Done, PastMax
  <1>2. ASSUME NEW c \in Calls, NEW d \in Durations, Begin(c, d)
        PROVE  RecordedInv' /\ Max' >= Max
    <2>1. Max' >= Max
      BY <1>2 DEF Begin, TypeOK
    <2> QED
      BY <1>2, <2>1, BeginRecords
  <1>3. ASSUME NEW c \in Calls, Add(c)
        PROVE  RecordedInv' /\ Max' >= Max
    <2>1. AddBucket(c) => Max' >= Max
      BY DEF AddBucket, TypeOK
    <2> QED
      BY <1>3, <2>1, MaxRecords, BucketRecords DEF Add
  <1>4. Quantile \/ (\E p \in Quantiles : Call(p)) \/ UNCHANGED vars
        => UNCHANGED <<dist, adds>>
    BY DEF Quantile, Clamp, SetLast, Scan, Skip, Mid, ReturnMax, Call, vars
  <1> QED
    BY <1>1, <1>2, <1>3, <1>4 DEF Next

LEMMA RecordedInvariant == Spec => []RecordedInv
  <1>1. Init => RecordedInv
    <2> SUFFICES ASSUME Init PROVE RecordedInv
      OBVIOUS
    <2>1. Begun = {} /\ Done = {} /\ PastMax = {}
      BY DEF Init, Begun, Done, PastMax
    <2> QED
      BY <2>1, FS_EmptySet DEF Init, RecordedInv, Recorded, SwapRaises
  <1>2. TypeOK /\ RecordedInv /\ [Next]_vars => RecordedInv'
    BY RecordedStep
  <1> QED
    BY <1>1, <1>2, TypeCorrect, PTL DEF Spec

(***************************************************************************)
(* However many Adds run at once, and whether or not a Quantile reads      *)
(* meanwhile, N, the histogram and Max account for every call.             *)
(***************************************************************************)
THEOREM NothingLost == Spec => []Recorded
  <1>1. RecordedInv => Recorded
    BY DEF RecordedInv
  <1> QED
    BY <1>1, RecordedInvariant, PTL

\* The compare-and-swap loop never lowers Max.
THEOREM MaxOnlyGrows == Spec => MaxNeverDecreases
  <1>1. TypeOK /\ RecordedInv /\ [Next]_vars => [Max' >= Max]_vars
    BY RecordedStep
  <1> QED
    BY <1>1, TypeCorrect, RecordedInvariant, PTL DEF Spec, MaxNeverDecreases

-----------------------------------------------------------------------------
(* Quantile, where the caller waits for the Adds. *)

\* The index at which the scan looks for its sample.
LastRank == IF Rank(q) > N - 1 THEN N - 1 ELSE Rank(q)

\* The scan has taken the calls below bucket b off the rank, and stays at or
\* above zero once it has moved.
Scanned ==
    /\ n = LastRank - Cardinality(Below(b))
    /\ b > 0 => n >= 0

\* No Add is under way once Quantile has been called.
Waited == rpc # "idle" => Begun = Done

ScanInv ==
    /\ Waited
    /\ rpc = "clamp" => n = Rank(q)
    /\ rpc = "setLast" => b = 0 /\ Rank(q) > N - 1
    /\ rpc \in {"scan", "skip", "mid", "max", "done"} => Scanned
    /\ rpc = "skip" => n >= Buckets[b]
    /\ rpc \in {"mid", "max", "done"} => b < NB /\ n < Buckets[b]
    /\ rpc # "panic"

LEMMA BelowFacts ==
  ASSUME TypeOK, Recorded
  PROVE  /\ Cardinality(Below(0)) = 0
         /\ \A i \in 0..(NB - 1) : Cardinality(Below(i + 1)) = Cardinality(Below(i)) + Buckets[i]
         /\ \A i \in 0..NB : Cardinality(Below(i)) \in Nat
         /\ Below(NB) = Done
  <1>1. \A i : Below(i) \in SUBSET Calls /\ InBucket(i) \in SUBSET Calls
    BY DEF Below, InBucket, Done
  <1>2. Below(0) = {}
    BY ToBucketType, BucketsAssumption DEF Below
  <1>3. ASSUME NEW i \in 0..(NB - 1)
        PROVE  Cardinality(Below(i + 1)) = Cardinality(Below(i)) + Buckets[i]
    <2>1. Below(i + 1) = Below(i) \cup InBucket(i) /\ Below(i) \cap InBucket(i) = {}
      BY ToBucketType, BucketsAssumption DEF Below, InBucket
    <2>2. IsFiniteSet(Below(i)) /\ IsFiniteSet(InBucket(i))
      BY <1>1, CallsFinite
    <2>3. Cardinality(Below(i)) \in Nat /\ Cardinality(InBucket(i)) \in Nat
      BY <1>1, CallsFinite
    <2>4. Cardinality(Below(i + 1)) = Cardinality(Below(i)) + Cardinality(InBucket(i)) - 0
      BY <2>1, <2>2, FS_Union, FS_EmptySet
    <2>5. Buckets[i] = Cardinality(InBucket(i))
      BY DEF Recorded, InBucket
    <2> QED
      BY <2>3, <2>4, <2>5
  <1>4. Below(NB) = Done
    BY ToBucketType, BucketsAssumption DEF Below
  <1> QED
    BY <1>1, <1>2, <1>3, <1>4, CallsFinite, FS_EmptySet

LEMMA ScanStep ==
  ASSUME WaitForAdds, TypeOK, RecordedInv, ScanInv, [Next]_vars
  PROVE  ScanInv'
  <1>1. Recorded /\ Rank(q) \in Nat
    BY RankType DEF RecordedInv, TypeOK
  <1>2. CASE UNCHANGED vars
    BY <1>2 DEF ScanInv, Waited, Scanned, LastRank, Rank, Below, Begun, Done,
                vars, dist, adds, reader
  <1>3. ASSUME NEW c \in Calls, NEW d \in Durations, Begin(c, d) PROVE ScanInv'
    BY <1>3 DEF Begin, ScanInv, Waited, reader
  <1>4. ASSUME NEW c \in Calls, Add(c) PROVE ScanInv'
    <2>1. c \in Begun /\ c \notin Done
      BY <1>4 DEF Add, LoadMax, SwapMax, AddBucket, Goes, Begun, Done
    <2>2. rpc = "idle" /\ rpc' = "idle"
      BY <1>4, <2>1 DEF ScanInv, Waited, Add, LoadMax, SwapMax, AddBucket, reader
    <2> QED
      BY <2>2 DEF ScanInv, Waited
  \* From here on the calls do not move: what is below a bucket stays so.
  <1>5. ASSUME UNCHANGED <<dist, adds>>
        PROVE  /\ Begun' = Begun /\ Done' = Done /\ UNCHANGED <<N, Buckets>>
               /\ \A i : Below(i)' = Below(i)
               /\ q' = q => Rank(q)' = Rank(q) /\ LastRank' = LastRank
    BY <1>5 DEF dist, adds, Begun, Done, Below, Rank, LastRank
  <1>6. ASSUME NEW p \in Quantiles, Call(p) PROVE ScanInv'
    <2>1. /\ rpc' = "clamp" /\ q' = p /\ n' = Rank(p)
          /\ Begun = Done /\ UNCHANGED <<dist, adds>>
      BY <1>6 DEF Call
    <2>2. Rank(q)' = Rank(p)
      BY <2>1 DEF Rank, dist
    <2> QED
      BY <1>5, <2>1, <2>2 DEF ScanInv, Waited
  <1>7. CASE Clamp
    <2>1. /\ rpc = "clamp" /\ b' = 0 /\ UNCHANGED <<dist, adds, q, n>>
          /\ rpc' = IF n > N - 1 THEN "setLast" ELSE "scan"
      BY <1>7 DEF Clamp, ReaderGoes
    <2>2. Cardinality(Below(0)) = 0 /\ n = Rank(q)
      BY <1>1, <2>1, BelowFacts DEF ScanInv
    <2>3. Cardinality(Below(b)') = 0
      BY <1>5, <2>1, <2>2
    <2>4. LastRank = IF n > N - 1 THEN N - 1 ELSE n
      BY <2>2 DEF LastRank
    <2> QED
      BY <1>1, <1>5, <2>1, <2>2, <2>3, <2>4 DEF ScanInv, Waited, Scanned
  <1>8. CASE SetLast
    <2>1. /\ rpc = "setLast" /\ rpc' = "scan" /\ n' = N - 1
          /\ UNCHANGED <<dist, adds, q, b>>
      BY <1>8 DEF SetLast, ReaderGoes
    <2>2. b = 0 /\ Cardinality(Below(0)) = 0 /\ LastRank = N - 1
      BY <1>1, <2>1, BelowFacts DEF ScanInv, LastRank
    <2> QED
      BY <1>5, <2>1, <2>2 DEF ScanInv, Waited, Scanned, TypeOK
  <1>9. CASE Scan
    <2>1. /\ rpc = "scan" /\ UNCHANGED <<dist, adds, q, n, b>> /\ Scanned
          /\ rpc' = IF b = NB THEN "panic" ELSE IF n >= Buckets[b] THEN "skip" ELSE "mid"
      BY <1>9 DEF Scan, ReaderGoes, ScanInv
    <2>2. Scanned'
      BY <1>5, <2>1 DEF Scanned
    \* Below the last bucket lie all the calls, and that is more than any rank.
    <2>3. b # NB
      <3>1. SUFFICES ASSUME b = NB PROVE FALSE
        OBVIOUS
      <3>2. Cardinality(Below(b)) = N
        BY <1>1, <2>1, <3>1, BelowFacts DEF ScanInv, Waited, Recorded
      <3>3. LastRank <= N - 1
        BY <1>1 DEF LastRank, TypeOK
      <3> QED
        BY <1>1, <2>1, <3>1, <3>2, <3>3, BucketsAssumption DEF Scanned, TypeOK, LastRank
    <2> QED
      BY <1>5, <2>1, <2>2, <2>3, BucketsAssumption DEF ScanInv, Waited, TypeOK
  <1>10. CASE Skip
    <2>1. /\ rpc = "skip" /\ rpc' = "scan" /\ n' = n - Buckets[b] /\ b' = b + 1
          /\ UNCHANGED <<dist, adds, q>> /\ Scanned /\ n >= Buckets[b]
      BY <1>10 DEF Skip, ReaderGoes, ScanInv
    <2>2. b \in 0..(NB - 1) /\ Buckets[b] \in Nat /\ n \in Int
      BY <2>1, BucketsAssumption DEF TypeOK
    <2>3. Cardinality(Below(b + 1)) = Cardinality(Below(b)) + Buckets[b]
      BY <1>1, <2>2, BelowFacts
    <2>4. Cardinality(Below(b)) \in Nat
      BY <1>1, <2>2, BelowFacts, BucketsAssumption
    <2>5. LastRank' = LastRank /\ LastRank \in Int /\ Below(b)' = Below(b + 1)
      BY <1>1, <1>5, <2>1 DEF LastRank, TypeOK
    <2> QED
      BY <1>5, <2>1, <2>2, <2>3, <2>4, <2>5 DEF ScanInv, Waited, Scanned
  <1>11. CASE Mid \/ ReturnMax
    BY <1>5, <1>11 DEF Mid, ReturnMax, ReaderGoes, ScanInv, Waited, Scanned
  <1> QED
    BY <1>2, <1>3, <1>4, <1>6, <1>7, <1>8, <1>9, <1>10, <1>11 DEF Next, Quantile

LEMMA ScanInvariant == ASSUME WaitForAdds PROVE Spec => []ScanInv
  <1>1. Init => ScanInv
    BY DEF Init, ScanInv, Waited
  <1>2. TypeOK /\ RecordedInv /\ ScanInv /\ [Next]_vars => ScanInv'
    BY ScanStep
  <1> QED
    BY <1>1, <1>2, TypeCorrect, RecordedInvariant, PTL DEF Spec

(***************************************************************************)
(* Quantile called after the Adds have returned always finds its bucket:   *)
(* the scan never runs past the end of d.Buckets, for any number of calls, *)
(* buckets and quantiles.                                                  *)
(***************************************************************************)
THEOREM QuantileFindsBucket == ASSUME WaitForAdds PROVE Spec => []QuantileInRange
  <1>1. ScanInv => QuantileInRange
    BY DEF ScanInv, QuantileInRange
  <1> QED
    BY <1>1, ScanInvariant, PTL

\* A rank is the integer part of q*(N+1).
LEMMA RankBounds ==
  ASSUME N \in Nat, NEW p \in Quantiles
  PROVE  /\ p[1] \in Nat /\ p[2] \in Nat /\ p[2] > 0 /\ p[1] <= p[2]
         /\ p[2] * Rank(p) <= p[1] * (N + 1)
         /\ p[1] * (N + 1) < p[2] * (Rank(p) + 1)
  <1>1. p[1] \in Nat /\ p[2] \in Nat /\ p[2] > 0 /\ p[1] <= p[2]
    BY LatencyAssumption
  <1>2. ASSUME NEW x \in Nat, NEW y \in Nat, y > 0
        PROVE  y * (x \div y) <= x /\ x < y * ((x \div y) + 1)
    BY <1>2
  <1>3. p[1] * (N + 1) \in Nat
    BY <1>1
  <1> QED
    BY <1>1, <1>2, <1>3 DEF Rank

(***************************************************************************)
(* And the bucket it finds contains the quantile, or is too high by less   *)
(* than one sample, for any number of calls, buckets and quantiles.        *)
(***************************************************************************)
THEOREM QuantileFindsRank == ASSUME WaitForAdds PROVE Spec => []QuantileIsRanked
  <1>1. TypeOK /\ RecordedInv /\ ScanInv => QuantileIsRanked
    <2> SUFFICES ASSUME TypeOK, RecordedInv, ScanInv, rpc = "done", N > 0
                 PROVE  /\ q[1] * N <= q[2] * Cardinality(Below(b + 1))
                        /\ q[2] * Cardinality(Below(b)) <= q[1] * (N + 1)
      BY DEF QuantileIsRanked
    <2>1. b \in 0..(NB - 1) /\ n < Buckets[b] /\ Scanned
      BY BucketsAssumption DEF ScanInv, TypeOK
    <2>2. LastRank \in Nat /\ Rank(q) \in Nat /\ N \in Nat /\ q \in Quantiles
      BY RankType DEF LastRank, TypeOK
    <2>3. /\ Cardinality(Below(0)) = 0 /\ Cardinality(Below(b)) \in Nat
          /\ Cardinality(Below(b + 1)) = Cardinality(Below(b)) + Buckets[b]
      BY <2>1, BelowFacts, BucketsAssumption DEF RecordedInv
    \* The sample at the index LastRank lies in the bucket.
    <2>4. /\ Cardinality(Below(b)) <= LastRank
          /\ LastRank + 1 <= Cardinality(Below(b + 1)) /\ Cardinality(Below(b + 1)) \in Nat
      BY <2>1, <2>2, <2>3 DEF Scanned, TypeOK
    <2>5. ASSUME NEW x \in Nat, NEW y \in Nat, y > 0, x <= y,
                 NEW r \in Nat, y * r <= x * (N + 1), x * (N + 1) < y * (r + 1),
                 NEW k \in Nat, k = N - 1 \/ k = r, k <= r,
                 NEW lo \in Nat, NEW hi \in Nat, lo <= k, k + 1 <= hi
          PROVE  x * N <= y * hi /\ y * lo <= x * (N + 1)
      <3>1. y * lo <= y * r
        BY <2>5
      <3>2. CASE k = r
        <4>1. y * (r + 1) <= y * hi
          BY <2>5, <3>2
        <4>2. x * N <= x * (N + 1)
          BY <2>2, <2>5
        <4> QED
          BY <2>2, <2>5, <3>1, <4>1, <4>2
      <3>3. CASE k = N - 1
        <4>1. x * N <= y * N
          BY <2>2, <2>5
        <4>2. y * N <= y * hi
          BY <2>2, <2>5, <3>3
        <4> QED
          BY <2>2, <2>5, <3>1, <4>1, <4>2
      <3> QED
        BY <2>5, <3>2, <3>3
    <2>6. LastRank <= Rank(q) /\ (LastRank = N - 1 \/ LastRank = Rank(q))
      BY <2>2 DEF LastRank
    <2> QED
      BY <2>2, <2>3, <2>4, <2>5, <2>6, RankBounds
  <1> QED
    BY <1>1, ScanInvariant, TypeCorrect, RecordedInvariant, PTL

-----------------------------------------------------------------------------
(* What Quantile answers. *)

\* The truncated bounds of a bucket are in order.
LEMMA BucketBounds ==
  ASSUME NEW i \in 0..(NB - 1)
  PROVE  /\ FromBucket(i).lo \in Nat /\ FromBucket(i).hi \in Nat
         /\ FromBucket(i).lo <= FromBucket(i).hi
  <1> DEFINE Roots(k) == {x \in 1..LM : x^NB <= LM^k}
  <1>0. NB \in Nat /\ LM \in Nat /\ i \in 0..NB /\ i + 1 \in 0..NB /\ i <= i + 1
    BY BucketsAssumption
  <1>1. IsFiniteSet(1..LM)
    BY FS_Interval, <1>0
  <1>2. \A k : Roots(k) \subseteq 1..LM
    OBVIOUS
  <1>3. LM^i <= LM^(i + 1)
    BY <1>0, PowersAssumption
  <1>9. LM^i \in Int /\ LM^(i + 1) \in Int
    <2>1. LM \in Nat \ {0} /\ i \in Nat /\ i + 1 \in Nat
      BY <1>0, BucketsAssumption
    <2> QED
      BY <2>1
  <1>4. \A x \in 1..LM : x^NB \in Int
    BY <1>0
  <1>5. Roots(i) \subseteq Roots(i + 1)
    BY <1>3, <1>4, <1>9
  <1> HIDE DEF Roots
  <1>6. IsFiniteSet(Roots(i)) /\ IsFiniteSet(Roots(i + 1))
    BY <1>1, <1>2, FS_Subset
  <1>7. /\ Cardinality(Roots(i)) \in Nat /\ Cardinality(Roots(i + 1)) \in Nat
        /\ Cardinality(Roots(i)) <= Cardinality(Roots(i + 1))
    BY <1>5, <1>6, FS_Subset, FS_CardinalityType
  <1>8. Power(i) = Cardinality(Roots(i)) /\ Power(i + 1) = Cardinality(Roots(i + 1))
    BY DEF Power, Roots
  <1> QED
    BY <1>7, <1>8 DEF FromBucket

\* A duration is no less than the truncated lower bound of its bucket.
LEMMA InItsBucket ==
  ASSUME NEW d \in Nat
  PROVE  FromBucket(ToBucket(d)).lo <= d
  <1> DEFINE k == ToBucket(d)
             Reached == {j \in 1..NB : LM^j <= d^NB}
             Roots == {x \in 1..LM : x^NB <= LM^k}
  <1>0. NB \in Nat \ {0} /\ LM \in Nat \ {0, 1} /\ k \in 0..(NB - 1)
    BY BucketsAssumption, ToBucketType
  <1>1. CASE k = 0
    BY <1>1 DEF FromBucket
  <1>2. CASE k # 0 /\ d > LM
    <2>3. IsFiniteSet(1..LM) /\ Cardinality(1..LM) = LM
      <3>1. LM \in Nat /\ 1 \in Int
        BY BucketsAssumption
      <3> QED
        BY <3>1, FS_Interval
    <2>1. Roots \subseteq 1..LM
      OBVIOUS
    <2> HIDE DEF Roots
    <2>2. Cardinality(Roots) <= LM /\ Cardinality(Roots) \in Nat
      BY <2>1, <2>3, FS_Subset, FS_CardinalityType
    <2> QED
      BY <1>0, <1>2, <2>2 DEF FromBucket, Power, Roots
  <1>3. CASE k # 0 /\ ~(d > LM)
    <2>1. d \in 1..LM
      BY <1>0, <1>3 DEF ToBucket
    <2>2. Cardinality(Reached) >= k
      <3>1. LogBucket(d) = Cardinality(Reached)
        BY DEF LogBucket
      <3>2. IsFiniteSet(1..NB) /\ Reached \subseteq 1..NB
        BY <1>0, FS_Interval
      <3>3. Cardinality(Reached) \in Nat
        BY <3>2, FS_Subset, FS_CardinalityType
      <3> QED
        BY <1>0, <1>3, <3>1, <3>3 DEF ToBucket
    <2>3. \A j \in 0..NB : LM^j \in Int
      BY <1>0
    <2>4. \A x \in 1..LM : x^NB \in Int
      BY <1>0
    \* Otherwise fewer powers than k would be reached.
    <2>5. LM^k <= d^NB
      <3> SUFFICES ASSUME ~(LM^k <= d^NB) PROVE FALSE
        OBVIOUS
      <3>1. \A j \in 1..NB : k <= j => LM^k <= LM^j
        BY <1>0, PowersAssumption
      <3>2. ASSUME NEW j \in Reached PROVE j \in 1..(k - 1)
        <4>1. j \in 1..NB /\ LM^j <= d^NB
          OBVIOUS
        <4>2. LM^j \in Int /\ LM^k \in Int /\ d^NB \in Int
          BY <1>0, <2>1, <2>3, <2>4
        <4>3. ~(k <= j)
          BY <3>1, <4>1, <4>2
        <4> QED
          BY <1>0, <4>1, <4>3
      <3>3. IsFiniteSet(1..(k - 1)) /\ Cardinality(1..(k - 1)) = k - 1
        <4> HIDE DEF k
        <4>1. k - 1 \in Nat
          BY <1>0, <1>3
        <4> QED
          BY <4>1, FS_Interval
      <3>6. Reached \subseteq 1..(k - 1)
        BY <3>2
      <3> HIDE DEF Reached
      <3>7. PICK below : below = 1..(k - 1)
        OBVIOUS
      <3>8. IsFiniteSet(below) /\ Reached \in SUBSET below /\ Cardinality(below) = k - 1
        BY <3>3, <3>6, <3>7
      <3>9. IsFiniteSet(Reached) /\ Cardinality(Reached) <= Cardinality(below)
        BY <3>8, FS_Subset
      <3>4. Cardinality(Reached) <= k - 1
        BY <3>8, <3>9
      <3>5. Cardinality(Reached) \in Nat
        BY <3>9, FS_CardinalityType
      <3> QED
        BY <1>0, <2>2, <3>4, <3>5
    <2>6. ASSUME NEW x \in Roots PROVE x \in 1..d
      <3>1. x \in 1..LM /\ x^NB <= LM^k
        OBVIOUS
      <3>2. x^NB \in Int /\ LM^k \in Int /\ d^NB \in Int
        BY <1>0, <2>1, <2>3, <2>4, <3>1
      <3>3. d < x => d^NB < x^NB
        BY <2>1, <3>1, PowersAssumption
      <3> QED
        BY <2>1, <2>5, <3>1, <3>2, <3>3
    <2>7. IsFiniteSet(1..d) /\ Cardinality(1..d) = d
      BY FS_Interval
    <2>8. Cardinality(Roots) <= d
      BY <2>6, <2>7, FS_Subset
    <2> QED
      BY <1>3, <2>8 DEF FromBucket, Power
  <1> QED
    BY <1>1, <1>2, <1>3

\* What is about to be, or has been, answered.
Answering ==
    /\ rpc = "max" => Midpoint(b) > Max
    /\ rpc = "done" => \/ result = Midpoint(b) /\ result <= Max
                       \/ result = Max /\ Midpoint(b) > Max

LEMMA AnsweringStep ==
  ASSUME WaitForAdds, TypeOK, ScanInv, Answering, [Next]_vars
  PROVE  Answering'
  <1>1. CASE UNCHANGED vars
    BY <1>1 DEF vars, dist, reader, Answering
  <1>2. ASSUME NEW c \in Calls, NEW d \in Durations, Begin(c, d) PROVE Answering'
    BY <1>2 DEF Begin, Answering, reader
  <1>3. ASSUME NEW c \in Calls, Add(c) PROVE Answering'
    <2>1. c \in Begun /\ c \notin Done
      BY <1>3 DEF Add, LoadMax, SwapMax, AddBucket, Goes, Begun, Done
    <2>2. rpc = "idle" /\ rpc' = "idle"
      BY <1>3, <2>1 DEF ScanInv, Waited, Add, LoadMax, SwapMax, AddBucket, reader
    <2> QED
      BY <2>2 DEF Answering
  <1>4. CASE Mid
    BY <1>4, MidpointType DEF Mid, ReaderGoes, Answering, dist, TypeOK
  <1>5. CASE ReturnMax
    BY <1>5 DEF ReturnMax, ReaderGoes, Answering, dist
  <1>6. CASE Clamp \/ SetLast \/ Scan \/ Skip \/ \E p \in Quantiles : Call(p)
    BY <1>6 DEF Clamp, SetLast, Scan, Skip, Call, ReaderGoes, Answering
  <1> QED
    BY <1>1, <1>2, <1>3, <1>4, <1>5, <1>6 DEF Next, Quantile

(***************************************************************************)
(* The answer lies within the bounds of the bucket found, although it is   *)
(* cut off at the maximum, and some sample is at least as large, for any   *)
(* durations, numbers of calls and of buckets (lat.go:226-246).            *)
(***************************************************************************)
THEOREM QuantileStaysInBucket == ASSUME WaitForAdds PROVE Spec => []QuantileInBounds
  <1>1. Init => Answering
    BY DEF Init, Answering
  <1>2. TypeOK /\ ScanInv /\ Answering /\ [Next]_vars => Answering'
    BY AnsweringStep
  <1>3. TypeOK /\ RecordedInv /\ ScanInv /\ Answering => QuantileInBounds
    <2> SUFFICES ASSUME TypeOK, RecordedInv, ScanInv, Answering, rpc = "done", N > 0
                 PROVE  /\ FromBucket(b).lo <= result /\ result <= FromBucket(b).hi
                        /\ \E c \in Done : result <= t[c]
      BY DEF QuantileInBounds
    <2> DEFINE lo == FromBucket(b).lo
               hi == FromBucket(b).hi
    <2>1. b \in 0..(NB - 1) /\ n < Buckets[b] /\ Scanned /\ Begun = Done
      BY BucketsAssumption DEF ScanInv, TypeOK, Waited
    <2>2. lo \in Nat /\ hi \in Nat /\ lo <= hi /\ Midpoint(b) = (lo + hi) \div 2
      BY <2>1, BucketBounds DEF Midpoint
    <2>3. lo <= Midpoint(b) /\ Midpoint(b) <= hi /\ Midpoint(b) \in Int
      <3> HIDE DEF lo, hi
      <3> QED
        BY <2>2
    <2>4. \A c \in Done : c \in PastMax /\ c \in Calls /\ t[c] \in Nat /\ t[c] <= Max
      BY DurationType DEF RecordedInv, Recorded, Done, PastMax
    \* The rank was not used up, so the bucket found is not empty.
    <2>5. PICK c \in Done : ToBucket(t[c]) = b
      <3>1. LastRank \in Nat
        BY RankType DEF LastRank, TypeOK
      <3>2. Cardinality(Below(0)) = 0
        BY BelowFacts DEF RecordedInv
      <3>3. n >= 0
        BY <2>1, <3>1, <3>2 DEF Scanned, TypeOK
      <3>4. Buckets[b] # 0 /\ Buckets[b] = Cardinality(InBucket(b))
        BY <2>1, <3>3 DEF TypeOK, RecordedInv, Recorded, InBucket
      <3>5. InBucket(b) # {}
        BY <3>4, FS_EmptySet
      <3> QED
        BY <3>5 DEF InBucket
    <2>6. lo <= t[c] /\ t[c] <= Max
      BY <2>4, <2>5, InItsBucket
    <2>7. lo <= Max /\ Max \in Nat
      BY <2>2, <2>4, <2>6 DEF TypeOK
    <2>8. lo <= result /\ result <= hi /\ result <= Max /\ result \in Int
      BY <2>2, <2>3, <2>7 DEF Answering, TypeOK
    <2>9. \E e \in Done : Max <= t[e]
      <3>1. CASE Max = 0
        BY <2>4, <2>5, <3>1
      <3>2. CASE Max # 0
        <4>1. PICK e \in PastMax : t[e] = Max
          BY <3>2 DEF RecordedInv, Recorded
        <4>2. e \in Done
          BY <2>1 DEF PastMax, Begun
        <4> QED
          BY <2>7, <4>1, <4>2
      <3> QED
        BY <3>1, <3>2
    <2>10. \E e \in Done : result <= t[e]
      BY <2>4, <2>7, <2>8, <2>9
    <2> QED
      BY <2>8, <2>10
  <1> QED
    BY <1>1, <1>2, <1>3, ScanInvariant, TypeCorrect, RecordedInvariant, PTL DEF Spec

\* An answer never exceeds the maximum, even one computed during Adds.
THEOREM AnswersBelowMax == Spec => []QuantileBelowMax
  <1>1. Init => QuantileBelowMax
    BY DEF Init, QuantileBelowMax
  <1>2. ASSUME TypeOK, RecordedInv, QuantileBelowMax, [Next]_vars
        PROVE  QuantileBelowMax'
    <2>1. Max' >= Max /\ Max \in Int /\ Max' \in Int /\ result \in Int
      BY <1>2, RecordedStep, TypeStep DEF TypeOK
    <2>2. CASE UNCHANGED result /\ (rpc' = "done" => rpc = "done")
      BY <1>2, <2>1, <2>2 DEF QuantileBelowMax
    <2>3. CASE Mid \/ ReturnMax
      BY <2>1, <2>3, MidpointType DEF Mid, ReturnMax, ReaderGoes, QuantileBelowMax, dist
    <2> QED
      BY <1>2, <2>2, <2>3
         DEF Next, Quantile, Clamp, SetLast, Scan, Skip, Call, ReaderGoes,
             Add, LoadMax, SwapMax, AddBucket, Begin, reader, vars
  <1> QED
    BY <1>1, <1>2, TypeCorrect, RecordedInvariant, PTL DEF Spec
=============================================================================
