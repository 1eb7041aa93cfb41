-------------------------- MODULE LatencyHistProofs --------------------------
(***************************************************************************)
(* Proofs about LatencyHist, for any distribution, size of the plot and    *)
(* number of goroutines that record meanwhile: printing conserves the      *)
(* samples, the bars show the columns, and a plot panics only at its edges.*)
(***************************************************************************)
EXTENDS LatencyHist, FiniteSetTheorems, TLAPS

-----------------------------------------------------------------------------
(***************************************************************************)
(* Induction.  The library's induction theorems take an operator; these    *)
(* take the set of what is true, so that the provers can use them.         *)
(***************************************************************************)
LEMMA Least ==
    ASSUME NEW T \in SUBSET Nat, T # {}
    PROVE  \E x \in T : \A y \in T : x <= y
<1> DEFINE R == {ss \in Nat \X Nat : ss[1] < ss[2]}
<1>1. IsWellFoundedOn(R, Nat)
  BY NatLessThanWellFounded DEF OpToRel
<1>2. PICK x \in T : \A y \in T : <<y, x>> \notin R
  BY <1>1, WFMin
<1>3. ASSUME NEW y \in T PROVE x <= y
  <2>1. x \in Nat /\ y \in Nat /\ <<y, x>> \notin R
    BY <1>2
  <2> QED
    BY <2>1
<1> QED
  BY <1>3

LEMMA NumberInduction ==
    ASSUME NEW Good, 0 \in Good, \A n \in Nat : n \in Good => n + 1 \in Good
    PROVE  Nat \subseteq Good
<1> SUFFICES ASSUME ~(Nat \subseteq Good) PROVE FALSE
  OBVIOUS
<1> DEFINE T == Nat \ Good
<1>1. PICK x \in T : \A y \in T : x <= y
  BY Least
<1>2. x \in Nat \ {0}
  OBVIOUS
<1>3. x - 1 \in Nat /\ ~(x <= x - 1)
  BY <1>2
<1>4. x - 1 \in Good
  BY <1>1, <1>3
<1>5. (x - 1) + 1 = x
  BY <1>2
<1> QED
  BY <1>3, <1>4, <1>5

\* A set of subsets that holds the empty one, and each of which all parts with
\* one element less are in it, holds them all.
LEMMA SubsetInduction ==
    ASSUME NEW S, IsFiniteSet(S), NEW Good, {} \in Good,
           \A s \in SUBSET S : (s # {} /\ \A x \in s : s \ {x} \in Good) => s \in Good
    PROVE  SUBSET S \subseteq Good
<1> SUFFICES ASSUME ~(SUBSET S \subseteq Good) PROVE FALSE
  OBVIOUS
<1> DEFINE Bad == (SUBSET S) \ Good
           T == {Cardinality(s) : s \in Bad}
<1>1. \A s \in SUBSET S : IsFiniteSet(s) /\ Cardinality(s) \in Nat
  BY FS_Subset, FS_CardinalityType
<1>2. T \in SUBSET Nat /\ T # {}
  BY <1>1
<1>3. PICK k \in T : \A j \in T : k <= j
  BY <1>2, Least
<1>4. PICK s \in Bad : k = Cardinality(s)
  BY <1>3
<1>5. ASSUME NEW x \in s PROVE s \ {x} \in Good
  <2>1. s \ {x} \in SUBSET S
    BY <1>4
  <2>2. Cardinality(s \ {x}) = Cardinality(s) - 1
    BY <1>1, <1>4, FS_RemoveElement
  <2>3. Cardinality(s) \in Nat
    BY <1>1, <1>4
  <2>4. ~(k <= Cardinality(s \ {x}))
    BY <1>4, <2>2, <2>3
  <2> QED
    BY <1>3, <2>1, <2>4
<1>6. s # {} /\ s \in SUBSET S /\ s \notin Good
  BY <1>4
<1> QED
  BY <1>5, <1>6

-----------------------------------------------------------------------------
(* Totals. *)

\* The partial totals of f that Total is defined by.
Partial(f) ==
    LET iter[s \in SUBSET (DOMAIN f)] ==
          IF s = {} THEN 0
          ELSE LET x == CHOOSE x \in s : TRUE IN f[x] + iter[s \ {x}]
    IN  iter

LEMMA TotalIs == ASSUME NEW f PROVE Total(f) = Partial(f)[DOMAIN f]
BY DEF Total, FoldFunction, FoldFunctionOnSet, MapThenFoldSet, Partial

Some(s) == CHOOSE x \in s : TRUE

\* The total of a part is that of the part without an element, and the element.
LEMMA PartialIs ==
    ASSUME NEW f, IsFiniteSet(DOMAIN f), NEW s \in SUBSET (DOMAIN f)
    PROVE  Partial(f)[s] = IF s = {} THEN 0 ELSE f[Some(s)] + Partial(f)[s \ {Some(s)}]
<1> DEFINE S == DOMAIN f
           Sum(g, u) == IF u = {} THEN 0 ELSE f[Some(u)] + g[u \ {Some(u)}]
           UpTo(n) == {u \in SUBSET S : Cardinality(u) <= n}
           Good == {n \in Nat : \E g : \A u \in UpTo(n) : g[u] = Sum(g, u)}
<1>1. \A u \in SUBSET S : IsFiniteSet(u) /\ Cardinality(u) \in Nat
  BY FS_Subset, FS_CardinalityType
<1>2. \A u \in SUBSET S : u # {} => /\ Some(u) \in u /\ u \ {Some(u)} \in SUBSET S
                                    /\ Cardinality(u \ {Some(u)}) = Cardinality(u) - 1
  BY <1>1, FS_RemoveElement DEF Some
<1>3. 0 \in Good
  <2> DEFINE g == [u \in SUBSET S |-> 0]
  <2>1. \A u \in UpTo(0) : u = {} /\ g[u] = 0
    BY <1>1, FS_EmptySet
  <2>2. \A u \in UpTo(0) : g[u] = Sum(g, u)
    BY <2>1
  <2> QED
    BY <2>2
<1>4. ASSUME NEW n \in Nat, n \in Good PROVE n + 1 \in Good
  <2>1. PICK g : \A u \in UpTo(n) : g[u] = Sum(g, u)
    BY <1>4
  <2> DEFINE h == [u \in SUBSET S |-> Sum(g, u)]
  <2>2. ASSUME NEW u \in UpTo(n + 1), u # {} PROVE h[u] = Sum(h, u)
    <3>1. u \ {Some(u)} \in UpTo(n)
      BY <1>1, <1>2, <2>2
    <3>2. g[u \ {Some(u)}] = h[u \ {Some(u)}]
      BY <2>1, <3>1
    <3> QED
      BY <2>2, <3>2
  <2>3. \A u \in UpTo(n + 1) : h[u] = Sum(h, u)
    BY <2>2
  <2> HIDE DEF h, UpTo
  <2>4. n + 1 \in Nat
    OBVIOUS
  <2> QED
    BY <2>3, <2>4, Zenon
<1>5. Cardinality(S) \in Good
  <2> HIDE DEF Good
  <2> QED
    BY <1>1, <1>3, <1>4, NumberInduction
<1>6. PICK g : \A u \in SUBSET S : g[u] = Sum(g, u)
  <2>1. UpTo(Cardinality(S)) = SUBSET S
    BY FS_Subset
  <2> QED
    BY <1>5, <2>1
<1> DEFINE h == [u \in SUBSET S |-> Sum(g, u)]
<1>7. h = [u \in SUBSET S |-> Sum(h, u)]
  <2>1. \A u \in SUBSET S : h[u] = g[u]
    BY <1>6
  <2>2. \A u \in SUBSET S : Sum(h, u) = Sum(g, u)
    BY <1>2, <2>1
  <2> QED
    BY <2>2
<1> HIDE DEF h
<1>8. \A p : p = [u \in SUBSET S |-> Sum(p, u)]
         => Partial(f) = [u \in SUBSET S |-> Sum(Partial(f), u)]
  BY ZenonT(30) DEF Partial, Some
<1>9. Partial(f) = [u \in SUBSET S |-> Sum(Partial(f), u)]
  BY <1>7, <1>8
<1> QED
  BY <1>9

\* Totals of integers are integers, of nothing zero, and in the order of what
\* is added up.
LEMMA PartialFacts ==
    ASSUME NEW S, IsFiniteSet(S), NEW f \in [S -> Int], NEW g \in [S -> Int],
           \A x \in S : f[x] <= g[x],
           NEW s \in SUBSET S
    PROVE  /\ Partial(f)[s] \in Int /\ Partial(g)[s] \in Int
           /\ Partial(f)[s] <= Partial(g)[s]
           /\ (\A x \in S : f[x] = 0) => Partial(f)[s] = 0
<1> DEFINE Good == {u \in SUBSET S : /\ Partial(f)[u] \in Int /\ Partial(g)[u] \in Int
                                     /\ Partial(f)[u] <= Partial(g)[u]
                                     /\ (\A x \in S : f[x] = 0) => Partial(f)[u] = 0}
<1>1. \A u \in SUBSET S :
        /\ Partial(f)[u] = IF u = {} THEN 0 ELSE f[Some(u)] + Partial(f)[u \ {Some(u)}]
        /\ Partial(g)[u] = IF u = {} THEN 0 ELSE g[Some(u)] + Partial(g)[u \ {Some(u)}]
  BY PartialIs
<1>2. {} \in Good
  BY <1>1
<1>3. ASSUME NEW u \in SUBSET S, u # {}, \A x \in u : u \ {x} \in Good
      PROVE  u \in Good
  <2>1. Some(u) \in u /\ Some(u) \in S
    BY <1>3 DEF Some
  <2>2. f[Some(u)] \in Int /\ g[Some(u)] \in Int /\ f[Some(u)] <= g[Some(u)]
    BY <2>1
  <2>3. u \ {Some(u)} \in Good
    BY <1>3, <2>1
  <2> QED
    BY <1>1, <1>3, <2>1, <2>2, <2>3, SMTT(20)
<1>4. SUBSET S \subseteq Good
  <2> HIDE DEF Good
  <2> QED
    BY <1>2, <1>3, SubsetInduction
<1> QED
  BY <1>4

\* g is f with d added to what x has.
AddedTo(S, f, g, x, d) == \A y \in S : g[y] = IF y = x THEN f[y] + d ELSE f[y]

\* What is added to one of the numbers is added to the total.
LEMMA PartialAdds ==
    ASSUME NEW S, IsFiniteSet(S), NEW f \in [S -> Int], NEW x \in S, NEW d \in Int,
           NEW g \in [S -> Int], AddedTo(S, f, g, x, d), NEW s \in SUBSET S
    PROVE  Partial(g)[s] = Partial(f)[s] + (IF x \in s THEN d ELSE 0)
<1> DEFINE Good == {u \in SUBSET S : Partial(g)[u] = Partial(f)[u] + (IF x \in u THEN d ELSE 0)}
<1>1. \A u \in SUBSET S :
        /\ Partial(f)[u] = IF u = {} THEN 0 ELSE f[Some(u)] + Partial(f)[u \ {Some(u)}]
        /\ Partial(g)[u] = IF u = {} THEN 0 ELSE g[Some(u)] + Partial(g)[u \ {Some(u)}]
  BY PartialIs
<1>2. \A u \in SUBSET S : Partial(f)[u] \in Int
  BY PartialFacts
<1>3. {} \in Good
  <2>1. Partial(f)[{}] = 0 /\ Partial(g)[{}] = 0 /\ x \notin {}
    BY <1>1
  <2> QED
    BY <2>1
<1>4. ASSUME NEW u \in SUBSET S, u # {}, \A y \in u : u \ {y} \in Good
      PROVE  u \in Good
  <2> DEFINE y == Some(u)
             v == u \ {y}
  <2>1. y \in u /\ y \in S
    BY <1>4 DEF Some
  <2>2. v \in SUBSET S /\ v \in Good
    BY <1>4, <2>1
  <2> HIDE DEF y
  <2>3. f[y] \in Int /\ Partial(f)[v] \in Int /\ Partial(g)[v] = Partial(f)[v] + (IF x \in v THEN d ELSE 0)
    BY <1>2, <2>1, <2>2
  <2>4. g[y] = IF y = x THEN f[y] + d ELSE f[y]
    BY <2>1 DEF AddedTo
  <2>5. Partial(f)[u] = f[y] + Partial(f)[v] /\ Partial(g)[u] = g[y] + Partial(g)[v]
    BY <1>1, <1>4 DEF y
  <2>6. CASE y = x
    BY <2>1, <2>3, <2>4, <2>5, <2>6
  <2>7. CASE y # x
    BY <2>1, <2>3, <2>4, <2>5, <2>7
  <2> QED
    BY <2>6, <2>7
<1>5. SUBSET S \subseteq Good
  <2> HIDE DEF Good
  <2> QED
    BY <1>3, <1>4, SubsetInduction
<1> QED
  BY <1>5

\* Each for the whole of a function.
LEMMA TotalInt ==
    ASSUME NEW S, IsFiniteSet(S), NEW f \in [S -> Int]
    PROVE  Total(f) \in Int
<1>1. \A x \in S : f[x] <= f[x]
  OBVIOUS
<1> QED
  BY <1>1, PartialFacts, TotalIs

LEMMA TotalZero ==
    ASSUME NEW S, IsFiniteSet(S)
    PROVE  Total([x \in S |-> 0]) = 0
<1> DEFINE f == [x \in S |-> 0]
<1>1. f \in [S -> Int] /\ \A x \in S : f[x] = 0 /\ f[x] <= f[x]
  OBVIOUS
<1>2. DOMAIN f = S
  OBVIOUS
<1> HIDE DEF f
<1>3. Partial(f)[S] = 0
  BY <1>1, PartialFacts
<1>4. Total(f) = 0
  BY <1>2, <1>3, TotalIs
<1> QED
  BY <1>4 DEF f

LEMMA TotalOrder ==
    ASSUME NEW S, IsFiniteSet(S), NEW f \in [S -> Int], NEW g \in [S -> Int],
           \A x \in S : f[x] <= g[x]
    PROVE  Total(f) <= Total(g)
BY PartialFacts, TotalIs

LEMMA TotalNat ==
    ASSUME NEW S, IsFiniteSet(S), NEW f \in [S -> Nat]
    PROVE  Total(f) \in Nat
<1> DEFINE zero == [x \in S |-> 0]
<1>1. zero \in [S -> Int] /\ f \in [S -> Int] /\ \A x \in S : zero[x] <= f[x]
  OBVIOUS
<1>2. Total(zero) = 0
  BY TotalZero
<1> HIDE DEF zero
<1>3. 0 <= Total(f) /\ Total(f) \in Int
  BY <1>1, <1>2, TotalOrder, TotalInt
<1> QED
  BY <1>3

LEMMA TotalAdds ==
    ASSUME NEW S, IsFiniteSet(S), NEW f \in [S -> Int], NEW x \in S, NEW d \in Int,
           NEW g \in [S -> Int], AddedTo(S, f, g, x, d)
    PROVE  Total(g) = Total(f) + d
<1>1. \A s \in SUBSET S : Partial(g)[s] = Partial(f)[s] + (IF x \in s THEN d ELSE 0)
  BY PartialAdds
<1>2. Partial(g)[S] = Partial(f)[S] + d
  BY <1>1
<1>3. DOMAIN g = S /\ DOMAIN f = S
  OBVIOUS
<1> QED
  BY <1>2, <1>3, TotalIs

-----------------------------------------------------------------------------
(* The print in progress. *)

PrintTypes ==
    /\ Buckets \in [Bs -> Nat]
    /\ form \in {"table", "plot"}
    /\ pc \in {"bounds", "table", "load", "spread", "ticks", "done", "panic"}
    /\ i \in 0..NB /\ minb \in -1..(NB - 1) /\ maxb \in 1..NB
    /\ count \in Nat /\ right \in Int /\ col \in Int
    /\ cols \in [Columns -> Int]
    /\ before \in Nat /\ seen \in Nat /\ drawn \in Int

\* Where the loop over buckets is, and within what range.
Ranged ==
    /\ pc = "bounds" => minb < i /\ (minb # -1 => maxb <= i)
    /\ minb # -1 => minb < maxb
    /\ minb = -1 => pc \in {"bounds", "done"}
    /\ pc = "table" => minb <= i /\ i < maxb /\ form = "table"
    /\ pc \in {"load", "spread"} => minb <= i /\ i <= maxb /\ form = "plot"
    /\ pc = "spread" => i < maxb
    /\ pc = "ticks" => i = maxb /\ form = "plot"
    /\ (pc = "done" /\ minb # -1) => i = maxb

\* What the columns hold: all that was read, but for the rest of the bucket
\* being spread, which is what lies right of the column it has come to.
Shared ==
    /\ pc \notin {"spread", "panic"} => drawn = seen
    /\ form = "plot" => drawn = Total(cols)
    /\ pc = "spread" => Left < right /\ drawn = seen - count + PartialCount(col)

PrintInv == PrintTypes /\ Ranged /\ Shared

LEMMA Finite == IsFiniteSet(Bs) /\ IsFiniteSet(Columns)
<1>1. NB - 1 \in Int /\ Width - 1 \in Int /\ 0 \in Int
  BY BucketsAssumption, HistAssumption
<1> QED
  BY <1>1, FS_Interval DEF Bs, Columns

\* The column a position lies in.
LEMMA ColumnOf ==
    ASSUME NEW a \in Nat, NEW d \in Nat \ {0}, NEW w \in Nat, a < w * d
    PROVE  a \div d \in 0..(w - 1) /\ (a \div d) * d <= a
<1> DEFINE k == a \div d
           m == a % d
<1>1. a = d * k + m /\ m \in 0..(d - 1) /\ k \in Nat
  OBVIOUS
<1> HIDE DEF k, m
<1>2. k * d <= a
  BY <1>1
<1>3. k < w
  <2> SUFFICES ASSUME w <= k PROVE FALSE
    BY <1>1
  <2>1. PICK e \in Nat : k = w + e
    BY <1>1
  <2>2. k * d = w * d + e * d /\ e * d \in Nat /\ w * d \in Nat
    BY <2>1
  <2> QED
    BY <1>2, <2>2
<1> QED
  BY <1>1, <1>2, <1>3 DEF k

\* The geometry of the plot: bucket i starts within it, and has some width.
LEMMA Geometry ==
    ASSUME PrintTypes, Ranged, pc \in {"load", "spread"}, i < maxb
    PROVE  /\ D \in Nat \ {0} /\ Left \in Nat /\ Edge \in Nat /\ Edge = Width * D
           /\ Left < Edge
           /\ \A r \in Rights : Clip(r) \in Int /\ Left <= Clip(r) /\ Clip(r) <= Edge
<1> DEFINE w == Width * Fine
           m == maxb - minb
           k == i - minb
<1>1. Width \in Nat \ {0} /\ Fine \in Nat \ {0}
  BY HistAssumption
<1>2. m \in Nat \ {0} /\ k \in Nat /\ k < m /\ (i + 1 < maxb <=> k + 1 < m)
  BY DEF PrintTypes, Ranged
<1>3. w \in Nat \ {0}
  BY <1>1
<1>4. D = m * Fine /\ Left = k * w /\ Edge = m * w
  BY <1>1, <1>2 DEF D, Left, Edge
<1>5. D \in Nat \ {0}
  BY <1>1, <1>2, <1>4
<1> HIDE DEF w, m, k
<1>6. PICK e \in Nat : m = k + 1 + e
  BY <1>2
<1>7. /\ k * w \in Nat /\ m * w \in Nat /\ e * w \in Nat
      /\ m * w = k * w + w + e * w
  BY <1>2, <1>3, <1>6
<1>8. ASSUME NEW r \in Rights
      PROVE  Clip(r) \in Int /\ Left <= Clip(r) /\ Clip(r) <= Edge
  <2>1. CASE i + 1 < maxb
    BY <1>3, <1>4, <1>7, <1>8, <2>1 DEF Rights, Clip, w
  <2>2. CASE ~(i + 1 < maxb)
    BY <1>3, <1>4, <1>7, <1>8, <2>2 DEF Rights, Clip
  <2> QED
    BY <2>1, <2>2
<1> QED
  BY <1>3, <1>4, <1>5, <1>7, <1>8 DEF Edge

\* The fast path adds to a column of the plot (lat.go:120-125).
LEMMA WithinColumns ==
    ASSUME PrintTypes, Ranged, NEW r \in Rights, LoadWithin(r)
    PROVE  /\ LeftColumn \in Columns
           /\ cols' = [cols EXCEPT ![LeftColumn] = @ + Buckets[i]]
           /\ drawn' = drawn + Buckets[i] /\ i' = i + 1 /\ pc' = pc
<1>1. pc = "load" /\ i < maxb
  BY DEF LoadWithin, Read
<1>2. D \in Nat \ {0} /\ Left \in Nat /\ Left < Edge /\ Edge = Width * D /\ Width \in Nat
  BY <1>1, Geometry, HistAssumption
<1>3. LeftColumn \in Columns
  BY <1>2, ColumnOf DEF LeftColumn, Columns
<1> QED
  BY <1>3 DEF LoadWithin

\* What lies left of a column's edge is a number; it is nothing where the
\* bucket begins and all of it where the bucket ends (lat.go:130-138).
LEMMA PartialCounts ==
    ASSUME PrintTypes, Left \in Int, D \in Int, Left < right
    PROVE  /\ \A x \in Int : PartialCount(x) \in Int
           /\ \A x \in Int : x * D <= Left => PartialCount(x) = 0
           /\ \A x \in Int : right <= x * D => PartialCount(x) = count
<1>1. count \in Nat /\ right \in Int
  BY DEF PrintTypes
<1> DEFINE l == Left
           g == D
<1>2. \A x : PartialCount(x) = IF x * g < l THEN 0
                               ELSE IF x * g >= right THEN count
                               ELSE (count * (x * g - l)) \div (right - l)
  BY DEF PartialCount
<1>3. l \in Int /\ g \in Int /\ l < right
  OBVIOUS
<1> HIDE DEF l, g
<1>4. ASSUME NEW x \in Int
      PROVE  /\ PartialCount(x) \in Int
             /\ x * g <= l => PartialCount(x) = 0
             /\ right <= x * g => PartialCount(x) = count
  <2> DEFINE y == x * g
             share == (count * (y - l)) \div (right - l)
  <2>1. y \in Int /\ right - l \in Nat \ {0}
    BY <1>1, <1>3
  <2>2. PartialCount(x) = IF y < l THEN 0 ELSE IF y >= right THEN count ELSE share
    BY <1>2
  <2>3. ASSUME ~(y < l) PROVE share \in Int /\ (y = l => share = 0)
    <3> HIDE DEF y
    <3>1. y - l \in Nat /\ count * (y - l) \in Nat /\ (y = l => count * (y - l) = 0)
      BY <1>1, <1>3, <2>1, <2>3
    <3> DEFINE p == count * (y - l)
               q == right - l
    <3>2. p \in Nat /\ q \in Nat \ {0} /\ (y = l => p = 0)
      BY <2>1, <3>1
    <3>3. share = p \div q
      OBVIOUS
    <3> HIDE DEF p, q, share
    <3>4. p \div q \in Int /\ (p = 0 => p \div q = 0)
      BY <3>2
    <3> QED
      BY <3>2, <3>3, <3>4
  <2> HIDE DEF y, share
  <2>4. /\ PartialCount(x) \in Int
        /\ y <= l => PartialCount(x) = 0
        /\ right <= y => PartialCount(x) = count
    BY <1>1, <1>3, <2>1, <2>2, <2>3
  <2> QED
    BY <2>4 DEF y
<1> QED
  BY <1>4 DEF l, g

LEMMA PrintStart == Init => PrintInv
<1> SUFFICES ASSUME Init PROVE PrintInv
  OBVIOUS
<1>1. Buckets \in [Bs -> Nat]
  BY HistAssumption DEF Init
<1>2. Total(Buckets) \in Nat
  BY <1>1, Finite, TotalNat
<1>3. Total(cols) = 0
  BY Finite, TotalZero DEF Init
<1>4. PrintTypes
  BY <1>1, <1>2, BucketsAssumption DEF Init, PrintTypes
<1> QED
  BY <1>3, <1>4 DEF Init, PrintInv, Ranged, Shared

\* The steps that leave the columns alone.
LEMMA PrintAround ==
    ASSUME PrintInv,
           Bound \/ Bounded \/ Row \/ StartTicks \/ Tick \/ TickPanics \/ LastTick
             \/ (\E x \in Bs : Record(x)) \/ UNCHANGED vars
    PROVE  PrintInv'
<1> USE DEF PrintInv, PrintTypes, Ranged, Shared
<1>1. NB \in Nat \ {0} /\ \A j \in 0..NB : j < NB => j \in Bs
  BY BucketsAssumption DEF Bs
<1>2. CASE Bound
  <2>1. Buckets[i] \in Nat
    BY <1>1, <1>2 DEF Bound
  <2> QED
    BY <1>1, <1>2, <2>1 DEF Bound, Goes, input, bucket
<1>3. CASE Bounded
  BY <1>1, <1>3 DEF Bounded, Goes, input, range, bucket
<1>4. CASE Row
  <2>1. Buckets[i] \in Nat
    BY <1>1, <1>4 DEF Row, Goes
  <2> QED
    BY <1>1, <1>4, <2>1 DEF Row, Goes, input, range, bucket
<1>5. CASE StartTicks
  BY <1>5 DEF StartTicks, Goes, input, range, bucket
<1>6. CASE Tick
  BY <1>6 DEF Tick, Goes, input, range, bucket
<1>7. CASE TickPanics \/ LastTick
  BY <1>7 DEF TickPanics, LastTick, Goes, input, range, bucket
<1>8. ASSUME NEW x \in Bs, Record(x) PROVE PrintInv'
  <2>1. Buckets' \in [Bs -> Nat]
    BY <1>8 DEF Record
  <2>2. UNCHANGED <<input, pc, i, range, bucket, cols, seen, drawn>>
    BY <1>8 DEF Record
  <2>3. Left' = Left /\ D' = D /\ PartialCount(col)' = PartialCount(col)
    BY <2>2 DEF Left, D, PartialCount, range, bucket
  <2> QED
    BY <2>1, <2>2, <2>3 DEF input, range, bucket
<1>9. CASE UNCHANGED vars
  <2>1. Left' = Left /\ D' = D /\ PartialCount(col)' = PartialCount(col)
    BY <1>9 DEF Left, D, PartialCount, range, bucket, vars
  <2> QED
    BY <1>9, <2>1 DEF vars, input, range, bucket
<1> QED
  BY <1>2, <1>3, <1>4, <1>5, <1>6, <1>7, <1>8, <1>9

\* A bucket within a column (lat.go:124-127).
LEMMA PrintWithin ==
    ASSUME PrintInv, NEW r \in Rights, LoadWithin(r)
    PROVE  PrintInv'
<1>1. pc = "load" /\ i < maxb /\ PrintTypes /\ Ranged
  BY DEF LoadWithin, Read, PrintInv
<1>2. /\ D \in Nat \ {0} /\ Left \in Nat /\ Left < Edge /\ Edge = Width * D
      /\ Clip(r) \in Int /\ Width \in Nat
  BY <1>1, Geometry, HistAssumption
<1>3. LeftColumn \in Columns
  BY <1>2, ColumnOf DEF LeftColumn, Columns
<1>4. i \in Bs /\ Buckets[i] \in Nat
  BY <1>1, BucketsAssumption DEF Bs, PrintTypes
<1>5. /\ cols' = [cols EXCEPT ![LeftColumn] = @ + Buckets[i]]
      /\ drawn' = drawn + Buckets[i] /\ seen' = seen + Buckets[i] /\ i' = i + 1
      /\ count' = Buckets[i] /\ right' = Clip(r)
      /\ UNCHANGED <<Buckets, form, before, pc, minb, maxb, col>>
  BY <1>1, WithinColumns DEF LoadWithin, Read, input, range
<1>6. Total(cols') = Total(cols) + Buckets[i]
  <2>1. cols \in [Columns -> Int] /\ Buckets[i] \in Int
    BY <1>1, <1>4 DEF PrintTypes
  <2>2. cols' \in [Columns -> Int] /\ AddedTo(Columns, cols, cols', LeftColumn, Buckets[i])
    BY <1>3, <1>5, <2>1 DEF AddedTo
  <2> QED
    BY <1>3, <2>1, <2>2, Finite, TotalAdds
<1>7. PrintTypes'
  <2>1. cols' \in [Columns -> Int]
    BY <1>1, <1>3, <1>4, <1>5 DEF PrintTypes
  <2> QED
    BY <1>1, <1>2, <1>4, <1>5, <2>1, BucketsAssumption DEF PrintTypes
<1>8. Ranged'
  BY <1>1, <1>5 DEF PrintTypes, Ranged
<1>9. Shared'
  BY <1>1, <1>5, <1>6 DEF PrintInv, Shared
<1> QED
  BY <1>7, <1>8, <1>9 DEF PrintInv

\* A bucket that reaches over the edge of its column (lat.go:128-138).
LEMMA PrintAcross ==
    ASSUME PrintInv, NEW r \in Rights, LoadAcross(r)
    PROVE  PrintInv'
<1>1. pc = "load" /\ i < maxb /\ PrintTypes /\ Ranged
  BY DEF LoadAcross, Read, PrintInv
<1>2. /\ D \in Nat \ {0} /\ Left \in Nat /\ Left < Edge /\ Edge = Width * D
      /\ Clip(r) \in Int /\ Left <= Clip(r) /\ Width \in Nat
  BY <1>1, Geometry, HistAssumption
<1>3. LeftColumn \in Columns /\ LeftColumn * D <= Left
  BY <1>2, ColumnOf DEF LeftColumn, Columns
<1>4. i \in Bs /\ Buckets[i] \in Nat
  BY <1>1, BucketsAssumption DEF Bs, PrintTypes
<1>5. /\ seen' = seen + Buckets[i] /\ count' = Buckets[i] /\ right' = Clip(r)
      /\ pc' = "spread" /\ col' = LeftColumn
      /\ UNCHANGED <<Buckets, form, before, i, minb, maxb, cols, drawn>>
      /\ Clip(r) \div D # LeftColumn
  BY DEF LoadAcross, Read, input, range
<1>6. Left < Clip(r)
  BY <1>2, <1>5 DEF LeftColumn
<1>7. col' \in Int
  BY <1>3, <1>5 DEF Columns
<1>8. PrintTypes'
  BY <1>1, <1>2, <1>4, <1>5, <1>7 DEF PrintTypes
<1>9. Ranged'
  BY <1>1, <1>5 DEF PrintTypes, Ranged
<1>10. Left' = Left /\ D' = D
  BY <1>5 DEF Left, D
<1>11. PartialCount(col)' = 0
  <2>1. PartialCount(col)' = IF col' * D < Left THEN 0
                            ELSE IF col' * D >= right' THEN count'
                            ELSE (count' * (col' * D - Left)) \div (right' - Left)
    BY <1>10 DEF PartialCount
  <2>2. col' * D \in Int /\ col' * D <= Left
    BY <1>2, <1>3, <1>5, <1>7
  <2>3. CASE col' * D < Left
    BY <2>1, <2>3
  <2>4. CASE col' * D = Left
    <3>1. col' * D - Left = 0 /\ count' * (col' * D - Left) = 0
      BY <1>2, <1>4, <1>5, <2>2, <2>4
    <3>2. right' - Left \in Nat \ {0} /\ ~(Left >= right')
      BY <1>2, <1>5, <1>6
    <3>3. 0 \div (right' - Left) = 0
      BY <3>2
    <3> QED
      BY <1>2, <2>1, <2>4, <3>1, <3>2, <3>3
  <2> QED
    BY <1>2, <2>2, <2>3, <2>4
<1>12. Shared'
  BY <1>1, <1>4, <1>5, <1>6, <1>10, <1>11 DEF PrintInv, Shared, PrintTypes
<1> QED
  BY <1>8, <1>9, <1>12 DEF PrintInv

\* A column gets its share, rounded (lat.go:138-141).
LEMMA PrintSpread == PrintInv /\ Spread => PrintInv'
<1> SUFFICES ASSUME PrintInv, Spread PROVE PrintInv'
  OBVIOUS
<1>1. pc = "spread" /\ i < maxb /\ PrintTypes /\ Ranged /\ Left < right
      /\ drawn = seen - count + PartialCount(col)
  BY DEF Spread, PrintInv, Ranged, Shared
<1>2. D \in Nat \ {0} /\ Left \in Nat
  BY <1>1, Geometry
<1>3. /\ UNCHANGED <<Buckets, form, before, minb, maxb, count, right, seen>>
      /\ Left = (i - minb) * Width * Fine
  BY DEF Spread, input, range, Left
<1>4. CASE col \notin Columns
  <2>1. pc' = "panic" /\ UNCHANGED <<cols, drawn, col, i>>
    BY <1>4 DEF Spread
  <2> QED
    BY <1>1, <1>3, <2>1 DEF PrintInv, PrintTypes, Ranged, Shared
<1>5. CASE col \in Columns
  <2>1. /\ cols' = [cols EXCEPT ![col] = @ + Share(col)]
        /\ drawn' = drawn + Share(col) /\ col' = col + 1
        /\ pc' = IF (col + 1) * D < right THEN "spread" ELSE "load"
        /\ i' = IF (col + 1) * D < right THEN i ELSE i + 1
    BY <1>5 DEF Spread
  <2>2. col \in Int /\ col + 1 \in Int /\ right \in Int /\ count \in Nat
        /\ drawn \in Int /\ seen \in Nat
    BY <1>1 DEF PrintTypes
  <2>3. /\ PartialCount(col) \in Int /\ PartialCount(col + 1) \in Int
        /\ right <= (col + 1) * D => PartialCount(col + 1) = count
    BY <1>1, <1>2, <2>2, PartialCounts
  <2>4. Share(col) = PartialCount(col + 1) - PartialCount(col) /\ Share(col) \in Int
    BY <2>3 DEF Share
  <2>5. drawn' = seen - count + PartialCount(col + 1)
    BY <1>1, <2>1, <2>2, <2>3, <2>4
  <2>6. Total(cols') = Total(cols) + Share(col)
    <3>1. cols \in [Columns -> Int]
      BY <1>1 DEF PrintTypes
    <3>2. cols' \in [Columns -> Int] /\ AddedTo(Columns, cols, cols', col, Share(col))
      BY <1>5, <2>1, <2>4, <3>1 DEF AddedTo
    <3> QED
      BY <1>5, <2>4, <3>1, <3>2, Finite, TotalAdds
  <2>7. cols' \in [Columns -> Int]
    BY <1>1, <1>5, <2>1, <2>4 DEF PrintTypes
  <2>8. form = "plot" /\ drawn = Total(cols)
    BY <1>1 DEF PrintInv, Ranged, Shared
  <2>9. drawn' = Total(cols') /\ drawn' \in Int
    BY <2>1, <2>2, <2>4, <2>6, <2>8
  <2>10. CASE (col + 1) * D < right
    <3>1. pc' = "spread" /\ i' = i
      BY <2>1, <2>10
    <3>2. Left' = Left /\ D' = D
      BY <1>3, <3>1 DEF Left, D
    <3>3. PartialCount(col)' = PartialCount(col + 1)
      BY <1>3, <2>1, <3>2 DEF PartialCount
    <3>4. PrintTypes'
      BY <1>1, <1>3, <2>1, <2>2, <2>7, <2>9, <3>1 DEF PrintTypes
    <3>5. Ranged'
      BY <1>1, <1>3, <3>1 DEF Ranged
    <3>6. Shared'
      BY <1>1, <1>3, <2>5, <2>9, <3>1, <3>2, <3>3 DEF Shared
    <3> QED
      BY <3>4, <3>5, <3>6 DEF PrintInv
  <2>11. CASE ~((col + 1) * D < right)
    <3>1. pc' = "load" /\ i' = i + 1
      BY <2>1, <2>11
    <3>2. drawn' = seen
      <4>1. (col + 1) * D \in Int
        BY <1>2, <2>2
      <4> QED
        BY <2>2, <2>3, <2>5, <2>11, <4>1
    <3>3. PrintTypes'
      BY <1>1, <1>3, <2>1, <2>2, <2>7, <2>9, <3>1, BucketsAssumption DEF PrintTypes
    <3>4. Ranged'
      BY <1>1, <1>3, <3>1 DEF PrintTypes, Ranged
    <3>5. Shared'
      BY <1>3, <2>9, <3>1, <3>2 DEF Shared
    <3> QED
      BY <3>3, <3>4, <3>5 DEF PrintInv
  <2> QED
    BY <2>10, <2>11
<1> QED
  BY <1>4, <1>5

LEMMA PrintStep == PrintInv /\ [Next]_vars => PrintInv'
BY PrintAround, PrintWithin, PrintAcross, PrintSpread DEF Next, Printing, Load, Ended

LEMMA PrintInvariant == Spec => []PrintInv
BY PrintStart, PrintStep, PTL DEF Spec

-----------------------------------------------------------------------------
(***************************************************************************)
(* What was recorded, and what was read of it.  The state only counts the  *)
(* samples there were at the call and those read; behind the counts stand  *)
(* the buckets as they were at the call (old) and as they were read (read),*)
(* each at its own time.                                                   *)
(***************************************************************************)
Behind(j) == minb <= j /\ (j < i \/ (pc = "spread" /\ j = i))

Sound(old, read) ==
    /\ old \in [Bs -> Nat] /\ read \in [Bs -> Nat]
    /\ Total(old) = before /\ Total(read) = seen
    \* Buckets only grow.
    /\ \A j \in Bs : old[j] <= Buckets[j] /\ read[j] <= Buckets[j]
    \* No sample of the call lies outside the range found.
    /\ \A j \in Bs : ((pc = "bounds" => j < i) /\ old[j] > 0) =>
                       minb # -1 /\ minb <= j /\ j < maxb
    /\ pc = "bounds" => \A j \in Bs : read[j] = 0
    \* Each bucket of the range is read once, not before the call.
    /\ pc \notin {"bounds", "panic"} =>
         \A j \in Bs : IF Behind(j) THEN old[j] <= read[j] ELSE read[j] = 0

Accounted == \E old, read \in [Bs -> Nat] : Sound(old, read)

\* A sample more, or a bucket read, adds to the total.
LEMMA SampleAdds ==
    \A f, g \in [Bs -> Int], x \in Bs, d \in Int :
        AddedTo(Bs, f, g, x, d) => Total(g) = Total(f) + d
BY Finite, TotalAdds

LEMMA AccountStart == Init => Accounted
<1> SUFFICES ASSUME Init PROVE Accounted
  OBVIOUS
<1> DEFINE zero == [j \in Bs |-> 0]
<1>1. Buckets \in [Bs -> Nat] /\ zero \in [Bs -> Nat] /\ \A j \in Bs : zero[j] = 0
  BY HistAssumption DEF Init
<1>2. Total(zero) = 0
  BY Finite, TotalZero
<1> HIDE DEF zero
<1>3. /\ pc = "bounds" /\ i = 0 /\ before = Total(Buckets) /\ seen = 0
      /\ \A j \in Bs : ~(j < 0)
  BY BucketsAssumption DEF Init, Bs
<1>4. Sound(Buckets, zero)
  BY <1>1, <1>2, <1>3 DEF Sound
<1> QED
  BY <1>1, <1>4 DEF Accounted

\* The steps that read no counts but those of bounds.
LEMMA AccountKeeps ==
    ASSUME PrintInv, NEW old, NEW read, Sound(old, read),
           Bound \/ Bounded \/ Spread \/ StartTicks \/ Tick \/ TickPanics \/ LastTick
             \/ UNCHANGED vars
    PROVE  Sound(old, read)'
<1>1. /\ \A j \in Bs : j \in Nat /\ j < NB /\ Buckets[j] \in Nat /\ old[j] \in Nat /\ read[j] \in Nat
      /\ NB \in Nat /\ i \in 0..NB
  BY BucketsAssumption DEF Bs, PrintInv, PrintTypes, Sound
<1>2. UNCHANGED <<Buckets, before, seen>>
  BY DEF Bound, Bounded, Spread, StartTicks, Tick, TickPanics, LastTick, input, vars
<1>3. CASE Bound
  <2>1. /\ pc = "bounds" /\ pc' = "bounds" /\ i < NB /\ i' = i + 1
        /\ minb' = IF Buckets[i] > 0 /\ minb = -1 THEN i ELSE minb
        /\ maxb' = IF Buckets[i] > 0 THEN i + 1 ELSE maxb
    BY <1>3 DEF Bound, Goes
  <2>2. i \in Bs /\ minb \in Int /\ minb < i /\ maxb \in Int /\ (minb # -1 => maxb <= i)
    BY <1>1, <2>1 DEF Bs, PrintInv, PrintTypes, Ranged
  <2>3. ASSUME NEW j \in Bs, j < i + 1, old[j] > 0
        PROVE  minb' # -1 /\ minb' <= j /\ j < maxb'
    <3>1. CASE j = i
      BY <1>1, <2>1, <2>2, <2>3, <3>1 DEF Sound
    <3>2. CASE j < i
      <4>1. minb # -1 /\ minb <= j /\ j < maxb
        BY <2>1, <2>3, <3>2 DEF Sound
      <4> QED
        BY <1>1, <2>1, <2>2, <3>2, <4>1
    <3> QED
      BY <1>1, <2>3, <3>1, <3>2
  <2> QED
    BY <1>2, <2>1, <2>3 DEF Sound
<1>4. CASE Bounded
  <2>1. /\ pc = "bounds" /\ pc' \in {"done", "load", "table"} /\ i = NB
        /\ i' = (IF minb = -1 THEN 0 ELSE minb) /\ UNCHANGED <<minb, maxb>>
    BY <1>4 DEF Bounded, Goes, range
  <2>2. ASSUME NEW j \in Bs PROVE ~Behind(j)' /\ read[j] = 0
    <3>1. minb \in Int /\ ~(minb <= j /\ j < i')
      BY <1>1, <2>1 DEF PrintInv, PrintTypes
    <3> QED
      BY <2>1, <3>1 DEF Behind, Sound
  <2>3. \A j \in Bs : old[j] > 0 => minb # -1 /\ minb <= j /\ j < maxb
    BY <1>1, <2>1 DEF Sound
  <2> QED
    BY <1>2, <2>1, <2>2, <2>3 DEF Sound
<1>5. CASE Spread
  <2>1. /\ pc = "spread" /\ UNCHANGED <<minb, maxb>>
        /\ \/ pc' = "panic" \/ (pc' = "spread" /\ i' = i) \/ (pc' = "load" /\ i' = i + 1)
    BY <1>5 DEF Spread, range
  <2>2. pc' # "panic" => \A j \in Bs : Behind(j)' <=> Behind(j)
    <3> SUFFICES ASSUME pc' # "panic", NEW j \in Bs PROVE Behind(j)' <=> Behind(j)
      OBVIOUS
    <3>1. CASE pc' = "spread"
      BY <2>1, <3>1 DEF Behind
    <3>2. CASE pc' = "load"
      BY <1>1, <2>1, <3>2 DEF Behind
    <3> QED
      BY <2>1, <3>1, <3>2
  <2> QED
    BY <1>2, <2>1, <2>2 DEF Sound
<1>6. CASE StartTicks \/ Tick \/ TickPanics \/ LastTick \/ UNCHANGED vars
  <2>1. /\ UNCHANGED <<minb, maxb, i>>
        /\ pc' = pc \/ (pc \in {"load", "ticks"} /\ pc' \in {"ticks", "done", "panic"})
    BY <1>6 DEF StartTicks, Tick, TickPanics, LastTick, Goes, range, vars
  <2>2. \A j \in Bs : Behind(j)' <=> Behind(j)
    BY <2>1 DEF Behind
  <2> QED
    BY <1>2, <2>1, <2>2 DEF Sound
<1> QED
  BY <1>3, <1>4, <1>5, <1>6

\* A goroutine records a sample, before or after its bucket is read.
LEMMA AccountRecords ==
    ASSUME PrintInv, NEW old, NEW read, Sound(old, read), NEW x \in Bs, Record(x)
    PROVE  Sound(old, read)'
<1>1. UNCHANGED <<before, seen, pc, i, minb, maxb>> /\ Buckets' = [Buckets EXCEPT ![x] = @ + 1]
  BY DEF Record, input, range
<1>2. \A j \in Bs : /\ Buckets[j] \in Nat /\ old[j] \in Nat /\ read[j] \in Nat
                     /\ Buckets[j] <= Buckets'[j] /\ Buckets'[j] \in Nat
  BY <1>1 DEF PrintInv, PrintTypes, Sound
<1>3. \A j \in Bs : old[j] <= Buckets'[j] /\ read[j] <= Buckets'[j]
  BY <1>2 DEF Sound
<1>4. \A j \in Bs : Behind(j)' <=> Behind(j)
  BY <1>1 DEF Behind
<1> QED
  BY <1>1, <1>3, <1>4 DEF Sound

\* A bucket of the range is read, in a row or for the plot.
LEMMA AccountReads ==
    ASSUME PrintInv, NEW old \in [Bs -> Nat], NEW read \in [Bs -> Nat], Sound(old, read),
           Row \/ Load
    PROVE  Accounted'
<1>0. PICK got : got = [read EXCEPT ![i] = Buckets[i]]
  OBVIOUS
<1>1. /\ pc \in {"table", "load"} /\ minb <= i /\ i < maxb /\ i \in Bs /\ minb \in Int /\ i \in Int
  <2>1. pc \in {"table", "load"} /\ (pc = "load" => i < maxb)
    BY DEF Row, Load, LoadWithin, LoadAcross, Read, Goes
  <2>2. minb <= i /\ i < maxb /\ minb \in Int /\ i \in 0..NB /\ maxb \in 1..NB /\ NB \in Nat
    BY <2>1, BucketsAssumption DEF PrintInv, PrintTypes, Ranged
  <2> QED
    BY <2>1, <2>2 DEF Bs
<1>2. /\ UNCHANGED <<Buckets, before, minb, maxb>> /\ seen' = seen + Buckets[i]
      /\ pc' # "bounds"
      /\ (pc' \in {"table", "load", "done"} /\ i' = i + 1) \/ (pc' = "spread" /\ i' = i)
  <2>1. ASSUME NEW r \in Rights, LoadWithin(r)
        PROVE  /\ UNCHANGED <<Buckets, before, minb, maxb, pc>> /\ seen' = seen + Buckets[i]
               /\ pc = "load" /\ i' = i + 1
    <3>1. i' = i + 1 /\ pc' = pc
      BY <2>1, WithinColumns DEF PrintInv
    <3> QED
      BY <2>1, <3>1 DEF LoadWithin, Read, input, range
  <2>2. CASE Row \/ \E r \in Rights : LoadAcross(r)
    BY <1>1, <2>2 DEF Row, LoadAcross, Read, Goes, input, range
  <2> QED
    BY <1>1, <2>1, <2>2 DEF Load
<1>3. \A j \in Bs : j \in Int /\ Buckets[j] \in Nat /\ old[j] <= Buckets[j]
  BY BucketsAssumption DEF Bs, PrintInv, PrintTypes, Sound
<1>4. got \in [Bs -> Nat] /\ \A j \in Bs : got[j] = IF j = i THEN Buckets[i] ELSE read[j]
  BY <1>0, <1>1, <1>3
<1>5. ~Behind(i) /\ read[i] = 0
  BY <1>1 DEF Behind, Sound
<1>6. AddedTo(Bs, read, got, i, Buckets[i])
  BY <1>1, <1>3, <1>4, <1>5 DEF AddedTo
<1>7. read \in [Bs -> Int] /\ got \in [Bs -> Int] /\ Buckets[i] \in Int
  BY <1>1, <1>3, <1>4
<1>8. Total(got) = seen'
  <2>1. Total(got) = Total(read) + Buckets[i]
    BY <1>1, <1>6, <1>7, SampleAdds
  <2>2. Total(read) = seen
    BY DEF Sound
  <2> QED
    BY <1>2, <2>1, <2>2
<1>9. ASSUME NEW j \in Bs
      PROVE  Behind(j)' <=> (Behind(j) \/ j = i)
  <2>1. CASE pc' = "spread" /\ i' = i
    BY <1>1, <1>2, <1>3, <2>1 DEF Behind
  <2>2. CASE pc' # "spread" /\ i' = i + 1
    BY <1>1, <1>2, <1>3, <2>2 DEF Behind
  <2> QED
    BY <1>2, <2>1, <2>2
<1>10. \A j \in Bs : IF Behind(j)' THEN old[j] <= got[j] ELSE got[j] = 0
  <2> SUFFICES ASSUME NEW j \in Bs PROVE IF Behind(j)' THEN old[j] <= got[j] ELSE got[j] = 0
    OBVIOUS
  <2>1. IF Behind(j) THEN old[j] <= read[j] ELSE read[j] = 0
    BY <1>1 DEF Sound
  <2> QED
    BY <1>3, <1>4, <1>9, <2>1
<1>11. \A j \in Bs : old[j] <= Buckets[j] /\ got[j] <= Buckets[j]
  BY <1>3, <1>4 DEF Sound
<1>12. \A j \in Bs : old[j] > 0 => minb # -1 /\ minb <= j /\ j < maxb
  BY <1>1 DEF Sound
<1>13. Total(old) = before /\ old \in [Bs -> Nat]
  BY DEF Sound
<1>14. Sound(old, got)'
  BY <1>2, <1>4, <1>8, <1>10, <1>11, <1>12, <1>13 DEF Sound
<1> QED
  BY <1>4, <1>14 DEF Accounted

LEMMA AccountStep == PrintInv /\ Accounted /\ [Next]_vars => Accounted'
<1> SUFFICES ASSUME PrintInv, Accounted, [Next]_vars PROVE Accounted'
  OBVIOUS
<1>1. PICK old, read \in [Bs -> Nat] : Sound(old, read)
  BY DEF Accounted
<1>2. Bs' = Bs
  BY DEF Bs
<1>3. CASE Row \/ Load
  BY <1>1, <1>3, AccountReads
<1>4. ASSUME NEW x \in Bs, Record(x) PROVE Accounted'
  <2>1. Sound(old, read)'
    BY <1>1, <1>4, AccountRecords
  <2> QED
    BY <1>1, <2>1 DEF Accounted
<1>5. CASE Bound \/ Bounded \/ Spread \/ StartTicks \/ Tick \/ TickPanics \/ LastTick
             \/ UNCHANGED vars
  <2>1. Sound(old, read)'
    BY <1>1, <1>5, AccountKeeps
  <2> QED
    BY <1>1, <2>1 DEF Accounted
<1> QED
  BY <1>3, <1>4, <1>5 DEF Next, Printing, Ended

LEMMA AccountInvariant == Spec => []Accounted
BY AccountStart, AccountStep, PrintInvariant, PTL DEF Spec

(***************************************************************************)
(* Printing conserves the samples, whatever is recorded meanwhile and      *)
(* however shares are rounded: the columns hold what was read, which is at *)
(* least what there was at the call and at most what there is              *)
(* (lat.go:72-154).                                                        *)
(***************************************************************************)
THEOREM PrintConserves == Spec => []Conserved
<1>1. PrintInv /\ Accounted => Conserved
  <2> SUFFICES ASSUME PrintInv, Accounted PROVE Conserved
    OBVIOUS
  <2>1. pc \notin {"spread", "panic"} =>
          drawn = seen /\ (form = "plot" => drawn = Total(cols))
    BY DEF PrintInv, Shared
  <2>2. ASSUME pc \in {"ticks", "done"}
        PROVE  before <= drawn /\ drawn <= Total(Buckets)
    <3>1. PICK old, read \in [Bs -> Nat] : Sound(old, read)
      BY DEF Accounted
    <3>2. ASSUME NEW j \in Bs PROVE old[j] <= read[j]
      <4>1. old[j] \in Nat /\ read[j] \in Nat /\ j \in Int
        BY <3>1, BucketsAssumption DEF Bs
      <4>2. CASE old[j] = 0
        BY <4>1, <4>2
      <4>3. CASE old[j] > 0
        <5>1. minb # -1 /\ minb <= j /\ j < maxb
          BY <2>2, <3>1, <4>3 DEF Sound
        <5>2. i = maxb
          BY <2>2, <5>1 DEF PrintInv, Ranged
        <5>3. Behind(j)
          BY <5>1, <5>2 DEF Behind
        <5> QED
          BY <2>2, <3>1, <5>3 DEF Sound
      <4> QED
        BY <4>1, <4>2, <4>3
    <3>3. Buckets \in [Bs -> Nat] /\ \A j \in Bs : read[j] <= Buckets[j]
      BY <3>1 DEF Sound, PrintInv, PrintTypes
    <3>4. old \in [Bs -> Int] /\ read \in [Bs -> Int] /\ Buckets \in [Bs -> Int]
      BY <3>1, <3>3
    <3>5. Total(old) <= Total(read) /\ Total(read) <= Total(Buckets)
      BY <3>2, <3>3, <3>4, Finite, TotalOrder
    <3> QED
      BY <2>1, <2>2, <3>1, <3>5 DEF Sound
  <2> QED
    BY <2>1, <2>2 DEF Conserved
<1> QED
  BY <1>1, PrintInvariant, AccountInvariant, PTL

-----------------------------------------------------------------------------
(* The bars. *)

\* No column is counted down, and no count passes that of all samples.
Upward == Total(Buckets) <= Samples /\ \A c \in Columns : cols[c] >= 0

\* The shares of a bucket are not negative: what lies left of an edge is no
\* more than what lies left of the next (lat.go:130-141).
LEMMA QuotientOrder ==
    ASSUME NEW q \in Nat \ {0}, NEW a \in Nat, NEW b \in Nat, a <= b
    PROVE  a \div q <= b \div q
<1> DEFINE s == a \div q
           t == b \div q
<1>1. a = q * s + (a % q) /\ a % q \in 0..(q - 1) /\ s \in Nat
  OBVIOUS
<1>2. b = q * t + (b % q) /\ b % q \in 0..(q - 1) /\ t \in Nat
  OBVIOUS
<1> HIDE DEF s, t
<1>3. s <= t
  <2> SUFFICES ASSUME t < s PROVE FALSE
    BY <1>1, <1>2
  <2>1. PICK e \in Nat : s = t + 1 + e
    BY <1>1, <1>2
  <2>2. q * s = q * t + q + q * e /\ q * e \in Nat /\ q * t \in Nat
    BY <1>2, <2>1
  <2> QED
    BY <1>1, <1>2, <2>2
<1> QED
  BY <1>3 DEF s, t

LeftOf(x, l, r, n) ==
    IF x < l THEN 0 ELSE IF x >= r THEN n ELSE (n * (x - l)) \div (r - l)

LEMMA SharesPositive ==
    ASSUME NEW n \in Nat, NEW l \in Int, NEW r \in Int, l < r,
           NEW y \in Int, NEW z \in Int, y <= z
    PROVE  LeftOf(y, l, r, n) <= LeftOf(z, l, r, n)
<1> DEFINE Count(x) == LeftOf(x, l, r, n)
<1>0. \A x \in Int : Count(x) = IF x < l THEN 0 ELSE IF x >= r THEN n
                               ELSE (n * (x - l)) \div (r - l)
  BY DEF LeftOf
<1> SUFFICES Count(y) <= Count(z)
  OBVIOUS
<1> HIDE DEF Count
<1> DEFINE q == r - l
<1>1. q \in Nat \ {0}
  OBVIOUS
<1>2. CASE y < l
  <2>1. Count(y) = 0
    BY <1>0, <1>2
  <2>2. ASSUME ~(z < l) PROVE (n * (z - l)) \div q >= 0
    <3>1. z - l \in Nat /\ n * (z - l) \in Nat
      BY <2>2
    <3> DEFINE p == n * (z - l)
    <3>2. p \in Nat
      BY <3>1
    <3> HIDE DEF p, q
    <3>3. p \div q >= 0
      BY <1>1, <3>2
    <3> QED
      BY <3>3 DEF p
  <2> QED
    BY <1>0, <2>1, <2>2
<1>3. CASE ~(y < l) /\ y >= r
  BY <1>0, <1>3
<1>4. CASE ~(y < l) /\ ~(y >= r)
  <2>1. y - l \in Nat /\ z - l \in Nat /\ n * (y - l) \in Nat /\ n * (z - l) \in Nat /\ n * q \in Nat
    BY <1>1, <1>4
  <2>2. Count(y) = (n * (y - l)) \div q
    BY <1>0, <1>4
  <2>3. CASE z >= r
    <3>1. n * (y - l) <= n * q
      <4>1. PICK e \in Nat : q = (y - l) + e
        BY <1>1, <1>4
      <4>2. n * q = n * (y - l) + n * e /\ n * e \in Nat
        BY <2>1, <4>1
      <4> QED
        BY <2>1, <4>2
    <3>2. (n * q) \div q = n
      <4> HIDE DEF q
      <4> QED
        BY <1>1
    <3>3. (n * (y - l)) \div q <= (n * q) \div q
      BY <1>1, <2>1, <3>1, QuotientOrder
    <3> QED
      BY <1>0, <1>4, <2>2, <2>3, <3>2, <3>3
  <2>4. CASE ~(z >= r)
    <3>1. n * (y - l) <= n * (z - l)
      <4>1. PICK e \in Nat : z - l = (y - l) + e
        BY <1>4
      <4>2. n * (z - l) = n * (y - l) + n * e /\ n * e \in Nat
        BY <2>1, <4>1
      <4> QED
        BY <2>1, <4>2
    <3>2. (n * (y - l)) \div q <= (n * (z - l)) \div q
      BY <1>1, <2>1, <3>1, QuotientOrder
    <3>3. Count(z) = (n * (z - l)) \div q
      BY <1>0, <1>4, <2>4
    <3> QED
      BY <2>2, <3>2, <3>3
  <2> QED
    BY <2>3, <2>4
<1> QED
  BY <1>2, <1>3, <1>4

LEMMA UpwardStep == PrintInv /\ Upward /\ [Next]_vars => Upward'
<1> SUFFICES ASSUME PrintInv, Upward, [Next]_vars PROVE Upward'
  OBVIOUS
<1>0. Columns' = Columns
  BY DEF Columns
<1>1. ASSUME NEW x \in Bs, Record(x) PROVE Upward'
  <2>1. Buckets \in [Bs -> Int] /\ Buckets' = [Buckets EXCEPT ![x] = @ + 1] /\ cols' = cols
        /\ Total(Buckets) < Samples
    BY <1>1 DEF Record, PrintInv, PrintTypes
  <2>2. Buckets' \in [Bs -> Int] /\ AddedTo(Bs, Buckets, Buckets', x, 1)
    BY <2>1 DEF AddedTo
  <2>3. Total(Buckets') = Total(Buckets) + 1
    <3>1. \A g \in [Bs -> Int] : AddedTo(Bs, Buckets, g, x, 1) => Total(g) = Total(Buckets) + 1
      <4>1. 1 \in Int
        OBVIOUS
      <4> QED
        BY <2>1, <4>1, SampleAdds, Zenon
    <3> QED
      BY <2>2, <3>1
  <2>4. Total(Buckets) \in Int
    BY <2>1, Finite, TotalInt
  <2> QED
    BY <1>0, <2>1, <2>3, <2>4, HistAssumption DEF Upward
<1>2. ASSUME NEW r \in Rights, LoadWithin(r) PROVE Upward'
  <2>1. i \in Bs /\ Buckets[i] \in Nat
    BY <1>2, BucketsAssumption DEF LoadWithin, Read, Bs, PrintInv, PrintTypes
  <2>2. Buckets' = Buckets /\ cols' = [cols EXCEPT ![LeftColumn] = @ + Buckets[i]]
    BY <1>2, WithinColumns DEF LoadWithin, PrintInv
  <2> QED
    BY <1>0, <2>1, <2>2 DEF Upward, PrintInv, PrintTypes
<1>3. CASE Spread
  <2>1. /\ Buckets' = Buckets
        /\ cols' = cols \/ cols' = [cols EXCEPT ![col] = @ + Share(col)]
    BY <1>3 DEF Spread
  <2>2. pc = "spread" /\ PrintTypes /\ Ranged /\ i < maxb /\ Left < right
        /\ col \in Int /\ right \in Int /\ count \in Nat
    BY <1>3 DEF Spread, PrintInv, PrintTypes, Ranged, Shared
  <2>3. D \in Nat \ {0} /\ Left \in Nat
    BY <2>2, Geometry
  <2>4. Share(col) \in Int /\ Share(col) >= 0
    <3>0. PICK y, z : y = col * D /\ z = (col + 1) * D
      OBVIOUS
    <3>1. /\ PartialCount(col) = LeftOf(y, Left, right, count)
          /\ PartialCount(col + 1) = LeftOf(z, Left, right, count)
      BY <3>0 DEF PartialCount, LeftOf
    <3>2. y \in Int /\ z \in Int /\ y <= z
      BY <2>2, <2>3, <3>0
    <3>3. LeftOf(y, Left, right, count) <= LeftOf(z, Left, right, count)
      <4>1. Left \in Int
        BY <2>3
      <4> QED
        BY <2>2, <3>2, <4>1, SharesPositive
    <3>4. PartialCount(col) \in Int /\ PartialCount(col + 1) \in Int
      BY <2>2, <2>3, PartialCounts
    <3> QED
      BY <3>1, <3>3, <3>4 DEF Share
  <2> QED
    BY <1>0, <2>1, <2>2, <2>4 DEF Upward, PrintTypes
<1>4. ASSUME UNCHANGED <<Buckets, cols>> PROVE Upward'
  BY <1>0, <1>4 DEF Upward
<1>5. Bound \/ Bounded \/ Row \/ (\E r \in Rights : LoadAcross(r)) \/ StartTicks \/ Tick
        \/ TickPanics \/ LastTick \/ UNCHANGED vars => UNCHANGED <<Buckets, cols>>
  BY DEF Bound, Bounded, Row, LoadAcross, StartTicks, Tick, TickPanics, LastTick, vars
<1> QED
  BY <1>1, <1>2, <1>3, <1>4, <1>5 DEF Next, Printing, Load, Ended

LEMMA UpwardInvariant == Spec => []Upward
<1>1. Init => Upward
  BY DEF Init, Upward
<1> QED
  BY <1>1, UpwardStep, PrintInvariant, PTL DEF Spec

\* A column is no higher than all together.
LEMMA ColumnBelowTotal ==
    ASSUME NEW f \in [Columns -> Nat], NEW c \in Columns
    PROVE  f[c] <= Total(f) /\ Total(f) \in Nat
<1>1. PICK zero : zero = [e \in Columns |-> 0]
  OBVIOUS
<1>2. PICK one : one = [e \in Columns |-> IF e = c THEN f[c] ELSE 0]
  OBVIOUS
<1>3. /\ zero \in [Columns -> Int] /\ one \in [Columns -> Int] /\ f \in [Columns -> Int]
      /\ f[c] \in Int
  BY <1>1, <1>2
<1>4. AddedTo(Columns, zero, one, c, f[c]) /\ \A e \in Columns : one[e] <= f[e]
  BY <1>1, <1>2 DEF AddedTo
<1>5. Total(zero) = 0
  BY <1>1, Finite, TotalZero
<1>6. Total(one) = Total(zero) + f[c]
  BY <1>3, <1>4, Finite, TotalAdds
<1>7. Total(one) <= Total(f) /\ Total(f) \in Nat
  BY <1>3, <1>4, Finite, TotalOrder, TotalNat
<1> QED
  BY <1>5, <1>6, <1>7

\* Some column is the highest.
LEMMA MaxCountIs ==
    ASSUME cols \in [Columns -> Nat]
    PROVE  /\ MaxCount \in {cols[c] : c \in Columns}
           /\ \A c \in Columns : cols[c] <= MaxCount
<1> DEFINE T == {m \in Nat : \A c \in Columns : cols[c] <= m}
<1>1. 0 \in Columns
  BY HistAssumption DEF Columns
<1>2. Total(cols) \in T
  BY <1>1, ColumnBelowTotal
<1>3. PICK m \in T : \A k \in T : m <= k
  BY <1>2, Least
<1>4. \E c \in Columns : cols[c] = m
  <2> SUFFICES ASSUME \A c \in Columns : cols[c] # m PROVE FALSE
    OBVIOUS
  <2>1. \A c \in Columns : cols[c] \in Nat /\ cols[c] < m
    BY <1>3
  <2>2. m - 1 \in Nat
    BY <1>1, <1>3, <2>1
  <2>3. m - 1 \in T
    BY <2>1, <2>2
  <2> QED
    BY <1>3, <2>2, <2>3
<1>5. m \in {cols[c] : c \in Columns} /\ \A c \in Columns : cols[c] <= m
  BY <1>3, <1>4
<1> QED
  BY <1>5 DEF MaxCount

\* How much of a cell is filled.
Reached(c, row) ==
    {k \in 1..(Fills - 1) :
        cols[c]^(Fills * (2 * Height - 1)) >= MaxCount^(2 * (Fills * row + k))}

LEMMA FilledIs ==
    ASSUME NEW c, NEW row
    PROVE  /\ IsFiniteSet(Reached(c, row)) /\ Cardinality(Reached(c, row)) \in Nat
           /\ Filled(c, row) = IF MaxCount = 1 THEN 0 ELSE Cardinality(Reached(c, row))
           /\ Filled(c, row) \in Nat
<1>1. Fills - 1 \in Int /\ 1 \in Int
  BY HistAssumption
<1>2. IsFiniteSet(1..(Fills - 1))
  BY <1>1, FS_Interval
<1>3. Reached(c, row) \subseteq 1..(Fills - 1)
  BY DEF Reached
<1>4. IsFiniteSet(Reached(c, row)) /\ Cardinality(Reached(c, row)) \in Nat
  BY <1>2, <1>3, FS_Subset, FS_CardinalityType
<1>5. Filled(c, row) = IF MaxCount = 1 THEN 0 ELSE Cardinality(Reached(c, row))
  BY DEF Filled, Reached
<1> QED
  BY <1>4, <1>5

\* The counts are of samples there are, and so are their powers numbers.
Plotted == cols \in [Columns -> Nat] /\ \A c \in Columns : cols[c] <= Samples

LEMMA PowerTypes ==
    ASSUME Plotted, NEW c \in Columns, cols[c] # 0
    PROVE  /\ cols[c] \in 1..Samples /\ MaxCount \in 1..Samples
           /\ cols[c]^(Fills * (2 * Height - 1)) \in Int
           /\ \A j \in Nat : MaxCount^j \in Int
<1>1. cols[c] \in 1..Samples
  BY HistAssumption DEF Plotted
<1>2. MaxCount \in 1..Samples
  <2>1. /\ MaxCount \in {cols[e] : e \in Columns} /\ cols[c] <= MaxCount
    BY MaxCountIs DEF Plotted
  <2>2. MaxCount \in Nat /\ MaxCount <= Samples
    BY <2>1 DEF Plotted
  <2> QED
    BY <1>1, <2>1, <2>2
<1>3. Fills * (2 * Height - 1) \in Nat
  BY HistAssumption
<1>4. cols[c] \in Nat \ {0} /\ MaxCount \in Nat \ {0}
  BY <1>1, <1>2
<1>5. cols[c]^(Fills * (2 * Height - 1)) \in Int
  BY <1>3, <1>4
<1>6. \A j \in Nat : MaxCount^j \in Int
  BY <1>4
<1> QED
  BY <1>1, <1>2, <1>5, <1>6

\* A higher column is filled no less.
LEMMA FilledMore ==
    ASSUME Plotted, NEW c \in Columns, NEW e \in Columns, NEW row \in 0..(Height - 1),
           cols[c] # 0, cols[c] <= cols[e]
    PROVE  Filled(c, row) <= Filled(e, row)
<1> DEFINE K == Fills * (2 * Height - 1)
<1>1. cols[c] \in Nat /\ cols[e] \in Nat /\ cols[e] # 0
  BY DEF Plotted
<1>2. /\ cols[c] \in 1..Samples /\ cols[e] \in 1..Samples
      /\ cols[c]^K \in Int /\ cols[e]^K \in Int /\ \A j \in Nat : MaxCount^j \in Int
  BY <1>1, PowerTypes
<1>3. cols[c]^K <= cols[e]^K
  BY <1>2, HistPowersAssumption
<1>4. \A k \in 1..(Fills - 1) : 2 * (Fills * row + k) \in Nat
  BY HistAssumption
<1>5. ASSUME NEW k \in Reached(c, row) PROVE k \in Reached(e, row)
  <2>1. k \in 1..(Fills - 1) /\ cols[c]^K >= MaxCount^(2 * (Fills * row + k))
    BY DEF Reached
  <2>2. MaxCount^(2 * (Fills * row + k)) \in Int
    BY <1>2, <1>4, <2>1
  <2>3. cols[e]^K >= MaxCount^(2 * (Fills * row + k))
    BY <1>2, <1>3, <2>1, <2>2
  <2> QED
    BY <2>1, <2>3 DEF Reached
<1>6. Cardinality(Reached(c, row)) <= Cardinality(Reached(e, row))
  BY <1>5, FilledIs, FS_Subset
<1> QED
  BY <1>6, FilledIs

\* Below a cell that is filled at all is one that is full.
LEMMA FilledBelow ==
    ASSUME Plotted, NEW c \in Columns, cols[c] # 0, NEW row \in 1..(Height - 1),
           Filled(c, row) > 0
    PROVE  Filled(c, row - 1) = Fills - 1
<1> DEFINE K == Fills * (2 * Height - 1)
<1>0. Fills \in Nat \ {0} /\ Height \in Nat \ {0}
  BY HistAssumption
<1>1. MaxCount # 1 /\ Cardinality(Reached(c, row)) > 0
  <2>1. Filled(c, row) = IF MaxCount = 1 THEN 0 ELSE Cardinality(Reached(c, row))
    BY FilledIs
  <2>2. CASE MaxCount = 1
    BY <2>1, <2>2
  <2>3. CASE MaxCount # 1
    BY <2>1, <2>3
  <2> QED
    BY <2>2, <2>3
<1>2. PICK k \in Reached(c, row) : TRUE
  <2>1. Reached(c, row) # {}
    BY <1>1, FS_EmptySet
  <2> QED
    BY <2>1
<1>3. k \in 1..(Fills - 1) /\ cols[c]^K >= MaxCount^(2 * (Fills * row + k))
  BY DEF Reached
<1>4. /\ MaxCount \in 1..Samples /\ cols[c]^K \in Int /\ \A j \in Nat : MaxCount^j \in Int
  BY PowerTypes
<1>5. ASSUME NEW l \in 1..(Fills - 1) PROVE l \in Reached(c, row - 1)
  <2> DEFINE a == 2 * (Fills * (row - 1) + l)
             b == 2 * (Fills * row + k)
  <2>1. PICK h \in Nat : Height = row + 1 + h
    BY <1>0
  <2>2. /\ Fills * row \in Nat /\ Fills * h \in Nat
        /\ Fills * (row - 1) = Fills * row - Fills /\ Fills * row >= Fills
        /\ 2 * Fills * Height = 2 * (Fills * row) + 2 * Fills + 2 * (Fills * h)
    <3>1. row \in Nat \ {0}
      OBVIOUS
    <3>2. PICK g \in Nat : row = g + 1
      BY <3>1
    <3>3. Fills * row = Fills * g + Fills /\ Fills * g \in Nat
      BY <1>0, <3>2
    <3> QED
      BY <1>0, <2>1, <3>1, <3>2, <3>3
  <2>3. a \in 0..(2 * Fills * Height) /\ b \in 0..(2 * Fills * Height) /\ a <= b
    BY <1>0, <1>3, <2>2
  <2>4. a \in Nat /\ b \in Nat
    BY <2>3, <1>0
  <2> HIDE DEF a, b
  <2>5. MaxCount^a <= MaxCount^b
    BY <1>4, <2>3, HistPowersAssumption
  <2>6. MaxCount^a \in Int /\ MaxCount^b \in Int
    BY <1>4, <2>4
  <2>7. cols[c]^K >= MaxCount^b
    BY <1>3 DEF b
  <2>8. cols[c]^K >= MaxCount^a
    BY <1>4, <2>5, <2>6, <2>7
  <2> QED
    BY <2>8 DEF Reached, a
<1>6. Reached(c, row - 1) = 1..(Fills - 1)
  BY <1>5 DEF Reached
<1>7. Cardinality(1..(Fills - 1)) = Fills - 1
  <2>1. Fills - 1 \in Nat /\ 1 \in Int
    BY <1>0
  <2> QED
    BY <2>1, FS_Interval
<1> QED
  BY <1>1, <1>6, <1>7, FilledIs

(***************************************************************************)
(* The bars show the columns, for a plot of any size: none with samples is *)
(* empty, more samples are never lower, no bar has a gap (lat.go:142-180). *)
(***************************************************************************)
THEOREM BarsShowColumns == Spec => []BarsFaithful
<1>1. PrintInv /\ Upward /\ Conserved => BarsFaithful
  <2> SUFFICES ASSUME PrintInv, Upward, Conserved,
                      pc \in {"ticks", "done"}, form = "plot", minb # -1,
                      NEW c \in Columns
               PROVE  /\ Glyph(c, 0) > 0 <=> cols[c] > 0
                      /\ \A e \in Columns, row \in 0..(Height - 1) :
                           cols[c] <= cols[e] => Glyph(c, row) <= Glyph(e, row)
                      /\ \A row \in 1..(Height - 1) :
                           Glyph(c, row) > 0 => Glyph(c, row - 1) = Fills - 1
    BY DEF BarsFaithful
  <2>1. Plotted
    <3>1. cols \in [Columns -> Nat]
      BY DEF PrintInv, PrintTypes, Upward
    <3>2. Total(cols) <= Samples
      <4>1. Total(cols) \in Int /\ Total(Buckets) \in Int
        <5>1. cols \in [Columns -> Int] /\ Buckets \in [Bs -> Int]
          BY DEF PrintInv, PrintTypes
        <5> QED
          BY <5>1, Finite, TotalInt
      <4> QED
        BY <4>1, HistAssumption DEF Conserved, Upward
    <3>3. \A e \in Columns : cols[e] <= Total(cols) /\ Total(cols) \in Nat /\ cols[e] \in Nat
      BY <3>1, ColumnBelowTotal
    <3> QED
      BY <3>1, <3>2, <3>3, HistAssumption DEF Plotted
  <2>2. \A e \in Columns : cols[e] \in Nat
    BY <2>1 DEF Plotted
  <2>3. \A e, row : Filled(e, row) \in Nat
    BY FilledIs
  <2>4. Glyph(c, 0) > 0 <=> cols[c] > 0
    BY <2>2, <2>3 DEF Glyph
  <2>5. ASSUME NEW e \in Columns, NEW row \in 0..(Height - 1), cols[c] <= cols[e]
        PROVE  Glyph(c, row) <= Glyph(e, row)
    <3>1. CASE cols[c] = 0
      BY <2>3, <3>1 DEF Glyph
    <3>2. CASE cols[c] # 0
      <4>1. Filled(c, row) <= Filled(e, row) /\ cols[e] # 0
        BY <2>1, <2>2, <2>5, <3>2, FilledMore
      <4> QED
        BY <2>3, <3>2, <4>1 DEF Glyph
    <3> QED
      BY <3>1, <3>2
  <2>6. ASSUME NEW row \in 1..(Height - 1), Glyph(c, row) > 0
        PROVE  Glyph(c, row - 1) = Fills - 1
    <3>1. cols[c] # 0 /\ Filled(c, row) > 0
      BY <2>6 DEF Glyph
    <3>2. Filled(c, row - 1) = Fills - 1
      BY <2>1, <3>1, FilledBelow
    \* There is a glyph other than the space.
    <3>3. Fills - 1 # 0
      <4>1. Cardinality(Reached(c, row)) > 0
        BY <3>1, FilledIs
      <4>2. Reached(c, row) # {}
        BY <4>1, FS_EmptySet
      <4> QED
        BY <4>2, HistAssumption DEF Reached
    <3> QED
      BY <3>1, <3>2, <3>3 DEF Glyph
  <2> QED
    BY <2>4, <2>5, <2>6
<1> QED
  BY <1>1, PrintInvariant, UpwardInvariant, PrintConserves, PTL

-----------------------------------------------------------------------------
(***************************************************************************)
(* Where a plot may panic.  A bucket is spread over columns left of its    *)
(* right edge; with the first tick in the range every tick is at a column  *)
(* that has room for its label, and to the right of the tick before it,    *)
(* until there is one in the last bucket.                                  *)
(***************************************************************************)
Fits(t) == TickColumn(t) >= HalfLabel(t) \/ TickColumn(t) >= Width

Clear == BucketOf(FirstTick) >= minb /\ TickColumn(FirstTick) >= HalfLabel(FirstTick)

\* There is a tick in the column of the last bucket.
Full == maxb = NB /\ TickColumn(LM) \in marks

Placed ==
    /\ pc = "spread" => col \in Nat /\ col * D < right /\ right <= Edge
    /\ pc = "ticks" /\ Clear =>
         Full \/ (tick \in Nat \ {0} /\ BucketOf(tick) >= minb /\ Fits(tick))
    /\ pc = "panic" => i = maxb /\ (Clear => Full)

\* A bucket has an index.
LEMMA BucketOfType == ASSUME NEW t PROVE BucketOf(t) \in Bs
<1>0. NB \in Nat \ {0}
  BY BucketsAssumption
<1> DEFINE T == {k \in 1..NB : LM^k <= t^NB}
<1>1. IsFiniteSet(1..NB) /\ T \subseteq 1..NB
  <2>1. IsFiniteSet(1..NB)
    BY <1>0, FS_Interval
  <2> QED
    BY <2>1
<1>2. Cardinality(T) \in Nat
  BY <1>1, FS_Subset, FS_CardinalityType
<1>3. LogBucket(t) = Cardinality(T)
  BY DEF LogBucket
<1> HIDE DEF T
<1> QED
  BY <1>0, <1>2, <1>3 DEF BucketOf, ToBucket, Bs

\* The bound of a bucket is no more than LM.
LEMMA BoundType == ASSUME NEW b PROVE FromBucket(b).lo \in 0..LM
<1>0. LM \in Nat \ {0, 1}
  BY BucketsAssumption
<1> DEFINE T == {x \in 1..LM : x^NB <= LM^b}
<1>1. IsFiniteSet(1..LM) /\ Cardinality(1..LM) = LM /\ T \subseteq 1..LM
  <2>1. IsFiniteSet(1..LM) /\ Cardinality(1..LM) = LM
    BY <1>0, FS_Interval
  <2> QED
    BY <2>1
<1>2. Cardinality(T) \in Nat /\ Cardinality(T) <= LM
  BY <1>1, FS_Subset, FS_CardinalityType
<1>3. Power(b) = Cardinality(T)
  BY DEF Power
<1> HIDE DEF T
<1> QED
  BY <1>0, <1>2, <1>3 DEF FromBucket

\* The first tick is zero, or a number above it.
LEMMA FirstTickType == FirstTick \in Nat
<1>1. PICK mint : mint = FromBucket(minb).lo
  OBVIOUS
<1>2. mint \in 0..LM /\ LM \in Nat /\ IntWidth \in Nat /\ XBase \in Nat
  BY <1>1, BoundType, BucketsAssumption, HistAssumption
<1> DEFINE Powers == {XBase^k : k \in 0..IntWidth}
           Enough == {p \in Powers : p >= mint}
<1>3. \A k \in 0..IntWidth : XBase^k \in Int
  <2>1. XBase \in Nat \ {0} /\ \A k \in 0..IntWidth : k \in Nat
    BY HistAssumption
  <2>2. \A k \in Nat : XBase^k \in Int
    BY <2>1
  <2> QED
    BY <2>1, <2>2
<1>4. XBase^IntWidth \in Enough
  <2>1. IntWidth \in 0..IntWidth
    BY <1>2
  <2>2. XBase^IntWidth \in Int
    BY <1>3, <2>1
  <2> QED
    BY <1>2, <2>1, <2>2, TicksAssumption
<1>5. Enough \in SUBSET Nat
  BY <1>2, <1>3
<1>6. PICK p \in Enough : \A s \in Enough : p <= s
  BY <1>4, <1>5, Least
<1>7. p \in Powers /\ p >= mint /\ \A s \in Powers : s >= mint => p <= s
  BY <1>6
<1> DEFINE first == CHOOSE q \in Powers : q >= mint /\ \A s \in Powers : s >= mint => q <= s
<1>8. first \in Powers /\ first >= mint
  BY <1>7
<1>9. first \in Nat
  BY <1>5, <1>8
<1>10. FirstTick = IF mint = 0 THEN 0 ELSE first
  BY <1>1 DEF FirstTick
<1> HIDE DEF first
<1> QED
  BY <1>9, <1>10

\* A label takes one or two cells on each side.
LEMMA HalfLabelType == ASSUME NEW t PROVE HalfLabel(t) \in {1, 2}
BY DEF HalfLabel

\* The column of a bucket in or above the range.
LEMMA TickColumnIs ==
    ASSUME PrintTypes, Ranged, minb # -1, NEW t, BucketOf(t) >= minb
    PROVE  /\ maxb - minb \in Nat \ {0} /\ BucketOf(t) - minb \in Nat
           /\ (BucketOf(t) - minb) * Width \in Nat
           /\ TickColumn(t) = ((BucketOf(t) - minb) * Width) \div (maxb - minb)
           /\ TickColumn(t) \in Nat
<1>1. BucketOf(t) \in Int
  BY BucketOfType, BucketsAssumption DEF Bs
<1>2. PICK m, d : m = maxb - minb /\ d = BucketOf(t) - minb
  OBVIOUS
<1>3. m \in Nat \ {0} /\ d \in Nat
  BY <1>1, <1>2 DEF PrintTypes, Ranged
<1>4. TickColumn(t) = (d * Width) \div m
  BY <1>2, <1>3 DEF TickColumn
<1>5. d * Width \in Nat
  BY <1>3, HistAssumption
<1>6. \A p \in Nat : p \div m \in Nat
  BY <1>3
<1> QED
  BY <1>2, <1>3, <1>4, <1>5, <1>6

\* As many columns more make a quotient larger by at least one, or by w.
LEMMA QuotientGrows ==
    ASSUME NEW m \in Nat \ {0}, NEW a \in Nat, NEW b \in Nat, NEW w \in Nat,
           a + w * m <= b
    PROVE  (a \div m) + w <= b \div m
<1> DEFINE s == a \div m
<1>1. a = m * s + (a % m) /\ a % m \in 0..(m - 1) /\ s \in Nat
  OBVIOUS
<1>2. PICK r \in 0..(m - 1) : a = m * s + r
  BY <1>1
<1> HIDE DEF s
<1>3. a + w * m = m * (s + w) + r /\ w * m \in Nat /\ s + w \in Nat
  BY <1>1, <1>2
<1>4. PICK c \in Nat, t \in Nat : c = a + w * m /\ t = s + w /\ c = m * t + r
  <2>1. a + w * m \in Nat
    BY <1>3
  <2> QED
    BY <1>3, <2>1
<1>5. c \div m = t
  <2>1. c = m * (c \div m) + (c % m) /\ c % m \in 0..(m - 1) /\ c \div m \in Nat
    BY <1>4
  <2>2. PICK u \in Nat, v \in 0..(m - 1) : c = m * u + v /\ u = c \div m
    BY <2>1
  <2>3. u = t
    <3>1. m * u + v = m * t + r
      BY <1>4, <2>2
    <3>2. CASE u < t
      <4>1. PICK e \in Nat : t = u + 1 + e
        BY <3>2
      <4>2. m * t = m * u + m + m * e /\ m * e \in Nat /\ m * u \in Nat
        BY <4>1
      <4> QED
        BY <1>2, <3>1, <4>2
    <3>3. CASE t < u
      <4>1. PICK e \in Nat : u = t + 1 + e
        BY <3>3
      <4>2. m * u = m * t + m + m * e /\ m * e \in Nat /\ m * t \in Nat
        BY <4>1
      <4> QED
        BY <1>2, <3>1, <4>2
    <3> QED
      BY <3>2, <3>3
  <2> QED
    BY <2>2, <2>3
<1>6. c \div m <= b \div m
  BY <1>4, QuotientOrder
<1> QED
  BY <1>4, <1>5, <1>6 DEF s

\* A range from the first bucket starts with the tick 0, that has no room.
LEMMA ClearAbove ==
    ASSUME PrintTypes, Ranged, minb # -1, Clear
    PROVE  minb # 0 /\ FirstTick # 0
<1>1. BucketOf(0) = 0
  BY BucketsAssumption DEF BucketOf, ToBucket
<1>2. HalfLabel(0) = 1
  BY DEF HalfLabel
<1>3. minb = 0 => FirstTick = 0
  BY DEF FirstTick, FromBucket
<1>4. ASSUME FirstTick = 0 PROVE FALSE
  <2>1. minb = 0
    BY <1>1, <1>4 DEF Clear, PrintTypes
  <2>2. PICK m \in Nat \ {0} : m = maxb - minb
    BY <2>1 DEF PrintTypes, Ranged
  <2>3. 0 * Width = 0 /\ 0 \div m = 0
    BY HistAssumption, <2>2
  <2>4. TickColumn(0) = (0 * Width) \div m
    BY <1>1, <2>1, <2>2 DEF TickColumn
  <2> QED
    BY <1>2, <1>4, <2>3, <2>4 DEF Clear
<1> QED
  BY <1>3, <1>4

\* The tick after one before the last bucket has room for its label, unless it
\* lies beyond the plot (lat.go:193-207).
LEMMA NextTick ==
    ASSUME PrintTypes, Ranged, minb \notin {-1, 0},
           tick \in Nat \ {0}, BucketOf(tick) >= minb, maxb = NB => tick < LM,
           TickColumn(tick) < Width, TickColumn(tick) >= HalfLabel(tick),
           NEW t, t = Wrapped(tick * XBase)
    PROVE  t \in Nat \ {0} /\ BucketOf(t) >= minb /\ Fits(t)
<1>0. /\ NB \in Nat \ {0} /\ LM \in Nat \ {0, 1} /\ Width \in Nat \ {0} /\ XBase \in Nat \ {0, 1}
      /\ minb \in 1..(NB - 1) /\ maxb \in 1..NB /\ minb < maxb
  BY BucketsAssumption, HistAssumption DEF PrintTypes, Ranged
<1>1. PICK m : m = maxb - minb
  OBVIOUS
<1>2. m \in Nat \ {0} /\ m <= NB - 1
  BY <1>0, <1>1
<1>3. /\ \A u : BucketOf(u) >= minb =>
           /\ BucketOf(u) - minb \in Nat
           /\ TickColumn(u) = ((BucketOf(u) - minb) * Width) \div m /\ TickColumn(u) \in Nat
  BY <1>1, TickColumnIs
<1>4. \A u : BucketOf(u) \in 0..(NB - 1)
  BY BucketOfType DEF Bs
\* One that lies in the last bucket is beyond the plot, or the plot ends there.
<1>5. ASSUME NEW u \in Int, u >= LM, maxb # NB
      PROVE  BucketOf(u) >= minb /\ TickColumn(u) >= Width
  <2>1. BucketOf(u) = NB - 1
    BY <1>5 DEF BucketOf
  <2>2. PICK d \in Nat : d = BucketOf(u) - minb /\ m <= d
    BY <1>0, <1>1, <1>5, <2>1
  <2>3. PICK e \in Nat : d = m + e
    BY <1>2, <2>2
  <2>4. d * Width = Width * m + e * Width /\ e * Width \in Nat /\ Width * m \in Nat
    BY <1>0, <1>2, <2>3
  <2>5. 0 \div m + Width <= (d * Width) \div m
    <3>1. d * Width \in Nat /\ 0 + Width * m <= d * Width
      BY <2>4
    <3> QED
      BY <1>0, <1>2, <3>1, QuotientGrows
  <2>6. 0 \div m = 0
    BY <1>2
  <2>7. BucketOf(u) >= minb
    BY <1>0, <2>1
  <2>8. TickColumn(u) = (d * Width) \div m /\ TickColumn(u) \in Nat
    BY <1>3, <2>2, <2>7
  <2> QED
    BY <1>0, <2>5, <2>6, <2>7, <2>8
<1>6. tick < LM
  <2> SUFFICES ASSUME ~(tick < LM), maxb # NB PROVE FALSE
    OBVIOUS
  <2>1. TickColumn(tick) >= Width
    BY <1>0, <1>5
  <2>2. TickColumn(tick) \in Nat
    BY <1>3
  <2> QED
    BY <1>0, <2>1, <2>2
\* It does not overflow.
<1>7. t = tick * XBase /\ t \in Nat \ {0}
  <2> DEFINE h == 2^(IntWidth - 1)
  <2>1. IntWidth - 1 \in Nat
    BY HistAssumption
  <2>2. h \in Int
    BY <2>1
  <2>3. LM * XBase <= h /\ 2^IntWidth = 2 * h
    BY TicksAssumption
  <2>4. PICK p : p = tick * XBase
    OBVIOUS
  <2>5. p \in Nat \ {0} /\ p < LM * XBase
    <3>1. PICK e \in Nat : LM = tick + 1 + e
      BY <1>0, <1>6
    <3>2. LM * XBase = tick * XBase + XBase + e * XBase /\ e * XBase \in Nat
      BY <1>0, <3>1
    <3>3. tick * XBase \in Nat \ {0}
      BY <1>0
    <3> QED
      BY <1>0, <2>4, <3>2, <3>3
  <2> HIDE DEF h
  <2>6. LM * XBase \in Int
    BY <1>0
  <2>7. p + h \in 0..(2 * h - 1) /\ h \in Nat
    BY <2>2, <2>3, <2>5, <2>6
  <2>8. (p + h) % (2 * h) = p + h
    <3>1. PICK q, n \in Nat : q = p + h /\ n = 2 * h
      BY <2>7
    <3>2. q \in 0..(n - 1)
      BY <2>7, <3>1
    <3>3. q % n = q
      BY <3>2
    <3> QED
      BY <3>1, <3>3
  <2>9. Wrapped(p) = ((p + h) % (2 * h)) - h
    BY <2>3 DEF Wrapped, h
  <2>10. Wrapped(p) = p
    BY <2>5, <2>7, <2>8, <2>9
  <2> QED
    BY <2>4, <2>5, <2>10
<1>8. CASE t >= LM /\ maxb # NB
  BY <1>5, <1>7, <1>8 DEF Fits
<1>9. CASE t >= LM /\ maxb = NB
  <2>1. BucketOf(t) = NB - 1 /\ BucketOf(t) >= minb
    BY <1>0, <1>9 DEF BucketOf
  <2>2. TickColumn(t) = ((m - 1) * Width) \div m
    <3>1. BucketOf(t) - minb = m - 1
      BY <1>0, <1>1, <1>9, <2>1
    <3> QED
      BY <1>3, <2>1, <3>1
  <2>3. BucketOf(tick) # minb
    <3> SUFFICES ASSUME BucketOf(tick) = minb PROVE FALSE
      OBVIOUS
    <3>1. TickColumn(tick) = (0 * Width) \div m
      BY <1>0, <1>3
    <3>2. TickColumn(tick) = 0
      BY <1>0, <1>2, <3>1
    <3> QED
      BY <3>2, HalfLabelType
  <2>4. m >= 2
    BY <1>0, <1>1, <1>4, <1>9, <2>3
  <2>5. PICK w \in Nat : w = (m - 1) * Width /\ 0 + 2 * m <= w
    <3>1. PICK v \in Nat : Width = 4 + v
      BY <1>0, TicksAssumption
    <3>2. PICK k \in Nat : m = 2 + k
      BY <1>2, <2>4
    <3>3. (m - 1) * Width = 4 + v + k * 4 + k * v /\ k * v \in Nat
      BY <3>1, <3>2
    <3> QED
      BY <3>1, <3>2, <3>3
  <2>6. (0 \div m) + 2 <= w \div m
    BY <1>2, <2>5, QuotientGrows
  <2>7. 0 \div m = 0
    BY <1>2
  <2>8. TickColumn(t) >= 2
    BY <1>3, <2>1, <2>2, <2>5, <2>6, <2>7
  <2> QED
    BY <1>3, <1>7, <2>1, <2>8, HalfLabelType DEF Fits
<1>10. CASE ~(t >= LM)
  <2>1. (BucketOf(t) - BucketOf(tick)) * Width >= NB - 1
    <3>1. tick \in 1..(LM - 1) /\ tick * XBase < LM
      BY <1>0, <1>6, <1>7, <1>10
    <3> QED
      BY <1>7, <3>1, TicksAssumption
  <2>2. PICK a, b \in Int : a = BucketOf(tick) /\ b = BucketOf(t)
    BY <1>4
  <2>3. b >= a
    <3> SUFFICES ASSUME b < a PROVE FALSE
      BY <2>2
    <3>0. a \in Int /\ b \in Int
      BY <2>2
    <3>1. PICK e \in Nat : a = b + 1 + e
      <4>1. a - b - 1 \in Nat /\ a = b + 1 + (a - b - 1)
        BY <3>0
      <4> QED
        BY <4>1
    <3>2. (b - a) * Width = -Width - e * Width /\ e * Width \in Nat
      <4>1. b - a = -1 - e
        BY <2>2, <3>1
      <4>2. (-1 - e) * Width = -Width - e * Width
        BY <1>0
      <4>3. e * Width \in Nat
        BY <1>0
      <4> QED
        BY <4>1, <4>2, <4>3
    <3>3. (b - a) * Width >= NB - 1
      BY <2>1, <2>2
    <3> QED
      BY <1>0, <3>2, <3>3
  <2>4. a >= minb /\ b >= minb
    BY <1>0, <2>2, <2>3
  <2>5. TickColumn(tick) = ((a - minb) * Width) \div m /\ TickColumn(tick) \in Nat
    BY <1>3, <2>2, <2>4
  <2>6. TickColumn(t) = ((b - minb) * Width) \div m /\ TickColumn(t) \in Nat
    BY <1>3, <2>2, <2>4
  <2>7. PICK x, y \in Nat : x = (a - minb) * Width /\ y = (b - minb) * Width
    <3>1. a - minb \in Nat /\ b - minb \in Nat
      BY <1>0, <2>2, <2>4
    <3> QED
      BY <1>0, <3>1
  <2>8. x + 1 * m <= y
    <3>1. y = x + (b - a) * Width
      BY <1>0, <2>2, <2>7
    <3>2. (b - a) * Width \in Int /\ (b - a) * Width >= m
      BY <1>0, <1>2, <2>1, <2>2
    <3> QED
      BY <1>2, <2>7, <3>1, <3>2
  <2>9. (x \div m) + 1 <= y \div m
    BY <1>2, <2>8, QuotientGrows
  <2>10. TickColumn(tick) + 1 <= TickColumn(t)
    BY <2>5, <2>6, <2>7, <2>9
  <2>11. TickColumn(t) >= HalfLabel(t)
    BY <2>5, <2>6, <2>10, HalfLabelType
  <2> QED
    BY <1>7, <2>2, <2>4, <2>11 DEF Fits
<1> QED
  BY <1>7, <1>8, <1>9, <1>10

\* What the ticks start from does not change while they are placed.
LEMMA ClearKeeps ==
    ASSUME UNCHANGED <<minb, maxb>>
    PROVE  Clear' = Clear /\ TickColumn(LM)' = TickColumn(LM)
<1>1. FirstTick' = FirstTick
  BY DEF FirstTick
<1>2. PICK f : f = FirstTick
  OBVIOUS
<1>3. TickColumn(FirstTick)' = TickColumn(FirstTick) /\ TickColumn(LM)' = TickColumn(LM)
  BY <1>1 DEF TickColumn
<1> QED
  BY <1>1, <1>3 DEF Clear

LEMMA PlacedStep == PrintInv /\ Placed /\ [Next]_vars => Placed'
<1> SUFFICES ASSUME PrintInv, Placed, [Next]_vars PROVE Placed'
  OBVIOUS
<1>0. PrintTypes /\ Ranged
  BY DEF PrintInv
<1>1. CASE Bound \/ Bounded \/ Row
  BY <1>1 DEF Bound, Bounded, Row, Goes, Placed
<1>2. ASSUME UNCHANGED <<pc, minb, maxb, i, right, col, tick, marks>> PROVE Placed'
  <2>1. Clear' = Clear /\ D' = D /\ Edge' = Edge /\ Full' = Full
    BY <1>2, ClearKeeps DEF D, Edge, Full
  <2>2. BucketOf(tick)' = BucketOf(tick) /\ Fits(tick)' = Fits(tick)
    BY <1>2 DEF Fits, TickColumn
  <2> QED
    BY <1>2, <2>1, <2>2 DEF Placed
<1>3. ASSUME NEW r \in Rights, LoadWithin(r) PROVE Placed'
  <2>1. pc = "load" /\ pc' = pc
    BY <1>0, <1>3, WithinColumns DEF LoadWithin, Read
  <2> QED
    BY <2>1 DEF Placed
<1>4. ASSUME NEW r \in Rights, LoadAcross(r) PROVE Placed'
  <2>1. pc = "load" /\ i < maxb /\ pc' = "spread" /\ col' = LeftColumn /\ right' = Clip(r)
        /\ UNCHANGED <<minb, maxb>> /\ Clip(r) \div D # LeftColumn
    BY <1>4 DEF LoadAcross, Read, range
  <2>2. /\ D \in Nat \ {0} /\ Left \in Nat /\ Left < Edge /\ Edge = Width * D
        /\ Clip(r) \in Int /\ Left <= Clip(r) /\ Clip(r) <= Edge /\ Width \in Nat
    BY <1>0, <2>1, Geometry, HistAssumption
  <2>3. LeftColumn \in 0..(Width - 1) /\ LeftColumn * D <= Left
    BY <2>2, ColumnOf DEF LeftColumn
  <2>4. Left # Clip(r)
    BY <2>1 DEF LeftColumn
  <2>5. LeftColumn \in Nat /\ LeftColumn * D \in Int
    BY <2>2, <2>3
  <2>6. LeftColumn * D < Clip(r)
    BY <2>2, <2>3, <2>4, <2>5
  <2>7. D' = D /\ Edge' = Edge
    BY <2>1 DEF D, Edge
  <2> QED
    BY <2>1, <2>2, <2>5, <2>6, <2>7 DEF Placed
<1>5. CASE Spread
  <2>1. pc = "spread" /\ i < maxb /\ UNCHANGED <<minb, maxb, right>>
    BY <1>0, <1>5 DEF Spread, range, Ranged
  <2>2. D \in Nat \ {0} /\ Edge = Width * D /\ Width \in Nat /\ right \in Int
    BY <1>0, <2>1, Geometry, HistAssumption DEF PrintTypes
  <2>3. col \in Nat /\ col * D < right /\ right <= Edge
    BY <2>1 DEF Placed
  <2>4. col \in Columns
    <3> SUFFICES ASSUME Width <= col PROVE FALSE
      BY <2>2, <2>3 DEF Columns
    <3>1. PICK e \in Nat : col = Width + e
      BY <2>2, <2>3
    <3>2. PICK g \in Nat : g = D
      BY <2>2
    <3>3. col * g = Width * g + e * g /\ e * g \in Nat /\ Width * g \in Nat
      BY <2>2, <3>1
    <3> QED
      BY <2>2, <2>3, <3>2, <3>3
  <2>5. /\ col' = col + 1
        /\ pc' = IF (col + 1) * D < right THEN "spread" ELSE "load"
    BY <1>5, <2>4 DEF Spread
  <2>6. D' = D /\ Edge' = Edge
    BY <2>1 DEF D, Edge
  <2> QED
    BY <2>1, <2>3, <2>5, <2>6 DEF Placed
<1>6. CASE StartTicks
  <2>1. pc = "load" /\ pc' = "ticks" /\ tick' = FirstTick /\ UNCHANGED <<minb, maxb>>
    BY <1>6 DEF StartTicks, Goes, range
  <2>2. minb # -1
    BY <1>0, <2>1 DEF Ranged
  <2>3. Clear' = Clear
    BY <2>1, ClearKeeps
  <2>4. BucketOf(tick)' = BucketOf(FirstTick) /\ Fits(tick)' = Fits(FirstTick)
    BY <2>1 DEF Fits, TickColumn
  <2>5. ASSUME Clear PROVE FirstTick # 0
    BY <1>0, <2>2, <2>5, ClearAbove
  <2>6. ASSUME Clear PROVE FirstTick \in Nat \ {0} /\ BucketOf(FirstTick) >= minb /\ Fits(FirstTick)
    BY <2>5, <2>6, FirstTickType DEF Clear, Fits
  <2> QED
    BY <2>1, <2>3, <2>4, <2>6 DEF Placed
<1>7. CASE Tick
  <2>1. /\ pc = "ticks" /\ pc' = "ticks" /\ tick' = Wrapped(tick * XBase)
        /\ TickColumn(tick) < Width /\ TickColumn(tick) >= HalfLabel(tick)
        /\ marks' = marks \cup {TickColumn(tick)}
        /\ UNCHANGED <<minb, maxb>>
    BY <1>7 DEF Tick, Goes, range
  <2>2. minb # -1
    BY <1>0, <2>1 DEF Ranged
  <2>3. Clear' = Clear /\ TickColumn(LM)' = TickColumn(LM)
    BY <2>1, ClearKeeps
  <2>4. PICK t : t = Wrapped(tick * XBase)
    OBVIOUS
  <2>5. BucketOf(tick)' = BucketOf(t) /\ Fits(tick)' = Fits(t) /\ tick' = t
    BY <2>1, <2>4 DEF Fits, TickColumn
  <2>6. Full => Full'
    BY <2>1, <2>3 DEF Full
  <2>7. ASSUME Clear, ~Full, maxb = NB => tick < LM
        PROVE  t \in Nat \ {0} /\ BucketOf(t) >= minb /\ Fits(t)
    <3>1. tick \in Nat \ {0} /\ BucketOf(tick) >= minb
      BY <2>1, <2>7 DEF Placed
    <3>2. minb \notin {-1, 0}
      BY <1>0, <2>2, <2>7, ClearAbove
    <3> QED
      BY <1>0, <2>1, <2>4, <2>7, <3>1, <3>2, NextTick
  <2>8. ASSUME Clear, ~Full, maxb = NB, ~(tick < LM)
        PROVE  Full'
    <3>1. tick \in Nat \ {0} /\ LM \in Nat
      BY <2>1, <2>8, BucketsAssumption DEF Placed
    <3>2. BucketOf(tick) = BucketOf(LM)
      BY <2>8, <3>1 DEF BucketOf
    <3>3. TickColumn(tick) = TickColumn(LM)
      BY <3>2 DEF TickColumn
    <3>4. maxb' = NB
      BY <2>1, <2>8
    <3> QED
      BY <2>1, <2>3, <3>3, <3>4 DEF Full
  <2>9. Clear => Full' \/ (t \in Nat \ {0} /\ BucketOf(t) >= minb /\ Fits(t))
    BY <2>6, <2>7, <2>8
  <2> QED
    BY <2>1, <2>3, <2>5, <2>9 DEF Placed
<1>8. CASE TickPanics
  <2>1. /\ pc = "ticks" /\ pc' = "panic" /\ UNCHANGED <<minb, maxb, i, marks>>
        /\ TickColumn(tick) < Width /\ TickColumn(tick) < HalfLabel(tick)
    BY <1>8 DEF TickPanics, Goes, range, ticks
  <2>2. minb # -1 /\ i = maxb
    BY <1>0, <2>1 DEF Ranged
  <2>3. Clear' = Clear /\ Full' = Full
    BY <2>1, ClearKeeps DEF Full
  <2>4. ASSUME Clear, ~Full PROVE FALSE
    <3>1. BucketOf(tick) >= minb /\ Fits(tick)
      BY <2>1, <2>4 DEF Placed
    <3>2. TickColumn(tick) \in Nat
      BY <1>0, <2>2, <3>1, TickColumnIs
    <3> QED
      BY <2>1, <3>1, <3>2, HalfLabelType, HistAssumption DEF Fits
  <2>5. i' = maxb'
    BY <2>1, <2>2
  <2> QED
    BY <2>1, <2>3, <2>4, <2>5 DEF Placed
<1>9. CASE LastTick
  BY <1>9 DEF LastTick, Goes, Placed
<1>10. ASSUME NEW x \in Bs, Record(x) PROVE Placed'
  BY <1>2, <1>10 DEF Record, range, bucket, ticks
<1>11. CASE UNCHANGED vars
  BY <1>2, <1>11 DEF vars, range, bucket, ticks
<1> QED
  BY <1>1, <1>3, <1>4, <1>5, <1>6, <1>7, <1>8, <1>9, <1>10, <1>11
     DEF Next, Printing, Load, Ended

(***************************************************************************)
(* A plot panics only among its ticks (lat.go:128-140, 191-209): no share  *)
(* of a bucket ever falls outside the columns, wherever the buckets meet   *)
(* them; and no tick or label is placed below zero unless the first tick   *)
(* is off to the left, or a sample lies in the last bucket and the tick    *)
(* overflows after there was one in the column of that bucket.             *)
(***************************************************************************)
THEOREM PlotPanicsOnlyAtEdges == Spec => []PanicsOnlyAtEdges
<1>1. Init => Placed
  BY DEF Init, Placed
<1>2. PrintInv /\ Placed => PanicsOnlyAtEdges
  <2> SUFFICES ASSUME PrintInv, Placed, pc = "panic" PROVE PanicsOnlyAtEdges
    BY DEF PanicsOnlyAtEdges
  <2>1. BucketOf(FirstTick) \in Int /\ minb \in Int
    BY BucketOfType, BucketsAssumption DEF Bs, PrintInv, PrintTypes
  <2>2. minb # -1
    BY DEF PrintInv, Ranged
  <2>3. BucketOf(FirstTick) >= minb => TickColumn(FirstTick) \in Int
    BY <2>2, TickColumnIs DEF PrintInv
  <2>4. HalfLabel(FirstTick) \in {1, 2}
    BY HalfLabelType
  <2>5. /\ ~(BucketOf(FirstTick) < minb) => BucketOf(FirstTick) >= minb
        /\ BucketOf(FirstTick) >= minb /\ ~(TickColumn(FirstTick) < HalfLabel(FirstTick))
             => TickColumn(FirstTick) >= HalfLabel(FirstTick)
    BY <2>1, <2>3, <2>4
  <2> QED
    BY <2>5 DEF PanicsOnlyAtEdges, Placed, Clear, Full
<1> QED
  BY <1>1, <1>2, PlacedStep, PrintInvariant, PTL DEF Spec
=============================================================================
