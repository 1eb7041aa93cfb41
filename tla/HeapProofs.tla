----------------------------- MODULE HeapProofs -----------------------------
(***************************************************************************)
(* Proofs about HeapGen and DeBruijn: the strides of Generate's goroutines *)
(* meet every slot once, for any number of goroutines and slots; Measure   *)
(* sees no floating garbage; every node of the graph has two in-edges, and *)
(* only the powers that have no graph panic.                               *)
(***************************************************************************)
EXTENDS HeapGen, FiniteSetTheorems, TLAPS

-----------------------------------------------------------------------------
(* Remainders. *)

\* What division by n leaves (heapgen.go:76, debruijn.go:32).
LEMMA Division ==
    ASSUME NEW n \in Nat \ {0}, NEW a \in Nat
    PROVE  a = n * (a \div n) + (a % n) /\ a % n \in 0..(n - 1) /\ a \div n \in Nat
OBVIOUS

\* Quotient and remainder are unique.
LEMMA DivisionUnique ==
    ASSUME NEW n \in Nat \ {0}, NEW a \in Nat, NEW q \in Int, NEW r \in 0..(n - 1),
           a = n * q + r
    PROVE  a % n = r
OBVIOUS

\* A stride keeps the remainder (heapgen.go:76).
LEMMA StrideKeeps ==
    ASSUME NEW n \in Nat \ {0}, NEW a \in Nat
    PROVE  (a + n) % n = a % n
<1> DEFINE q == a \div n
           r == a % n
<1>1. a = n * q + r /\ r \in 0..(n - 1) /\ q \in Nat
  BY Division
<1> HIDE DEF q, r
<1>2. a + n = n * (q + 1) + r /\ a + n \in Nat /\ q + 1 \in Int
  BY <1>1
<1>3. (a + n) % n = r
  BY <1>1, <1>2, DivisionUnique
<1> QED
  BY <1>3 DEF r

\* Two slots of the same goroutine are at least a stride apart (heapgen.go:76).
LEMMA StrideApart ==
    ASSUME NEW n \in Nat \ {0}, NEW a \in Nat, NEW b \in Nat,
           a % n = b % n, a <= b, b < a + n
    PROVE  a = b
<1> DEFINE q == a \div n
           s == b \div n
           r == a % n
<1>1. a = n * q + r /\ r \in 0..(n - 1) /\ q \in Nat
  BY Division
<1>2. b = n * s + r /\ s \in Nat
  BY Division
<1> HIDE DEF q, r, s
<1>3. n * (s - q) \in 0..(n - 1)
  BY <1>1, <1>2
<1>4. s = q
  BY <1>1, <1>2, <1>3
<1> QED
  BY <1>1, <1>2, <1>4

-----------------------------------------------------------------------------
(* De Bruijn graphs. *)

\* The first edge of a node (debruijn.go:32).
LEMMA EdgeForm ==
    ASSUME NEW m \in Nat \ {0}, NEW n, n = 2 * m, NEW i \in 0..(n - 1)
    PROVE  (2 * i) % n = IF i < m THEN 2 * i ELSE 2 * (i - m)
<1>1. n \in Nat \ {0} /\ 2 * i \in Nat
  OBVIOUS
<1>2. CASE i < m
  <2>1. 2 * i = n * 0 + (2 * i) /\ 2 * i \in 0..(n - 1)
    BY <1>1, <1>2
  <2> QED
    BY <1>1, <1>2, <2>1, DivisionUnique
<1>3. CASE i >= m
  <2>1. 2 * i = n * 1 + (2 * (i - m)) /\ 2 * (i - m) \in 0..(n - 1)
    BY <1>1, <1>3
  <2> QED
    BY <1>1, <1>3, <2>1, DivisionUnique
<1> QED
  BY <1>2, <1>3

(***************************************************************************)
(* "Each node in the graph has exactly 2 out-edges and 2 in-edges"         *)
(* (debruijn.go:12-13), and no edge is past the end, for every even number *)
(* of nodes.                                                               *)
(***************************************************************************)
THEOREM DegreeTwo ==
    ASSUME NEW m \in Nat \ {0}, NEW n, n = 2 * m
    PROVE  /\ \A i \in 0..(n - 1) : /\ Edge(n, i, 0) \in 0..(n - 1)
                                    /\ Edge(n, i, 1) \in 0..(n - 1)
                                    /\ Edge(n, i, 0) # Edge(n, i, 1)
           /\ \A j \in 0..(n - 1) :
                \A i \in 0..(n - 1) :
                    (\E digit \in 0..1 : Edge(n, i, digit) = j)
                      <=> i \in {j \div 2, (j \div 2) + m}
<1>1. \A i \in 0..(n - 1) : (2 * i) % n = IF i < m THEN 2 * i ELSE 2 * (i - m)
  BY EdgeForm
<1>2. ASSUME NEW i \in 0..(n - 1)
      PROVE  /\ Edge(n, i, 0) \in 0..(n - 1) /\ Edge(n, i, 1) \in 0..(n - 1)
             /\ Edge(n, i, 0) # Edge(n, i, 1)
  BY <1>1 DEF Edge
<1>3. ASSUME NEW i \in 0..(n - 1), NEW j \in 0..(n - 1)
      PROVE  (\E digit \in 0..1 : Edge(n, i, digit) = j)
               <=> i \in {j \div 2, (j \div 2) + m}
  <2>1. j = 2 * (j \div 2) + (j % 2) /\ j % 2 \in 0..1 /\ j \div 2 \in 0..(m - 1)
    BY Division
  <2>2. (2 * i) % n = IF i < m THEN 2 * i ELSE 2 * (i - m)
    BY <1>1
  <2>3. (\E digit \in 0..1 : Edge(n, i, digit) = j)
          <=> (j - ((2 * i) % n)) \in 0..1
    BY <2>2 DEF Edge
  <2> QED
    BY <2>1, <2>2, <2>3
<1> QED
  BY <1>2, <1>3

-----------------------------------------------------------------------------
(* Generate. *)

Procs == 0..(procs - 1)

Running == {"spawn", "wait", "done"}

SliceTypes ==
    /\ procs \in Nat \ {0} /\ count \in Nat /\ made \in Nat
    /\ out \in [Slots -> Nat] /\ next \in [Procs -> Nat]
    /\ spawned \in 0..procs /\ ended \in SUBSET (0..(spawned - 1))

\* Before Generate makes the slice nothing has begun.
Untouched ==
    pc \notin Running => /\ spawned = 0 /\ count = 0 /\ made = 0 /\ ended = {} /\ wg = 0
                         /\ \A p \in Procs : next[p] = p

\* A goroutine stays in its stride and has filled exactly what lies behind it.
Strides == \A p \in Procs : next[p] % procs = p
Behind == \A j \in Slots : out[j] # 0 <=> j < next[j % procs]

\* The calls so far and the slots filled correspond one to one.
Numbered ==
    /\ \A k \in 1..made : \E i \in Slots : out[i] = k
    /\ \A i \in Slots : out[i] <= made
    /\ \A i, j \in Slots : (out[i] # 0 /\ out[i] = out[j]) => i = j

\* Done is called by goroutines that are past the slice, once each.
PastEnd == \A p \in ended : next[p] >= count
Counted == pc \in {"spawn", "wait"} => wg = procs - Cardinality(ended)
AllEnded == pc = "done" => ended = Procs /\ wg = 0

SliceInv ==
    /\ SliceTypes /\ Untouched
    /\ Strides /\ Behind /\ Numbered
    /\ PastEnd /\ Counted /\ AllEnded

\* There are as many goroutines as GOMAXPROCS says (heapgen.go:71-74).
LEMMA ProcsFinite ==
    ASSUME procs \in Nat
    PROVE  IsFiniteSet(Procs) /\ Cardinality(Procs) = procs
BY FS_Interval DEF Procs

\* The slice is empty before Generate (heapgen.go:68).
LEMMA SliceInit == Init => SliceInv
<1> SUFFICES ASSUME Init PROVE SliceInv
  OBVIOUS
<1>1. procs \in Nat \ {0} /\ count = 0 /\ made = 0 /\ spawned = 0 /\ ended = {} /\ wg = 0
      /\ pc = "warm" /\ out = [i \in Slots |-> 0] /\ next = [p \in Procs |-> p]
  BY HeapAssumption DEF Init, Slots, Procs
<1>2. \A p \in Procs : p \in Nat /\ p % procs = p
  <2> SUFFICES ASSUME NEW p \in Procs PROVE p \in Nat /\ p % procs = p
    OBVIOUS
  <2>1. p = procs * 0 + p /\ p \in 0..(procs - 1) /\ p \in Nat
    BY <1>1 DEF Procs
  <2> QED
    BY <1>1, <2>1, DivisionUnique
<1>3. Slots = {}
  BY <1>1 DEF Slots
<1> QED
  BY <1>1, <1>2, <1>3 DEF SliceInv, SliceTypes, Untouched, Strides, Behind, Numbered,
     PastEnd, Counted, AllEnded, Running

\* Everything but Generate and its goroutines leaves the slice alone.
LEMMA SliceAlone ==
    ASSUME SliceInv, UNCHANGED <<setting, workers>>,
           pc' = pc \/ (pc \notin Running /\ pc' \notin Running)
    PROVE  SliceInv'
BY DEF SliceInv, SliceTypes, Untouched, Strides, Behind, Numbered, PastEnd, Counted, AllEnded,
   Running, Procs, Slots, setting, workers, slice

\* The steps of Measure, of the collector and of the rest of the program.
LEMMA SliceBefore ==
    ASSUME SliceInv, Measure \/ BeginCycle \/ EndCycle \/ (\E o \in 0..MaxOther : Others(o))
                       \/ MakeOutPanics \/ UNCHANGED vars
    PROVE  SliceInv'
<1>1. UNCHANGED <<setting, workers>>
  BY DEF Measure, WarmUp, Clear, Collect, RuntimeGC, Keep, ReadStats, BeginCycle, EndCycle,
     Others, MakeOutPanics, vars
<1>2. pc' = pc \/ (pc \notin Running /\ pc' \notin Running)
  BY DEF Measure, WarmUp, Clear, Collect, RuntimeGC, Keep, ReadStats, BeginCycle, EndCycle,
     Others, MakeOutPanics, vars, Goes, Running
<1> QED
  BY <1>1, <1>2, SliceAlone

\* The division of a measured size (heapgen.go:69).
LEMMA CountIsInt ==
    ASSUME NEW b \in Int \ {0}, goal \in Nat
    PROVE  Count(b) \in Int
<1> DEFINE x == goal + b - 1
           absx == IF x < 0 THEN -x ELSE x
           absb == IF b < 0 THEN -b ELSE b
<1>1. absx \in Nat /\ absb \in Nat \ {0}
  OBVIOUS
<1> HIDE DEF absx, absb
<1>2. absx \div absb \in Nat
  BY <1>1, Division
<1> QED
  BY <1>2 DEF Count, Quotient, absx, absb

-----------------------------------------------------------------------------
(* Measure. *)

Before == {"warm", "clear", "gc1", "gc2", "m0", "gen"}
After == {"m1", "gc3", "gc4", "m2"}
Measured == {"count"} \cup Running

HeapTypes ==
    /\ gen \in Gens /\ goal \in Nat /\ idle \in BOOLEAN
    /\ pc \in Before \cup After \cup Measured \cup {"panic"}
    /\ live \in Nat /\ dead \in Nat /\ other \in 0..MaxOther
    /\ marking \in BOOLEAN /\ doomed \in 0..dead /\ swept \in BOOLEAN
    /\ mstats \in [0..2 -> Nat]

\* A generator that does not panic keeps a known number of nodes.
Nodes == IF gen[1] = "AST" THEN gen[2] ELSE 2^gen[2]
Known == pc \notin {"warm", "panic"} => Retained \in Nat /\ Retained = Nodes

\* What is alive, and what Measure reads, when the rest of the program is idle.
Alive ==
    /\ pc \in Before => live = 0
    /\ pc \in After => live = Retained
    /\ idle => other = MaxOther
Stats ==
    idle => /\ pc \in {"gen"} \cup After \cup Measured => mstats[0] = MaxOther
            /\ pc \in {"gc3", "gc4", "m2"} \cup Measured =>
                 \/ mstats[1] - Retained - MaxOther = Garbage
                 \/ swept /\ mstats[1] - Retained - MaxOther \in 0..Garbage
            /\ pc \in Measured => mstats[2] = Retained + MaxOther

\* A cycle that begins after a collection frees all the garbage there is, so
\* nothing floats past the second one.
NoneFloats ==
    /\ ~marking => doomed = 0
    /\ idle => /\ (pc \in {"gc2", "gc4"} /\ marking) => doomed = dead
               /\ pc \in {"m0", "gen", "m2"} => dead = 0
               /\ pc \in After => dead <= Garbage
               /\ pc = "m1" => dead = Garbage \/ swept

HeapInv == HeapTypes /\ Known /\ Alive /\ Stats /\ NoneFloats

\* The sign bit of an int (debruijn.go:17).
LEMMA TopBit == 2^(IntBits - 1) \in Int /\ 2^(IntBits - 1) > 0
<1>1. IntBits - 2 \in Nat /\ IntBits - 2 + 1 = IntBits - 1
  BY IntBitsAssumption
<1>2. 2^(IntBits - 2) > 0 /\ 2^(IntBits - 1) = 2 * 2^(IntBits - 2)
  BY <1>1, IntBitsAssumption
<1>3. 2^(IntBits - 2) \in Int
  BY <1>1
<1> QED
  BY <1>2, <1>3

\* A graph that is made has 2^power nodes, all retained (debruijn.go:17-40).
LEMMA GeneratorKnown ==
    ASSUME gen \in Gens, ~(gen[1] = "deBruijn2" /\ Panics(gen[2]))
    PROVE  Retained \in Nat /\ Retained = Nodes
<1>1. gen[1] \in {"AST", "deBruijn2"} /\ gen[2] \in Int
  BY HeapAssumption
<1>2. CASE gen[1] = "AST"
  BY <1>2, ReachableAssumption DEF Retained, RetainedBy, Nodes
<1>3. CASE gen[1] # "AST"
  <2> DEFINE n == NumNodes(gen[2])
  <2>1. ~Panics(gen[2])
    BY <1>1, <1>3
  <2>2. ~(n <= 0) /\ ~(gen[2] < 0)
    BY <2>1 DEF Panics
  <2>3. n = 2^gen[2] /\ n \in Int
    <3>1. gen[2] \in Nat
      BY <1>1, <2>2
    <3>2. gen[2] < IntBits /\ IntBits \in Nat
      BY <1>1, <2>2, IntBitsAssumption DEF NumNodes
    <3>3. gen[2] # IntBits - 1
      <4> SUFFICES ASSUME gen[2] = IntBits - 1 PROVE FALSE
        OBVIOUS
      <4>1. n = -(2^(IntBits - 1))
        BY <3>1, <3>2 DEF NumNodes
      <4>2. 2^(IntBits - 1) \in Int /\ 2^(IntBits - 1) > 0
        BY TopBit
      <4> QED
        BY <2>2, <4>1, <4>2
    <3>4. 2^gen[2] \in Int
      BY <3>1
    <3> QED
      BY <3>1, <3>2, <3>3, <3>4 DEF NumNodes
  <2>4. Within(n, n) = 0..(n - 1)
    BY <1>3, <2>1, ReachableAssumption
  <2> HIDE DEF n
  <2>5. Cardinality(0..(n - 1)) = n
    BY <2>2, <2>3, FS_Interval
  <2> QED
    BY <1>3, <2>2, <2>3, <2>4, <2>5 DEF Retained, RetainedBy, Nodes, n
<1> QED
  BY <1>2, <1>3


LEMMA HeapInit == Init => HeapInv
<1> SUFFICES ASSUME Init PROVE HeapInv
  OBVIOUS
<1>1. marking \in BOOLEAN /\ ~marking /\ swept \in BOOLEAN
  BY Zenon DEF Init
<1>2. /\ gen \in Gens /\ goal \in Nat /\ idle \in BOOLEAN /\ pc = "warm"
      /\ live = 0 /\ dead = 0 /\ other = MaxOther /\ doomed = 0 /\ mstats \in [0..2 -> Nat]
  BY HeapAssumption DEF Init
<1> HIDE DEF Init
<1> QED
  BY <1>1, <1>2, HeapAssumption DEF HeapInv, HeapTypes, Known, Alive, Stats, NoneFloats,
     Before, After, Measured, Running

\* The warm-up call, the only one that can panic (heapgen.go:37).
LEMMA HeapWarmUp == HeapInv /\ WarmUp => HeapInv'
<1> SUFFICES ASSUME HeapInv, WarmUp PROVE HeapInv'
  OBVIOUS
<1>1. CASE gen[1] = "deBruijn2" /\ Panics(gen[2])
  BY <1>1 DEF HeapInv, HeapTypes, Known, Alive, Stats, NoneFloats, Before, After, Measured,
     Running, WarmUp, heap, collector, setting
<1>2. CASE ~(gen[1] = "deBruijn2" /\ Panics(gen[2]))
  <2>1. Retained \in Nat /\ Retained = Nodes
    BY <1>2, GeneratorKnown DEF HeapInv, HeapTypes
  <2>2. gen' = gen /\ Retained' = Retained /\ Nodes' = Nodes
    BY DEF WarmUp, setting, Retained, Nodes
  <2> QED
    BY <1>2, <2>1, <2>2, HeapAssumption DEF HeapInv, HeapTypes, Known, Alive, Stats, NoneFloats,
       Before, After, Measured, Running, WarmUp, CallGen, collector, setting
<1> QED
  BY <1>1, <1>2

\* The other steps of Measure (heapgen.go:40-56).
LEMMA HeapMeasure == HeapInv /\ Measure => HeapInv'
<1> SUFFICES ASSUME HeapInv, Measure PROVE HeapInv'
  OBVIOUS
<1>1. CASE WarmUp
  BY <1>1, HeapWarmUp
<1> SUFFICES ASSUME ~WarmUp PROVE HeapInv'
  BY <1>1
<1>2. gen' = gen /\ goal' = goal /\ idle' = idle /\ Retained' = Retained /\ Nodes' = Nodes
  BY DEF Measure, Clear, Collect, RuntimeGC, Keep, ReadStats, setting, Retained, Nodes
<1>3. pc \notin {"warm", "panic"} /\ Retained \in Nat /\ Retained = Nodes
  BY DEF Measure, Clear, Collect, RuntimeGC, Keep, ReadStats, Goes, HeapInv, Known
<1> USE DEF HeapInv, HeapTypes, Known, Alive, Stats, NoneFloats, Before, After, Measured,
        Running, Goes
<1>4. CASE Clear
  BY <1>2, <1>3, <1>4 DEF Clear, collector
<1>5. CASE Collect
  <2>1. marking' \in BOOLEAN /\ ~marking' /\ mstats' = mstats /\ swept' = swept
    BY <1>5, Zenon DEF Collect, RuntimeGC, EndsCycle
  <2>2. dead' = dead - (IF marking THEN doomed ELSE dead) /\ doomed' = 0
    BY <1>5 DEF Collect, RuntimeGC, EndsCycle
  <2>3. dead' \in Nat /\ dead' <= dead
    BY <2>2
  <2>4. live' = live /\ other' = other
        /\ <<pc, pc'>> \in {<<"gc1", "gc2">>, <<"gc2", "m0">>, <<"gc3", "gc4">>, <<"gc4", "m2">>}
    BY <1>5 DEF Collect, RuntimeGC, EndsCycle
  <2>5. (idle /\ pc \in {"gc2", "gc4"}) => dead' = 0
    BY <2>2
  <2> QED
    <3>1. HeapTypes' /\ Known' /\ Alive'
      BY <1>2, <1>3, <2>1, <2>2, <2>3, <2>4
    <3>2. Stats'
      BY <1>2, <1>3, <2>1, <2>4
    <3>3. NoneFloats'
      BY <1>2, <2>1, <2>2, <2>3, <2>4, <2>5, HeapAssumption
    <3> QED
      BY <3>1, <3>2, <3>3
<1>6. CASE Keep
  BY <1>2, <1>3, <1>6, HeapAssumption DEF Keep, CallGen, collector
<1>7. ASSUME NEW k \in 0..2, NEW from, NEW to, ReadStats(k, from, to),
             <<k, from, to>> \in {<<0, "m0", "gen">>, <<1, "m1", "gc3">>, <<2, "m2", "count">>}
      PROVE  HeapInv'
  <2>1. InUse \in Nat /\ mstats' = [mstats EXCEPT ![k] = InUse] /\ mstats' \in [0..2 -> Nat]
    BY <1>7, HeapAssumption DEF ReadStats, InUse
  <2> QED
    BY <1>2, <1>3, <1>7, <2>1, HeapAssumption DEF ReadStats, InUse, heap, collector
<1> QED
  BY <1>4, <1>5, <1>6, <1>7 DEF Measure

\* The collector and the rest of the program.
LEMMA HeapBackground ==
    HeapInv /\ (BeginCycle \/ EndCycle \/ \E o \in 0..MaxOther : Others(o)) => HeapInv'
<1> SUFFICES ASSUME HeapInv, BeginCycle \/ EndCycle \/ \E o \in 0..MaxOther : Others(o)
             PROVE  HeapInv'
  OBVIOUS
<1>1. gen' = gen /\ goal' = goal /\ idle' = idle /\ Retained' = Retained /\ Nodes' = Nodes
  BY DEF BeginCycle, EndCycle, Others, setting, Retained, Nodes
<1> USE DEF HeapInv, HeapTypes, Known, Alive, Stats, NoneFloats, Before, After, Measured,
        Running
<1>2. CASE BeginCycle
  BY <1>1, <1>2 DEF BeginCycle, heap
<1>3. CASE EndCycle
  <2>1. /\ marking' \in BOOLEAN /\ ~marking' /\ marking
        /\ swept' \in BOOLEAN /\ (swept' <=> (swept \/ pc = "m1"))
    <3>1. swept' = (swept \/ pc = "m1") /\ marking' = FALSE /\ marking
      BY <1>3, Zenon DEF EndCycle, EndsCycle
    <3> QED
      BY <3>1, Zenon
  <2>2. dead' = dead - doomed /\ doomed' = 0 /\ live' = live /\ other' = other
        /\ pc' = pc /\ mstats' = mstats
    BY <1>3, <2>1 DEF EndCycle, EndsCycle
  <2> QED
    <3>1. HeapTypes' /\ Known' /\ Alive' /\ Stats'
      BY <1>1, <2>1, <2>2
    <3>2. NoneFloats'
      BY <1>1, <2>1, <2>2, HeapAssumption
    <3> QED
      BY <3>1, <3>2
<1>4. CASE \E o \in 0..MaxOther : Others(o)
  BY <1>1, <1>4, HeapAssumption DEF Others, collector
<1> QED
  BY <1>2, <1>3, <1>4

\* Generate and its goroutines only add to what is kept (heapgen.go:68-84).
LEMMA HeapGenerate ==
    HeapInv /\ SliceInv /\ (Generate \/ (\E p \in 0..(procs - 1) : Worker(p)) \/ UNCHANGED vars)
      => HeapInv'
<1> SUFFICES ASSUME HeapInv, SliceInv,
                    Generate \/ (\E p \in 0..(procs - 1) : Worker(p)) \/ UNCHANGED vars
             PROVE  HeapInv'
  OBVIOUS
<1> USE DEF HeapInv, HeapTypes, Known, Alive, Stats, NoneFloats, Before, After, Measured,
        Running
<1>1. CASE Generate \/ UNCHANGED vars
  <2>1. UNCHANGED <<setting, heap, collector, mstats>>
    BY <1>1 DEF Generate, MakeOut, MakeOutPanics, Spawn, AllSpawned, Wait, vars
  <2>2. pc' = pc \/ (pc \in Measured /\ pc' \in Measured \cup {"panic"})
    BY <1>1 DEF Generate, MakeOut, MakeOutPanics, Spawn, AllSpawned, Wait, Goes, vars
  <2>3. Retained' = Retained /\ Nodes' = Nodes
    BY <2>1 DEF setting, Retained, Nodes
  <2> QED
    BY <2>1, <2>2, <2>3 DEF setting, heap, collector
<1>2. ASSUME NEW p \in 0..(procs - 1), Worker(p)
      PROVE  HeapInv'
  <2>1. pc \in Running
    BY <1>2 DEF Worker, Fill, WorkerDone, SliceInv, SliceTypes, Untouched, Procs
  <2>2. gen' = gen /\ Retained' = Retained /\ Nodes' = Nodes
    BY <1>2 DEF Worker, Fill, WorkerDone, setting, Retained, Nodes
  <2> QED
    BY <1>2, <2>1, <2>2 DEF Worker, Fill, WorkerDone, setting, heap, collector
<1> QED
  BY <1>1, <1>2

-----------------------------------------------------------------------------
(* Generate keeps the slice in order. *)

\* The slice is made (heapgen.go:69-73).
LEMMA SliceMade == HeapInv /\ SliceInv /\ MakeOut => SliceInv'
<1> SUFFICES ASSUME HeapInv, SliceInv, MakeOut PROVE SliceInv'
  OBVIOUS
<1>1. BytesRetained \in Int \ {0} /\ goal \in Nat
  BY DEF MakeOut, CountPanics, BytesRetained, HeapInv, HeapTypes
<1>2. Count(BytesRetained) \in Nat
  <2>1. Count(BytesRetained) \in Int
    BY <1>1, CountIsInt
  <2> QED
    BY <1>1, <2>1 DEF MakeOut, CountPanics
<1>3. /\ count' \in Nat /\ out' = [i \in Slots' |-> 0] /\ wg' = procs /\ pc' = "spawn"
      /\ UNCHANGED <<procs, made, spawned, next, ended>>
  BY <1>2 DEF MakeOut, Slots, setting
<1>4. /\ spawned = 0 /\ made = 0 /\ ended = {} /\ \A p \in Procs : next[p] = p
  BY DEF SliceInv, Untouched, MakeOut, Running
<1>5. SliceTypes'
  BY <1>3, <1>4 DEF SliceInv, SliceTypes, Procs, Slots
<1>6. Behind'
  <2> SUFFICES ASSUME NEW j \in Slots' PROVE ~(j < next[j % procs])
    BY <1>3 DEF Behind, Slots
  <2>1. j \in Nat /\ procs \in Nat \ {0}
    BY <1>3 DEF Slots, SliceInv, SliceTypes
  <2>2. j = procs * (j \div procs) + (j % procs) /\ j % procs \in Procs /\ j \div procs \in Nat
    BY <2>1, Division DEF Procs
  <2>3. procs * (j \div procs) \in Nat
    BY <2>1, <2>2
  <2> QED
    BY <1>4, <2>1, <2>2, <2>3 DEF Procs
<1>7. Numbered'
  BY <1>3, <1>4 DEF Numbered
<1>8. Counted'
  <2>1. Cardinality(ended') = 0
    BY <1>3, <1>4, FS_EmptySet
  <2> QED
    BY <1>3, <2>1 DEF Counted, SliceInv, SliceTypes
<1> QED
  BY <1>3, <1>4, <1>5, <1>6, <1>7, <1>8 DEF SliceInv, Untouched, Strides, PastEnd, AllEnded,
     Running, Procs

\* Those that were started stay started (heapgen.go:74).
LEMMA MoreStarted ==
    ASSUME NEW a \in Nat, NEW b \in Nat, a <= b
    PROVE  0..(a - 1) \subseteq 0..(b - 1)
OBVIOUS

\* The goroutines start and Generate waits (heapgen.go:74-82).
LEMMA SliceWaits == SliceInv /\ (Spawn \/ AllSpawned \/ Wait) => SliceInv'
<1> SUFFICES ASSUME SliceInv, Spawn \/ AllSpawned \/ Wait PROVE SliceInv'
  OBVIOUS
<1>1. /\ UNCHANGED <<procs, slice, next, ended, wg>>
      /\ spawned' \in Nat /\ spawned <= spawned' /\ spawned' <= procs
      /\ pc \in {"spawn", "wait"} /\ pc' \in Running
      /\ pc' = "done" => pc = "wait" /\ wg = 0
  BY DEF Spawn, AllSpawned, Wait, Goes, Running, setting, workers, slice, SliceInv, SliceTypes
<1>2. SliceTypes'
  <2>1. spawned \in Nat /\ procs \in Nat
    BY DEF SliceInv, SliceTypes
  <2>4. spawned' \in Nat /\ spawned <= spawned' /\ spawned' <= procs
    BY <1>1
  <2>3. spawned' \in 0..procs /\ 0..(spawned - 1) \subseteq 0..(spawned' - 1)
    <3>1. spawned' \in 0..procs
      BY <2>1, <2>4
    <3>2. 0..(spawned - 1) \subseteq 0..(spawned' - 1)
      BY <2>1, <2>4, MoreStarted
    <3> QED
      BY <3>1, <3>2
  <2>2. Slots' = Slots /\ Procs' = Procs /\ count' = count /\ made' = made
        /\ out' = out /\ next' = next /\ ended' = ended /\ procs' = procs
    BY <1>1 DEF slice, Slots, Procs
  <2> QED
    BY <2>2, <2>3 DEF SliceInv, SliceTypes
<1>5. Untouched' /\ Strides' /\ Behind' /\ Numbered' /\ PastEnd' /\ Counted'
  BY <1>1 DEF SliceInv, Untouched, Strides, Behind, Numbered, PastEnd, Counted,
     slice, Slots, Procs, Running
<1>3. ASSUME pc' = "done"
      PROVE  ended = Procs
  <2>1. ended \subseteq Procs /\ procs \in Nat
    BY DEF SliceInv, SliceTypes, Procs
  <2>2. IsFiniteSet(Procs) /\ Cardinality(Procs) = procs
    BY <2>1, ProcsFinite
  <2>3. Cardinality(ended) = procs
    <3>1. Cardinality(ended) \in Nat
      BY <2>1, <2>2, FS_Subset, FS_CardinalityType
    <3> QED
      BY <1>1, <1>3, <2>1, <3>1 DEF SliceInv, Counted
  <2> QED
    BY <2>1, <2>2, <2>3, FS_Subset
<1>4. AllEnded'
  BY <1>1, <1>3 DEF AllEnded, Procs
<1> QED
  BY <1>2, <1>4, <1>5 DEF SliceInv

\* A goroutine fills its next slot (heapgen.go:76-78).
LEMMA SliceFills == ASSUME SliceInv, NEW p \in Procs, Fill(p) PROVE SliceInv'
<1> DEFINE s == next[p]
<1>1. /\ procs \in Nat \ {0} /\ count \in Nat /\ made \in Nat /\ s \in Slots /\ s \in Nat
      /\ s % procs = p /\ p < spawned
  BY DEF SliceInv, SliceTypes, Strides, Fill, Slots
<1>2. /\ out' = [out EXCEPT ![s] = made + 1] /\ made' = made + 1
      /\ next' = [next EXCEPT ![p] = s + procs]
      /\ UNCHANGED <<procs, pc, count, spawned, ended, wg>>
  BY DEF Fill, Advance, setting
<1>3. pc \in Running
  BY <1>1 DEF SliceInv, Untouched, SliceTypes
<1>4. out[s] = 0
  BY <1>1 DEF SliceInv, Behind, SliceTypes
<1>5. (s + procs) % procs = p
  BY <1>1, StrideKeeps
<1> HIDE DEF s
<1>6. SliceTypes'
  BY <1>1, <1>2 DEF SliceInv, SliceTypes, Slots, Procs
<1>7. Strides'
  BY <1>1, <1>2, <1>5 DEF SliceInv, SliceTypes, Strides, Procs
<1>8. Behind'
  <2> SUFFICES ASSUME NEW j \in Slots
               PROVE  out'[j] # 0 <=> j < next'[j % procs]
    BY <1>2 DEF Behind, Slots
  <2>1. j \in Nat /\ j % procs \in Procs
    BY <1>1, Division DEF Slots, Procs
  <2>2. out[j] # 0 <=> j < next[j % procs]
    BY DEF SliceInv, Behind
  <2>3. CASE j = s
    BY <1>1, <1>2, <2>1, <2>3 DEF SliceInv, SliceTypes
  <2>4. CASE j # s /\ j % procs # p
    BY <1>1, <1>2, <2>1, <2>2, <2>4 DEF SliceInv, SliceTypes
  <2>5. CASE j # s /\ j % procs = p
    <3>1. out'[j] = out[j] /\ next'[p] = s + procs
      BY <1>1, <1>2, <2>5 DEF SliceInv, SliceTypes
    <3>2. ~(s <= j /\ j < s + procs)
      BY <1>1, <2>1, <2>5, StrideApart
    <3> QED
      BY <1>1, <2>1, <2>2, <2>5, <3>1, <3>2 DEF s
  <2> QED
    BY <2>3, <2>4, <2>5
<1>9. Numbered'
  <2>1. \A i \in Slots : out'[i] = IF i = s THEN made + 1 ELSE out[i]
    BY <1>1, <1>2 DEF SliceInv, SliceTypes
  <2>2. \A k \in 1..(made + 1) : \E i \in Slots : out'[i] = k
    <3> SUFFICES ASSUME NEW k \in 1..(made + 1) PROVE \E i \in Slots : out'[i] = k
      OBVIOUS
    <3>1. CASE k = made + 1
      BY <1>1, <2>1, <3>1
    <3>2. CASE k # made + 1
      <4>1. PICK i \in Slots : out[i] = k
        BY <1>1, <3>2 DEF SliceInv, Numbered
      <4> QED
        BY <1>1, <1>4, <2>1, <4>1
    <3> QED
      BY <3>1, <3>2
  <2>3. \A i \in Slots : out[i] \in Nat /\ out[i] <= made
    BY DEF SliceInv, SliceTypes, Numbered
  <2>4. \A i \in Slots : out'[i] <= made + 1
    BY <1>1, <2>1, <2>3
  <2>5. \A i, j \in Slots : (out'[i] # 0 /\ out'[i] = out'[j]) => i = j
    BY <1>1, <2>1, <2>3 DEF SliceInv, Numbered
  <2> QED
    BY <1>2, <2>2, <2>4, <2>5 DEF Numbered, Slots
<1>10. PastEnd'
  BY <1>1, <1>2 DEF SliceInv, SliceTypes, PastEnd, Slots, Procs, s
<1> QED
  BY <1>2, <1>3, <1>6, <1>7, <1>8, <1>9, <1>10 DEF SliceInv, Untouched, Counted, AllEnded,
     Running, Procs

\* A goroutine past the slice calls Done, once (heapgen.go:79).
LEMMA SliceDone == ASSUME SliceInv, NEW p \in Procs, WorkerDone(p) PROVE SliceInv'
<1>1. /\ p < spawned /\ next[p] >= count /\ p \notin ended
      /\ ended' = ended \cup {p} /\ wg' = wg - 1
      /\ UNCHANGED <<procs, pc, slice, spawned, next>>
  BY DEF WorkerDone, setting
<1>2. pc \in Running /\ procs \in Nat \ {0}
  BY <1>1 DEF SliceInv, Untouched, SliceTypes, Procs
<1>3. IsFiniteSet(ended) /\ Cardinality(ended) \in Nat
  <2>1. ended \subseteq Procs /\ IsFiniteSet(Procs)
    BY <1>2, FS_Interval DEF SliceInv, SliceTypes, Procs
  <2> QED
    BY <2>1, FS_Subset, FS_CardinalityType
<1>4. Cardinality(ended') = Cardinality(ended) + 1
  BY <1>1, <1>3, FS_AddElement
<1>5. Counted'
  BY <1>1, <1>2, <1>3, <1>4 DEF SliceInv, Counted
<1>6. SliceTypes'
  BY <1>1 DEF SliceInv, SliceTypes, slice, Slots, Procs
<1>7. pc # "done"
  BY <1>1 DEF SliceInv, AllEnded
<1> QED
  BY <1>1, <1>2, <1>5, <1>6, <1>7 DEF SliceInv, Untouched, Strides, Behind, Numbered, PastEnd,
     AllEnded, slice, Slots, Procs, Running

-----------------------------------------------------------------------------
HInv == HeapInv /\ SliceInv
Settled == procs \in ProcCounts /\ goal \in Goals

LEMMA HeapStart == Init => HInv
BY HeapInit, SliceInit DEF HInv

LEMMA HeapStep == HInv /\ [Next]_vars => HInv'
<1> SUFFICES ASSUME HInv, [Next]_vars PROVE HInv'
  OBVIOUS
<1> USE DEF HInv
<1>1. CASE Measure
  BY <1>1, HeapMeasure, SliceBefore
<1>2. CASE BeginCycle \/ EndCycle \/ \E o \in 0..MaxOther : Others(o)
  BY <1>2, HeapBackground, SliceBefore
<1>3. CASE Generate
  <2>1. SliceInv'
    BY <1>3, SliceMade, SliceWaits, SliceBefore DEF Generate
  <2> QED
    BY <1>3, <2>1, HeapGenerate
<1>4. ASSUME NEW p \in 0..(procs - 1), Worker(p)
      PROVE  HInv'
  <2>1. SliceInv'
    BY <1>4, SliceFills, SliceDone DEF Worker, Procs
  <2> QED
    BY <1>4, <2>1, HeapGenerate
<1>5. CASE UNCHANGED vars
  BY <1>5, HeapGenerate, SliceBefore
<1> QED
  BY <1>1, <1>2, <1>3, <1>4, <1>5 DEF Next, Ended

LEMMA HeapInvariant == Spec => []HInv
BY HeapStart, HeapStep, PTL DEF Spec

(***************************************************************************)
(* When Generate returns every slot is filled, by a call of its own, and   *)
(* no call's result is lost, for any number of goroutines and slots        *)
(* (heapgen.go:66-84).                                                     *)
(***************************************************************************)
THEOREM GenerateRetainsAll == Spec => []RetainsAll
<1>1. HInv => RetainsAll
  <2> SUFFICES ASSUME HInv, pc = "done"
               PROVE  /\ \A i \in Slots : out[i] # 0
                      /\ \A k \in 1..made : \E i \in Slots : out[i] = k
                      /\ \A i, j \in Slots : out[i] = out[j] => i = j
    BY DEF RetainsAll
  <2>1. ended = Procs /\ \A p \in Procs : next[p] \in Nat /\ next[p] >= count
    BY DEF HInv, SliceInv, AllEnded, PastEnd, SliceTypes
  <2>2. \A i \in Slots : i \in Nat /\ i < count /\ i % procs \in Procs
    <3>1. procs \in Nat \ {0} /\ count \in Nat
      BY DEF HInv, SliceInv, SliceTypes
    <3> QED
      BY <3>1, Division DEF Slots, Procs
  <2>3. count \in Nat /\ \A i \in Slots : i < next[i % procs]
    BY <2>1, <2>2 DEF HInv, SliceInv, SliceTypes
  <2>4. \A i \in Slots : out[i] # 0
    BY <2>3 DEF HInv, SliceInv, Behind
  <2> QED
    BY <2>4 DEF HInv, SliceInv, Numbered
<1> QED
  BY <1>1, HeapInvariant, PTL

(***************************************************************************)
(* Otherwise idle, Measure finds exactly what the generator retains,       *)
(* whatever cycles run beside it: two collections leave nothing floating;  *)
(* and exactly its garbage, unless a cycle ends before that is read        *)
(* (heapgen.go:33-63).                                                     *)
(***************************************************************************)
THEOREM MeasureIsExact == Spec => []MeasureExact
<1>1. HInv => MeasureExact
  <2> SUFFICES ASSUME HInv, idle, pc \notin Measuring \cup {"panic"}
               PROVE  /\ BytesRetained = IF gen[1] = "AST" THEN gen[2] ELSE 2^gen[2]
                      /\ BytesGarbage = Garbage \/ (swept /\ BytesGarbage \in 0..Garbage)
    BY DEF MeasureExact
  <2>1. pc \in Measured /\ Retained \in Nat /\ Retained = Nodes
    BY DEF HInv, HeapInv, HeapTypes, Known, Measuring, Before, After, Measured, Running
  <2>2. /\ mstats[0] = MaxOther /\ mstats[2] = Retained + MaxOther
        /\ \/ mstats[1] - Retained - MaxOther = Garbage
           \/ swept /\ mstats[1] - Retained - MaxOther \in 0..Garbage
        /\ mstats[1] \in Nat
    BY <2>1 DEF HInv, HeapInv, HeapTypes, Stats, Measured
  <2> QED
    BY <2>1, <2>2, HeapAssumption DEF BytesRetained, BytesGarbage, Nodes
<1> QED
  BY <1>1, HeapInvariant, PTL

-----------------------------------------------------------------------------
(* What Generate makes covers the goal. *)

\* Every call of the generator adds what one call retains, and the number of
\* calls is what the measured size asks for.
AmountInv ==
    /\ pc \in Measured => live = Retained * (1 + made)
    /\ pc \in Running => BytesRetained # 0 /\ count = Count(BytesRetained)

\* A slot filled is one more call's result kept (heapgen.go:77).
LEMMA AmountFills == ASSUME HInv, AmountInv, NEW p \in Procs, Fill(p) PROVE AmountInv'
<1>1. pc \in Running /\ made \in Nat /\ Retained \in Nat
  BY DEF HInv, SliceInv, SliceTypes, Untouched, Fill, Procs, HeapInv, Known, Running
<1>2. /\ live' = live + Retained /\ made' = made + 1 /\ Retained' = Retained
      /\ UNCHANGED <<pc, mstats, count, goal>>
  BY DEF Fill, setting, Retained
<1>3. live + Retained = Retained * (1 + (made + 1))
  <2>1. live = Retained * (1 + made)
    BY <1>1 DEF AmountInv, Measured
  <2> QED
    BY <1>1, <2>1
<1> QED
  BY <1>1, <1>2, <1>3 DEF AmountInv, Measured, BytesRetained, Count

LEMMA AmountStep == HInv /\ AmountInv /\ [Next]_vars => AmountInv'
<1> SUFFICES ASSUME HInv, AmountInv, [Next]_vars PROVE AmountInv'
  OBVIOUS
<1>1. CASE Measure
  <2>1. /\ UNCHANGED <<setting, workers>> /\ pc' \notin Running
        /\ pc' = "count" => pc = "m2" /\ UNCHANGED live
    BY <1>1 DEF Measure, WarmUp, Clear, Collect, RuntimeGC, Keep, ReadStats, Goes, Running, heap
  <2>2. pc = "m2" => made = 0 /\ live = Retained /\ Retained \in Nat
    BY DEF HInv, HeapInv, Alive, After, Known, SliceInv, Untouched, Running
  <2> QED
    BY <2>1, <2>2 DEF AmountInv, Measured, Retained, setting, workers, slice
<1>2. CASE BeginCycle \/ EndCycle \/ (\E o \in 0..MaxOther : Others(o)) \/ UNCHANGED vars
  <2>1. UNCHANGED <<setting, pc, live, mstats, workers>>
    BY <1>2 DEF BeginCycle, EndCycle, EndsCycle, Others, heap, vars
  <2> QED
    BY <2>1 DEF AmountInv, Retained, BytesRetained, Count, setting, workers, slice
<1>3. CASE MakeOut
  <2>1. /\ BytesRetained # 0 /\ count' = Count(BytesRetained) /\ pc = "count"
        /\ UNCHANGED <<gen, goal, live, mstats, made>>
    BY <1>3 DEF MakeOut, CountPanics, setting, heap
  <2> QED
    BY <2>1 DEF AmountInv, Measured, Retained, BytesRetained, Count
<1>4. CASE MakeOutPanics
  BY <1>4 DEF MakeOutPanics, Goes, AmountInv, Measured, Running
<1>5. CASE Spawn \/ AllSpawned \/ Wait
  <2>1. pc \in Running /\ UNCHANGED <<setting, live, mstats, slice>>
    BY <1>5 DEF Spawn, AllSpawned, Wait, Goes, Running, heap, workers
  <2> QED
    BY <2>1 DEF AmountInv, Measured, Running, Retained, BytesRetained, Count, setting, slice
<1>6. ASSUME NEW p \in 0..(procs - 1), Worker(p)
      PROVE  AmountInv'
  <2>1. CASE Fill(p)
    BY <2>1, AmountFills DEF Procs
  <2>2. CASE WorkerDone(p)
    BY <2>2 DEF WorkerDone, AmountInv, Retained, BytesRetained, Count, setting, heap, slice
  <2> QED
    BY <1>6, <2>1, <2>2 DEF Worker
<1> QED
  BY <1>1, <1>2, <1>3, <1>4, <1>5, <1>6 DEF Next, Ended, Generate

\* The division of Generate rounds up (heapgen.go:69).
LEMMA CountRoundsUp ==
    ASSUME goal \in Nat, NEW r \in Nat \ {0}
    PROVE  Count(r) \in Nat /\ r * Count(r) >= goal /\ r * Count(r) < goal + r
<1> DEFINE a == goal + r - 1
           c == a \div r
           left == a % r
<1>1. a \in Nat
  OBVIOUS
<1>2. a = r * c + left /\ left \in 0..(r - 1) /\ c \in Nat
  BY <1>1, Division
<1>3. Count(r) = c
  BY <1>1 DEF Count, Quotient
<1> HIDE DEF c, left
<1>4. r * c \in Nat
  BY <1>2
<1> QED
  BY <1>2, <1>3, <1>4

\* When Generate returns it has called the generator once per slot
\* (heapgen.go:69-82).
LEMMA OneCallPerSlot ==
    ASSUME HInv, RetainsAll, pc = "done"
    PROVE  made = count
<1>1. count \in Nat /\ made \in Nat /\ out \in [Slots -> Nat] /\ \A i \in Slots : out[i] <= made
  BY DEF HInv, SliceInv, SliceTypes, Numbered
<1>2. out \in [Slots -> 1..made]
  BY <1>1 DEF RetainsAll
<1>3. out \in Bijection(Slots, 1..made)
  BY <1>2 DEF RetainsAll, Bijection, Injection, Surjection, IsInjective
<1>4. IsFiniteSet(Slots) /\ Cardinality(Slots) = count
  BY <1>1, FS_Interval DEF Slots
<1>5. Cardinality(1..made) = Cardinality(Slots)
  BY <1>3, <1>4, FS_Bijection DEF ExistsBijection
<1>6. Cardinality(1..made) = made
  BY <1>1, FS_Interval
<1> QED
  BY <1>4, <1>5, <1>6

(***************************************************************************)
(* Otherwise idle, what Generate keeps, with the result Measure kept,      *)
(* covers the goal, and by less than two results more, for any generator,  *)
(* goal and number of goroutines (heapgen.go:66-84).                       *)
(***************************************************************************)
THEOREM GenerateCoversGoal == Spec => []CoversGoal
<1>1. Init => AmountInv
  BY DEF Init, AmountInv, Measured, Running
<1>2. HInv /\ AmountInv /\ RetainsAll => CoversGoal
  <2> SUFFICES ASSUME HInv, AmountInv, RetainsAll, idle, pc = "done"
               PROVE  live >= goal + BytesRetained /\ live < goal + 2 * BytesRetained
    BY DEF CoversGoal
  <2> DEFINE r == Retained
             c == Count(r)
  <2>1. r \in Nat /\ goal \in Nat /\ BytesRetained = r
    BY HeapAssumption DEF HInv, HeapInv, HeapTypes, Known, Stats, Measured, Running, BytesRetained
  <2>2. r # 0 /\ made = c /\ live = r * (1 + c)
    BY <2>1, OneCallPerSlot DEF AmountInv, Measured, Running
  <2>3. c \in Nat /\ r * c >= goal /\ r * c < goal + r
    BY <2>1, <2>2, CountRoundsUp
  <2> HIDE DEF r, c
  <2>4. r * (1 + c) = r + r * c /\ r * c \in Nat
    BY <2>1, <2>3
  <2> QED
    BY <2>1, <2>2, <2>3, <2>4
<1> QED
  BY <1>1, <1>2, HeapInvariant, GenerateRetainsAll, AmountStep, PTL DEF Spec

-----------------------------------------------------------------------------
(* Panics. *)

\* The powers of a graph are those that do not panic (debruijn.go:17-34).
LEMMA GoodPower ==
    ASSUME NEW power \in Int
    PROVE  Panics(power) <=> power \notin 1..(IntBits - 2)
<1> DEFINE n == NumNodes(power)
<1>1. CASE power < 0 \/ power >= IntBits
  BY <1>1, IntBitsAssumption DEF Panics, NumNodes
<1>2. CASE power = IntBits - 1
  <2>1. n = -(2^(IntBits - 1))
    BY <1>2, IntBitsAssumption DEF NumNodes
  <2>2. n <= 0
    BY <2>1, TopBit
  <2> QED
    BY <1>2, <2>2, IntBitsAssumption DEF Panics
<1>3. CASE power = 0
  <2>1. 2^0 = 1
    OBVIOUS
  <2>2. n = 1
    BY <1>3, <2>1, IntBitsAssumption DEF NumNodes
  <2>3. Edge(n, 0, 1) >= n /\ 0 \in 0..(n - 1)
    BY <2>2 DEF Edge
  <2> QED
    BY <1>3, <2>3 DEF Panics
<1>4. CASE power \in 1..(IntBits - 2)
  <2>1. power - 1 \in 0..(IntBits - 2) /\ power - 1 \in Nat /\ power \in Nat /\ power < IntBits - 1
    BY <1>4, IntBitsAssumption
  <2>2. PICK m \in Int : m = 2^(power - 1)
    BY <2>1
  <2>3. m \in Nat \ {0} /\ 2^power = 2 * m
    BY <2>1, <2>2, IntBitsAssumption
  <2>4. n = 2 * m
    BY <2>1, <2>3, IntBitsAssumption DEF NumNodes
  <2> HIDE DEF n
  <2>5. \A i \in 0..(n - 1) : Edge(n, i, 0) \in 0..(n - 1) /\ Edge(n, i, 1) \in 0..(n - 1)
    BY <2>3, <2>4, DegreeTwo
  <2>6. \A i \in 0..(n - 1), digit \in 0..1 : ~(Edge(n, i, digit) >= n)
    <3> SUFFICES ASSUME NEW i \in 0..(n - 1), NEW digit \in 0..1
                 PROVE  ~(Edge(n, i, digit) >= n)
      OBVIOUS
    <3>1. digit = 0 \/ digit = 1
      OBVIOUS
    <3> QED
      BY <2>3, <2>4, <2>5, <3>1
  <2> QED
    BY <1>4, <2>1, <2>3, <2>4, <2>6 DEF Panics, n
<1> QED
  BY <1>1, <1>2, <1>3, <1>4, IntBitsAssumption

\* A generator that works retains something.
LEMMA RetainsSome ==
    ASSUME gen \in Gens, ~BadPower
    PROVE  Nodes > 0
<1>1. gen[1] \in {"AST", "deBruijn2"} /\ gen[2] \in Int
  BY HeapAssumption
<1>2. CASE gen[1] = "AST"
  BY <1>2, ReachableAssumption DEF Nodes
<1>3. CASE gen[1] # "AST"
  BY <1>1, <1>3, IntBitsAssumption DEF Nodes, BadPower
<1> QED
  BY <1>2, <1>3

\* A size measured positive gives a slice (heapgen.go:69-70).
LEMMA PositiveCounts ==
    ASSUME HeapInv, BytesRetained > 0
    PROVE  ~CountPanics
<1>1. PICK r \in Int : r = BytesRetained
  BY DEF BytesRetained, HeapInv, HeapTypes
<1>2. r \in Nat \ {0} /\ Count(r) \in Nat
  BY <1>1, CountRoundsUp DEF HeapInv, HeapTypes
<1> QED
  BY <1>1, <1>2 DEF CountPanics

LEMMA PanicStep == HInv /\ PanicsOnlyWhen /\ [Next]_vars => PanicsOnlyWhen'
<1> SUFFICES ASSUME HInv, PanicsOnlyWhen, [Next]_vars PROVE PanicsOnlyWhen'
  OBVIOUS
<1>0. gen \in Gens /\ gen[1] \in {"AST", "deBruijn2"} /\ gen[2] \in Int
  BY HeapAssumption DEF HInv, HeapInv, HeapTypes
<1>1. CASE WarmUp
  <2>1. BadPower' = BadPower /\ pc' \in {"clear", "panic"}
        /\ (pc' = "panic" <=> gen[1] = "deBruijn2" /\ Panics(gen[2]))
    BY <1>1 DEF WarmUp, BadPower, setting
  <2>2. BadPower <=> gen[1] = "deBruijn2" /\ Panics(gen[2])
    BY <1>0, GoodPower DEF BadPower
  <2> QED
    BY <2>1, <2>2 DEF PanicsOnlyWhen
<1>2. CASE MakeOutPanics
  <2>1. /\ pc = "count" /\ CountPanics /\ ~BadPower /\ UNCHANGED <<gen, idle, mstats>>
    BY <1>2 DEF MakeOutPanics, Goes, PanicsOnlyWhen, setting
  <2>2. BytesRetained \in Int
    BY DEF BytesRetained, HInv, HeapInv, HeapTypes
  <2>3. ~(BytesRetained > 0)
    BY <2>1, PositiveCounts DEF HInv
  <2>4. idle => BytesRetained > 0
    BY <1>0, <2>1, RetainsSome DEF HInv, HeapInv, HeapTypes, Known, Stats, Measured, BytesRetained
  <2>5. BadPower' = BadPower /\ BytesRetained' = BytesRetained
    BY <2>1 DEF BadPower, BytesRetained
  <2> QED
    BY <2>1, <2>2, <2>3, <2>4, <2>5 DEF PanicsOnlyWhen
<1>3. CASE ~WarmUp /\ ~MakeOutPanics
  <2>1. UNCHANGED setting
    BY DEF Next, Measure, WarmUp, Clear, Collect, RuntimeGC, Keep, ReadStats, BeginCycle, EndCycle,
       Others, Generate, MakeOut, MakeOutPanics, Spawn, AllSpawned, Wait, Worker, Fill, WorkerDone,
       Ended, vars
  <2>2. ASSUME NEW p \in 0..(procs - 1), Worker(p) PROVE UNCHANGED <<pc, mstats>>
    BY <2>2 DEF Worker, Fill, WorkerDone
  <2>3. CASE Measure
    <3>1. pc' # "panic" /\ pc \notin {"warm", "panic"}
      BY <1>3, <2>3 DEF Measure, Clear, Collect, RuntimeGC, Keep, ReadStats, Goes
    <3> QED
      BY <2>1, <3>1 DEF PanicsOnlyWhen, BadPower, setting
  <2>4. CASE Generate
    <3>1. pc' # "panic" /\ pc \notin {"warm", "panic"}
      BY <1>3, <2>4 DEF Generate, MakeOut, Spawn, AllSpawned, Wait, Goes
    <3> QED
      BY <2>1, <3>1 DEF PanicsOnlyWhen, BadPower, setting
  <2>5. CASE UNCHANGED <<pc, mstats>>
    BY <2>1, <2>5 DEF PanicsOnlyWhen, BadPower, BytesRetained, setting
  <2>6. BeginCycle \/ EndCycle \/ (\E o \in 0..MaxOther : Others(o)) \/ UNCHANGED vars
          => UNCHANGED <<pc, mstats>>
    BY DEF BeginCycle, EndCycle, Others, vars
  <2> QED
    BY <2>2, <2>3, <2>4, <2>5, <2>6 DEF Next, Ended
<1> QED
  BY <1>1, <1>2, <1>3

(***************************************************************************)
(* A generator panics exactly for the powers that have no graph, zero too, *)
(* and Generate never does on a size measured in an idle system, for any   *)
(* width of an int, generators, goals and numbers of goroutines            *)
(* (debruijn.go:17-34, heapgen.go:33-34, 69-70).                           *)
(***************************************************************************)
THEOREM NoOtherPanics == Spec => []PanicsOnlyWhen
<1>1. Init => PanicsOnlyWhen
  BY DEF Init, PanicsOnlyWhen
<1> QED
  BY <1>1, PanicStep, HeapInvariant, PTL DEF Spec

-----------------------------------------------------------------------------
(***************************************************************************)
(* Type correctness: the heap never shrinks below nothing, a goroutine's   *)
(* results are of calls made, and the WaitGroup never goes negative.       *)
(***************************************************************************)
THEOREM HeapTypeCorrect == Spec => []TypeOK
<1>1. Settled /\ [Next]_vars => Settled'
  <2> SUFFICES ASSUME Settled, [Next]_vars PROVE Settled'
    OBVIOUS
  <2>1. UNCHANGED setting
    BY DEF Next, Measure, WarmUp, Clear, Collect, RuntimeGC, Keep, ReadStats, BeginCycle, EndCycle,
       Others, Generate, MakeOut, MakeOutPanics, Spawn, AllSpawned, Wait, Worker, Fill, WorkerDone,
       Ended, vars
  <2> QED
    BY <2>1 DEF setting, Settled
<1>2. Init => Settled
  BY DEF Init, Settled
<1>3. HInv /\ Settled => TypeOK
  <2> SUFFICES ASSUME HInv, Settled PROVE TypeOK
    OBVIOUS
  <2>1. wg \in Nat
    <3>1. CASE pc \in {"spawn", "wait"}
      <4>1. ended \subseteq Procs /\ procs \in Nat
        BY DEF HInv, SliceInv, SliceTypes, Procs
      <4>2. IsFiniteSet(Procs) /\ Cardinality(Procs) = procs
        BY <4>1, ProcsFinite
      <4>3. Cardinality(ended) \in 0..procs
        BY <4>1, <4>2, FS_Subset, FS_CardinalityType
      <4> QED
        BY <3>1, <4>1, <4>3 DEF HInv, SliceInv, Counted
    <3>2. CASE pc \notin {"spawn", "wait"}
      BY <3>2 DEF HInv, SliceInv, Untouched, AllEnded, Running
    <3> QED
      BY <3>1, <3>2
  <2>2. out \in [0..(count - 1) -> 0..made]
    BY DEF HInv, SliceInv, SliceTypes, Numbered, Slots
  <2>3. gen \in Gens /\ idle \in BOOLEAN /\ marking \in BOOLEAN /\ swept \in BOOLEAN
    BY DEF HInv, HeapInv, HeapTypes
  <2> QED
    BY <2>1, <2>2, <2>3 DEF TypeOK, Settled, HInv, HeapInv, HeapTypes, SliceInv, SliceTypes, Measuring, Before, After,
       Measured, Running, Procs
<1> QED
  BY <1>1, <1>2, <1>3, HeapInvariant, PTL DEF Spec
=============================================================================
