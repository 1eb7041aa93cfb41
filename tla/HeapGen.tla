------------------------------ MODULE HeapGen -------------------------------
(***************************************************************************)
(* gcbench/heapgen: a benchmark measures what a call of its generator      *)
(* retains (Measure), then calls it as often as its ballast needs          *)
(* (Generate), in GOMAXPROCS goroutines.                                   *)
(*                                                                         *)
(* The heap is counted in nodes.  It and the collector are the runtime's:  *)
(* a cycle frees what was dead when it began, and may begin at any time;   *)
(* runtime.GC ends the cycle in progress or does a whole one.  Garbage and *)
(* cycles are modelled as long as Measure reads the statistics; after that *)
(* only what is kept matters.                                              *)
(***************************************************************************)
EXTENDS DeBruijn, FiniteSets

CONSTANTS
    Gens,       \* generators: <<"AST", nodes>>, <<"deBruijn2", power>>
    Goals,      \* values of bytesGoal
    ProcCounts, \* values of GOMAXPROCS
    Garbage,    \* what a call of the generator allocates besides
    MaxOther    \* bound on what the rest of a program keeps, if not idle

ASSUME HeapAssumption ==
    /\ Gens \subseteq {"AST", "deBruijn2"} \X Int /\ Goals \subseteq Nat
    /\ ProcCounts \subseteq Nat \ {0} /\ Garbage \in Nat /\ MaxOther \in Nat

\* "By construction, all nodes are reachable from any node." (debruijn.go:38)
ASSUME ReachableAssumption ==
    \A g \in Gens :
        IF g[1] = "AST" THEN g[2] \in Nat \ {0}
        ELSE ~Panics(g[2]) => LET n == NumNodes(g[2]) IN Within(n, n) = 0..(n - 1)

VARIABLES
    gen, goal, procs, idle, \* arguments; is the rest of the program idle?
    pc,                     \* of Measure and Generate
    live, dead, other,      \* heap: the results kept, garbage, anything else
    marking, doomed,        \* a cycle in progress, and what it will free
    swept,                  \* ghost: did one end between sink = gen() and mstats1?
    mstats,                 \* HeapInuse as read three times
    count, out, made,       \* the slice: results by number; all calls
    spawned, next, ended,   \* the goroutines, their i, those past the loop
    wg                      \* the WaitGroup's counter

setting == <<gen, goal, procs, idle>>
collector == <<marking, doomed, swept>>
heap == <<live, dead, other>>
slice == <<count, out, made>>
workers == <<slice, spawned, next, ended, wg>>
vars == <<setting, pc, heap, collector, mstats, workers>>

Measuring == {"warm", "clear", "gc1", "gc2", "m0", "gen", "m1", "gc3", "gc4", "m2"}

TypeOK ==
    /\ gen \in Gens /\ goal \in Goals /\ procs \in ProcCounts /\ idle \in BOOLEAN
    /\ pc \in Measuring \cup {"count", "spawn", "wait", "done", "panic"}
    /\ live \in Nat /\ dead \in Nat /\ other \in 0..MaxOther
    /\ marking \in BOOLEAN /\ doomed \in 0..dead /\ swept \in BOOLEAN
    /\ mstats \in [0..2 -> Nat]
    /\ count \in Nat /\ out \in [0..(count - 1) -> 0..made] /\ made \in Nat
    /\ spawned \in 0..procs /\ next \in [0..(procs - 1) -> Nat]
    /\ ended \in SUBSET (0..(spawned - 1)) /\ wg \in Nat

Init ==
    /\ gen \in Gens /\ goal \in Goals /\ procs \in ProcCounts /\ idle \in BOOLEAN
    /\ pc = "warm"
    /\ live = 0 /\ dead = 0 /\ other = MaxOther
    /\ marking = FALSE /\ doomed = 0 /\ swept = FALSE
    /\ mstats = [k \in 0..2 |-> 0]
    /\ count = 0 /\ out = [i \in 0..(count - 1) |-> 0] /\ made = 0
    /\ spawned = 0 /\ next = [p \in 0..(procs - 1) |-> p] /\ ended = {} /\ wg = 0

Goes(from, to) == pc = from /\ pc' = to

-----------------------------------------------------------------------------
(* The heap. *)

\* What the result of a call keeps: every node node 0 leads to.
RetainedBy(g) ==
    IF g[1] = "AST" THEN g[2] ELSE Cardinality(Within(NumNodes(g[2]), NumNodes(g[2])))

Retained == RetainedBy(gen)

\* A call whose result is kept, or not.
CallGen(keep) ==
    /\ live' = IF keep THEN live + Retained ELSE live
    /\ dead' = dead + Garbage + (IF keep THEN 0 ELSE Retained)
    /\ UNCHANGED other

InUse == live + dead + other

BeginCycle ==
    /\ pc \in Measuring /\ ~marking
    /\ marking' = TRUE /\ doomed' = dead
    /\ UNCHANGED <<setting, pc, heap, swept, mstats, workers>>

EndsCycle ==
    /\ marking' = FALSE /\ doomed' = 0
    /\ dead' = dead - (IF marking THEN doomed ELSE dead)
    /\ UNCHANGED <<live, other>>

EndCycle ==
    /\ pc \in Measuring /\ marking /\ EndsCycle
    /\ swept' = (swept \/ pc = "m1")
    /\ UNCHANGED <<setting, pc, mstats, workers>>

\* The rest of the program, unless idle, lets go of some of what it keeps.
Others(o) ==
    /\ ~idle /\ pc \in Measuring /\ o < other
    /\ other' = o
    /\ dead' = dead + (other - o)
    /\ UNCHANGED <<setting, pc, live, collector, mstats, workers>>

-----------------------------------------------------------------------------
(* Measure. *)

WarmUp ==
    /\ pc = "warm"
    /\ IF gen[1] = "deBruijn2" /\ Panics(gen[2])
       THEN pc' = "panic" /\ UNCHANGED heap
       ELSE pc' = "clear" /\ CallGen(FALSE)
    /\ UNCHANGED <<setting, collector, mstats, workers>>

\* sink = nil
Clear ==
    /\ Goes("clear", "gc1")
    /\ live' = 0 /\ dead' = dead + live
    /\ UNCHANGED <<setting, other, collector, mstats, workers>>

RuntimeGC(from, to) ==
    /\ Goes(from, to)
    /\ EndsCycle
    /\ UNCHANGED <<setting, swept, mstats, workers>>

\* Mutant of Collect: one call of runtime.GC each time.
CollectOnce == RuntimeGC("gc1", "m0") \/ RuntimeGC("gc3", "m2")

Collect ==
    \/ RuntimeGC("gc1", "gc2") \/ RuntimeGC("gc2", "m0")
    \/ RuntimeGC("gc3", "gc4") \/ RuntimeGC("gc4", "m2")

\* runtime.ReadMemStats
ReadStats(k, from, to) ==
    /\ Goes(from, to)
    /\ mstats' = [mstats EXCEPT ![k] = InUse]
    /\ UNCHANGED <<setting, heap, collector, workers>>

\* sink = gen()
Keep ==
    /\ Goes("gen", "m1")
    /\ CallGen(TRUE)
    /\ UNCHANGED <<setting, collector, mstats, workers>>

Measure ==
    \/ WarmUp \/ Clear \/ Collect \/ Keep
    \/ ReadStats(0, "m0", "gen") \/ ReadStats(1, "m1", "gc3") \/ ReadStats(2, "m2", "count")

BytesRetained == mstats[2] - mstats[0]
BytesGarbage == mstats[1] - mstats[2]

-----------------------------------------------------------------------------
(* Generate(m.Gen, m.BytesRetained, goal). *)

\* Go's division drops the fraction, of a negative quotient too.
Quotient(a, b) ==
    LET abs(x) == IF x < 0 THEN -x ELSE x
        q == abs(a) \div abs(b)
    IN  IF (a < 0) = (b < 0) THEN q ELSE -q

\* Mutant of Count: the division rounds down.
CountDown(bytes1) == Quotient(goal, bytes1)

Count(bytes1) == Quotient(goal + bytes1 - 1, bytes1)

\* Division by zero, or a slice of negative length.
CountPanics == IF BytesRetained = 0 THEN TRUE ELSE Count(BytesRetained) < 0

MakeOut ==
    /\ pc = "count" /\ ~CountPanics
    /\ pc' = "spawn"
    /\ count' = Count(BytesRetained)
    /\ out' = [i \in 0..(count' - 1) |-> 0]
    /\ wg' = procs
    /\ UNCHANGED <<setting, heap, collector, mstats, made, spawned, next, ended>>

MakeOutPanics ==
    /\ Goes("count", "panic") /\ CountPanics
    /\ UNCHANGED <<setting, heap, collector, mstats, workers>>

\* go func(p int), whose i starts at p.
Spawn ==
    /\ pc = "spawn" /\ spawned < procs
    /\ spawned' = spawned + 1
    /\ UNCHANGED <<setting, pc, heap, collector, mstats, slice, next, ended, wg>>

AllSpawned ==
    /\ Goes("spawn", "wait") /\ spawned = procs
    /\ UNCHANGED <<setting, heap, collector, mstats, workers>>

Slots == 0..(count - 1)

\* Mutant of Advance: the goroutines do not skip each other's slots.
AdvanceOne(i) == i + 1

Advance(i) == i + procs

\* out[i] = gen()
Fill(p) ==
    /\ p < spawned /\ next[p] < count
    /\ out' = [out EXCEPT ![next[p]] = made + 1]
    /\ made' = made + 1
    /\ next' = [next EXCEPT ![p] = Advance(@)]
    /\ live' = live + Retained
    /\ UNCHANGED <<setting, pc, dead, other, collector, mstats, count, spawned, ended, wg>>

\* Mutant of WorkerDone: no call of wg.Done.
WorkerDoneMissing(p) ==
    /\ p < spawned /\ next[p] >= count /\ p \notin ended
    /\ UNCHANGED vars

WorkerDone(p) ==
    /\ p < spawned /\ next[p] >= count /\ p \notin ended
    /\ ended' = ended \cup {p}
    /\ wg' = wg - 1
    /\ UNCHANGED <<setting, pc, heap, collector, mstats, slice, spawned, next>>

Worker(p) == Fill(p) \/ WorkerDone(p)

\* wg.Wait returns, and Generate does.
Wait ==
    /\ Goes("wait", "done") /\ wg = 0
    /\ UNCHANGED <<setting, heap, collector, mstats, workers>>

Generate == MakeOut \/ MakeOutPanics \/ Spawn \/ AllSpawned \/ Wait

-----------------------------------------------------------------------------
Ended == pc \in {"done", "panic"} /\ UNCHANGED vars

Next ==
    \/ Measure
    \/ Generate
    \/ \E p \in 0..(procs - 1) : Worker(p)
    \/ BeginCycle
    \/ EndCycle
    \/ \E o \in 0..MaxOther : Others(o)
    \/ Ended

Spec == Init /\ [][Next]_vars

\* The caller and each goroutine are scheduled.
FairSpec ==
    /\ Spec
    /\ WF_vars(Measure \/ Generate)
    /\ \A p \in UNION {0..(n - 1) : n \in ProcCounts} : 
          WF_vars(p < procs /\ Worker(p))

-----------------------------------------------------------------------------
(***************************************************************************)
(* "The system must be otherwise idle." (heapgen.go:33-34): then Measure   *)
(* finds exactly what the generator retains, for a de Bruijn graph all its *)
(* 2^power nodes although only node 0 is held (debruijn.go:38-40), and     *)
(* "the non-retained garbage produced by calling Gen()" (:26-27) exactly   *)
(* too, whatever cycles run in the background, but for one that ends       *)
(* before mstats1 is read: nothing holds the collector back there, as      *)
(* SetGCPercent(-1) is commented out (:47, 51).                            *)
(***************************************************************************)
MeasureExact ==
    (idle /\ pc \notin Measuring \cup {"panic"}) =>
        /\ BytesRetained = IF gen[1] = "AST" THEN gen[2] ELSE 2^gen[2]
        /\ BytesGarbage = Garbage \/ (swept /\ BytesGarbage \in 0..Garbage)

(***************************************************************************)
(* The powers that have no graph, 0 among them, never get past the warm-up *)
(* (debruijn.go:18-20, 34), and nothing else panics while the system is    *)
(* idle: the measured size Generate divides by is positive, and the slice  *)
(* it makes is not of negative length (heapgen.go:69-70).                  *)
(***************************************************************************)
BadPower == gen[1] = "deBruijn2" /\ gen[2] \notin 1..(IntBits - 2)

PanicsOnlyWhen ==
    /\ BadPower => pc \in {"warm", "panic"}
    /\ pc = "panic" => BadPower \/ (~idle /\ BytesRetained <= 0)

(***************************************************************************)
(* "It returns an object that retains all objects returned by gen."        *)
(* (heapgen.go:66-67): when Generate returns, every slot is filled and     *)
(* every call's result is in one.                                          *)
(***************************************************************************)
RetainsAll ==
    pc = "done" =>
        /\ \A i \in Slots : out[i] # 0
        /\ \A k \in 1..made : \E i \in Slots : out[i] = k
        /\ \A i, j \in Slots : out[i] = out[j] => i = j

\* "running gen() bytesGoal/bytes1 times" (heapgen.go:66, 69): as often as
\* the goal needs, and no more.
CoversGoal ==
    (idle /\ pc = "done") => /\ live >= goal + BytesRetained
                             /\ live < goal + 2 * BytesRetained

\* Generate returns, also with more goroutines than slots.
GenerateReturns == <>(pc \in {"done", "panic"})
=============================================================================
