------------------------- MODULE StackShrinkProofs -------------------------
(***************************************************************************)
(* Proofs about StackShrink for every finite set of goroutines, any number *)
(* of Churner runs and any GC trigger: runs of the Churner are disjoint,   *)
(* the GC that ends a round is a whole one, and the two-gate barrier never *)
(* misuses a WaitGroup, keeps the stacks in step and implements the        *)
(* alternation of StackPhases.                                             *)
(***************************************************************************)
EXTENDS StackShrink, FiniteSetTheorems, TLAPS

LEMMA GsIsNatural == Gs \in Nat
  BY StackShrinkAssumption, FS_CardinalityType DEF Gs

-----------------------------------------------------------------------------
(* Type correctness. *)

\* A WaitGroup operation that does not panic yields a WaitGroup.
LEMMA AddedType ==
  ASSUME NEW Callers, NEW wg \in WaitGroups(Callers), NEW d \in Int, ~AddPanics(wg, d)
  PROVE  Added(wg, d) \in WaitGroups(Callers)
  BY DEF WaitGroups, Added, AddPanics

LEMMA ParkedType ==
  ASSUME NEW Callers, NEW wg \in WaitGroups(Callers), NEW c \in Callers
  PROVE  Parked(wg, c) \in WaitGroups(Callers)
  BY DEF WaitGroups, Parked

LEMMA ZeroGroupType ==
  ASSUME NEW Callers
  PROVE  ZeroGroup \in WaitGroups(Callers)
  BY DEF WaitGroups, ZeroGroup

LEMMA InitType == Init => TypeOK
  <1> SUFFICES ASSUME Init PROVE TypeOK
    OBVIOUS
  <1>1. phase \in WaitGroups({Main}) /\ a \in WaitGroups(G) /\ b \in WaitGroups(G)
    BY GsIsNatural DEF Init, WaitGroups, Added, ZeroGroup
  <1>2. ChurnTypeOK
    BY DEF Init, ChurnInit, ChurnTypeOK
  <1>3. armed \in BOOLEAN /\ fullCycle \in BOOLEAN
    BY Zenon DEF Init
  <1> QED
    BY <1>1, <1>2, <1>3, StackShrinkAssumption DEF Init, TypeOK, MainPCs, LowPCs, MaxSeen

\* The Churner's own steps.
LEMMA ChurnType ==
  ASSUME ChurnTypeOK,
         NEW r \in Runs,
         \/ Start(r) \/ StopClose \/ StopReturn
         \/ SelectStop(r) \/ SelectTick(r) \/ Allocate(r)
         \/ CloseStopped(r) \/ TouchBallast(r) \/ TickerFires
  PROVE  ChurnTypeOK'
  BY ChurnerAssumption
     DEF ChurnTypeOK, Start, StartPanics, StopClose, StopPanics, StopReturn,
         SelectStop, SelectTick, Allocate, CloseStopped, TouchBallast, TickerFires

\* One call of Add on each of the WaitGroups.
LEMMA AddTypes ==
  ASSUME TypeOK, NEW d \in Int
  PROVE  /\ Add(phase, d) => phase' \in WaitGroups({Main}) /\ (UNCHANGED status \/ Crash)
         /\ Add(a, d) => a' \in WaitGroups(G) /\ (UNCHANGED status \/ Crash)
         /\ Add(b, d) => b' \in WaitGroups(G) /\ (UNCHANGED status \/ Crash)
  BY AddedType DEF TypeOK, Add

LEMMA GoroutineType ==
  ASSUME TypeOK, NEW g \in G, Goroutine(g)
  PROVE  TypeOK'
  <1> USE DEF groups, process, gcVars, churnVars, Goes, HighPCs, LowPCs, Crash
  <1>0. ChurnTypeOK' <=> ChurnTypeOK
    BY DEF Goroutine, Grow, HighDone, WaitA, WakeA, LowDone, WaitB, WakeB, ChurnTypeOK
  <1>1. CASE Grow(g)
    BY <1>0, <1>1 DEF TypeOK, Grow
  <1>2. CASE HighDone(g)
    BY <1>0, <1>2, AddTypes DEF TypeOK, HighDone
  <1>3. CASE WaitA(g)
    BY <1>0, <1>3, ParkedType DEF TypeOK, WaitA
  <1>4. CASE WakeA(g)
    BY <1>0, <1>4 DEF TypeOK, WakeA
  <1>5. CASE LowDone(g)
    BY <1>0, <1>5, AddTypes DEF TypeOK, LowDone
  <1>6. CASE WaitB(g)
    BY <1>0, <1>6, ParkedType DEF TypeOK, WaitB
  <1>7. CASE WakeB(g)
    BY <1>0, <1>7 DEF TypeOK, WakeB
  <1> QED
    BY <1>1, <1>2, <1>3, <1>4, <1>5, <1>6, <1>7 DEF Goroutine

LEMMA BenchMainType ==
  ASSUME TypeOK, BenchMain
  PROVE  TypeOK'
  <1> USE DEF groups, process, gcVars, Crash, MainGoes,
              MainPCs, Polling, Stopping, Reopening
  <1>0. ChurnTypeOK'
    <2>1. CASE UNCHANGED churnVars
      BY <2>1 DEF TypeOK, ChurnTypeOK, churnVars
    <2>2. CASE \E r \in Runs : Start(r) \/ StopClose \/ StopReturn
      BY <2>2, ChurnType DEF TypeOK
    <2>3. CASE StopClose \/ StopReturn
      BY <2>3 DEF TypeOK, ChurnTypeOK, StopClose, StopPanics, StopReturn
    <2> QED
      BY <2>1, <2>2, <2>3
         DEF BenchMain, Spawn, MainWaitHigh, MainAddPhaseLow, MainAddB, MainSubA,
             MainWaitLow, MainReadMem, MainStartChurn, MainPoll, MainStopChurn,
             MainJoinChurn, MainAddPhaseHigh, MainAddA, MainSubB, PhaseWait, PhaseWake
  <1>1. ASSUME NEW g \in G, Spawn(g) PROVE TypeOK'
    BY <1>0, <1>1 DEF TypeOK, Spawn, Goes, LowPCs
  <1>2. CASE MainWaitHigh
    BY <1>0, <1>2, ParkedType DEF TypeOK, MainWaitHigh, PhaseWait, PhaseWake
  <1>3. CASE MainAddPhaseLow \/ MainAddPhaseHigh
    BY <1>0, <1>3, AddTypes, GsIsNatural DEF TypeOK, MainAddPhaseLow, MainAddPhaseHigh
  <1>4. CASE MainAddB \/ MainSubA \/ MainAddA \/ MainSubB
    BY <1>0, <1>4, AddTypes DEF TypeOK, MainAddB, MainSubA, MainAddA, MainSubB
  <1>5. CASE MainWaitLow
    BY <1>0, <1>5, ParkedType DEF TypeOK, MainWaitLow, PhaseWait, PhaseWake
  <1>6. CASE MainReadMem \/ MainPoll
    <2>1. fullCycle' \in BOOLEAN
      BY <1>6, Zenon DEF TypeOK, MainReadMem, MainPoll
    <2> QED
      BY <1>0, <1>6, <2>1 DEF TypeOK, MainReadMem, MainPoll, MaxSeen
  <1>7. CASE MainStartChurn \/ MainStopChurn \/ MainJoinChurn
    BY <1>0, <1>7 DEF TypeOK, MainStartChurn, MainStopChurn, MainJoinChurn
  <1> QED
    BY <1>1, <1>2, <1>3, <1>4, <1>5, <1>6, <1>7 DEF BenchMain

LEMMA RuntimeType ==
  ASSUME TypeOK,
         \/ \E r \in Runs : Churn(r) \/ ChurnAllocate(r)
         \/ Tick \/ BeginGC \/ EndGC \/ Exit
  PROVE  TypeOK'
  <1> USE DEF threads, groups, process, gcVars
  <1>1. ASSUME NEW r \in Runs, Churn(r) PROVE TypeOK'
    BY <1>1, ChurnType DEF TypeOK, Churn
  <1>2. ASSUME NEW r \in Runs, ChurnAllocate(r) PROVE TypeOK'
    BY <1>2, ChurnType, StackShrinkAssumption DEF TypeOK, ChurnAllocate
  <1>3. CASE Tick
    BY <1>3 DEF TypeOK, ChurnTypeOK, Tick, TickerFires
  <1>4. CASE BeginGC \/ EndGC \/ Exit
    <2>1. fullCycle' \in BOOLEAN
      BY <1>4, Zenon DEF TypeOK, BeginGC, EndGC, Exit
    <2> QED
      BY <1>4, <2>1, StackShrinkAssumption
         DEF TypeOK, ChurnTypeOK, churnVars, BeginGC, EndGC, Exit, MaxSeen
  <1> QED
    BY <1>1, <1>2, <1>3, <1>4

LEMMA TypeStep == TypeOK /\ [Next]_vars => TypeOK'
  <1> SUFFICES ASSUME TypeOK, [Next]_vars PROVE TypeOK'
    OBVIOUS
  <1>1. CASE UNCHANGED vars
    BY <1>1 DEF TypeOK, ChurnTypeOK, vars, threads, groups, process, gcVars, churnVars
  <1> QED
    BY <1>1, GoroutineType, BenchMainType, RuntimeType DEF Next, Live, Ended

\* Every variable keeps its type: what the proofs below rest on.
LEMMA TypeCorrect == Spec => []TypeOK
  BY InitType, TypeStep, PTL DEF Spec

-----------------------------------------------------------------------------
(* The Churner. *)

\* What makes OnlyCurrentRunChurns inductive: a run whose stopped channel is
\* closed has left the loop, so Stop may forget it.
ChurnInv ==
    /\ OnlyCurrentRunChurns
    /\ \A r \in stoppedCh : gor[r] \in {"ballast", "ended"}

LEMMA ChurnInvStep ==
  ASSUME TypeOK, ChurnInv, [Next]_vars
  PROVE  ChurnInv'
  <1> USE ChurnerAssumption DEF TypeOK, ChurnTypeOK, ChurnInv, OnlyCurrentRunChurns
  <1>1. CASE UNCHANGED churnVars
    BY <1>1 DEF churnVars
  <1>2. ASSUME NEW r \in Runs, Start(r) PROVE ChurnInv'
    BY <1>2 DEF Start, StartPanics
  <1>3. CASE StopClose \/ StopReturn \/ TickerFires
    BY <1>3 DEF StopClose, StopPanics, StopReturn, TickerFires
  <1>4. ASSUME NEW r \in Runs,
               SelectStop(r) \/ SelectTick(r) \/ Allocate(r) \/ CloseStopped(r) \/ TouchBallast(r)
        PROVE  ChurnInv'
    BY <1>4 DEF SelectStop, SelectTick, Allocate, CloseStopped, TouchBallast
  <1>5. CASE UNCHANGED vars
    BY <1>1, <1>5 DEF vars
  <1>6. CASE BenchMain
    BY <1>1, <1>2, <1>3, <1>6
       DEF BenchMain, Spawn, MainWaitHigh, MainAddPhaseLow, MainAddB, MainSubA,
           MainWaitLow, MainReadMem, MainStartChurn, MainPoll, MainStopChurn,
           MainJoinChurn, MainAddPhaseHigh, MainAddA, MainSubB, PhaseWait, PhaseWake
  <1>7. ASSUME NEW g \in G, Goroutine(g) PROVE ChurnInv'
    BY <1>1, <1>7
       DEF Goroutine, Grow, HighDone, WaitA, WakeA, LowDone, WaitB, WakeB
  <1> QED
    BY <1>1, <1>3, <1>4, <1>5, <1>6, <1>7
       DEF Next, Live, Ended, Churn, ChurnAllocate, Tick, BeginGC, EndGC, Exit

(***************************************************************************)
(* At no time do the goroutines of two runs of the Churner both allocate,  *)
(* and none allocates once Stop has returned.                              *)
(***************************************************************************)
THEOREM ChurnerJoins == Spec => []OnlyCurrentRunChurns
  <1>1. Init => ChurnInv
    BY DEF Init, ChurnInit, ChurnInv, OnlyCurrentRunChurns
  <1>2. TypeOK /\ ChurnInv /\ [Next]_vars => ChurnInv'
    BY ChurnInvStep
  <1>3. ChurnInv => OnlyCurrentRunChurns
    BY DEF ChurnInv
  <1> QED
    BY <1>1, <1>2, <1>3, TypeCorrect, PTL DEF Spec

-----------------------------------------------------------------------------
(* The garbage collector's view. *)

\* Until a whole cycle has been seen, at most the cycle that was running at
\* the read of mstats0 has been counted.
CycleInv ==
    /\ fullCycle \/ seen = 0 \/ (seen = 1 /\ gc # "old")
    /\ GCSawSmallStacks

LEMMA CycleInvStep ==
  ASSUME TypeOK, CycleInv, [Next]_vars
  PROVE  CycleInv'
  <1> USE DEF CycleInv, GCSawSmallStacks, Stopping, Reopening, gcVars, MainGoes
  <1>1. CASE UNCHANGED <<mpc, gcVars>>
    BY <1>1
  <1>0. CASE BeginGC
    BY <1>0 DEF BeginGC, threads
  <1>2. CASE EndGC
    <2>1. mpc' = mpc /\ gc' = "off"
      BY <1>2 DEF EndGC, threads
    <2>2. (fullCycle => fullCycle') /\ (gc = "new" => fullCycle')
      BY <1>2, Zenon DEF EndGC
    <2>3. seen = 0 => seen' = 1
      BY <1>2 DEF EndGC, MaxSeen
    <2>4. fullCycle \/ gc = "new" \/ seen = 0
      BY <1>2 DEF EndGC, TypeOK
    <2> QED
      BY <2>1, <2>2, <2>3, <2>4
  <1>3. ASSUME NEW g \in G, Spawn(g) PROVE CycleInv'
    BY <1>3 DEF Spawn
  <1>4. CASE MainReadMem
    BY <1>4 DEF MainReadMem
  <1>5. CASE MainPoll
    BY <1>5 DEF TypeOK, MainPoll, MaxSeen
  <1>6. CASE MainWaitHigh \/ MainWaitLow
    BY <1>6 DEF MainWaitHigh, MainWaitLow, PhaseWait, PhaseWake
  <1>7. CASE \/ MainAddPhaseLow \/ MainAddB \/ MainSubA \/ MainStartChurn
             \/ MainStopChurn \/ MainJoinChurn \/ MainAddPhaseHigh \/ MainAddA \/ MainSubB
    BY <1>7 DEF MainAddPhaseLow, MainAddB, MainSubA, MainStartChurn, MainStopChurn,
                MainJoinChurn, MainAddPhaseHigh, MainAddA, MainSubB
  <1>8. ASSUME NEW g \in G, Goroutine(g) PROVE CycleInv'
    BY <1>1, <1>8
       DEF Goroutine, Grow, HighDone, WaitA, WakeA, LowDone, WaitB, WakeB
  <1>9. ASSUME NEW r \in Runs, Churn(r) \/ ChurnAllocate(r) PROVE CycleInv'
    BY <1>9 DEF Churn, ChurnAllocate, threads
  <1>10. CASE Tick \/ Exit
    BY <1>1, <1>10 DEF Tick, Exit, threads
  <1>11. CASE UNCHANGED vars
    BY <1>1, <1>11 DEF vars, threads
  <1> QED
    BY <1>0, <1>2, <1>3, <1>4, <1>5, <1>6, <1>7, <1>8, <1>9, <1>10, <1>11
       DEF Next, Live, Ended, BenchMain

(***************************************************************************)
(* Leaving the polling loop on NumGC+2 always means that a whole cycle ran *)
(* while the stacks were small.                                            *)
(***************************************************************************)
THEOREM GCRanOnSmallStacks == Spec => []GCSawSmallStacks
  <1>1. Init => CycleInv
    BY DEF Init, CycleInv, GCSawSmallStacks, Stopping, Reopening
  <1>2. TypeOK /\ CycleInv /\ [Next]_vars => CycleInv'
    BY CycleInvStep
  <1>3. CycleInv => GCSawSmallStacks
    BY DEF CycleInv
  <1> QED
    BY <1>1, <1>2, <1>3, TypeCorrect, PTL DEF Spec

-----------------------------------------------------------------------------
(* The barrier. *)

\* The four stages of a round of benchMain.  From Up to Top, and from Down
\* to Bottom, benchMain has to wait for everybody.
Up == {"spawn", "waitHigh", "parkedHigh"}
Top == {"addPhaseLow", "addB", "subA"}
Down == {"waitLow", "parkedLow"}
Bottom == Polling \cup Stopping \cup Reopening

\* Where a goroutine can be before and after it has reported a big stack, and
\* before and after it has reported a small one.
Growing == {"unborn", "waitB", "parkedB", "grow", "highDone"}
AtA == {"waitA", "parkedA"}
Shrinking == AtA \cup {"lowDone"}
AtB == {"waitB", "parkedB"}

Places ==
    /\ \A g \in G :
        /\ mpc \in Up => pc[g] \in Growing \cup AtA
        /\ mpc \in Top => pc[g] \in AtA
        /\ mpc \in Down => pc[g] \in Shrinking \cup AtB
        /\ mpc \in Bottom => pc[g] \in AtB
    /\ mpc # "spawn" => \A g \in G : pc[g] # "unborn"

\* Gate a is shut from the reopening of the round up to a.Add(-1), gate b
\* from b.Add(1) up to the end of the round.
AShut == mpc \in Up \cup Top \cup {"subB"}
BShut == mpc \in {"subA"} \cup Down \cup Bottom

Gates ==
    /\ a.n = IF AShut THEN 1 ELSE 0
    /\ b.n = IF BShut THEN 1 ELSE 0

\* Whoever is parked at a shut gate is among its waiters; an open gate has
\* none, so those still parked there are about to run.
GateWaiters ==
    /\ a.waiters = IF AShut THEN {g \in G : pc[g] = "parkedA"} ELSE {}
    /\ b.waiters = IF BShut THEN {g \in G : pc[g] = "parkedB"} ELSE {}

PhaseWaiters ==
    phase.waiters =
      IF mpc \in {"parkedHigh", "parkedLow"} /\ phase.n > 0 THEN {Main} ELSE {}

\* The goroutines that phase still counts.
Pending ==
    IF mpc \in Up THEN {g \in G : pc[g] \in Growing}
    ELSE IF mpc \in Down THEN {g \in G : pc[g] \in Shrinking}
    ELSE IF mpc \in {"addB", "subA", "addA", "subB"} THEN G
    ELSE {}

Count == phase.n = Cardinality(Pending)

ChurnInUse == cur # NoRun <=> mpc \in {"poll", "stopChurn", "joinChurn"}

BarrierInv ==
    /\ Places
    /\ Gates
    /\ GateWaiters
    /\ PhaseWaiters
    /\ Count
    /\ ChurnInUse
    /\ NoPanic

-----------------------------------------------------------------------------
(* Counting goroutines. *)

LEMMA PendingFacts ==
  ASSUME NEW S \in SUBSET G
  PROVE  /\ IsFiniteSet(S)
         /\ Cardinality(S) \in Nat
         /\ Cardinality(S) = 0 <=> S = {}
         /\ \A g \in S : Cardinality(S \ {g}) = Cardinality(S) - 1
  <1>1. IsFiniteSet(S)
    BY StackShrinkAssumption, FS_Subset
  <1> QED
    BY <1>1, FS_CardinalityType, FS_EmptySet, FS_RemoveElement

LEMMA GsIsPositive == Gs \in Nat /\ Gs > 0
  BY GsIsNatural, PendingFacts, StackShrinkAssumption DEF Gs

LEMMA InitBarrier == Init => BarrierInv
  <1> SUFFICES ASSUME Init PROVE BarrierInv
    OBVIOUS
  <1>1. Places
    BY DEF Init, Places, Up, Top, Down, Bottom, Polling, Stopping, Reopening, Growing
  <1>2. Pending = G
    BY DEF Init, Pending, Up, Growing
  <1>3. phase.n = Gs /\ phase.waiters = {} /\ Gates /\ GateWaiters
    BY GsIsPositive
       DEF Init, Added, ZeroGroup, Gates, GateWaiters, AShut, BShut,
           Up, Top, Down, Bottom, Polling, Stopping, Reopening
  <1> QED
    BY <1>1, <1>2, <1>3
       DEF Init, ChurnInit, BarrierInv, PhaseWaiters, Count, ChurnInUse, NoPanic, Gs

-----------------------------------------------------------------------------
(* The goroutines' steps. *)

\* phase.Done() by a goroutine that phase still counts.
LEMMA PhaseDone ==
  ASSUME TypeOK, BarrierInv, NEW g \in Pending, Pending' = Pending \ {g},
         Add(phase, -1), mpc' = mpc
  PROVE  Count' /\ PhaseWaiters' /\ status' = status
  <1>1. Pending \in SUBSET G
    BY DEF Pending
  <1>2. phase.n \in Nat /\ phase.n > 0 /\ Cardinality(Pending') = phase.n - 1
    BY <1>1, PendingFacts DEF BarrierInv, Count
  <1>3. phase' = Added(phase, -1) /\ status' = status
    BY <1>2 DEF Add, AddPanics
  <1> QED
    BY <1>2, <1>3 DEF BarrierInv, Count, PhaseWaiters, Added

LEMMA HighDoneStep ==
  ASSUME TypeOK, BarrierInv, NEW g \in G, HighDone(g)
  PROVE  BarrierInv'
  <1> USE DEF BarrierInv, TypeOK
  <1>1. /\ pc[g] = "highDone" /\ pc' = [pc EXCEPT ![g] = "waitA"]
        /\ UNCHANGED <<mpc, a, b, cur>> /\ Add(phase, -1)
    BY DEF HighDone, Goes, churnVars
  <1>2. mpc \in Up
    BY <1>1 DEF Places, MainPCs, Up, Top, Down, Bottom, AtA, AtB, Shrinking
  <1>3. Places'
    BY <1>1, <1>2
       DEF Places, Up, Top, Down, Bottom, AtA, Polling, Stopping, Reopening
  <1>4. g \in Pending /\ Pending' = Pending \ {g}
    BY <1>1, <1>2 DEF Pending, Growing
  <1>5. Gates' /\ GateWaiters'
    BY <1>1 DEF Gates, GateWaiters, AShut, BShut
  <1> QED
    BY <1>1, <1>3, <1>4, <1>5, PhaseDone DEF ChurnInUse, NoPanic

LEMMA LowDoneStep ==
  ASSUME TypeOK, BarrierInv, NEW g \in G, LowDone(g)
  PROVE  BarrierInv'
  <1> USE DEF BarrierInv, TypeOK
  <1>1. /\ pc[g] = "lowDone" /\ pc' = [pc EXCEPT ![g] = "waitB"]
        /\ UNCHANGED <<mpc, a, b, cur>> /\ Add(phase, -1)
    BY DEF LowDone, Goes, churnVars
  <1>2. mpc \in Down
    BY <1>1 DEF Places, MainPCs, Up, Top, Down, Bottom, AtA, AtB, Growing
  <1>3. Places'
    BY <1>1, <1>2
       DEF Places, Up, Top, Down, Bottom, AtB, Polling, Stopping, Reopening
  <1>4. g \in Pending /\ Pending' = Pending \ {g}
    BY <1>1, <1>2 DEF Pending, Shrinking, AtA, Up, Down
  <1>5. Gates' /\ GateWaiters'
    BY <1>1 DEF Gates, GateWaiters, AShut, BShut
  <1> QED
    BY <1>1, <1>3, <1>4, <1>5, PhaseDone DEF ChurnInUse, NoPanic

LEMMA GrowStep ==
  ASSUME TypeOK, BarrierInv, NEW g \in G, Grow(g)
  PROVE  BarrierInv'
  <1> USE DEF BarrierInv, TypeOK
  <1>1. /\ pc[g] = "grow" /\ pc' = [pc EXCEPT ![g] = "highDone"]
        /\ UNCHANGED <<mpc, phase, a, b, cur, status>>
    BY DEF Grow, Goes, churnVars, groups, process
  <1>2. mpc \in Up
    BY <1>1 DEF Places, MainPCs, Up, Top, Down, Bottom, AtA, AtB, Shrinking
  <1>3. Places'
    BY <1>1, <1>2
       DEF Places, Up, Top, Down, Bottom, Growing, Polling, Stopping, Reopening
  <1>4. Pending' = Pending
    BY <1>1, <1>2 DEF Pending, Growing
  <1>5. Gates' /\ GateWaiters' /\ PhaseWaiters'
    BY <1>1 DEF Gates, GateWaiters, PhaseWaiters, AShut, BShut
  <1> QED
    BY <1>1, <1>3, <1>4, <1>5 DEF Count, ChurnInUse, NoPanic

LEMMA WaitAStep ==
  ASSUME TypeOK, BarrierInv, NEW g \in G, WaitA(g) \/ WakeA(g)
  PROVE  BarrierInv'
  <1> USE DEF BarrierInv, TypeOK
  <1>1. /\ pc[g] \in AtA
        /\ UNCHANGED <<mpc, phase, b, cur>>
        /\ pc' \in [G -> HighPCs \cup LowPCs]
        /\ \A h \in G \ {g} : pc'[h] = pc[h]
    BY DEF WaitA, WakeA, Goes, churnVars, groups, AtA, HighPCs, LowPCs
  <1>2. mpc \in Up \cup Top \cup Down
    BY <1>1 DEF Places, MainPCs, Up, Top, Down, Bottom, AtA, AtB
  <1>3. a.n = (IF mpc \in Down THEN 0 ELSE 1)
    BY <1>2 DEF Gates, AShut, Up, Top, Down
  \* A shut gate parks the goroutine; its waiters are not awake.
  <1>4. CASE mpc \notin Down
    <2>1. ~WakeA(g)
      BY <1>2, <1>4 DEF WakeA, Released, Goes, GateWaiters, AShut
    <2>2. pc[g] = "waitA" /\ pc'[g] = "parkedA" /\ a' = Parked(a, g) /\ status' = status
      BY <1>1, <1>3, <1>4, <2>1 DEF WaitA, WaitParks, Goes, process
    <2>3. Places'
      BY <1>1, <1>2, <1>4, <2>2
         DEF Places, Up, Top, Down, Bottom, AtA, Polling, Stopping, Reopening
    <2>4. Pending' = Pending
      BY <1>1, <1>2, <1>4, <2>2 DEF Pending, Growing
    <2>5. Gates'
      BY <1>1, <2>2 DEF Gates, AShut, BShut, Parked, WaitGroups
    <2>6. AShut /\ AShut' /\ (BShut' <=> BShut)
      BY <1>1, <1>2, <1>4 DEF AShut, BShut
    <2>7. a.waiters = {h \in G : pc[h] = "parkedA"}
      BY <2>6 DEF GateWaiters
    <2>8. a'.waiters = a.waiters \cup {g}
      BY <2>2 DEF Parked, WaitGroups
    <2>9. {h \in G : pc'[h] = "parkedA"} = {h \in G : pc[h] = "parkedA"} \cup {g}
      BY <1>1, <2>2
    <2>10. {h \in G : pc'[h] = "parkedB"} = {h \in G : pc[h] = "parkedB"}
      BY <1>1, <2>2
    <2>11. GateWaiters'
      BY <1>1, <2>6, <2>7, <2>8, <2>9, <2>10 DEF GateWaiters
    <2>12. PhaseWaiters'
      BY <1>1 DEF PhaseWaiters
    <2> QED
      BY <1>1, <2>2, <2>3, <2>4, <2>5, <2>11, <2>12 DEF Count, ChurnInUse, NoPanic
  \* An open one lets it pass, parked or not, and is not in use.
  <1>5. CASE mpc \in Down
    <2>1. a = ZeroGroup
      BY <1>3, <1>5
         DEF WaitGroups, ZeroGroup, GateWaiters, AShut, Up, Top, Down
    <2>2. pc'[g] = "lowDone" /\ a' = a /\ status' = status
      BY <2>1 DEF WaitA, WakeA, WaitParks, ReusePanics, Goes, ZeroGroup, groups, process
    <2>3. Places'
      BY <1>1, <1>5, <2>2
         DEF Places, Up, Top, Down, Bottom, Shrinking, Polling, Stopping, Reopening
    <2>4. Pending' = Pending
      BY <1>1, <1>5, <2>2 DEF Pending, Shrinking, Up, Down
    <2>5. Gates'
      BY <1>1, <2>2 DEF Gates, AShut, BShut
    <2>6. ~AShut /\ ~AShut' /\ (BShut' <=> BShut)
      BY <1>1, <1>5 DEF AShut, BShut, Up, Top, Down
    <2>7. {h \in G : pc'[h] = "parkedB"} = {h \in G : pc[h] = "parkedB"}
      BY <1>1, <2>2 DEF AtA
    <2>8. GateWaiters' /\ PhaseWaiters'
      BY <1>1, <2>2, <2>6, <2>7 DEF GateWaiters, PhaseWaiters
    <2> QED
      BY <1>1, <2>2, <2>3, <2>4, <2>5, <2>8 DEF Count, ChurnInUse, NoPanic
  <1> QED
    BY <1>4, <1>5

LEMMA WaitBStep ==
  ASSUME TypeOK, BarrierInv, NEW g \in G, WaitB(g) \/ WakeB(g)
  PROVE  BarrierInv'
  <1> USE DEF BarrierInv, TypeOK
  <1>1. /\ pc[g] \in AtB
        /\ UNCHANGED <<mpc, phase, a, cur>>
        /\ pc' \in [G -> HighPCs \cup LowPCs]
        /\ \A h \in G \ {g} : pc'[h] = pc[h]
    BY DEF WaitB, WakeB, Goes, churnVars, groups, AtB, HighPCs, LowPCs
  <1>2. mpc \in Up \cup Down \cup Bottom
    BY <1>1 DEF Places, MainPCs, Up, Top, Down, Bottom, AtA, AtB
  <1>3. b.n = (IF mpc \in Up THEN 0 ELSE 1)
    BY <1>2 DEF Gates, BShut, Up, Down, Bottom, Polling, Stopping, Reopening
  <1>4. CASE mpc \notin Up
    <2>1. ~WakeB(g)
      BY <1>2, <1>4 DEF WakeB, Released, Goes, GateWaiters, BShut
    <2>2. pc[g] = "waitB" /\ pc'[g] = "parkedB" /\ b' = Parked(b, g) /\ status' = status
      BY <1>1, <1>3, <1>4, <2>1 DEF WaitB, WaitParks, Goes, process
    <2>3. Places'
      BY <1>1, <1>2, <1>4, <2>2
         DEF Places, Up, Top, Down, Bottom, AtB, Polling, Stopping, Reopening
    <2>4. Pending' = Pending
      BY <1>1, <1>2, <1>4, <2>2 DEF Pending, Shrinking, AtA
    <2>5. Gates'
      BY <1>1, <2>2 DEF Gates, AShut, BShut, Parked, WaitGroups
    <2>6. BShut /\ BShut' /\ (AShut' <=> AShut)
      BY <1>1, <1>2, <1>4 DEF AShut, BShut
    <2>7. b.waiters = {h \in G : pc[h] = "parkedB"}
      BY <2>6 DEF GateWaiters
    <2>8. b'.waiters = b.waiters \cup {g}
      BY <2>2 DEF Parked, WaitGroups
    <2>9. {h \in G : pc'[h] = "parkedB"} = {h \in G : pc[h] = "parkedB"} \cup {g}
      BY <1>1, <2>2
    <2>10. {h \in G : pc'[h] = "parkedA"} = {h \in G : pc[h] = "parkedA"}
      BY <1>1, <2>2
    <2>11. GateWaiters'
      BY <1>1, <2>6, <2>7, <2>8, <2>9, <2>10 DEF GateWaiters
    <2>12. PhaseWaiters'
      BY <1>1 DEF PhaseWaiters
    <2> QED
      BY <1>1, <2>2, <2>3, <2>4, <2>5, <2>11, <2>12 DEF Count, ChurnInUse, NoPanic
  <1>5. CASE mpc \in Up
    <2>1. b = ZeroGroup
      BY <1>3, <1>5
         DEF WaitGroups, ZeroGroup, GateWaiters, BShut, Up, Down, Bottom,
             Polling, Stopping, Reopening
    <2>2. pc'[g] = "grow" /\ b' = b /\ status' = status
      BY <2>1 DEF WaitB, WakeB, WaitParks, ReusePanics, Goes, ZeroGroup, groups, process
    <2>3. Places'
      BY <1>1, <1>5, <2>2
         DEF Places, Up, Top, Down, Bottom, Growing, Polling, Stopping, Reopening
    <2>4. Pending' = Pending
      BY <1>1, <1>5, <2>2 DEF Pending, Growing, AtB
    <2>5. Gates'
      BY <1>1, <2>2 DEF Gates, AShut, BShut
    <2>6. ~BShut /\ ~BShut' /\ (AShut' <=> AShut)
      BY <1>1, <1>5 DEF AShut, BShut, Up, Down, Bottom, Polling, Stopping, Reopening
    <2>7. {h \in G : pc'[h] = "parkedA"} = {h \in G : pc[h] = "parkedA"}
      BY <1>1, <2>2 DEF AtB
    <2>8. GateWaiters' /\ PhaseWaiters'
      BY <1>1, <2>2, <2>6, <2>7 DEF GateWaiters, PhaseWaiters
    <2> QED
      BY <1>1, <2>2, <2>3, <2>4, <2>5, <2>8 DEF Count, ChurnInUse, NoPanic
  <1> QED
    BY <1>4, <1>5

-----------------------------------------------------------------------------
(* benchMain's steps. *)

LEMMA SpawnStep ==
  ASSUME TypeOK, BarrierInv, NEW g \in G, Spawn(g)
  PROVE  BarrierInv'
  <1> USE DEF BarrierInv, TypeOK
  <1>1. /\ mpc = "spawn" /\ mpc' \in {"spawn", "waitHigh"}
        /\ pc[g] = "unborn" /\ pc' = [pc EXCEPT ![g] = "grow"]
        /\ mpc' # "spawn" => \A h \in G : pc'[h] # "unborn"
        /\ UNCHANGED <<phase, a, b, cur, status>>
    BY DEF Spawn, Goes, groups, process, churnVars
  <1>2. Places'
    BY <1>1 DEF Places, Up, Top, Down, Bottom, Growing, Polling, Stopping, Reopening
  <1>3. Pending' = Pending
    BY <1>1 DEF Pending, Up, Growing
  <1>4. AShut /\ AShut' /\ ~BShut /\ ~BShut'
    BY <1>1 DEF AShut, BShut, Up, Down, Bottom, Polling, Stopping, Reopening
  <1>5. Gates' /\ GateWaiters' /\ PhaseWaiters'
    BY <1>1, <1>4 DEF Gates, GateWaiters, PhaseWaiters
  <1> QED
    BY <1>1, <1>2, <1>3, <1>5 DEF Count, ChurnInUse, NoPanic

\* A phase.Wait that returns has counted everybody.
LEMMA PhaseWaited ==
  ASSUME TypeOK, BarrierInv,
         NEW call, NEW parked \in {"parkedHigh", "parkedLow"}, NEW next,
         call \notin {"parkedHigh", "parkedLow"},
         PhaseWait(call, parked, next) \/ PhaseWake(parked, next)
  PROVE  /\ UNCHANGED <<pc, a, b, cur, status>>
         /\ \/ /\ mpc = call /\ mpc' = parked
               /\ phase'.n = phase.n /\ phase.n > 0
               /\ phase'.waiters = {Main}
            \/ /\ mpc \in {call, parked} /\ mpc' = next
               /\ phase.n = 0 /\ Pending = {}
               /\ phase' = phase /\ phase.waiters = {}
  <1> USE DEF BarrierInv, TypeOK
  <1>0. phase.n \in Nat /\ (phase.n = 0 => Pending = {})
    BY PendingFacts DEF WaitGroups, Count, Pending
  <1>1. CASE PhaseWait(call, parked, next)
    BY <1>0, <1>1
       DEF PhaseWait, WaitParks, Parked, MainGoes, churnVars, PhaseWaiters, WaitGroups
  <1>2. CASE PhaseWake(parked, next)
    <2>1. mpc = parked /\ mpc' = next /\ Main \notin phase.waiters
      BY <1>2 DEF PhaseWake, Released, MainGoes
    <2>2. phase.n = 0 /\ phase.waiters = {}
      BY <1>0, <2>1 DEF PhaseWaiters
    <2>3. phase = ZeroGroup
      BY <2>2 DEF WaitGroups, ZeroGroup
    <2> QED
      BY <1>0, <1>2, <2>1, <2>2, <2>3 DEF PhaseWake, ReusePanics, groups, churnVars
  <1> QED
    BY <1>1, <1>2

LEMMA MainWaitHighStep ==
  ASSUME TypeOK, BarrierInv, MainWaitHigh
  PROVE  BarrierInv'
  <1> USE DEF BarrierInv, TypeOK
  <1>1. /\ UNCHANGED <<pc, a, b, cur, status>>
        /\ \/ /\ mpc = "waitHigh" /\ mpc' = "parkedHigh"
              /\ phase'.n = phase.n /\ phase.n > 0
              /\ phase'.waiters = {Main}
           \/ /\ mpc \in {"waitHigh", "parkedHigh"} /\ mpc' = "addPhaseLow"
              /\ phase.n = 0 /\ Pending = {}
              /\ phase' = phase /\ phase.waiters = {}
    BY PhaseWaited DEF MainWaitHigh
  <1>2. Places'
    BY <1>1 DEF Places, Up, Top, Down, Bottom, Growing, AtA, Pending,
                Polling, Stopping, Reopening
  <1>3. AShut /\ AShut' /\ ~BShut /\ ~BShut'
    BY <1>1 DEF AShut, BShut, Up, Top, Down, Bottom, Polling, Stopping, Reopening
  <1>4. Gates' /\ GateWaiters' /\ PhaseWaiters'
    BY <1>1, <1>3 DEF Gates, GateWaiters, PhaseWaiters
  <1>5. Count'
    BY <1>1 DEF Count, Pending, Up, Down
  <1> QED
    BY <1>1, <1>2, <1>4, <1>5 DEF ChurnInUse, NoPanic

LEMMA MainWaitLowStep ==
  ASSUME TypeOK, BarrierInv, MainWaitLow
  PROVE  BarrierInv'
  <1> USE DEF BarrierInv, TypeOK
  <1>1. /\ UNCHANGED <<pc, a, b, cur, status>>
        /\ \/ /\ mpc = "waitLow" /\ mpc' = "parkedLow"
              /\ phase'.n = phase.n /\ phase.n > 0
              /\ phase'.waiters = {Main}
           \/ /\ mpc \in {"waitLow", "parkedLow"} /\ mpc' = "readMem"
              /\ phase.n = 0 /\ Pending = {}
              /\ phase' = phase /\ phase.waiters = {}
    BY PhaseWaited DEF MainWaitLow
  <1>2. Places'
    BY <1>1 DEF Places, Up, Top, Down, Bottom, Shrinking, AtB, Pending,
                Polling, Stopping, Reopening
  <1>3. ~AShut /\ ~AShut' /\ BShut /\ BShut'
    BY <1>1 DEF AShut, BShut, Up, Top, Down, Bottom, Polling, Stopping, Reopening
  <1>4. Gates' /\ GateWaiters' /\ PhaseWaiters'
    BY <1>1, <1>3 DEF Gates, GateWaiters, PhaseWaiters
  <1>5. Count'
    BY <1>1 DEF Count, Pending, Up, Down
  <1> QED
    BY <1>1, <1>2, <1>4, <1>5 DEF ChurnInUse, NoPanic

\* phase.Add(*flagGs) finds phase at zero and nobody waiting on it.
LEMMA MainAddPhaseStep ==
  ASSUME TypeOK, BarrierInv, MainAddPhaseLow \/ MainAddPhaseHigh
  PROVE  BarrierInv'
  <1> USE DEF BarrierInv, TypeOK
  <1>1. /\ \/ mpc = "addPhaseLow" /\ mpc' = "addB"
           \/ mpc = "addPhaseHigh" /\ mpc' = "addA"
        /\ UNCHANGED <<pc, a, b, cur>> /\ Add(phase, Gs)
    BY DEF MainAddPhaseLow, MainAddPhaseHigh, MainGoes, churnVars
  <1>2. Pending = {} /\ Pending' = G
    BY <1>1 DEF Pending, Up, Down
  <1>3. phase.n = 0 /\ phase.waiters = {}
    BY <1>1, <1>2, FS_EmptySet DEF Count, PhaseWaiters
  <1>4. phase' = Added(phase, Gs) /\ status' = status
    BY <1>1, <1>3, GsIsPositive DEF Add, AddPanics
  <1>5. Count' /\ PhaseWaiters'
    BY <1>1, <1>2, <1>3, <1>4, GsIsPositive DEF Count, PhaseWaiters, Added, Gs
  <1>6. Places'
    BY <1>1 DEF Places, Up, Top, Down, Bottom, Polling, Stopping, Reopening
  <1>7. (AShut' <=> AShut) /\ (BShut' <=> BShut)
    BY <1>1 DEF AShut, BShut, Up, Top, Down, Bottom, Polling, Stopping, Reopening
  <1>8. Gates' /\ GateWaiters'
    BY <1>1, <1>7 DEF Gates, GateWaiters
  <1> QED
    BY <1>1, <1>4, <1>5, <1>6, <1>8 DEF ChurnInUse, NoPanic

\* b.Add(1) and a.Add(1) shut a gate that nobody waits at.
LEMMA MainShutStep ==
  ASSUME TypeOK, BarrierInv, MainAddB \/ MainAddA
  PROVE  BarrierInv'
  <1> USE DEF BarrierInv, TypeOK
  <1>1. UNCHANGED <<pc, phase, cur>>
    BY DEF MainAddB, MainAddA, churnVars
  <1>2. \/ mpc = "addB" /\ mpc' = "subA" /\ Add(b, 1) /\ a' = a
        \/ mpc = "addA" /\ mpc' = "subB" /\ Add(a, 1) /\ b' = b
    BY DEF MainAddB, MainAddA, MainGoes
  <1>3. Places'
    BY <1>1, <1>2 DEF Places, Up, Top, Down, Bottom, Polling, Stopping, Reopening
  <1>4. Pending' = Pending /\ Count' /\ PhaseWaiters'
    BY <1>1, <1>2 DEF Pending, Count, PhaseWaiters, Up, Down
  <1>5. CASE mpc = "addB"
    <2>1. /\ AShut /\ AShut' /\ ~BShut /\ BShut'
          /\ {g \in G : pc[g] = "parkedB"} = {}
      BY <1>2, <1>5 DEF AShut, BShut, Up, Top, Down, Bottom, Places, AtA,
                        Polling, Stopping, Reopening
    <2>2. b.n = 0 /\ b.waiters = {}
      BY <2>1 DEF Gates, GateWaiters
    <2>3. b' = Added(b, 1) /\ status' = status
      BY <1>2, <1>5, <2>2 DEF Add, AddPanics
    <2>4. b'.n = 1 /\ b'.waiters = {} /\ a' = a
      BY <1>2, <1>5, <2>2, <2>3 DEF Added
    <2> QED
      BY <1>1, <1>2, <1>3, <1>4, <1>5, <2>1, <2>3, <2>4
         DEF Gates, GateWaiters, ChurnInUse, NoPanic
  <1>6. CASE mpc = "addA"
    <2>1. /\ ~AShut /\ AShut' /\ BShut /\ BShut'
          /\ {g \in G : pc[g] = "parkedA"} = {}
      BY <1>2, <1>6 DEF AShut, BShut, Up, Top, Down, Bottom, Places, AtB,
                        Polling, Stopping, Reopening
    <2>2. a.n = 0 /\ a.waiters = {}
      BY <2>1 DEF Gates, GateWaiters
    <2>3. a' = Added(a, 1) /\ status' = status
      BY <1>2, <1>6, <2>2 DEF Add, AddPanics
    <2>4. a'.n = 1 /\ a'.waiters = {} /\ b' = b
      BY <1>2, <1>6, <2>2, <2>3 DEF Added
    <2> QED
      BY <1>1, <1>2, <1>3, <1>4, <1>6, <2>1, <2>3, <2>4
         DEF Gates, GateWaiters, ChurnInUse, NoPanic
  <1> QED
    BY <1>2, <1>5, <1>6

\* a.Add(-1) and b.Add(-1) open a gate and release everybody parked there.
LEMMA MainOpenStep ==
  ASSUME TypeOK, BarrierInv, MainSubA \/ MainSubB
  PROVE  BarrierInv'
  <1> USE DEF BarrierInv, TypeOK
  <1>1. UNCHANGED <<pc, phase, cur>>
    BY DEF MainSubA, MainSubB, churnVars
  <1>2. \/ mpc = "subA" /\ mpc' = "waitLow" /\ Add(a, -1) /\ b' = b
        \/ mpc = "subB" /\ mpc' = "waitHigh" /\ Add(b, -1) /\ a' = a
    BY DEF MainSubA, MainSubB, MainGoes
  <1>3. Places'
    BY <1>1, <1>2 DEF Places, Up, Top, Down, Bottom, Growing, Shrinking, AtA, AtB,
                      Polling, Stopping, Reopening
  <1>4. Pending = G /\ Pending' = G
    BY <1>1, <1>2 DEF Pending, Up, Down, Top, Bottom, Places, Growing, Shrinking,
                      AtA, AtB, Polling, Stopping, Reopening
  <1>5. Count' /\ PhaseWaiters'
    BY <1>1, <1>2, <1>4 DEF Count, PhaseWaiters
  <1>6. CASE mpc = "subA"
    <2>1. AShut /\ ~AShut' /\ BShut /\ BShut'
      BY <1>2, <1>6 DEF AShut, BShut, Up, Top, Down, Bottom,
                        Polling, Stopping, Reopening
    <2>2. a' = Added(a, -1) /\ status' = status /\ a.n = 1
      BY <1>2, <1>6, <2>1 DEF Add, AddPanics, Gates
    <2>3. a'.n = 0 /\ a'.waiters = {} /\ b' = b
      BY <1>2, <1>6, <2>2 DEF Added
    <2> QED
      BY <1>1, <1>2, <1>3, <1>5, <1>6, <2>1, <2>2, <2>3
         DEF Gates, GateWaiters, ChurnInUse, NoPanic
  <1>7. CASE mpc = "subB"
    <2>1. AShut /\ AShut' /\ BShut /\ ~BShut'
      BY <1>2, <1>7 DEF AShut, BShut, Up, Top, Down, Bottom,
                        Polling, Stopping, Reopening
    <2>2. b' = Added(b, -1) /\ status' = status /\ b.n = 1
      BY <1>2, <1>7, <2>1 DEF Add, AddPanics, Gates
    <2>3. b'.n = 0 /\ b'.waiters = {} /\ a' = a
      BY <1>2, <1>7, <2>2 DEF Added
    <2> QED
      BY <1>1, <1>2, <1>3, <1>5, <1>7, <2>1, <2>2, <2>3
         DEF Gates, GateWaiters, ChurnInUse, NoPanic
  <1> QED
    BY <1>2, <1>6, <1>7

\* The steps that only move benchMain along the bottom of the round.
MainChurns == MainReadMem \/ MainStartChurn \/ MainPoll \/ MainStopChurn \/ MainJoinChurn

LEMMA MainChurnsStep ==
  ASSUME TypeOK, BarrierInv, MainChurns
  PROVE  BarrierInv'
  <1> USE DEF BarrierInv, TypeOK
  <1>1. /\ mpc \in Polling \cup Stopping
        /\ mpc' \in Polling \cup Stopping \cup {"addPhaseHigh"}
        /\ UNCHANGED <<pc, phase, a, b>>
    BY DEF MainChurns, MainReadMem, MainStartChurn, MainPoll, MainStopChurn,
           MainJoinChurn, MainGoes, groups, Polling, Stopping
  <1>2. Places'
    BY <1>1 DEF Places, Up, Top, Down, Bottom, Polling, Stopping, Reopening
  <1>3. ~AShut /\ ~AShut' /\ BShut /\ BShut'
    BY <1>1 DEF AShut, BShut, Up, Top, Down, Bottom, Polling, Stopping, Reopening
  <1>4. Gates' /\ GateWaiters' /\ PhaseWaiters'
    BY <1>1, <1>3 DEF Gates, GateWaiters, PhaseWaiters, Polling, Stopping
  <1>5. Pending = {} /\ Pending' = {}
    BY <1>1 DEF Pending, Up, Down, Polling, Stopping
  <1>6. ChurnInUse' /\ NoPanic'
    <2>1. CASE MainReadMem \/ MainPoll
      BY <2>1 DEF MainReadMem, MainPoll, MainGoes, ChurnInUse, NoPanic, process, churnVars
    <2>2. CASE MainStartChurn
      BY <2>2, ChurnerAssumption
         DEF MainStartChurn, MainGoes, StartPanics, Start, ChurnInUse, NoPanic
    <2>3. CASE MainStopChurn
      BY <2>3 DEF MainStopChurn, MainGoes, StopPanics, StopClose, ChurnInUse, NoPanic
    <2>4. CASE MainJoinChurn
      BY <2>4 DEF MainJoinChurn, MainGoes, StopReturn, ChurnInUse, NoPanic, process
    <2> QED
      BY <2>1, <2>2, <2>3, <2>4 DEF MainChurns
  <1> QED
    BY <1>1, <1>2, <1>4, <1>5, <1>6 DEF Count

-----------------------------------------------------------------------------
(* The invariant and what follows from it. *)

Quiet == UNCHANGED <<mpc, pc, phase, a, b, cur>> /\ (status' = status \/ status' = "exited")

LEMMA QuietStep ==
  ASSUME BarrierInv, Quiet
  PROVE  BarrierInv'
  BY DEF BarrierInv, Quiet, Places, Gates, GateWaiters, PhaseWaiters, AShut, BShut,
         Count, Pending, ChurnInUse, NoPanic

LEMMA RuntimeQuiet ==
  ASSUME \/ \E r \in Runs : Churn(r) \/ ChurnAllocate(r)
         \/ Tick \/ BeginGC \/ EndGC \/ Exit \/ Ended \/ UNCHANGED vars
  PROVE  Quiet
  BY DEF Quiet, Churn, ChurnAllocate, Tick, BeginGC, EndGC, Exit, Ended, SelectStop,
         SelectTick, CloseStopped, TouchBallast, Allocate, TickerFires,
         vars, threads, groups, process, churnVars

LEMMA BarrierStep ==
  ASSUME TypeOK, BarrierInv, [Next]_vars
  PROVE  BarrierInv'
  <1>1. ASSUME NEW g \in G, Goroutine(g) PROVE BarrierInv'
    BY <1>1, GrowStep, HighDoneStep, WaitAStep, LowDoneStep, WaitBStep DEF Goroutine
  <1>2. CASE BenchMain
    BY <1>2, SpawnStep, MainWaitHighStep, MainWaitLowStep, MainAddPhaseStep,
       MainShutStep, MainOpenStep, MainChurnsStep DEF BenchMain, MainChurns
  <1> QED
    BY <1>1, <1>2, RuntimeQuiet, QuietStep DEF Next, Live

LEMMA BarrierInvariant == Spec => []BarrierInv
  <1>1. TypeOK /\ BarrierInv /\ [Next]_vars => BarrierInv'
    BY BarrierStep
  <1> QED
    BY InitBarrier, <1>1, TypeCorrect, PTL DEF Spec

(***************************************************************************)
(* No order of the WaitGroup calls of benchMain and of any number of       *)
(* goroutines makes a WaitGroup panic, and the Churner is never started    *)
(* twice or stopped when it is not running.                                *)
(***************************************************************************)
THEOREM NeverPanics == Spec => []NoPanic
  <1>1. BarrierInv => NoPanic
    BY DEF BarrierInv
  <1> QED
    BY <1>1, BarrierInvariant, PTL

(***************************************************************************)
(* When phase.Wait returns every stack is where its comment says, and it   *)
(* stays there until benchMain opens the next gate.                        *)
(***************************************************************************)
THEOREM BarrierIsKept == Spec => []BarrierHolds
  <1>1. BarrierInv => BarrierHolds
    BY DEF BarrierInv, Places, BarrierHolds, Top, Bottom, AtA, AtB, HighPCs, LowPCs
  <1> QED
    BY <1>1, BarrierInvariant, PTL

-----------------------------------------------------------------------------
(* The barrier implements StackPhases (its safety part). *)

Sized == [g \in G |-> IF pc[g] \in HighPCs THEN "high" ELSE "low"]
Target == IF mpc \in Down \cup Bottom THEN "low" ELSE "high"
On == status = "running"

LEMMA GoroutineMoves ==
  ASSUME TypeOK, BarrierInv, BarrierInv', On, NEW g \in G, Goroutine(g)
  PROVE  /\ UNCHANGED <<Target, On>>
         /\ \/ Sized' = Sized
            \/ Sized[g] # Target /\ Sized' = [Sized EXCEPT ![g] = Target]
  <1> USE DEF Sized, Target, TypeOK
  <1>1. mpc' = mpc /\ (status' = status \/ status' = "panicked")
    BY DEF Goroutine, Grow, HighDone, WaitA, WakeA, LowDone, WaitB, WakeB, Add, Crash, process
  <1>2. UNCHANGED <<Target, On>>
    BY <1>1 DEF On, BarrierInv, NoPanic
  <1>3. CASE Grow(g)
    <2>1. mpc \in Up
      BY <1>3 DEF Grow, Goes, BarrierInv, Places, MainPCs, Up, Top, Down, Bottom,
                  AtA, AtB, Shrinking
    <2> QED
      BY <1>2, <1>3, <2>1
         DEF Grow, Goes, HighPCs, Up, Down, Bottom, Polling, Stopping, Reopening
  <1>4. CASE HighDone(g) \/ LowDone(g) \/ WaitB(g) \/ WakeB(g)
    BY <1>2, <1>4 DEF HighDone, LowDone, WaitB, WakeB, Goes, HighPCs
  <1>5. CASE WaitA(g) \/ WakeA(g)
    <2>1. CASE pc'[g] = "parkedA"
      BY <1>2, <1>5, <2>1 DEF WaitA, WakeA, Goes, HighPCs
    <2>2. CASE pc'[g] # "parkedA"
      <3>1. pc[g] \in AtA /\ pc' = [pc EXCEPT ![g] = "lowDone"]
        BY <1>5, <2>2 DEF WaitA, WakeA, Goes, AtA
      <3>2. mpc \in Down
        BY <1>1, <3>1 DEF BarrierInv, Places, MainPCs, Up, Top, Down, Bottom, AtA, AtB, Growing
      <3> QED
        BY <1>2, <3>1, <3>2 DEF AtA, HighPCs
    <2> QED
      BY <2>1, <2>2
  <1> QED
    BY <1>2, <1>3, <1>4, <1>5 DEF Goroutine

LEMMA BenchMainFlips ==
  ASSUME TypeOK, BarrierInv, BarrierInv', On, BenchMain
  PROVE  /\ UNCHANGED <<Sized, On>>
         /\ \/ Target' = Target
            \/ /\ \A g \in G : Sized[g] = Target
               /\ Target' = IF Target = "low" THEN "high" ELSE "low"
  <1> USE DEF Sized, Target, Down, Bottom, Polling, Stopping, Reopening, TypeOK
  <1>1. On'
    BY DEF On, BarrierInv, NoPanic, BenchMain, Spawn, MainWaitHigh, MainAddPhaseLow,
           MainAddB, MainSubA, MainWaitLow, MainReadMem, MainStartChurn, MainPoll,
           MainStopChurn, MainJoinChurn, MainAddPhaseHigh, MainAddA, MainSubB,
           PhaseWait, PhaseWake, Add, Crash, process
  <1>2. CASE MainSubA
    BY <1>1, <1>2 DEF On, MainSubA, MainGoes, BarrierInv, Places, Top, AtA, HighPCs
  <1>3. CASE MainSubB
    BY <1>1, <1>3 DEF On, MainSubB, MainGoes, BarrierInv, Places, AtB, HighPCs
  <1>4. ASSUME NEW g \in G, Spawn(g)
        PROVE  UNCHANGED <<Sized, Target>>
    BY <1>4 DEF Spawn, Goes, HighPCs
  <1>5. CASE \/ MainWaitHigh \/ MainAddPhaseLow \/ MainAddB \/ MainWaitLow
             \/ MainReadMem \/ MainStartChurn \/ MainPoll \/ MainStopChurn
             \/ MainJoinChurn \/ MainAddPhaseHigh \/ MainAddA
    BY <1>1, <1>5
       DEF On, MainWaitHigh, MainAddPhaseLow, MainAddB, MainWaitLow, MainReadMem,
           MainStartChurn, MainPoll, MainStopChurn, MainJoinChurn, MainAddPhaseHigh,
           MainAddA, PhaseWait, PhaseWake, MainGoes
  <1> QED
    BY <1>1, <1>2, <1>3, <1>4, <1>5 DEF On, BenchMain

LEMMA PhasesStep ==
  ASSUME TypeOK, BarrierInv, BarrierInv', [Next]_vars
  PROVE  [Phases!Next]_(Phases!phaseVars)
  <1> USE DEF Phases!Next, Phases!phaseVars, Phases!Move, Phases!Flip, Phases!Stop,
              Phases!Other, Sized, Target, On, Down, Bottom
  <1>1. ASSUME On, NEW g \in G, Goroutine(g) PROVE Phases!Move(g) \/ UNCHANGED Phases!phaseVars
    BY <1>1, GoroutineMoves
  <1>2. ASSUME On, BenchMain PROVE Phases!Flip \/ UNCHANGED Phases!phaseVars
    BY <1>2, BenchMainFlips
  <1>3. ASSUME On, Quiet PROVE Phases!Stop \/ UNCHANGED Phases!phaseVars
    BY <1>3 DEF Quiet
  <1>4. CASE Ended \/ UNCHANGED vars
    BY <1>4 DEF Ended, vars, threads, process
  <1> QED
    BY <1>1, <1>2, <1>3, <1>4, RuntimeQuiet DEF Next, Live

(***************************************************************************)
(* The goroutines reach each size together and nobody leaves it before     *)
(* everybody has come: every behaviour of the WaitGroups is one of the     *)
(* lock-step alternation.                                                  *)
(***************************************************************************)
THEOREM BarrierRefinesPhases == Spec => Phases!Safety
  <1>1. Init => Phases!Init
    BY DEF Init, Phases!Init, HighPCs, Polling, Stopping, Reopening
  <1>2. TypeOK /\ BarrierInv /\ BarrierInv' /\ [Next]_vars => [Phases!Next]_(Phases!phaseVars)
    BY PhasesStep
  <1> QED
    BY <1>1, <1>2, TypeCorrect, BarrierInvariant, PTL DEF Spec, Phases!Safety
=============================================================================
