---------------------------- MODULE StackShrink ----------------------------
(***************************************************************************)
(* gcbench/progs/stackshrink.go.  benchMain drives flagGs goroutines       *)
(* through a two-gate barrier built from three WaitGroups: every goroutine *)
(* grows its stack, reports on phase and waits on a; shrinks, reports on   *)
(* phase and waits on b.  While all the stacks are small, benchMain churns *)
(* the heap with a Churner until it has counted two more GC cycles.        *)
(*                                                                         *)
(* Each WaitGroup call, channel operation and ReadMemStats is a step of    *)
(* its own.  The garbage collector is external: a cycle may begin at any   *)
(* time and must begin once enough garbage has been allocated.             *)
(***************************************************************************)
EXTENDS Churner, WaitGroup, FiniteSets

CONSTANTS
    G,           \* the goroutines running stack()
    Main,        \* benchMain, as a waiter
    GCTrigger    \* allocations that force a GC cycle

ASSUME StackShrinkAssumption ==
    /\ IsFiniteSet(G)
    /\ G # {}
    /\ Main \notin G
    /\ GCTrigger \in Nat

VARIABLES
    mpc,         \* program counter of benchMain
    pc,          \* program counter of each goroutine
    phase, a, b, \* the WaitGroups
    status,      \* of the process
    armed,       \* the os.Exit timer has been set
    gc,          \* the GC cycle in progress, relative to mstats0
    seen,        \* NumGC - mstats0.NumGC, capped at MaxSeen
    fullCycle,   \* history: a cycle begun after mstats0 has ended
    garbage      \* allocations since the last cycle began

threads == <<mpc, pc>>
groups == <<phase, a, b>>
process == <<status, armed>>
gcVars == <<gc, seen, fullCycle, garbage>>
vars == <<threads, groups, process, gcVars, churnVars>>

Gs == Cardinality(G)
MaxSeen == 2    \* benchMain compares with mstats0.NumGC+2 only

\* The goroutine is inside WithStack(high - low).
HighPCs == {"highDone", "waitA", "parkedA"}
LowPCs == {"unborn", "grow", "lowDone", "waitB", "parkedB"}

\* benchMain from its ReadMemStats to the end of the polling loop, on to
\* churn.Stop's return, and up to b.Add(-1).
Polling == {"readMem", "startChurn", "poll"}
Stopping == {"stopChurn", "joinChurn"}
Reopening == {"addPhaseHigh", "addA", "subB"}
MainPCs == {"spawn", "waitHigh", "parkedHigh", "addPhaseLow", "addB", "subA",
            "waitLow", "parkedLow"} \cup Polling \cup Stopping \cup Reopening

TypeOK ==
    /\ mpc \in MainPCs
    /\ pc \in [G -> HighPCs \cup LowPCs]
    /\ phase \in WaitGroups({Main})
    /\ a \in WaitGroups(G)
    /\ b \in WaitGroups(G)
    /\ status \in {"running", "exited", "panicked"}
    /\ armed \in BOOLEAN
    /\ gc \in {"off", "old", "new"}
    /\ seen \in 0..MaxSeen
    /\ fullCycle \in BOOLEAN
    /\ garbage \in 0..GCTrigger
    /\ ChurnTypeOK

\* benchMain up to its loop of go statements.
Init ==
    /\ mpc = "spawn"
    /\ pc = [g \in G |-> "unborn"]
    /\ phase = Added(ZeroGroup, Gs)
    /\ a = Added(ZeroGroup, 1)
    /\ b = ZeroGroup
    /\ status = "running"
    /\ armed = FALSE
    /\ gc = "off"
    /\ seen = 0
    /\ fullCycle = FALSE
    /\ garbage = 0
    /\ ChurnInit

-----------------------------------------------------------------------------
(* WaitGroup calls.  A panic ends the process.                             *)
(* A definition whose comment starts with "Mutant of" is not part of the   *)
(* model: it is a bug the properties are shown to catch.                   *)

Crash == status' = "panicked"

Add(wg, d) ==
    IF AddPanics(wg, d)
    THEN Crash /\ wg' = wg
    ELSE wg' = Added(wg, d) /\ UNCHANGED status

MainGoes(from, to) == mpc = from /\ mpc' = to

Goes(g, from, to) == pc[g] = from /\ pc' = [pc EXCEPT ![g] = to]

-----------------------------------------------------------------------------
(* The goroutines: stack(&phase, &a, &b). *)

\* Enter WithStack(high - low): the stack is high from here on.
Grow(g) ==
    /\ Goes(g, "grow", "highDone")
    /\ UNCHANGED <<mpc, groups, process, gcVars, churnVars>>

HighDone(g) ==
    /\ Goes(g, "highDone", "waitA")
    /\ Add(phase, -1)
    /\ UNCHANGED <<mpc, a, b, armed, gcVars, churnVars>>

\* a.Wait(), and the return from WithStack's callback that pops the frames.
WaitA(g) ==
    /\ IF WaitParks(a)
       THEN Goes(g, "waitA", "parkedA") /\ a' = Parked(a, g)
       ELSE Goes(g, "waitA", "lowDone") /\ UNCHANGED a
    /\ UNCHANGED <<mpc, phase, b, process, gcVars, churnVars>>

WakeA(g) ==
    /\ Released(a, g)
    /\ Goes(g, "parkedA", "lowDone")
    /\ IF ReusePanics(a) THEN Crash ELSE UNCHANGED status
    /\ UNCHANGED <<mpc, groups, armed, gcVars, churnVars>>

LowDone(g) ==
    /\ Goes(g, "lowDone", "waitB")
    /\ Add(phase, -1)
    /\ UNCHANGED <<mpc, a, b, armed, gcVars, churnVars>>

WaitB(g) ==
    /\ IF WaitParks(b)
       THEN Goes(g, "waitB", "parkedB") /\ b' = Parked(b, g)
       ELSE Goes(g, "waitB", "grow") /\ UNCHANGED b
    /\ UNCHANGED <<mpc, phase, a, process, gcVars, churnVars>>

WakeB(g) ==
    /\ Released(b, g)
    /\ Goes(g, "parkedB", "grow")
    /\ IF ReusePanics(b) THEN Crash ELSE UNCHANGED status
    /\ UNCHANGED <<mpc, groups, armed, gcVars, churnVars>>

Goroutine(g) ==
    \/ Grow(g) \/ HighDone(g) \/ WaitA(g) \/ WakeA(g)
    \/ LowDone(g) \/ WaitB(g) \/ WakeB(g)

-----------------------------------------------------------------------------
(* benchMain. *)

Spawn(g) ==
    /\ mpc = "spawn"
    /\ Goes(g, "unborn", "grow")
    /\ mpc' = IF \E h \in G \ {g} : pc[h] = "unborn" THEN "spawn" ELSE "waitHigh"
    /\ UNCHANGED <<groups, process, gcVars, churnVars>>

\* phase.Wait(), at its call and when a parked benchMain is released.
PhaseWait(call, parked, next) ==
    /\ IF WaitParks(phase)
       THEN MainGoes(call, parked) /\ phase' = Parked(phase, Main)
       ELSE MainGoes(call, next) /\ UNCHANGED phase
    /\ UNCHANGED <<pc, a, b, status, gcVars, churnVars>>

PhaseWake(parked, next) ==
    /\ Released(phase, Main)
    /\ MainGoes(parked, next)
    /\ IF ReusePanics(phase) THEN Crash ELSE UNCHANGED status
    /\ UNCHANGED <<pc, groups, gcVars, churnVars>>

\* All the stacks are big.  time.AfterFunc follows the first such wait.
MainWaitHigh ==
    /\ \/ PhaseWait("waitHigh", "parkedHigh", "addPhaseLow")
       \/ PhaseWake("parkedHigh", "addPhaseLow")
    /\ armed' = (armed \/ mpc' = "addPhaseLow")

MainAddPhaseLow ==
    /\ MainGoes("addPhaseLow", "addB")
    /\ Add(phase, Gs)
    /\ UNCHANGED <<pc, a, b, armed, gcVars, churnVars>>

\* Mutant of MainAddB: gate b is left open.
MainAddBForgotten ==
    /\ MainGoes("addB", "subA")
    /\ UNCHANGED <<pc, groups, process, gcVars, churnVars>>

MainAddB ==
    /\ MainGoes("addB", "subA")
    /\ Add(b, 1)
    /\ UNCHANGED <<pc, phase, a, armed, gcVars, churnVars>>

MainSubA ==
    /\ MainGoes("subA", "waitLow")
    /\ Add(a, -1)
    /\ UNCHANGED <<pc, phase, b, armed, gcVars, churnVars>>

MainWaitLow ==
    /\ \/ PhaseWait("waitLow", "parkedLow", "readMem")
       \/ PhaseWake("parkedLow", "readMem")
    /\ UNCHANGED armed

\* ReadMemStats(&mstats0): a cycle in progress began before this point.
MainReadMem ==
    /\ MainGoes("readMem", "startChurn")
    /\ gc' = IF gc = "new" THEN "old" ELSE gc
    /\ seen' = 0
    /\ fullCycle' = FALSE
    /\ UNCHANGED <<pc, groups, process, garbage, churnVars>>

MainStartChurn ==
    /\ MainGoes("startChurn", "poll")
    /\ IF StartPanics
       THEN Crash /\ UNCHANGED churnVars
       ELSE (\E r \in Runs : Start(r)) /\ UNCHANGED status
    /\ UNCHANGED <<pc, groups, armed, gcVars>>

\* Mutant of MainPoll: one more cycle is taken to be enough.
MainPollOneCycle ==
    /\ MainGoes("poll", "stopChurn")
    /\ seen >= 1
    /\ UNCHANGED <<pc, groups, process, gcVars, churnVars>>

\* ReadMemStats(&mstats1) and the test that leaves the loop.
MainPoll ==
    /\ MainGoes("poll", "stopChurn")
    /\ seen >= 2
    /\ UNCHANGED <<pc, groups, process, gcVars, churnVars>>

MainStopChurn ==
    /\ MainGoes("stopChurn", "joinChurn")
    /\ IF StopPanics THEN Crash /\ UNCHANGED churnVars ELSE StopClose /\ UNCHANGED status
    /\ UNCHANGED <<pc, groups, armed, gcVars>>

MainJoinChurn ==
    /\ MainGoes("joinChurn", "addPhaseHigh")
    /\ StopReturn
    /\ UNCHANGED <<pc, groups, process, gcVars>>

\* Mutant of MainAddPhaseHigh: the second phase of the round is not announced.
MainAddPhaseHighForgotten ==
    /\ MainGoes("addPhaseHigh", "addA")
    /\ UNCHANGED <<pc, groups, process, gcVars, churnVars>>

MainAddPhaseHigh ==
    /\ MainGoes("addPhaseHigh", "addA")
    /\ Add(phase, Gs)
    /\ UNCHANGED <<pc, a, b, armed, gcVars, churnVars>>

\* Mutant of MainAddA: gate a is not shut again.
MainAddAForgotten ==
    /\ MainGoes("addA", "subB")
    /\ UNCHANGED <<pc, groups, process, gcVars, churnVars>>

MainAddA ==
    /\ MainGoes("addA", "subB")
    /\ Add(a, 1)
    /\ UNCHANGED <<pc, phase, b, armed, gcVars, churnVars>>

MainSubB ==
    /\ MainGoes("subB", "waitHigh")
    /\ Add(b, -1)
    /\ UNCHANGED <<pc, phase, a, armed, gcVars, churnVars>>

BenchMain ==
    \/ \E g \in G : Spawn(g)
    \/ MainWaitHigh \/ MainAddPhaseLow \/ MainAddB \/ MainSubA
    \/ MainWaitLow \/ MainReadMem \/ MainStartChurn \/ MainPoll
    \/ MainStopChurn \/ MainJoinChurn
    \/ MainAddPhaseHigh \/ MainAddA \/ MainSubB

-----------------------------------------------------------------------------
(* The Churner's goroutines and the runtime. *)

Churn(r) ==
    /\ \/ SelectStop(r) \/ SelectTick(r) \/ CloseStopped(r) \/ TouchBallast(r)
    /\ UNCHANGED <<threads, groups, process, gcVars>>

ChurnAllocate(r) ==
    /\ Allocate(r)
    /\ garbage' = IF garbage < GCTrigger THEN garbage + 1 ELSE garbage
    /\ UNCHANGED <<threads, groups, process, gc, seen, fullCycle>>

Tick == TickerFires /\ UNCHANGED <<threads, groups, process, gcVars>>

BeginGC ==
    /\ gc = "off"
    /\ gc' = "new"
    /\ garbage' = 0
    /\ UNCHANGED <<threads, groups, process, seen, fullCycle, churnVars>>

\* The end of a cycle is when NumGC counts it.
EndGC ==
    /\ gc # "off"
    /\ gc' = "off"
    /\ seen' = IF seen < MaxSeen THEN seen + 1 ELSE seen
    /\ fullCycle' = (fullCycle \/ gc = "new")
    /\ UNCHANGED <<threads, groups, process, garbage, churnVars>>

\* The timer calls os.Exit(0).
Exit ==
    /\ armed
    /\ status' = "exited"
    /\ UNCHANGED <<threads, groups, armed, gcVars, churnVars>>

-----------------------------------------------------------------------------
Live(A) == status = "running" /\ A

Ended == status # "running" /\ UNCHANGED vars

Next ==
    \/ Live(BenchMain)
    \/ \E g \in G : Live(Goroutine(g))
    \/ \E r \in Runs : Live(Churn(r)) \/ Live(ChurnAllocate(r))
    \/ Live(Tick) \/ Live(BeginGC) \/ Live(EndGC) \/ Live(Exit)
    \/ Ended

Spec == Init /\ [][Next]_vars

(***************************************************************************)
(* Every goroutine is scheduled, the ticker fires, a cycle begins when the *)
(* trigger is reached and ends.  Go's select picks at random among ready   *)
(* cases, so a stop channel that stays closed is not passed over forever.  *)
(***************************************************************************)
Fairness ==
    /\ WF_vars(Live(BenchMain))
    /\ \A g \in G : WF_vars(Live(Goroutine(g)))
    /\ \A r \in Runs :
        /\ WF_vars(Live(Churn(r)))
        /\ WF_vars(Live(ChurnAllocate(r)))
        /\ SF_vars(Live(SelectStop(r) /\ UNCHANGED <<threads, groups, process, gcVars>>))
    /\ WF_vars(Live(Tick))
    /\ WF_vars(Live(garbage = GCTrigger /\ BeginGC))
    /\ WF_vars(Live(EndGC))

FairSpec == Spec /\ Fairness

-----------------------------------------------------------------------------
(***************************************************************************)
(* No WaitGroup goes negative or is reused while a released waiter has yet *)
(* to return, and the Churner is started and stopped in turn: the order of *)
(* the Add calls at lines 84-86 and 103-105 is what this rests on.         *)
(***************************************************************************)
NoPanic == status # "panicked"

(***************************************************************************)
(* A phase.Wait that has returned means what its comment says: all stacks  *)
(* are big up to a.Add(-1), all are small from there up to b.Add(-1).      *)
(***************************************************************************)
BarrierHolds ==
    /\ mpc \in {"addPhaseLow", "addB", "subA"} => \A g \in G : pc[g] \in HighPCs
    /\ mpc \in Polling \cup Stopping \cup Reopening => \A g \in G : pc[g] \in LowPCs

(***************************************************************************)
(* "Let GC happen": two more cycles on the counter mean that at least one  *)
(* whole cycle, not just the tail of an older one, ran between the read of *)
(* mstats0 and the regrowth, when every stack was small.                   *)
(***************************************************************************)
GCSawSmallStacks == mpc \in Stopping \cup Reopening => fullCycle

\* churn.Stop() of each round returns, whatever the ticker does meanwhile.
StopReturns == mpc = "joinChurn" ~> (mpc # "joinChurn" \/ status # "running")

Phases == INSTANCE StackPhases WITH
    size <- [g \in G |-> IF pc[g] \in HighPCs THEN "high" ELSE "low"],
    target <- IF mpc \in {"waitLow", "parkedLow"} \cup Polling \cup Stopping \cup Reopening
              THEN "low" ELSE "high",
    on <- (status = "running")

\* The barrier implements the lock-step alternation, fairness included.
ImplementsPhases == Phases!Spec
=============================================================================
