------------------------------ MODULE Churner ------------------------------
(***************************************************************************)
(* gcbench/churn.go: a Churner starts a goroutine that allocates garbage   *)
(* on every tick of a ticker, and stops it with a pair of channels: Stop   *)
(* closes c.stop and blocks until the goroutine has closed c.stopped.      *)
(*                                                                         *)
(* Start and Stop are called by one goroutine (benchMain of the programs). *)
(* A run is one Start..Stop interval with the two channels and the         *)
(* goroutine made for it; an identity of Runs is reused once its goroutine *)
(* has ended.                                                              *)
(***************************************************************************)
EXTENDS Integers

CONSTANTS
    Runs,         \* identities of runs; bounds goroutines alive at once
    NoRun,        \* c.stop = nil
    HasBallast    \* BallastBytes > 0

ASSUME ChurnerAssumption == NoRun \notin Runs /\ HasBallast \in BOOLEAN

VARIABLES
    cur,        \* the run that c.stop and c.stopped belong to, or NoRun
    stopCh,     \* runs whose stop channel is closed
    stoppedCh,  \* runs whose stopped channel is closed
    gor,        \* program counter of each run's goroutine
    tick,       \* c.ticker: nil, or the state of its one-slot channel
    ballast     \* c.ballast # nil

churnVars == <<cur, stopCh, stoppedCh, gor, tick, ballast>>

ChurnTypeOK ==
    /\ cur \in Runs \cup {NoRun}
    /\ stopCh \in SUBSET Runs
    /\ stoppedCh \in SUBSET Runs
    /\ gor \in [Runs -> {"ended", "select", "alloc", "close", "ballast"}]
    /\ tick \in {"nil", "empty", "full"}
    /\ ballast \in BOOLEAN

ChurnInit ==
    /\ cur = NoRun
    /\ stopCh = {}
    /\ stoppedCh = {}
    /\ gor = [r \in Runs |-> "ended"]
    /\ tick = "nil"
    /\ ballast = FALSE

-----------------------------------------------------------------------------
(* The caller. *)

\* Start panics when c.stop is set; Stop closes c.stop, which panics on nil.
StartPanics == cur # NoRun
StopPanics == cur = NoRun

Start(r) ==
    /\ ~StartPanics
    /\ gor[r] = "ended"
    /\ cur' = r
    /\ stopCh' = stopCh \ {r}
    /\ stoppedCh' = stoppedCh \ {r}
    /\ ballast' = (ballast \/ HasBallast)
    /\ tick' = IF tick = "nil" THEN "empty" ELSE tick
    /\ gor' = [gor EXCEPT ![r] = "select"]

\* Stop: close(c.stop) ...
StopClose ==
    /\ ~StopPanics
    /\ stopCh' = stopCh \cup {cur}
    /\ UNCHANGED <<cur, stoppedCh, gor, tick, ballast>>

\* Mutant of StopReturn: Stop does not wait for the goroutine.
StopReturnAtOnce ==
    /\ cur \in stopCh
    /\ cur' = NoRun
    /\ UNCHANGED <<stopCh, stoppedCh, gor, tick, ballast>>

\* ... then <-c.stopped and the two assignments of nil.
StopReturn ==
    /\ cur \in stoppedCh
    /\ cur' = NoRun
    /\ UNCHANGED <<stopCh, stoppedCh, gor, tick, ballast>>

-----------------------------------------------------------------------------
(* The goroutine of run r.  A select with both channels ready picks either. *)

SelectStop(r) ==
    /\ gor[r] = "select"
    /\ r \in stopCh
    /\ gor' = [gor EXCEPT ![r] = "close"]
    /\ UNCHANGED <<cur, stopCh, stoppedCh, tick, ballast>>

SelectTick(r) ==
    /\ gor[r] = "select"
    /\ tick = "full"
    /\ tick' = "empty"
    /\ gor' = [gor EXCEPT ![r] = "alloc"]
    /\ UNCHANGED <<cur, stopCh, stoppedCh, ballast>>

Allocate(r) ==
    /\ gor[r] = "alloc"
    /\ gor' = [gor EXCEPT ![r] = "select"]
    /\ UNCHANGED <<cur, stopCh, stoppedCh, tick, ballast>>

\* Mutant of CloseStopped: the goroutine ends without closing the channel.
CloseForgotten(r) ==
    /\ gor[r] = "close"
    /\ gor' = [gor EXCEPT ![r] = "ballast"]
    /\ UNCHANGED <<cur, stopCh, stoppedCh, tick, ballast>>

CloseStopped(r) ==
    /\ gor[r] = "close"
    /\ stoppedCh' = stoppedCh \cup {r}
    /\ gor' = [gor EXCEPT ![r] = "ballast"]
    /\ UNCHANGED <<cur, stopCh, tick, ballast>>

\* c.ballast[0] = 0, after the caller may already have gone on.
TouchBallast(r) ==
    /\ gor[r] = "ballast"
    /\ gor' = [gor EXCEPT ![r] = "ended"]
    /\ UNCHANGED <<cur, stopCh, stoppedCh, tick, ballast>>

\* The runtime's timer: a tick finds the slot empty, or is dropped.
TickerFires ==
    /\ tick = "empty"
    /\ tick' = "full"
    /\ UNCHANGED <<cur, stopCh, stoppedCh, gor, ballast>>

-----------------------------------------------------------------------------
(***************************************************************************)
(* Only the goroutine of the run that c.stop names can still allocate, and *)
(* none can once Stop has returned: no goroutine outlives its Stop in the  *)
(* loop, so two runs never churn at the same time (churn.go:66-70).        *)
(***************************************************************************)
OnlyCurrentRunChurns ==
    \A r \in Runs : gor[r] \in {"select", "alloc", "close"} => r = cur
=============================================================================
