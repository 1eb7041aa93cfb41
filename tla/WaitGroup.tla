----------------------------- MODULE WaitGroup -----------------------------
(***************************************************************************)
(* Values and operations of Go's sync.WaitGroup, as stack() and benchMain  *)
(* of gcbench/progs/stackshrink.go use it.  The type belongs to the Go     *)
(* library: what follows is its documented behaviour and the checks that   *)
(* make it panic.                                                          *)
(*                                                                         *)
(* A WaitGroup value is a record of its counter and the set of callers     *)
(* parked in Wait.  A caller that leaves the set without having returned   *)
(* from Wait has been released and still has to run.                       *)
(***************************************************************************)
EXTENDS Integers

\* The zero value, which is also what a released waiter must find.
ZeroGroup == [n |-> 0, waiters |-> {}]

WaitGroups(Callers) == [n : Nat, waiters : SUBSET Callers]

\* Add(d): the counter moves, and reaching zero releases every waiter.
Added(wg, d) ==
    [n |-> wg.n + d, waiters |-> IF wg.n + d = 0 THEN {} ELSE wg.waiters]

\* Add panics on a negative counter, and when it raises the counter from
\* zero while callers are parked.
AddPanics(wg, d) ==
    \/ wg.n + d < 0
    \/ d > 0 /\ wg.n = 0 /\ wg.waiters # {}

\* Wait returns at once on a zero counter and parks its caller otherwise.
WaitParks(wg) == wg.n # 0

Parked(wg, caller) == [wg EXCEPT !.waiters = @ \cup {caller}]

Released(wg, caller) == caller \notin wg.waiters

\* A released waiter that finds the group in use again panics
\* ("WaitGroup is reused before previous Wait has returned").
ReusePanics(wg) == wg # ZeroGroup
=============================================================================
