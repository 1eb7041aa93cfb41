---------------------------- MODULE StackPhases ----------------------------
(***************************************************************************)
(* What the StackShrink benchmark promises: the stacks of all goroutines   *)
(* are driven together, first all high, then all low, then all high again. *)
(* Nobody starts towards the next size before everybody has reached the    *)
(* current one, and the benchmark keeps alternating until it is stopped.   *)
(***************************************************************************)
CONSTANT G      \* the goroutines

VARIABLES
    size,       \* the size of each goroutine's stack
    target,     \* the size all of them are driven to
    on          \* FALSE once the benchmark has been stopped

phaseVars == <<size, target, on>>

Sizes == {"low", "high"}
Other(s) == IF s = "low" THEN "high" ELSE "low"

Init ==
    /\ size = [g \in G |-> "low"]
    /\ target = "high"
    /\ on = TRUE

\* One goroutine reaches the target.
Move(g) ==
    /\ on
    /\ size[g] # target
    /\ size' = [size EXCEPT ![g] = target]
    /\ UNCHANGED <<target, on>>

\* Everybody is there: the other size is next.
Flip ==
    /\ on
    /\ \A g \in G : size[g] = target
    /\ target' = Other(target)
    /\ UNCHANGED <<size, on>>

Stop ==
    /\ on
    /\ on' = FALSE
    /\ UNCHANGED <<size, target>>

Next == Flip \/ Stop \/ \E g \in G : Move(g)

Safety == Init /\ [][Next]_phaseVars

Spec == Safety /\ WF_phaseVars(Flip) /\ \A g \in G : WF_phaseVars(Move(g))
=============================================================================
