------------------------------ MODULE RPCDrain ------------------------------
(***************************************************************************)
(* What the RPC client promises: requests come and go until it is told to  *)
(* stop; from then on it drains, and it closes only when no request is     *)
(* left, never to begin one again.  A client aborted by a connection that  *)
(* breaks under a request, or told to stop before it had started, promises *)
(* nothing.                                                                *)
(***************************************************************************)
CONSTANT Reqs

VARIABLES
    phase,   \* of the client
    live     \* the requests in progress

drainVars == <<phase, live>>

Phases == {"serving", "draining", "closed", "aborted"}

Init == phase = "serving" /\ live = {}

Begin(r) ==
    /\ phase # "closed"
    /\ r \notin live
    /\ live' = live \cup {r}
    /\ UNCHANGED phase

End(r) ==
    /\ phase # "closed"
    /\ r \in live
    /\ live' = live \ {r}
    /\ UNCHANGED phase

Stop ==
    /\ phase = "serving"
    /\ phase' = "draining"
    /\ UNCHANGED live

Close ==
    /\ phase = "draining"
    /\ live = {}
    /\ phase' = "closed"
    /\ UNCHANGED live

Abort ==
    /\ phase = "serving" \/ (phase = "draining" /\ live # {})
    /\ phase' = "aborted"
    /\ UNCHANGED live

Next == Stop \/ Close \/ Abort \/ \E r \in Reqs : Begin(r) \/ End(r)

Safety == Init /\ [][Next]_drainVars

\* Every request ends and every drain comes to an end, unless it is aborted.
RequestsEnd == \A r \in Reqs : r \in live ~> (r \notin live \/ phase = "aborted")
DrainEnds == phase = "draining" ~> phase \in {"closed", "aborted"}

Spec == Safety /\ RequestsEnd /\ DrainEnds
=============================================================================
