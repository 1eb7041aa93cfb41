-------------------------------- MODULE RPC --------------------------------
(***************************************************************************)
(* The RPC benchmark: the client and the server of gcbench/progs/rpc.go,   *)
(* from the start of the client to the exit of both processes.             *)
(***************************************************************************)
EXTENDS RPCClient, RPCServer

vars == <<procVars, netVars, clientVars, serverVars>>

TypeOK == LinksTypeOK /\ ClientTypeOK /\ ServerTypeOK

Init == LinksInit /\ ClientInit /\ ServerInit

Ended == cproc # "running" /\ sproc # "running" /\ UNCHANGED vars

Next ==
    \/ DoClient /\ UNCHANGED serverVars
    \/ BenchMain /\ UNCHANGED clientVars
    \/ Ended

Spec == Init /\ [][Next]_vars

-----------------------------------------------------------------------------
ByClient(A) == cproc = "running" /\ A /\ UNCHANGED serverVars
ByServer(A) == sproc = "running" /\ A /\ UNCHANGED clientVars

(***************************************************************************)
(* Goroutines are scheduled, the benchmark's timer fires, Accept returns.  *)
(* The shards' timers need not fire.  A select on a closed stop takes it   *)
(* eventually.  A failure is never owed.                                   *)
(***************************************************************************)
Fairness ==
    /\ \A s \in Shards :
        /\ WF_vars(ByClient(Shard(s) /\ ~SelectTimer(s)))
        /\ SF_vars(ByClient(SelectStop(s)))
    /\ \A r \in Reqs : WF_vars(ByClient(SendOneRequest(r)))
    /\ WF_vars(ByClient(WatchStdin))
    /\ \A c \in Conns : WF_vars(ByServer(Accept(c))) /\ WF_vars(ByServer(Handler(c)))
    /\ WF_vars(ByServer(Timer))

FairSpec == Spec /\ Fairness

-----------------------------------------------------------------------------
Outstanding(c) == Len(up[c]) + Len(down[c]) + (IF held[c] = {} THEN 0 ELSE 1)

Users(c) == {r \in Reqs : conn[r] = c /\ req[r] \in {"write", "read", "push"}}

(***************************************************************************)
(* A connection in the pool is there once, nobody uses it, and nothing is  *)
(* in transit on it: neither popping it under the lock nor the ways out of *)
(* sendOneRequest hand it to two requests, or back with an answer to come. *)
(***************************************************************************)
PoolIsIdle ==
    \A i \in 1..Len(pool) :
        /\ \A j \in 1..Len(pool) : pool[i] = pool[j] => i = j
        /\ Users(pool[i]) = {}
        /\ cproc = "running" /\ sproc = "running" => Outstanding(pool[i]) = 0

(***************************************************************************)
(* A connection carries at most one request or answer, that of its user    *)
(* waiting for it: answers never meet the wrong request, and the handler's *)
(* decoder never swallows the header of the next request.                  *)
(***************************************************************************)
OneOutstanding ==
    cproc = "running" => \A c \in Conns :
        /\ Outstanding(c) <= 1
        /\ \A r \in Reqs :
            (<<r>> \in {up[c], down[c]} \/ r \in held[c]) /\ cend[c] = "open"
                => conn[r] = c /\ req[r] = "read"

(***************************************************************************)
(* Once wg.Wait has returned no shard or request is left that could use a  *)
(* connection or record a latency while the report reads them: shards and  *)
(* requests are in the WaitGroup from before they start to their very last *)
(* step (rpc.go:197-208).                                                  *)
(***************************************************************************)
WaitedForAll ==
    prompt /\ stdinPC \in {"range", "close", "report"} =>
        /\ \A s \in Shards : shard[s] = "ended"
        /\ \A r \in Reqs : req[r] = "idle"

\* Every connection the client dialled has been closed before it reports:
\* none is lost on a way out of sendOneRequest or missed by the last loop.
NothingLeaked ==
    prompt /\ stdinPC = "report" => \A c \in Conns : cend[c] = "closed"

(***************************************************************************)
(* "Wait for stdin to close, then shut down cleanly" (rpc.go:186): unless  *)
(* Accept fails or a report panics, both processes end with status 0.  No  *)
(* handler is cut off by anything but the end of file it expects, no       *)
(* request meets a closed connection, and the WaitGroup does not panic.    *)
(***************************************************************************)
ShutsDownCleanly ==
    sproc \notin {"refused", "panicked"} => "failed" \notin {cproc, sproc}

\* The shutdown is clean if it begins after the client has started.
StartedEndsCleanly == prompt => ShutsDownCleanly

\* The benchmark's time comes to an end for the server: client.Wait returns.
BenchmarkEnds == timer = "wait" ~> sproc # "running"

\* The client does not outlive the server, whose end closes its stdin.
ClientFollows == sproc # "running" ~> cproc # "running"

Drain == INSTANCE RPCDrain WITH
    phase <- IF cproc = "failed" \/ ~prompt THEN "aborted"
             ELSE IF stdinPC = "read" THEN "serving"
             ELSE IF stdinPC \in {"wait", "parked"} THEN "draining"
             ELSE "closed",
    live <- {r \in Reqs : req[r] # "idle"}

\* The client's shutdown implements the drain, progress included.
ImplementsDrain == Drain!Spec
=============================================================================
