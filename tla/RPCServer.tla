----------------------------- MODULE RPCServer -----------------------------
(***************************************************************************)
(* The server of gcbench/progs/rpc.go: benchMain accepts connections, each *)
(* served by a goroutine that answers one request after the other until    *)
(* the client closes its end.  When the benchmark time is over a timer's   *)
(* goroutine closes the client's stdin and waits for it to exit.           *)
(*                                                                         *)
(* A handler reads a request whole: its peer has at most one in transit,   *)
(* which OneOutstanding of module RPC states, so its JSON decoder never    *)
(* buffers the header of a following one.                                  *)
(***************************************************************************)
EXTENDS RPCLinks

VARIABLES
    timer,   \* program counter of the function given to time.AfterFunc
    held     \* the requests read and not yet answered on a connection

serverVars == <<timer, held>>

ServerTypeOK ==
    /\ timer \in {"armed", "closeStdin", "wait"}
    /\ held \in [Conns -> SUBSET Reqs]

ServerInit ==
    /\ timer = "armed"
    /\ held = [c \in Conns |-> {}]

-----------------------------------------------------------------------------
\* The end of the process: the kernel closes connections and pipe.
ServerExits(status) ==
    /\ sproc' = status
    /\ stdin' = "closed"
    /\ CloseServerEnds({c \in Conns : send[c] # "closed"})
    /\ UNCHANGED cproc

\* go handler(c).
Accept(c) ==
    /\ send[c] = "backlog"
    /\ send' = [send EXCEPT ![c] = "open"]
    /\ UNCHANGED <<procVars, cend, up, down, reset, serverVars>>

AcceptFails ==
    /\ ServerExits("refused")
    /\ UNCHANGED serverVars

-----------------------------------------------------------------------------
(* handler(c). *)

HandlerRead(c) ==
    /\ send[c] = "open"
    /\ held[c] = {}
    /\ ReadRequest(c)
    /\ held' = [held EXCEPT ![c] = {Head(up[c])}]
    /\ UNCHANGED <<procVars, timer>>

\* The errors of Encode and Flush are ignored.
HandlerRespond(c) ==
    \E r \in held[c] :
        /\ WriteResponse(c, r)
        /\ held' = [held EXCEPT ![c] = {}]
        /\ UNCHANGED <<procVars, timer>>

HandlerEOF(c) ==
    /\ held[c] = {}
    /\ ServerEOF(c)
    /\ CloseServerEnds({c})
    /\ UNCHANGED <<procVars, serverVars>>

\* "bad header" or "decoding request": log.Fatal ends the benchmark.
HandlerError(c) ==
    /\ held[c] = {}
    /\ ServerError(c)
    /\ ServerExits("failed")
    /\ UNCHANGED serverVars

Handler(c) ==
    HandlerRead(c) \/ HandlerRespond(c) \/ HandlerEOF(c) \/ HandlerError(c)

-----------------------------------------------------------------------------
(* The timer's goroutine. *)

\* The duration is over: report, while handlers go on.  FprintHist may panic
\* (module LatencyHist says when), which ends the process.
TimerFires ==
    /\ timer = "armed"
    /\ timer' = "closeStdin"
    /\ UNCHANGED <<procVars, netVars>> \/ ServerExits("panicked")
    /\ UNCHANGED held

\* Mutant of CloseStdin: cin.Close() is left out.
CloseStdinForgotten ==
    /\ timer = "closeStdin"
    /\ timer' = "wait"
    /\ UNCHANGED <<procVars, netVars, held>>

CloseStdin ==
    /\ timer = "closeStdin"
    /\ timer' = "wait"
    /\ stdin' = "closed"
    /\ UNCHANGED <<cproc, sproc, netVars, held>>

\* client.Wait() returns; close(done) lets benchMain return and exit, an
\* error from the client is fatal.
Reap ==
    /\ timer = "wait"
    /\ cproc # "running"
    /\ ServerExits(cproc)
    /\ UNCHANGED serverVars

Timer == TimerFires \/ CloseStdin \/ Reap

BenchMain ==
    /\ sproc = "running"
    /\ (\E c \in Conns : Accept(c) \/ Handler(c)) \/ AcceptFails \/ Timer
=============================================================================
