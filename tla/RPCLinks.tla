------------------------------ MODULE RPCLinks ------------------------------
(***************************************************************************)
(* What the two processes of gcbench/progs/rpc.go share: whether each of   *)
(* them still runs, the pipe to the client's standard input, and the TCP   *)
(* connections between them.  The connections belong to the kernel: what   *)
(* follows is the part of TCP that the program's error paths tell apart.   *)
(*                                                                         *)
(* A request is sent in one Write and is one message, named for the        *)
(* request it belongs to; so is the response.  An end that is closed with  *)
(* data unread, or before it was accepted, resets the connection; a write  *)
(* to a closed peer may.  The identity of a connection is reused once both *)
(* ends are closed and nothing refers to it.                               *)
(***************************************************************************)
EXTENDS Integers, Sequences

CONSTANTS
    Conns,   \* connections; bounds those open at once
    Reqs     \* goroutines in sendOneRequest; bounds those alive at once

VARIABLES
    cproc, sproc,   \* the state of the processes
    stdin,          \* the pipe to the client: "open" or "closed"
    cend, send,     \* the client's and the server's end of each connection
    up, down,       \* requests and responses in transit
    reset           \* connections on which the next read fails

procVars == <<cproc, sproc, stdin>>
netVars == <<cend, send, up, down, reset>>

\* A process exits with status 0 or fails; "refused" is a server that failed
\* because Accept did, "panicked" a process that did because a report of
\* latencies panicked, its own or for the server that of its client.
LinksTypeOK ==
    /\ cproc \in {"running", "exited", "failed", "panicked"}
    /\ sproc \in {"running", "exited", "failed", "refused", "panicked"}
    /\ stdin \in {"open", "closed"}
    /\ cend \in [Conns -> {"closed", "open"}]
    /\ send \in [Conns -> {"closed", "backlog", "open"}]
    /\ up \in [Conns -> Seq(Reqs)]
    /\ down \in [Conns -> Seq(Reqs)]
    /\ reset \in SUBSET Conns

\* benchMain after client.Start: both processes run, nothing is connected.
LinksInit ==
    /\ cproc = "running"
    /\ sproc = "running"
    /\ stdin = "open"
    /\ cend = [c \in Conns |-> "closed"]
    /\ send = [c \in Conns |-> "closed"]
    /\ up = [c \in Conns |-> <<>>]
    /\ down = [c \in Conns |-> <<>>]
    /\ reset = {}

-----------------------------------------------------------------------------
Free(c) == cend[c] = "closed" /\ send[c] = "closed"

\* net.Dial returns once the kernel has queued the connection for Accept.
Connect(c) ==
    /\ Free(c)
    /\ cend' = [cend EXCEPT ![c] = "open"]
    /\ send' = [send EXCEPT ![c] = "backlog"]
    /\ up' = [up EXCEPT ![c] = <<>>]
    /\ down' = [down EXCEPT ![c] = <<>>]
    /\ reset' = reset \ {c}

CloseClientEnds(S) ==
    /\ cend' = [c \in Conns |-> IF c \in S THEN "closed" ELSE cend[c]]
    /\ down' = [c \in Conns |-> IF c \in S THEN <<>> ELSE down[c]]
    /\ reset' = reset \cup {c \in S : down[c] # <<>>}
    /\ UNCHANGED <<send, up>>

CloseServerEnds(S) ==
    /\ send' = [c \in Conns |-> IF c \in S THEN "closed" ELSE send[c]]
    /\ up' = [c \in Conns |-> IF c \in S THEN <<>> ELSE up[c]]
    /\ reset' = reset \cup {c \in S : up[c] # <<>> \/ send[c] = "backlog"}
    /\ UNCHANGED <<cend, down>>

\* A write: the peer gets the message, or has closed and may reset.
WriteRequest(c, r) ==
    /\ IF send[c] = "closed"
       THEN reset' \in {reset, reset \cup {c}} /\ UNCHANGED up
       ELSE up' = [up EXCEPT ![c] = Append(@, r)] /\ UNCHANGED reset
    /\ UNCHANGED <<cend, send, down>>

WriteResponse(c, r) ==
    /\ IF cend[c] = "closed"
       THEN reset' \in {reset, reset \cup {c}} /\ UNCHANGED down
       ELSE down' = [down EXCEPT ![c] = Append(@, r)] /\ UNCHANGED reset
    /\ UNCHANGED <<cend, send, up>>

ReadRequest(c) ==
    /\ up[c] # <<>>
    /\ up' = [up EXCEPT ![c] = Tail(@)]
    /\ UNCHANGED <<cend, send, down, reset>>

ReadResponse(c) ==
    /\ down[c] # <<>>
    /\ down' = [down EXCEPT ![c] = Tail(@)]
    /\ UNCHANGED <<cend, send, up, reset>>

\* The other ways in which a read ends: io.EOF, or an error, which includes
\* the use of a connection that this process has closed itself.
ClientEOF(c) ==
    cend[c] = "open" /\ send[c] = "closed" /\ down[c] = <<>> /\ c \notin reset

ServerEOF(c) ==
    send[c] = "open" /\ cend[c] = "closed" /\ up[c] = <<>> /\ c \notin reset

ClientError(c) == cend[c] = "closed" \/ c \in reset

ServerError(c) == send[c] = "open" /\ c \in reset
=============================================================================
