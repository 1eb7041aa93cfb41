----------------------------- MODULE RPCClient -----------------------------
(***************************************************************************)
(* The client of gcbench/progs/rpc.go.  Shards send requests at random     *)
(* times, each request in a goroutine of its own, over connections kept in *)
(* a LIFO pool.  When its standard input closes the client stops the       *)
(* shards, waits for shards and requests, closes the pooled connections,   *)
(* reports latencies and exits.                                            *)
(*                                                                         *)
(* Each WaitGroup call, channel operation, critical section and network    *)
(* call is a step of its own.  Recording a latency is part of the read     *)
(* that ends it: LatencyDist models what the recorders do to each other.   *)
(***************************************************************************)
EXTENDS RPCLinks, WaitGroup, FiniteSets

CONSTANTS
    Shards,         \* 16 in the code
    NoConn          \* var c net.Conn

ASSUME ClientAssumption ==
    NoConn \notin Conns /\ IsFiniteSet(Shards) /\ IsFiniteSet(Reqs)

VARIABLES
    shard,      \* program counter of each shard
    req, conn,  \* program counter and c of each sendOneRequest
    pool,       \* conns.q
    wg,         \* the WaitGroup of doClient
    stop,       \* stop is closed
    prompt,     \* history: stop was not closed before all shards were added
    stdinPC,    \* program counter of the goroutine that watches stdin
    ranged,     \* what its range over conns.q sees: the backing array
    nclosed     \* and how many of its elements have been closed

clientVars == <<shard, req, conn, pool, wg, stop, prompt, stdinPC,
                ranged, nclosed>>

Pooled == {pool[i] : i \in 1..Len(pool)}
Ranged == {ranged[i] : i \in 1..Len(ranged)}

ClientTypeOK ==
    /\ shard \in [Shards -> {"unborn", "select", "send", "done", "ended"}]
    /\ req \in [Reqs -> {"idle", "take", "dial", "write", "read", "push", "done"}]
    /\ conn \in [Reqs -> Conns \cup {NoConn}]
    /\ pool \in Seq(Conns)
    /\ wg \in WaitGroups({"stdin"})
    /\ {stop, prompt} \subseteq BOOLEAN
    /\ stdinPC \in {"read", "wait", "parked", "range", "close", "report"}
    /\ ranged \in Seq(Conns)
    /\ nclosed \in 0..Len(ranged)

ClientInit ==
    /\ shard = [s \in Shards |-> "unborn"]
    /\ req = [r \in Reqs |-> "idle"]
    /\ conn = [r \in Reqs |-> NoConn]
    /\ pool = <<>>
    /\ wg = ZeroGroup
    /\ stop = FALSE
    /\ prompt = TRUE
    /\ stdinPC = "read"
    /\ ranged = <<>>
    /\ nclosed = 0

-----------------------------------------------------------------------------
\* os.Exit, log.Fatal or a panic: the kernel closes what is still open.
ClientExits(status) ==
    /\ cproc' = status
    /\ CloseClientEnds({c \in Conns : cend[c] = "open"})
    /\ UNCHANGED <<sproc, stdin>>

\* wg.Add(d); wg.Done() is Add(-1).
Add(d) ==
    IF AddPanics(wg, d)
    THEN ClientExits("failed") /\ UNCHANGED wg
    ELSE wg' = Added(wg, d) /\ UNCHANGED <<procVars, netVars>>

ShardGoes(s, from, to) == shard[s] = from /\ shard' = [shard EXCEPT ![s] = to]

Goes(r, from, to) == req[r] = from /\ req' = [req EXCEPT ![r] = to]

StdinGoes(from, to) == stdinPC = from /\ stdinPC' = to

stdinVars == <<stop, prompt, stdinPC, ranged, nclosed>>
requestVars == <<req, conn, pool>>

-----------------------------------------------------------------------------
(* The main goroutine and the shards. *)

AddShard(s) ==
    /\ ShardGoes(s, "unborn", "select")
    /\ Add(1)
    /\ UNCHANGED <<requestVars, stdinVars>>

\* The select may take either case when both are ready.
SelectStop(s) ==
    /\ stop
    /\ ShardGoes(s, "select", "done")
    /\ UNCHANGED <<procVars, netVars, requestVars, wg, stdinVars>>

SelectTimer(s) ==
    /\ ShardGoes(s, "select", "send")
    /\ UNCHANGED <<procVars, netVars, requestVars, wg, stdinVars>>

\* Mutant of StartRequest: the request is not added to wg.
StartUncounted(s, r) ==
    /\ ShardGoes(s, "send", "select")
    /\ Goes(r, "idle", "take")
    /\ UNCHANGED <<procVars, netVars, conn, pool, wg, stdinVars>>

StartRequest(s, r) ==
    /\ ShardGoes(s, "send", "select")
    /\ Goes(r, "idle", "take")
    /\ Add(1)
    /\ UNCHANGED <<conn, pool, stdinVars>>

ShardDone(s) ==
    /\ ShardGoes(s, "done", "ended")
    /\ Add(-1)
    /\ UNCHANGED <<requestVars, stdinVars>>

-----------------------------------------------------------------------------
(* sendOneRequest. *)

\* Mutant of Take: the connection is used but left in the pool.
TakeWithoutPop(r) ==
    /\ IF pool # <<>>
       THEN Goes(r, "take", "write") /\ conn' = [conn EXCEPT ![r] = pool[Len(pool)]]
       ELSE Goes(r, "take", "dial") /\ UNCHANGED conn
    /\ UNCHANGED <<procVars, netVars, shard, pool, wg, stdinVars>>

Take(r) ==
    /\ IF pool # <<>>
       THEN /\ Goes(r, "take", "write")
            /\ conn' = [conn EXCEPT ![r] = pool[Len(pool)]]
            /\ pool' = SubSeq(pool, 1, Len(pool) - 1)
       ELSE Goes(r, "take", "dial") /\ UNCHANGED <<conn, pool>>
    /\ UNCHANGED <<procVars, netVars, shard, wg, stdinVars>>

Dial(r) ==
    \E c \in Conns \ (Pooled \cup Ranged \cup {conn[q] : q \in Reqs}) :
        /\ sproc = "running"
        /\ Goes(r, "dial", "write")
        /\ Connect(c)
        /\ conn' = [conn EXCEPT ![r] = c]
        /\ UNCHANGED <<procVars, shard, pool, wg, stdinVars>>

\* The server may be overloaded, or gone.
DialFails(r) ==
    /\ Goes(r, "dial", "done")
    /\ UNCHANGED <<procVars, netVars, shard, conn, pool, wg, stdinVars>>

Write(r) ==
    /\ Goes(r, "write", "read")
    /\ IF ClientError(conn[r])
       THEN ClientExits("failed")
       ELSE WriteRequest(conn[r], r) /\ UNCHANGED procVars
    /\ UNCHANGED <<shard, conn, pool, wg, stdinVars>>

\* Mutant of Read: the first bytes are taken for the whole response.
ReadShort(r) ==
    /\ Goes(r, "read", "push")
    /\ UNCHANGED <<procVars, netVars, shard, conn, pool, wg, stdinVars>>

Read(r) ==
    /\ Goes(r, "read", "push")
    /\ ReadResponse(conn[r])
    /\ UNCHANGED <<procVars, shard, conn, pool, wg, stdinVars>>

\* Mutant of ReadEOF: the connection is dropped but not closed.
ReadEOFUnclosed(r) ==
    /\ Goes(r, "read", "done")
    /\ ClientEOF(conn[r])
    /\ UNCHANGED <<procVars, netVars, shard, conn, pool, wg, stdinVars>>

\* Mutant of ReadEOF: the loop goes on reading.
ReadEOFIgnored(r) ==
    /\ Goes(r, "read", "read")
    /\ ClientEOF(conn[r])
    /\ UNCHANGED <<procVars, netVars, shard, conn, pool, wg, stdinVars>>

ReadEOF(r) ==
    /\ Goes(r, "read", "done")
    /\ ClientEOF(conn[r])
    /\ CloseClientEnds({conn[r]})
    /\ UNCHANGED <<procVars, shard, conn, pool, wg, stdinVars>>

ReadError(r) ==
    /\ Goes(r, "read", "done")
    /\ ClientError(conn[r])
    /\ ClientExits("failed")
    /\ UNCHANGED <<shard, conn, pool, wg, stdinVars>>

\* An append within the capacity of the array that the stdin goroutine
\* ranges over, without the lock, replaces an element it has yet to read.
Push(r) ==
    /\ Goes(r, "push", "done")
    /\ pool' = Append(pool, conn[r])
    /\ \/ UNCHANGED ranged
       \/ /\ Len(pool) < Len(ranged)
          /\ ranged' = [ranged EXCEPT ![Len(pool) + 1] = conn[r]]
    /\ UNCHANGED <<procVars, netVars, shard, conn, wg, stop, prompt, stdinPC, nclosed>>

Done(r) ==
    /\ Goes(r, "done", "idle")
    /\ Add(-1)
    /\ conn' = [conn EXCEPT ![r] = NoConn]
    /\ UNCHANGED <<shard, pool, stdinVars>>

-----------------------------------------------------------------------------
(* The goroutine that watches stdin. *)

StdinEOF ==
    /\ stdin = "closed"
    /\ StdinGoes("read", "wait")
    /\ stop' = TRUE
    /\ prompt' = \A s \in Shards : shard[s] # "unborn"
    /\ UNCHANGED <<procVars, netVars, shard, requestVars, wg, ranged, nclosed>>

\* Mutant of WaitAll: wg.Wait is left out.
WaitSkipped ==
    /\ StdinGoes("wait", "range")
    /\ UNCHANGED <<procVars, netVars, shard, requestVars, wg, stop, prompt, ranged, nclosed>>

WaitAll ==
    /\ IF WaitParks(wg)
       THEN StdinGoes("wait", "parked") /\ wg' = Parked(wg, "stdin")
       ELSE StdinGoes("wait", "range") /\ UNCHANGED wg
    /\ UNCHANGED <<procVars, netVars, shard, requestVars, stop, prompt, ranged, nclosed>>

WakeAll ==
    /\ Released(wg, "stdin")
    /\ StdinGoes("parked", "range")
    /\ IF ReusePanics(wg) THEN ClientExits("failed") ELSE UNCHANGED <<procVars, netVars>>
    /\ UNCHANGED <<shard, requestVars, wg, stop, prompt, ranged, nclosed>>

RangeConns ==
    /\ StdinGoes("range", "close")
    /\ ranged' = pool
    /\ nclosed' = 0
    /\ UNCHANGED <<procVars, netVars, shard, requestVars, wg, stop, prompt>>

CloseNext ==
    /\ nclosed < Len(ranged)
    /\ StdinGoes("close", "close")
    /\ CloseClientEnds({ranged[nclosed + 1]})
    /\ nclosed' = nclosed + 1
    /\ UNCHANGED <<procVars, shard, requestVars, wg, stop, prompt, ranged>>

\* FprintHist may panic, as in the server.
Report ==
    /\ nclosed = Len(ranged)
    /\ StdinGoes("close", "report")
    /\ UNCHANGED <<procVars, netVars>> \/ ClientExits("panicked")
    /\ UNCHANGED <<shard, requestVars, wg, stop, prompt, ranged, nclosed>>

Exit ==
    /\ stdinPC = "report"
    /\ ClientExits("exited")
    /\ UNCHANGED clientVars

-----------------------------------------------------------------------------
SendOneRequest(r) ==
    Take(r) \/ Dial(r) \/ DialFails(r) \/ Write(r) \/ Read(r) \/ ReadEOF(r)
        \/ ReadError(r) \/ Push(r) \/ Done(r)

Shard(s) ==
    AddShard(s) \/ SelectStop(s) \/ SelectTimer(s) \/ ShardDone(s)
        \/ \E r \in Reqs : StartRequest(s, r)

WatchStdin ==
    StdinEOF \/ WaitAll \/ WakeAll \/ RangeConns \/ CloseNext \/ Report \/ Exit

DoClient ==
    /\ cproc = "running"
    /\ (\E s \in Shards : Shard(s)) \/ (\E r \in Reqs : SendOneRequest(r)) \/ WatchStdin
=============================================================================
