----------------------------- MODULE RPCProofs -----------------------------
(***************************************************************************)
(* Proofs about RPC for any finite number of shards and of requests alive  *)
(* at once, and any set of connections: its types, what the client's       *)
(* WaitGroup counts, and the drain it implements; then who owns a          *)
(* connection, what is in transit on it, and that a shutdown after the     *)
(* start closes all of them with no request or handler cut off.            *)
(***************************************************************************)
EXTENDS RPC, FiniteSetTheorems, SequenceTheorems, TLAPS

Using(r) == req[r] \in {"write", "read", "push"}

LiveShards == {s \in Shards : shard[s] \notin {"unborn", "ended"}}
LiveReqs == {r \in Reqs : req[r] # "idle"}

\* All shards have come and gone, and so have their requests.
Quiet == (\A s \in Shards : shard[s] = "ended") /\ (\A r \in Reqs : req[r] = "idle")

\* The WaitGroup counts the shards and requests that have begun and not ended.
Counted == wg.n = Cardinality(LiveShards) + Cardinality(LiveReqs)

\* Only a caller that the counter still holds up is parked.
Waits == wg.waiters # {} => stdinPC = "parked" /\ wg.n > 0

\* A request at a connection has one.
Connected == \A r \in Reqs : Using(r) => conn[r] \in Conns

\* A shutdown after the start gets past wg.Wait only when all is quiet.
Drained ==
    /\ stdinPC = "read" => prompt
    /\ prompt /\ stdinPC # "read" => \A s \in Shards : shard[s] # "unborn"
    /\ prompt /\ (stdinPC \in {"range", "close", "report"}
                    \/ (stdinPC = "parked" /\ wg.waiters = {})) => Quiet

DrainInv == TypeOK /\ Connected /\ Counted /\ Waits /\ Drained

-----------------------------------------------------------------------------
(* Type correctness. *)

USE DEF procVars, netVars, clientVars, serverVars, stdinVars, requestVars

\* What the operations of the links do to their types.
LEMMA CloseTypes ==
  ASSUME LinksTypeOK, NEW S \in SUBSET Conns
  PROVE  /\ CloseClientEnds(S) /\ UNCHANGED procVars => LinksTypeOK'
         /\ CloseServerEnds(S) /\ UNCHANGED procVars => LinksTypeOK'
         /\ \A x \in {"exited", "failed", "panicked"} :
              cproc' = x /\ CloseClientEnds(S) /\ UNCHANGED <<sproc, stdin>> => LinksTypeOK'
         /\ \A x \in {"exited", "failed", "refused", "panicked"} :
              sproc' = x /\ stdin' = "closed" /\ CloseServerEnds(S) /\ UNCHANGED cproc => LinksTypeOK'
  <1>1. ASSUME CloseClientEnds(S)
        PROVE  /\ cend' \in [Conns -> {"closed", "open"}] /\ down' \in [Conns -> Seq(Reqs)]
               /\ reset' \in SUBSET Conns /\ UNCHANGED <<send, up>>
    <2>1. cend' \in [Conns -> {"closed", "open"}]
      BY <1>1 DEF LinksTypeOK, CloseClientEnds
    <2>2. down' \in [Conns -> Seq(Reqs)]
      BY <1>1 DEF LinksTypeOK, CloseClientEnds
    <2> QED
      BY <1>1, <2>1, <2>2 DEF LinksTypeOK, CloseClientEnds
  <1>2. ASSUME CloseServerEnds(S)
        PROVE  /\ send' \in [Conns -> {"closed", "backlog", "open"}] /\ up' \in [Conns -> Seq(Reqs)]
               /\ reset' \in SUBSET Conns /\ UNCHANGED <<cend, down>>
    <2>1. send' \in [Conns -> {"closed", "backlog", "open"}]
      BY <1>2 DEF LinksTypeOK, CloseServerEnds
    <2>2. up' \in [Conns -> Seq(Reqs)]
      BY <1>2 DEF LinksTypeOK, CloseServerEnds
    <2> QED
      BY <1>2, <2>1, <2>2 DEF LinksTypeOK, CloseServerEnds
  <1> QED
    BY <1>1, <1>2 DEF LinksTypeOK

LEMMA ExitTypes ==
  ASSUME LinksTypeOK
  PROVE  /\ \A x \in {"exited", "failed", "panicked"} : ClientExits(x) => LinksTypeOK'
         /\ \A x \in {"exited", "failed", "refused", "panicked"} : ServerExits(x) => LinksTypeOK'
  <1>1. {c \in Conns : cend[c] = "open"} \in SUBSET Conns
    OBVIOUS
  <1>2. {c \in Conns : send[c] # "closed"} \in SUBSET Conns
    OBVIOUS
  <1> QED
    BY <1>1, <1>2, CloseTypes DEF ClientExits, ServerExits

LEMMA MessageTypes ==
  ASSUME LinksTypeOK, UNCHANGED procVars, NEW c \in Conns, NEW r \in Reqs
  PROVE  /\ Connect(c) => LinksTypeOK'
         /\ WriteRequest(c, r) => LinksTypeOK'
         /\ WriteResponse(c, r) => LinksTypeOK'
         /\ ReadRequest(c) => LinksTypeOK' /\ Head(up[c]) \in Reqs
         /\ ReadResponse(c) => LinksTypeOK'
  <1>1. Connect(c) => LinksTypeOK'
    BY DEF LinksTypeOK, Connect
  <1>2. WriteRequest(c, r) => LinksTypeOK'
    <2>1. CASE send[c] = "closed"
      BY <2>1 DEF LinksTypeOK, WriteRequest
    <2>2. CASE send[c] # "closed"
      <3>1. Append(up[c], r) \in Seq(Reqs)
        BY DEF LinksTypeOK
      <3> QED
        BY <2>2, <3>1 DEF LinksTypeOK, WriteRequest
    <2> QED
      BY <2>1, <2>2
  <1>3. WriteResponse(c, r) => LinksTypeOK'
    <2>1. CASE cend[c] = "closed"
      BY <2>1 DEF LinksTypeOK, WriteResponse
    <2>2. CASE cend[c] # "closed"
      <3>1. Append(down[c], r) \in Seq(Reqs)
        BY DEF LinksTypeOK
      <3> QED
        BY <2>2, <3>1 DEF LinksTypeOK, WriteResponse
    <2> QED
      BY <2>1, <2>2
  <1>4. ReadRequest(c) => LinksTypeOK' /\ Head(up[c]) \in Reqs
    BY DEF LinksTypeOK, ReadRequest
  <1>5. ReadResponse(c) => LinksTypeOK'
    BY DEF LinksTypeOK, ReadResponse
  <1> QED
    BY <1>1, <1>2, <1>3, <1>4, <1>5

LEMMA AddTypes ==
  ASSUME LinksTypeOK, wg \in WaitGroups({"stdin"}), NEW d \in Int, Add(d)
  PROVE  LinksTypeOK' /\ wg' \in WaitGroups({"stdin"})
  <1>1. CASE AddPanics(wg, d)
    BY <1>1, ExitTypes DEF Add
  <1>2. CASE ~AddPanics(wg, d)
    BY <1>2 DEF Add, AddPanics, Added, WaitGroups, LinksTypeOK
  <1> QED
    BY <1>1, <1>2

\* A shard's step, and a request's.
LEMMA ShardType ==
  ASSUME LinksTypeOK, ClientTypeOK, NEW s \in Shards, Shard(s)
  PROVE  LinksTypeOK' /\ ClientTypeOK'
  <1>0. wg \in WaitGroups({"stdin"})
    BY DEF ClientTypeOK
  <1>1. CASE AddShard(s)
    <2>1. LinksTypeOK' /\ wg' \in WaitGroups({"stdin"})
      BY <1>0, <1>1, AddTypes DEF AddShard
    <2> QED
      BY <1>1, <2>1 DEF ClientTypeOK, AddShard, ShardGoes
  <1>2. CASE SelectStop(s) \/ SelectTimer(s)
    BY <1>2, ZenonT(30) DEF ClientTypeOK, LinksTypeOK, SelectStop, SelectTimer, ShardGoes
  <1>3. CASE ShardDone(s)
    <2>1. LinksTypeOK' /\ wg' \in WaitGroups({"stdin"})
      BY <1>0, <1>3, AddTypes DEF ShardDone
    <2> QED
      BY <1>3, <2>1 DEF ClientTypeOK, ShardDone, ShardGoes
  <1>4. ASSUME NEW r \in Reqs, StartRequest(s, r) PROVE LinksTypeOK' /\ ClientTypeOK'
    <2>1. LinksTypeOK' /\ wg' \in WaitGroups({"stdin"})
      BY <1>0, <1>4, AddTypes DEF StartRequest
    <2> QED
      BY <1>4, <2>1 DEF ClientTypeOK, StartRequest, ShardGoes, Goes
  <1> QED
    BY <1>1, <1>2, <1>3, <1>4 DEF Shard

LEMMA RequestType ==
  ASSUME LinksTypeOK, ClientTypeOK, Connected, NEW r \in Reqs, SendOneRequest(r)
  PROVE  LinksTypeOK' /\ ClientTypeOK'
  <1>0. Using(r) => conn[r] \in Conns /\ {conn[r]} \in SUBSET Conns
    BY DEF Connected
  <1>1. CASE Take(r)
    <2>1. LinksTypeOK'
      BY <1>1 DEF Take, LinksTypeOK
    <2>2. CASE pool = <<>>
      BY <1>1, <2>1, <2>2 DEF Take, ClientTypeOK, Goes
    <2>3. CASE pool # <<>>
      <3>1. pool[Len(pool)] \in Conns /\ SubSeq(pool, 1, Len(pool) - 1) \in Seq(Conns)
        BY <2>3 DEF ClientTypeOK
      <3> QED
        BY <1>1, <2>1, <2>3, <3>1 DEF Take, ClientTypeOK, Goes
    <2> QED
      BY <2>2, <2>3
  <1>2. CASE Dial(r)
    <2>1. PICK c \in Conns : Connect(c) /\ conn' = [conn EXCEPT ![r] = c]
      BY <1>2 DEF Dial
    <2>2. LinksTypeOK'
      BY <1>2, <2>1, MessageTypes DEF Dial
    <2> QED
      BY <1>2, <2>1, <2>2 DEF Dial, ClientTypeOK, Goes
  <1>3. CASE DialFails(r)
    BY <1>3 DEF DialFails, LinksTypeOK, ClientTypeOK, Goes
  <1>4. CASE Write(r)
    <2>1. LinksTypeOK'
      BY <1>0, <1>4, ExitTypes, MessageTypes DEF Write, Goes, Using
    <2> QED
      BY <1>4, <2>1 DEF Write, ClientTypeOK, Goes
  <1>5. CASE Read(r)
    <2>1. LinksTypeOK'
      BY <1>0, <1>5, MessageTypes DEF Read, Goes, Using
    <2> QED
      BY <1>5, <2>1 DEF Read, ClientTypeOK, Goes
  <1>6. CASE ReadEOF(r)
    <2>1. LinksTypeOK'
      BY <1>0, <1>6, CloseTypes DEF ReadEOF, Goes, Using
    <2> QED
      BY <1>6, <2>1 DEF ReadEOF, ClientTypeOK, Goes
  <1>7. CASE ReadError(r)
    <2>1. LinksTypeOK'
      BY <1>7, ExitTypes DEF ReadError
    <2> QED
      BY <1>7, <2>1 DEF ReadError, ClientTypeOK, Goes
  <1>8. CASE Push(r)
    <2>1. LinksTypeOK'
      BY <1>8 DEF Push, LinksTypeOK
    <2>2. pool' \in Seq(Conns) /\ ranged' \in Seq(Conns) /\ Len(ranged') = Len(ranged)
      BY <1>0, <1>8, SMTT(20) DEF Push, ClientTypeOK, Goes, Using
    <2> QED
      BY <1>8, <2>1, <2>2 DEF Push, ClientTypeOK, Goes
  <1>9. CASE Done(r)
    <2>1. LinksTypeOK' /\ wg' \in WaitGroups({"stdin"})
      BY <1>9, AddTypes DEF Done, ClientTypeOK
    <2> QED
      BY <1>9, <2>1 DEF Done, ClientTypeOK, Goes
  <1> QED
    BY <1>1, <1>2, <1>3, <1>4, <1>5, <1>6, <1>7, <1>8, <1>9 DEF SendOneRequest

LEMMA StdinType ==
  ASSUME LinksTypeOK, ClientTypeOK, WatchStdin
  PROVE  LinksTypeOK' /\ ClientTypeOK'
  <1>1. CASE StdinEOF
    <2>1. {stop', prompt'} \subseteq BOOLEAN
      <3>1. stop' \in BOOLEAN /\ prompt' \in BOOLEAN
        BY <1>1, Zenon DEF StdinEOF
      <3> QED
        BY <3>1
    <2> QED
      BY <1>1, <2>1 DEF StdinEOF, StdinGoes, LinksTypeOK, ClientTypeOK
  <1>2. CASE WaitAll
    <2>1. wg' \in WaitGroups({"stdin"})
      BY <1>2 DEF WaitAll, ClientTypeOK, Parked, WaitGroups
    <2> QED
      BY <1>2, <2>1 DEF WaitAll, StdinGoes, LinksTypeOK, ClientTypeOK
  <1>3. CASE WakeAll
    <2>1. LinksTypeOK'
      BY <1>3, ExitTypes DEF WakeAll, LinksTypeOK
    <2> QED
      BY <1>3, <2>1 DEF WakeAll, StdinGoes, ClientTypeOK
  <1>4. CASE RangeConns
    BY <1>4 DEF RangeConns, StdinGoes, LinksTypeOK, ClientTypeOK
  <1>5. CASE CloseNext
    <2>1. {ranged[nclosed + 1]} \in SUBSET Conns /\ nclosed + 1 \in 0..Len(ranged)
      BY <1>5 DEF CloseNext, ClientTypeOK
    <2>2. LinksTypeOK'
      BY <1>5, <2>1, CloseTypes DEF CloseNext
    <2> QED
      BY <1>5, <2>1, <2>2 DEF CloseNext, StdinGoes, ClientTypeOK
  <1>6. CASE Report
    <2>1. LinksTypeOK'
      <3>1. CASE UNCHANGED <<procVars, netVars>>
        BY <3>1 DEF LinksTypeOK
      <3>2. CASE ClientExits("panicked")
        BY <3>2, ExitTypes
      <3> QED
        BY <1>6, <3>1, <3>2 DEF Report
    <2> QED
      BY <1>6, <2>1 DEF Report, StdinGoes, ClientTypeOK
  <1>7. CASE Exit
    <2>1. LinksTypeOK'
      BY <1>7, ExitTypes DEF Exit
    <2> QED
      BY <1>7, <2>1 DEF Exit, ClientTypeOK
  <1> QED
    BY <1>1, <1>2, <1>3, <1>4, <1>5, <1>6, <1>7 DEF WatchStdin

LEMMA ServerType ==
  ASSUME LinksTypeOK, ServerTypeOK, BenchMain, cproc \in {"exited", "failed", "panicked", "running"}
  PROVE  LinksTypeOK' /\ ServerTypeOK'
  <1>1. ASSUME NEW c \in Conns, Accept(c) PROVE LinksTypeOK' /\ ServerTypeOK'
    BY <1>1 DEF Accept, LinksTypeOK, ServerTypeOK
  <1>2. ASSUME NEW c \in Conns, HandlerRead(c) PROVE LinksTypeOK' /\ ServerTypeOK'
    <2>1. \E r \in Reqs : r = Head(up[c])
      BY <1>2 DEF HandlerRead, ReadRequest, LinksTypeOK
    <2>2. LinksTypeOK' /\ Head(up[c]) \in Reqs
      BY <1>2, <2>1, MessageTypes DEF HandlerRead
    <2> QED
      BY <1>2, <2>2 DEF HandlerRead, ServerTypeOK
  <1>3. ASSUME NEW c \in Conns, HandlerRespond(c) PROVE LinksTypeOK' /\ ServerTypeOK'
    <2>1. PICK r \in held[c] : WriteResponse(c, r)
      BY <1>3 DEF HandlerRespond
    <2>2. r \in Reqs
      BY <2>1 DEF ServerTypeOK
    <2>3. LinksTypeOK'
      BY <1>3, <2>1, <2>2, MessageTypes DEF HandlerRespond
    <2> QED
      BY <1>3, <2>3 DEF HandlerRespond, ServerTypeOK
  <1>4. ASSUME NEW c \in Conns, HandlerEOF(c) PROVE LinksTypeOK' /\ ServerTypeOK'
    BY <1>4, CloseTypes DEF HandlerEOF, ServerTypeOK
  <1>5. ASSUME NEW c \in Conns, HandlerError(c) PROVE LinksTypeOK' /\ ServerTypeOK'
    BY <1>5, ExitTypes DEF HandlerError, ServerTypeOK
  <1>6. CASE AcceptFails
    BY <1>6, ExitTypes DEF AcceptFails, ServerTypeOK
  <1>7. CASE TimerFires \/ CloseStdin
    <2>1. CASE TimerFires /\ ServerExits("panicked")
      BY <2>1, ExitTypes DEF TimerFires, ServerTypeOK
    <2>2. CASE CloseStdin \/ (TimerFires /\ UNCHANGED <<procVars, netVars>>)
      BY <2>2 DEF TimerFires, CloseStdin, LinksTypeOK, ServerTypeOK
    <2> QED
      BY <1>7, <2>1, <2>2 DEF TimerFires
  <1>8. CASE Reap
    BY <1>8, ExitTypes DEF Reap, ServerTypeOK
  <1> QED
    BY <1>1, <1>2, <1>3, <1>4, <1>5, <1>6, <1>7, <1>8 DEF BenchMain, Handler, Timer

\* The server leaves the client's variables alone, the kernel's aside.
LEMMA ClientStep ==
  ASSUME Next, ~UNCHANGED vars
  PROVE  \/ BenchMain /\ UNCHANGED clientVars
         \/ /\ cproc = "running" /\ UNCHANGED serverVars
            /\ \/ \E s \in Shards : Shard(s)
               \/ \E r \in Reqs : SendOneRequest(r)
               \/ WatchStdin
  BY DEF Next, DoClient, Ended, vars

LEMMA ConnectedStep ==
  ASSUME TypeOK, Connected, [Next]_vars
  PROVE  Connected'
  <1> USE DEF Connected, Using, TypeOK, ClientTypeOK
  <1>1. CASE UNCHANGED clientVars
    BY <1>1
  <1>2. ASSUME NEW s \in Shards, Shard(s) PROVE Connected'
    <2>1. UNCHANGED conn /\ \A r \in Reqs : req'[r] = req[r] \/ req'[r] = "take"
      BY <1>2 DEF Shard, AddShard, SelectStop, SelectTimer, ShardDone, StartRequest, Goes
    <2> QED
      BY <2>1
  <1>3. ASSUME NEW r \in Reqs, SendOneRequest(r) PROVE Connected'
    <2>1. CASE Take(r)
      <3>1. pool # <<>> => pool[Len(pool)] \in Conns
        OBVIOUS
      <3> QED
        BY <2>1, <3>1 DEF Take, Goes
    <2>2. CASE Dial(r)
      BY <2>2 DEF Dial, Goes
    <2>3. CASE ~Take(r) /\ ~Dial(r)
      BY <1>3, <2>3 DEF SendOneRequest, DialFails, Write, Read, ReadEOF, ReadError, Push, Done, Goes
    <2> QED
      BY <2>1, <2>2, <2>3
  <1>4. CASE WatchStdin
    BY <1>4 DEF WatchStdin, StdinEOF, WaitAll, WakeAll, RangeConns, CloseNext, Report, Exit
  <1> QED
    BY <1>1, <1>2, <1>3, <1>4, ClientStep DEF vars

\* Types, with what they need: a request at a connection has one.
LEMMA TypeInvariant == Spec => [](TypeOK /\ Connected)
  <1>1. Init => TypeOK /\ Connected
    <2> SUFFICES ASSUME Init PROVE TypeOK /\ Connected
      OBVIOUS
    <2>1. LinksTypeOK
      BY DEF Init, LinksInit, LinksTypeOK
    <2>2. ClientTypeOK /\ Connected
      <3>1. {stop, prompt} \subseteq BOOLEAN
        BY Zenon DEF Init, ClientInit
      <3>2. pool \in Seq(Conns) /\ ranged \in Seq(Conns) /\ nclosed \in 0..Len(ranged)
        BY DEF Init, ClientInit
      <3>3. wg \in WaitGroups({"stdin"})
        BY DEF Init, ClientInit, ZeroGroup, WaitGroups
      <3> QED
        BY <3>1, <3>2, <3>3 DEF Init, ClientInit, ClientTypeOK, Connected, Using
    <2>3. ServerTypeOK
      BY DEF Init, ServerInit, ServerTypeOK
    <2> QED
      BY <2>1, <2>2, <2>3 DEF TypeOK
  <1>2. TypeOK /\ Connected /\ [Next]_vars => TypeOK' /\ Connected'
    <2> SUFFICES ASSUME TypeOK, Connected, [Next]_vars PROVE TypeOK'
      BY ConnectedStep
    <2> USE DEF TypeOK
    <2>1. CASE UNCHANGED vars
      BY <2>1 DEF vars, LinksTypeOK, ClientTypeOK, ServerTypeOK
    <2>2. CASE BenchMain /\ UNCHANGED clientVars
      <3>1. LinksTypeOK' /\ ServerTypeOK'
        BY <2>2, ServerType DEF LinksTypeOK
      <3> QED
        BY <2>2, <3>1 DEF ClientTypeOK
    <2>3. ASSUME UNCHANGED serverVars, NEW s \in Shards, Shard(s) PROVE TypeOK'
      BY <2>3, ShardType DEF ServerTypeOK
    <2>4. ASSUME UNCHANGED serverVars, NEW r \in Reqs, SendOneRequest(r) PROVE TypeOK'
      BY <2>4, RequestType DEF ServerTypeOK
    <2>5. CASE UNCHANGED serverVars /\ WatchStdin
      BY <2>5, StdinType DEF ServerTypeOK
    <2> QED
      BY <2>1, <2>2, <2>3, <2>4, <2>5, ClientStep
  <1> QED
    BY <1>1, <1>2, PTL DEF Spec

(***************************************************************************)
(* Type correctness of both processes and the links between them: counters *)
(* and sequences of rpc.go keep their types whatever fails or exits when.  *)
(***************************************************************************)
THEOREM TypeCorrect == Spec => []TypeOK
  BY TypeInvariant, PTL

-----------------------------------------------------------------------------
(* What the WaitGroup counts. *)

LEMMA LiveSets ==
  /\ IsFiniteSet(LiveShards) /\ Cardinality(LiveShards) \in Nat
  /\ IsFiniteSet(LiveReqs) /\ Cardinality(LiveReqs) \in Nat
  <1>1. LiveShards \in SUBSET Shards /\ LiveReqs \in SUBSET Reqs
    BY DEF LiveShards, LiveReqs
  <1> QED
    BY <1>1, ClientAssumption, FS_Subset, FS_CardinalityType

\* One shard more, or less, and the same for requests.
LEMMA ShardBorn ==
  ASSUME TypeOK, NEW s \in Shards, ShardGoes(s, "unborn", "select")
  PROVE  Cardinality(LiveShards') = Cardinality(LiveShards) + 1
  <1>1. LiveShards' = LiveShards \cup {s} /\ s \notin LiveShards
    BY DEF LiveShards, TypeOK, ClientTypeOK, ShardGoes
  <1> QED
    BY <1>1, LiveSets, FS_AddElement

LEMMA ShardEnds ==
  ASSUME TypeOK, NEW s \in Shards, ShardGoes(s, "done", "ended")
  PROVE  Cardinality(LiveShards') = Cardinality(LiveShards) - 1 /\ Cardinality(LiveShards) > 0
  <1>1. LiveShards' = LiveShards \ {s} /\ s \in LiveShards
    BY DEF LiveShards, TypeOK, ClientTypeOK, ShardGoes
  <1>2. IsFiniteSet(LiveShards') /\ Cardinality(LiveShards') \in Nat
    BY <1>1, LiveSets, FS_RemoveElement, FS_CardinalityType
  <1> QED
    BY <1>1, <1>2, LiveSets, FS_RemoveElement

LEMMA RequestBegins ==
  ASSUME TypeOK, NEW r \in Reqs, Goes(r, "idle", "take")
  PROVE  Cardinality(LiveReqs') = Cardinality(LiveReqs) + 1
  <1>1. LiveReqs' = LiveReqs \cup {r} /\ r \notin LiveReqs
    BY DEF LiveReqs, TypeOK, ClientTypeOK, Goes
  <1> QED
    BY <1>1, LiveSets, FS_AddElement

LEMMA RequestEnds ==
  ASSUME TypeOK, NEW r \in Reqs, Goes(r, "done", "idle")
  PROVE  Cardinality(LiveReqs') = Cardinality(LiveReqs) - 1 /\ Cardinality(LiveReqs) > 0
  <1>1. LiveReqs' = LiveReqs \ {r} /\ r \in LiveReqs
    BY DEF LiveReqs, TypeOK, ClientTypeOK, Goes
  <1>2. IsFiniteSet(LiveReqs') /\ Cardinality(LiveReqs') \in Nat
    BY <1>1, LiveSets, FS_RemoveElement, FS_CardinalityType
  <1> QED
    BY <1>1, <1>2, LiveSets, FS_RemoveElement

\* A counter at zero means that nothing is left, once all shards were added.
LEMMA ZeroIsQuiet ==
  ASSUME TypeOK, Counted, wg.n = 0, \A s \in Shards : shard[s] # "unborn"
  PROVE  Quiet
  <1>1. LiveShards = {} /\ LiveReqs = {}
    BY LiveSets, FS_EmptySet DEF Counted
  <1> QED
    BY <1>1 DEF Quiet, LiveShards, LiveReqs

LEMMA ZeroPrimed ==
  ASSUME TypeOK', Counted', wg'.n = 0, \A s \in Shards : shard'[s] # "unborn"
  PROVE  Quiet'
  <1>1. LiveShards' \in SUBSET Shards /\ LiveReqs' \in SUBSET Reqs
    BY DEF LiveShards, LiveReqs
  <1>2. /\ IsFiniteSet(LiveShards') /\ Cardinality(LiveShards') \in Nat
        /\ IsFiniteSet(LiveReqs') /\ Cardinality(LiveReqs') \in Nat
    BY <1>1, ClientAssumption, FS_Subset, FS_CardinalityType
  <1>3. LiveShards' = {} /\ LiveReqs' = {}
    BY <1>2, FS_EmptySet DEF Counted
  <1> QED
    BY <1>3 DEF Quiet, LiveShards, LiveReqs

\* wg.Add never panics: a counter at zero has nobody parked.
LEMMA RaiseReturns ==
  ASSUME TypeOK, Waits, Add(1)
  PROVE  wg' = [n |-> wg.n + 1, waiters |-> wg.waiters] /\ UNCHANGED <<procVars, netVars>>
  <1>1. ~AddPanics(wg, 1)
    BY DEF TypeOK, ClientTypeOK, WaitGroups, AddPanics, Waits
  <1> QED
    BY <1>1 DEF Add, Added, TypeOK, ClientTypeOK, WaitGroups

\* Nor does wg.Done, called by one that is counted.
LEMMA LowerReturns ==
  ASSUME TypeOK, wg.n > 0, Add(-1)
  PROVE  /\ wg' = [n |-> wg.n - 1, waiters |-> IF wg.n = 1 THEN {} ELSE wg.waiters]
         /\ UNCHANGED <<procVars, netVars>>
  <1>1. ~AddPanics(wg, -1)
    BY DEF TypeOK, ClientTypeOK, WaitGroups, AddPanics
  <1> QED
    BY <1>1 DEF Add, Added, TypeOK, ClientTypeOK, WaitGroups

(***************************************************************************)
(* What a step of a shard or a request does to the count: it is kept, the  *)
(* group may reach zero, and in a quiet client there is no such step.      *)
(***************************************************************************)
Keeps ==
    /\ Counted' /\ Waits' /\ ~Quiet
    /\ wg'.waiters = wg.waiters \/ (wg'.n = 0 /\ wg'.waiters = {})
    /\ \A s \in Shards : shard'[s] = "unborn" => shard[s] = "unborn"

LEMMA ShardKeeps ==
  ASSUME DrainInv, NEW s \in Shards, Shard(s)
  PROVE  Keeps /\ UNCHANGED <<procVars, netVars, stdinVars, conn, pool>>
  <1> USE DEF DrainInv
  <1>0. ~Quiet
    BY DEF Shard, AddShard, SelectStop, SelectTimer, ShardDone, StartRequest, ShardGoes, Quiet
  <1>1. CASE AddShard(s)
    <2>1. Cardinality(LiveShards') = Cardinality(LiveShards) + 1 /\ LiveReqs' = LiveReqs
      BY <1>1, ShardBorn DEF AddShard, LiveReqs
    <2>2. wg' = [n |-> wg.n + 1, waiters |-> wg.waiters] /\ UNCHANGED <<procVars, netVars>>
      BY <1>1, RaiseReturns DEF AddShard
    <2>3. \A t \in Shards : shard'[t] = "unborn" => shard[t] = "unborn"
      BY <1>1 DEF AddShard, ShardGoes, TypeOK, ClientTypeOK
    <2> QED
      BY <1>0, <1>1, <2>1, <2>2, <2>3, LiveSets
         DEF AddShard, Keeps, Counted, Waits, TypeOK, ClientTypeOK, WaitGroups
  <1>2. CASE SelectStop(s) \/ SelectTimer(s)
    <2>1. LiveShards' = LiveShards /\ LiveReqs' = LiveReqs
      BY <1>2 DEF SelectStop, SelectTimer, ShardGoes, LiveShards, LiveReqs, TypeOK, ClientTypeOK
    <2>2. \A t \in Shards : shard'[t] = "unborn" => shard[t] = "unborn"
      BY <1>2 DEF SelectStop, SelectTimer, ShardGoes, TypeOK, ClientTypeOK
    <2> QED
      BY <1>0, <1>2, <2>1, <2>2 DEF SelectStop, SelectTimer, Keeps, Counted, Waits
  <1>3. CASE ShardDone(s)
    <2>1. /\ Cardinality(LiveShards') = Cardinality(LiveShards) - 1
          /\ Cardinality(LiveShards) > 0 /\ LiveReqs' = LiveReqs
      BY <1>3, ShardEnds DEF ShardDone, LiveReqs
    <2>2. wg.n > 0
      BY <2>1, LiveSets DEF Counted
    <2>3. /\ wg' = [n |-> wg.n - 1, waiters |-> IF wg.n = 1 THEN {} ELSE wg.waiters]
          /\ UNCHANGED <<procVars, netVars>>
      BY <1>3, <2>2, LowerReturns DEF ShardDone
    <2>4. \A t \in Shards : shard'[t] = "unborn" => shard[t] = "unborn"
      BY <1>3 DEF ShardDone, ShardGoes, TypeOK, ClientTypeOK
    <2> QED
      BY <1>0, <1>3, <2>1, <2>2, <2>3, <2>4, LiveSets
         DEF ShardDone, Keeps, Counted, Waits, TypeOK, ClientTypeOK, WaitGroups
  <1>4. ASSUME NEW r \in Reqs, StartRequest(s, r)
        PROVE  Keeps /\ UNCHANGED <<procVars, netVars, stdinVars, conn, pool>>
    <2>1. Cardinality(LiveReqs') = Cardinality(LiveReqs) + 1 /\ LiveShards' = LiveShards
      BY <1>4, RequestBegins DEF StartRequest, ShardGoes, LiveShards, TypeOK, ClientTypeOK
    <2>2. wg' = [n |-> wg.n + 1, waiters |-> wg.waiters] /\ UNCHANGED <<procVars, netVars>>
      BY <1>4, RaiseReturns DEF StartRequest
    <2>3. \A t \in Shards : shard'[t] = "unborn" => shard[t] = "unborn"
      BY <1>4 DEF StartRequest, ShardGoes, TypeOK, ClientTypeOK
    <2> QED
      BY <1>0, <1>4, <2>1, <2>2, <2>3, LiveSets
         DEF StartRequest, Keeps, Counted, Waits, TypeOK, ClientTypeOK, WaitGroups
  <1> QED
    BY <1>1, <1>2, <1>3, <1>4 DEF Shard

LEMMA RequestKeeps ==
  ASSUME DrainInv, NEW r \in Reqs, SendOneRequest(r)
  PROVE  Keeps /\ UNCHANGED <<shard, stop, prompt, stdinPC>>
  <1> USE DEF DrainInv
  <1>0. ~Quiet /\ UNCHANGED <<shard, stop, prompt, stdinPC>>
    BY DEF SendOneRequest, Take, Dial, DialFails, Write, Read, ReadEOF, ReadError, Push, Done,
           Goes, Quiet
  <1>1. LiveShards' = LiveShards
    BY <1>0 DEF LiveShards
  <1>2. CASE Done(r)
    <2>1. Cardinality(LiveReqs') = Cardinality(LiveReqs) - 1 /\ Cardinality(LiveReqs) > 0
      BY <1>2, RequestEnds DEF Done
    <2>2. wg.n > 0
      BY <2>1, LiveSets DEF Counted
    <2>3. /\ wg' = [n |-> wg.n - 1, waiters |-> IF wg.n = 1 THEN {} ELSE wg.waiters]
          /\ UNCHANGED <<procVars, netVars>>
      BY <1>2, <2>2, LowerReturns DEF Done
    <2> QED
      BY <1>0, <1>1, <2>1, <2>2, <2>3, LiveSets
         DEF Keeps, Counted, Waits, TypeOK, ClientTypeOK, WaitGroups
  <1>3. CASE ~Done(r)
    <2>1. LiveReqs' = LiveReqs /\ UNCHANGED wg
      BY <1>3 DEF SendOneRequest, Take, Dial, DialFails, Write, Read, ReadEOF, ReadError, Push,
                  Goes, LiveReqs, TypeOK, ClientTypeOK
    <2> QED
      BY <1>0, <1>1, <2>1 DEF Keeps, Counted, Waits
  <1> QED
    BY <1>2, <1>3

LEMMA WatchKeeps ==
  ASSUME DrainInv, WatchStdin
  PROVE  Counted' /\ Waits' /\ Drained' /\ UNCHANGED <<shard, req, conn, pool>>
  <1> USE DEF DrainInv, TypeOK, ClientTypeOK, StdinGoes
  <1>1. UNCHANGED <<shard, req, conn, pool>>
    BY DEF WatchStdin, StdinEOF, WaitAll, WakeAll, RangeConns, CloseNext, Report, Exit
  <1>2. LiveShards' = LiveShards /\ LiveReqs' = LiveReqs /\ (Quiet' <=> Quiet)
    BY <1>1 DEF LiveShards, LiveReqs, Quiet
  <1>3. CASE StdinEOF
    BY <1>1, <1>2, <1>3 DEF StdinEOF, Counted, Waits, Drained
  <1>4. CASE WaitAll
    <2>1. CASE WaitParks(wg)
      <3>1. /\ wg'.n = wg.n /\ wg.n > 0 /\ wg'.waiters = wg.waiters \cup {"stdin"}
            /\ stdinPC = "wait" /\ stdinPC' = "parked" /\ UNCHANGED prompt
        BY <1>4, <2>1 DEF WaitAll, WaitParks, Parked, WaitGroups
      <3> QED
        BY <1>1, <1>2, <3>1 DEF Counted, Waits, Drained
    <2>2. CASE ~WaitParks(wg)
      <3>1. prompt => Quiet
        BY <1>4, <2>2, ZeroIsQuiet DEF WaitAll, WaitParks, Drained
      <3> QED
        BY <1>1, <1>2, <1>4, <2>2, <3>1 DEF WaitAll, Counted, Waits, Drained
    <2> QED
      BY <2>1, <2>2
  <1>5. CASE WakeAll
    <2>1. wg.waiters = {}
      BY <1>5 DEF WakeAll, Released, WaitGroups
    <2> QED
      BY <1>1, <1>2, <1>5, <2>1 DEF WakeAll, Counted, Waits, Drained
  <1>6. CASE RangeConns \/ CloseNext \/ Report \/ Exit
    BY <1>1, <1>2, <1>6 DEF RangeConns, CloseNext, Report, Exit, Counted, Waits, Drained
  <1> QED
    BY <1>3, <1>4, <1>5, <1>6 DEF WatchStdin

\* A shard or a request leaves the shutdown's stages as they are.
LEMMA KeepsDrained ==
  ASSUME DrainInv, TypeOK', Keeps, UNCHANGED <<stop, prompt, stdinPC>>
  PROVE  Drained'
  <1> USE DEF DrainInv, Keeps
  <1>1. prompt /\ stdinPC # "read" => \A s \in Shards : shard'[s] # "unborn"
    BY DEF Drained
  <1>2. ASSUME prompt, stdinPC = "parked", wg'.waiters = {} PROVE Quiet'
    <2>1. wg'.n = 0 /\ Counted'
      BY <1>2 DEF Drained
    <2> QED
      BY <1>1, <1>2, <2>1, ZeroPrimed
  <1> QED
    BY <1>1, <1>2 DEF Drained

\* The server's steps leave the count and the stages of the shutdown alone.
LEMMA UntouchedDrain ==
  ASSUME Counted, Waits, Drained, UNCHANGED clientVars
  PROVE  Counted' /\ Waits' /\ Drained'
  <1>1. LiveShards' = LiveShards /\ LiveReqs' = LiveReqs /\ (Quiet' <=> Quiet)
    BY DEF LiveShards, LiveReqs, Quiet
  <1> QED
    BY <1>1 DEF Counted, Waits, Drained

LEMMA DrainInvariant == Spec => []DrainInv
  <1>1. Init => Counted /\ Waits /\ Drained
    <2> SUFFICES ASSUME Init PROVE Counted /\ Waits /\ Drained
      OBVIOUS
    <2>1. LiveShards = {} /\ LiveReqs = {}
      BY DEF Init, ClientInit, LiveShards, LiveReqs
    <2> QED
      BY <2>1, FS_EmptySet DEF Init, ClientInit, ZeroGroup, Counted, Waits, Drained
  <1>2. ASSUME DrainInv, TypeOK', [Next]_vars PROVE Counted' /\ Waits' /\ Drained'
    <2>1. CASE UNCHANGED clientVars
      BY <1>2, <2>1, UntouchedDrain DEF DrainInv
    <2>2. ASSUME NEW s \in Shards, Shard(s) PROVE Counted' /\ Waits' /\ Drained'
      <3>1. Keeps /\ UNCHANGED stdinVars
        BY <1>2, <2>2, ShardKeeps
      <3> QED
        BY <1>2, <3>1, KeepsDrained DEF Keeps
    <2>3. ASSUME NEW r \in Reqs, SendOneRequest(r) PROVE Counted' /\ Waits' /\ Drained'
      BY <1>2, <2>3, RequestKeeps, KeepsDrained DEF Keeps
    <2>4. CASE WatchStdin
      BY <1>2, <2>4, WatchKeeps
    <2> QED
      BY <1>2, <2>1, <2>2, <2>3, <2>4, ClientStep DEF vars
  <1>3. TypeOK /\ Connected /\ Counted /\ Waits /\ Drained /\ [Next]_vars /\ TypeOK'
          => Counted' /\ Waits' /\ Drained'
    BY <1>2 DEF DrainInv
  <1> QED
    BY <1>1, <1>3, TypeInvariant, PTL DEF Spec, DrainInv

(***************************************************************************)
(* Once wg.Wait has returned in a client told to stop after its start, no  *)
(* shard and no request is left: each is in the WaitGroup of rpc.go from   *)
(* before it starts to its last step, so nobody records a latency or takes *)
(* a connection while the report reads them.                               *)
(***************************************************************************)
THEOREM ReportWaits == Spec => []WaitedForAll
  <1>1. DrainInv => WaitedForAll
    BY DEF DrainInv, Drained, Quiet, WaitedForAll
  <1> QED
    BY <1>1, DrainInvariant, PTL

\* The last step of a request, and the return of wg.Wait, do not panic.
LEMMA DoneReturns ==
  ASSUME DrainInv, NEW r \in Reqs, Done(r)
  PROVE  UNCHANGED <<procVars, netVars>>
  <1>1. Cardinality(LiveReqs) > 0
    BY RequestEnds DEF Done, DrainInv
  <1>2. wg.n > 0
    BY <1>1, LiveSets DEF DrainInv, Counted
  <1> QED
    BY <1>2, LowerReturns DEF Done, DrainInv

LEMMA WakeReturns ==
  ASSUME DrainInv, prompt, WakeAll
  PROVE  Quiet /\ UNCHANGED <<procVars, netVars>>
  <1>1. wg.waiters = {}
    BY DEF WakeAll, Released, WaitGroups, DrainInv, TypeOK, ClientTypeOK
  <1>2. Quiet
    BY <1>1 DEF WakeAll, StdinGoes, DrainInv, Drained
  <1>3. LiveReqs = {} /\ LiveShards = {}
    BY <1>2 DEF Quiet, LiveReqs, LiveShards
  <1>4. wg = ZeroGroup
    BY <1>1, <1>3, FS_EmptySet DEF DrainInv, Counted, ZeroGroup, WaitGroups, TypeOK, ClientTypeOK
  <1> QED
    BY <1>2, <1>4 DEF WakeAll, ReusePanics

-----------------------------------------------------------------------------
(* The drain. *)

\* What Drain's variables stand for.
Phase ==
    IF cproc = "failed" \/ ~prompt THEN "aborted"
    ELSE IF stdinPC = "read" THEN "serving"
    ELSE IF stdinPC \in {"wait", "parked"} THEN "draining"
    ELSE "closed"

DrainStep == [Drain!Next]_<<Phase, LiveReqs>>

\* A closed client is quiet.
LEMMA ClosedIsQuiet ==
  ASSUME DrainInv, Phase = "closed"
  PROVE  Quiet /\ LiveReqs = {}
  BY DEF DrainInv, TypeOK, ClientTypeOK, Phase, Drained, Quiet, LiveReqs

LEMMA ShardDrains ==
  ASSUME DrainInv, NEW s \in Shards, Shard(s)
  PROVE  DrainStep
  <1>1. ~Quiet /\ UNCHANGED <<procVars, stdinVars>>
    BY ShardKeeps DEF Keeps
  <1>2. Phase # "closed" /\ Phase' = Phase
    BY <1>1, ClosedIsQuiet DEF Phase
  <1>3. ASSUME NEW r \in Reqs, StartRequest(s, r) PROVE DrainStep
    <2>1. LiveReqs' = LiveReqs \cup {r} /\ r \notin LiveReqs
      BY <1>3 DEF StartRequest, Goes, LiveReqs, DrainInv, TypeOK, ClientTypeOK
    <2> QED
      BY <1>2, <2>1 DEF DrainStep, Drain!Next, Drain!Begin, Phase, LiveReqs
  <1>4. CASE AddShard(s) \/ SelectStop(s) \/ SelectTimer(s) \/ ShardDone(s)
    <2>1. UNCHANGED LiveReqs
      BY <1>4 DEF AddShard, SelectStop, SelectTimer, ShardDone, LiveReqs
    <2> QED
      BY <1>2, <2>1 DEF DrainStep
  <1> QED
    BY <1>3, <1>4 DEF Shard

LEMMA RequestDrains ==
  ASSUME DrainInv, NEW r \in Reqs, SendOneRequest(r), cproc = "running"
  PROVE  DrainStep
  <1>1. ~Quiet /\ UNCHANGED <<stop, prompt, stdinPC>>
    BY RequestKeeps DEF Keeps
  <1>2. Phase # "closed" /\ r \in LiveReqs
    <2>1. r \in LiveReqs
      BY DEF SendOneRequest, Take, Dial, DialFails, Write, Read, ReadEOF, ReadError, Push, Done,
             Goes, LiveReqs
    <2> QED
      BY <1>1, <2>1, ClosedIsQuiet
  <1>3. CASE Done(r)
    <2>1. LiveReqs' = LiveReqs \ {r}
      BY <1>3 DEF Done, Goes, LiveReqs, DrainInv, TypeOK, ClientTypeOK
    <2>2. Phase' = Phase
      BY <1>1, <1>3, DoneReturns DEF Phase
    <2> QED
      BY <1>2, <2>1, <2>2 DEF DrainStep, Drain!Next, Drain!End, Phase, LiveReqs
  <1>4. CASE ~Done(r)
    <2>1. UNCHANGED LiveReqs
      BY <1>4 DEF SendOneRequest, Take, Dial, DialFails, Write, Read, ReadEOF, ReadError, Push,
                  Goes, LiveReqs, DrainInv, TypeOK, ClientTypeOK
    <2>2. cproc' = "running" \/ cproc' = "failed"
      BY <1>4 DEF SendOneRequest, Take, Dial, DialFails, Write, Read, ReadEOF, ReadError, Push,
                  ClientExits
    <2>3. Phase' = Phase \/ Phase' = "aborted"
      BY <1>1, <2>2 DEF Phase
    <2>4. Phase \in {"serving", "draining", "aborted"}
      BY <1>2 DEF Phase
    <2> QED
      BY <1>2, <2>1, <2>3, <2>4 DEF DrainStep, Drain!Next, Drain!Abort, Phase, LiveReqs
  <1> QED
    BY <1>3, <1>4

LEMMA WatchDrains ==
  ASSUME DrainInv, WatchStdin, cproc = "running"
  PROVE  DrainStep
  <1> USE DEF StdinGoes
  <1>1. UNCHANGED LiveReqs
    BY WatchKeeps DEF LiveReqs
  <1>2. CASE StdinEOF
    <2>1. Phase = "serving" /\ Phase' \in {"draining", "aborted"}
      BY <1>2 DEF StdinEOF, Phase, DrainInv, Drained
    <2> QED
      BY <1>1, <2>1 DEF DrainStep, Drain!Next, Drain!Stop, Drain!Abort, Phase, LiveReqs
  <1>3. CASE WaitAll
    <2>1. prompt /\ ~WaitParks(wg) => LiveReqs = {}
      BY <1>3, ZeroIsQuiet DEF WaitAll, WaitParks, DrainInv, Drained, Quiet, LiveReqs
    <2>2. \/ Phase' = Phase
          \/ Phase = "draining" /\ Phase' = "closed" /\ prompt /\ ~WaitParks(wg)
      BY <1>3 DEF WaitAll, Phase
    <2> QED
      BY <1>1, <2>1, <2>2 DEF DrainStep, Drain!Next, Drain!Close, Phase, LiveReqs
  <1>4. CASE WakeAll
    <2>1. CASE ~prompt
      BY <1>1, <1>4, <2>1 DEF WakeAll, Phase, DrainStep
    <2>2. CASE prompt
      <3>1. LiveReqs = {} /\ UNCHANGED cproc
        BY <1>4, <2>2, WakeReturns DEF Quiet, LiveReqs
      <3>2. Phase = "draining" /\ Phase' = "closed"
        BY <1>4, <2>2, <3>1 DEF WakeAll, Phase
      <3> QED
        BY <1>1, <3>1, <3>2 DEF DrainStep, Drain!Next, Drain!Close, Phase, LiveReqs
    <2> QED
      BY <2>1, <2>2
  <1>5. CASE RangeConns \/ CloseNext \/ Report \/ Exit
    <2>1. Phase' = Phase
      BY <1>5 DEF RangeConns, CloseNext, Report, Exit, ClientExits, Phase
    <2> QED
      BY <1>1, <2>1 DEF DrainStep
  <1> QED
    BY <1>2, <1>3, <1>4, <1>5 DEF WatchStdin

(***************************************************************************)
(* The client implements RPCDrain's safety: a request begins and ends only *)
(* before the client closes, it closes only when none is left, and it is   *)
(* aborted only under a request or by a stop that came before its start.   *)
(* That requests end and drains too is left to TLC.                        *)
(***************************************************************************)
THEOREM RefinesDrain == Spec => Drain!Safety
  <1>1. Init => Drain!Init
    BY DEF Init, ClientInit, LinksInit, Drain!Init
  <1>2. ASSUME DrainInv, [Next]_vars PROVE [Drain!Next]_(Drain!drainVars)
    <2>1. CASE UNCHANGED clientVars /\ UNCHANGED cproc
      <3>1. Phase' = Phase /\ LiveReqs' = LiveReqs
        BY <2>1 DEF Phase, LiveReqs
      <3> QED
        BY <3>1 DEF Drain!drainVars, Phase, LiveReqs
    <2>2. BenchMain => UNCHANGED cproc
      BY DEF BenchMain, Accept, Handler, HandlerRead, HandlerRespond, HandlerEOF,
             HandlerError, AcceptFails, Timer, TimerFires, CloseStdin, Reap, ServerExits
    <2>3. ASSUME DrainStep PROVE [Drain!Next]_(Drain!drainVars)
      BY <2>3 DEF DrainStep, Drain!drainVars, Phase, LiveReqs
    <2> QED
      BY <1>2, <2>1, <2>2, <2>3, ClientStep, ShardDrains, RequestDrains, WatchDrains DEF vars
  <1> QED
    BY <1>1, <1>2, DrainInvariant, PTL DEF Spec, Drain!Safety

-----------------------------------------------------------------------------
(***************************************************************************)
(* Connections.                                                            *)
(***************************************************************************)
USE DEF procVars, netVars, clientVars, serverVars, stdinVars, requestVars

Elements(q) == {q[i] : i \in 1..Len(q)}

Distinct(q) == \A i, j \in 1..Len(q) : q[i] = q[j] => i = j

\* A connection has one owner: the pool, once, or one request.
Owned ==
    /\ Distinct(pool)
    /\ \A r \in Reqs : Using(r) => conn[r] \notin Elements(pool)
    /\ \A r, q \in Reqs : Using(r) /\ Using(q) /\ conn[r] = conn[q] => r = q

\* A connection the client has open has an owner.
Kept == \A c \in Conns :
    cend[c] = "open" => c \in Elements(pool) \/ \E r \in Reqs : Using(r) /\ conn[r] = c

Empty(c) == up[c] = <<>> /\ down[c] = <<>> /\ held[c] = {}

InTransit(c, r) == up[c] = <<r>> \/ down[c] = <<r>> \/ r \in held[c]

\* At most one request or answer.
Single(c) ==
    \/ Empty(c)
    \/ \E r \in Reqs : up[c] = <<r>> /\ down[c] = <<>> /\ held[c] = {}
    \/ \E r \in Reqs : up[c] = <<>> /\ down[c] = <<r>> /\ held[c] = {}
    \/ \E r \in Reqs : up[c] = <<>> /\ down[c] = <<>> /\ held[c] = {r}

Singles == \A c \in Conns : Single(c)

\* A request in transit, or its answer, is awaited there.
Awaited == \A c \in Conns, r \in Reqs :
    cend[c] = "open" /\ InTransit(c, r) => conn[r] = c /\ req[r] = "read"

\* Nothing is in transit on a connection that nobody reads from.
Unused ==
    /\ \A c \in Elements(pool) : Empty(c)
    /\ \A r \in Reqs : req[r] \in {"write", "push"} => Empty(conn[r])

MessageInv == Singles /\ Awaited /\ Unused

\* A handler that has ended holds no request.
Served == sproc = "running" => \A c \in Conns : send[c] # "open" => held[c] = {}

UseInv == Owned /\ Kept /\ MessageInv /\ Served

\* The last loop goes over the pool, and has closed a prefix of it.
Closing ==
    prompt /\ stdinPC \in {"close", "report"} =>
        /\ ranged = pool
        /\ \A i \in 1..nclosed : cend[ranged[i]] = "closed"
        /\ stdinPC = "report" => nclosed = Len(ranged)

\* What the client pools before that loop, or uses, it has open.
Usable ==
    prompt /\ cproc = "running" =>
       /\ stdinPC \notin {"close", "report"} => \A c \in Elements(pool) : cend[c] = "open"
       /\ \A r \in Reqs : Using(r) => cend[conn[r]] = "open"

\* Nothing has gone wrong on any connection: the server closes after the
\* client, and the client with nothing in transit.
Intact ==
    /\ reset = {}
    /\ \A c \in Conns : cend[c] = "open" => send[c] # "closed"
    /\ \A c \in Conns : cend[c] = "closed" => Empty(c)

\* The server ends early: Accept fails, or a report of latencies panics.
Breaks == sproc \in {"refused", "panicked"}

\* Unless the server breaks nothing fails, and the client is the first to end.
Clean ==
    prompt /\ ~Breaks =>
       /\ cproc # "failed"
       /\ sproc = "running" \/ (sproc = "exited" /\ cproc = "exited")
       /\ sproc = "running" => Intact

CloseInv == Closing /\ Usable /\ Clean

-----------------------------------------------------------------------------
(* The pool as a sequence: popping its last element and appending one. *)

LEMMA PopLast ==
  ASSUME NEW S, NEW q \in Seq(S), q # <<>>, NEW p, p = SubSeq(q, 1, Len(q) - 1)
  PROVE  /\ q[Len(q)] \in Elements(q)
         /\ Elements(q) = Elements(p) \cup {q[Len(q)]}
         /\ Distinct(q) => Distinct(p) /\ q[Len(q)] \notin Elements(p)
  <1>1. Len(q) \in Nat /\ Len(q) > 0 /\ Len(p) = Len(q) - 1
    <2>1. PICK n \in Nat : n = Len(q)
      OBVIOUS
    <2>2. n # 0 /\ n - 1 \in Int /\ \A i \in 1..(n - 1) : q[i] \in S
      BY <2>1
    <2>3. Len(p) = IF 1 <= n - 1 THEN (n - 1) - 1 + 1 ELSE 0
      BY <2>1, <2>2, SubSeqProperties
    <2>4. Len(p) = n - 1
      BY <2>2, <2>3
    <2> QED
      BY <2>1, <2>2, <2>4
  <1>2. \A i \in 1..Len(p) : p[i] = q[i]
    BY <1>1
  <1>3. 1..Len(q) = 1..Len(p) \cup {Len(q)} /\ Len(q) \notin 1..Len(p)
    BY <1>1
  <1>4. Elements(q) = Elements(p) \cup {q[Len(q)]}
    BY <1>2, <1>3 DEF Elements
  <1>5. q[Len(q)] \in Elements(q)
    BY <1>3 DEF Elements
  <1>6. Distinct(q) => Distinct(p)
    BY <1>2, <1>3 DEF Distinct
  <1>7. Distinct(q) => q[Len(q)] \notin Elements(p)
    BY <1>2, <1>3 DEF Elements, Distinct
  <1> QED
    BY <1>4, <1>5, <1>6, <1>7

LEMMA AppendOne ==
  ASSUME NEW q \in Seq(Conns), NEW x \in Conns, NEW p, p = Append(q, x)
  PROVE  /\ Elements(p) = Elements(q) \cup {x}
         /\ Distinct(q) /\ x \notin Elements(q) => Distinct(p)
  <1>1. Len(q) \in Nat /\ Len(p) = Len(q) + 1 /\ p[Len(p)] = x
    OBVIOUS
  <1>2. \A i \in 1..Len(q) : p[i] = q[i]
    BY <1>1
  <1>3. 1..Len(p) = 1..Len(q) \cup {Len(p)} /\ Len(p) \notin 1..Len(q)
    BY <1>1
  <1>4. Elements(p) = Elements(q) \cup {x}
    BY <1>1, <1>2, <1>3 DEF Elements
  <1> QED
    BY <1>1, <1>2, <1>3, <1>4 DEF Elements, Distinct

-----------------------------------------------------------------------------
(* Ownership. *)

\* A step moves one request on, and sets one connection.
LEMMA GoesOn ==
  ASSUME TypeOK, NEW r \in Reqs, NEW from, NEW to, Goes(r, from, to)
  PROVE  req[r] = from /\ req'[r] = to /\ \A q \in Reqs : q # r => req'[q] = req[q]
  BY DEF TypeOK, ClientTypeOK, Goes

LEMMA SetsConn ==
  ASSUME TypeOK, NEW r \in Reqs, NEW c, conn' = [conn EXCEPT ![r] = c]
  PROVE  conn'[r] = c /\ \A q \in Reqs : q # r => conn'[q] = conn[q]
  BY DEF TypeOK, ClientTypeOK

\* Steps that hand no connection over: some may be closed, or given up.
LEMMA OwnersStay ==
  ASSUME Owned, Kept, UNCHANGED pool,
         \A r \in Reqs : Using(r)' => Using(r) /\ conn'[r] = conn[r],
         \A c \in Conns : cend'[c] = "open" =>
             /\ cend[c] = "open"
             /\ \A r \in Reqs : Using(r) /\ conn[r] = c => Using(r)' /\ conn'[r] = c
  PROVE  Owned' /\ Kept'
  <1>1. Owned'
    BY DEF Owned
  <1>2. Kept'
    BY DEF Kept
  <1> QED
    BY <1>1, <1>2

LEMMA TakeOwns ==
  ASSUME TypeOK, Owned, Kept, NEW r \in Reqs, Take(r)
  PROVE  Owned' /\ Kept'
  <1>1. CASE pool = <<>>
    <2>1. UNCHANGED <<pool, conn, cend>> /\ Goes(r, "take", "dial")
      BY <1>1 DEF Take
    <2>2. \A q \in Reqs : Using(q)' <=> Using(q)
      BY <2>1, GoesOn DEF Using
    <2> QED
      BY <2>1, <2>2, OwnersStay
  <1>2. CASE pool # <<>>
    <2>1. PICK c : c = pool[Len(pool)]
      OBVIOUS
    <2>2. /\ Goes(r, "take", "write") /\ UNCHANGED cend
          /\ conn' = [conn EXCEPT ![r] = c]
          /\ pool' = SubSeq(pool, 1, Len(pool) - 1)
      BY <1>2, <2>1 DEF Take
    <2>3. /\ Elements(pool) = Elements(pool') \cup {c}
          /\ Distinct(pool') /\ c \notin Elements(pool')
      <3>1. pool \in Seq(Conns) /\ Distinct(pool)
        BY DEF TypeOK, ClientTypeOK, Owned
      <3> QED
        BY <1>2, <2>1, <2>2, <3>1, PopLast, ZenonT(30)
    <2>4. /\ ~Using(r) /\ Using(r)' /\ conn'[r] = c
          /\ \A q \in Reqs : q # r => (Using(q)' <=> Using(q)) /\ conn'[q] = conn[q]
      <3>1. /\ req[r] = "take" /\ req'[r] = "write"
            /\ \A q \in Reqs : q # r => req'[q] = req[q]
        BY <2>2, GoesOn
      <3>2. conn'[r] = c /\ \A q \in Reqs : q # r => conn'[q] = conn[q]
        BY <2>2, SetsConn
      <3> QED
        BY <3>1, <3>2 DEF Using
    <2>5. Owned'
      BY <2>3, <2>4 DEF Owned
    <2>6. Kept'
      BY <2>2, <2>3, <2>4 DEF Kept
    <2> QED
      BY <2>5, <2>6
  <1> QED
    BY <1>1, <1>2

LEMMA DialOwns ==
  ASSUME TypeOK, Owned, Kept, NEW r \in Reqs, Dial(r)
  PROVE  Owned' /\ Kept'
  <1>1. PICK c \in Conns \ (Pooled \cup Ranged \cup {conn[q] : q \in Reqs}) :
          Connect(c) /\ conn' = [conn EXCEPT ![r] = c]
    BY DEF Dial
  <1>2. c \in Conns /\ c \notin Elements(pool) /\ \A q \in Reqs : conn[q] # c
    BY <1>1 DEF Pooled, Elements
  <1>3. Goes(r, "dial", "write") /\ UNCHANGED pool
    BY DEF Dial
  <1>4. /\ ~Using(r) /\ Using(r)' /\ conn'[r] = c
        /\ \A q \in Reqs : q # r => (Using(q)' <=> Using(q)) /\ conn'[q] = conn[q]
    <2>1. /\ req[r] = "dial" /\ req'[r] = "write"
          /\ \A q \in Reqs : q # r => req'[q] = req[q]
      BY <1>3, GoesOn
    <2>2. conn'[r] = c /\ \A q \in Reqs : q # r => conn'[q] = conn[q]
      BY <1>1, SetsConn
    <2> QED
      BY <2>1, <2>2 DEF Using
  <1>5. Owned'
    BY <1>2, <1>3, <1>4 DEF Owned
  <1>6. \A d \in Conns : d # c => cend'[d] = cend[d]
    BY <1>1 DEF Connect, TypeOK, LinksTypeOK
  <1>7. Kept'
    BY <1>2, <1>3, <1>4, <1>6 DEF Kept
  <1> QED
    BY <1>5, <1>7

LEMMA PushOwns ==
  ASSUME TypeOK, Connected, Owned, Kept, NEW r \in Reqs, Push(r)
  PROVE  Owned' /\ Kept'
  <1>1. Goes(r, "push", "done") /\ pool' = Append(pool, conn[r]) /\ UNCHANGED <<conn, cend>>
    BY DEF Push
  <1>2. Using(r) /\ ~Using(r)' /\ \A q \in Reqs : q # r => (Using(q)' <=> Using(q))
    BY <1>1, GoesOn DEF Using
  <1>3. conn[r] \in Conns /\ conn[r] \notin Elements(pool)
    BY <1>2 DEF Connected, Owned
  <1>4. pool \in Seq(Conns) /\ Distinct(pool)
    BY DEF TypeOK, ClientTypeOK, Owned
  <1>5. Elements(pool') = Elements(pool) \cup {conn[r]} /\ Distinct(pool')
    BY <1>1, <1>3, <1>4, AppendOne
  <1>6. Owned'
    BY <1>1, <1>2, <1>5 DEF Owned
  <1>7. Kept'
    BY <1>1, <1>2, <1>5 DEF Kept
  <1> QED
    BY <1>6, <1>7

\* A client that exits has closed everything.
LEMMA ExitCloses ==
  ASSUME TypeOK, NEW x, ClientExits(x)
  PROVE  \A c \in Conns : cend'[c] = "closed"
  BY DEF TypeOK, LinksTypeOK, ClientExits, CloseClientEnds

LEMMA RequestOwns ==
  ASSUME TypeOK, Connected, Owned, Kept, NEW r \in Reqs, SendOneRequest(r)
  PROVE  Owned' /\ Kept'
  <1>1. CASE DialFails(r) \/ Read(r)
    <2>1. UNCHANGED <<pool, conn, cend>>
      BY <1>1 DEF DialFails, Read, ReadResponse
    <2>2. \A q \in Reqs : Using(q)' <=> Using(q)
      BY <1>1, GoesOn DEF DialFails, Read, Using
    <2> QED
      BY <2>1, <2>2, OwnersStay
  <1>2. CASE Write(r)
    <2>1. \A c \in Conns : cend'[c] = "open" => cend[c] = "open"
      BY <1>2, ExitCloses DEF Write, WriteRequest
    <2>2. UNCHANGED <<pool, conn>> /\ \A q \in Reqs : Using(q)' <=> Using(q)
      BY <1>2, GoesOn DEF Write, Using
    <2> QED
      BY <2>1, <2>2, OwnersStay
  <1>3. CASE ReadEOF(r)
    <2>1. \A c \in Conns : cend'[c] = "open" => cend[c] = "open" /\ c # conn[r]
      BY <1>3 DEF ReadEOF, CloseClientEnds
    <2>2. /\ UNCHANGED <<pool, conn>> /\ ~Using(r)'
          /\ \A q \in Reqs : q # r => (Using(q)' <=> Using(q))
      BY <1>3, GoesOn DEF ReadEOF, Using
    <2> QED
      BY <2>1, <2>2, OwnersStay
  <1>4. CASE ReadError(r)
    <2>1. \A c \in Conns : cend'[c] = "closed"
      BY <1>4, ExitCloses DEF ReadError
    <2>2. UNCHANGED <<pool, conn>> /\ \A q \in Reqs : Using(q)' => Using(q)
      BY <1>4, GoesOn DEF ReadError, Using
    <2> QED
      BY <2>1, <2>2, OwnersStay
  <1>5. CASE Done(r)
    <2>1. \A c \in Conns : cend'[c] = "open" => cend[c] = "open"
      <3>1. ClientExits("failed") \/ UNCHANGED cend
        BY <1>5 DEF Done, Add
      <3> QED
        BY <3>1, ExitCloses
    <2>2. Goes(r, "done", "idle") /\ conn' = [conn EXCEPT ![r] = NoConn] /\ UNCHANGED pool
      BY <1>5 DEF Done
    <2>3. \A q \in Reqs : (Using(q)' <=> Using(q)) /\ (Using(q) => conn'[q] = conn[q])
      BY <2>2, GoesOn, SetsConn DEF Using
    <2> QED
      BY <2>1, <2>2, <2>3, OwnersStay
  <1> QED
    BY <1>1, <1>2, <1>3, <1>4, <1>5, TakeOwns, DialOwns, PushOwns DEF SendOneRequest

-----------------------------------------------------------------------------
(* Messages. *)

\* The connection's message at most moves along, or is dropped.
MovesOn(c) ==
    /\ Single(c)'
    /\ Empty(c) => Empty(c)'
    /\ cend'[c] = "open" => cend[c] = "open" /\ \A r \in Reqs : InTransit(c, r)' => InTransit(c, r)

(***************************************************************************)
(* A step whose messages move on, but for those of one connection x, which *)
(* nobody but the request that steps refers to.                            *)
(***************************************************************************)
LEMMA MessageStep ==
  ASSUME TypeOK, MessageInv, NEW x,
         \A c \in Conns : c # x => MovesOn(c),
         x \in Conns => Single(x)',
         \A q \in Reqs : x \in Conns /\ cend'[x] = "open" /\ InTransit(x, q)'
            => conn'[q] = x /\ req'[q] = "read",
         \A c \in Elements(pool') : c \in Conns /\ c # x /\ Empty(c),
         \A q \in Reqs : req[q] = "read" /\ conn[q] # x => req'[q] = "read" /\ conn'[q] = conn[q],
         \A q \in Reqs : req'[q] \in {"write", "push"}
            => \E c \in Conns : conn'[q] = c /\ ((c # x /\ Empty(c)) \/ Empty(c)')
  PROVE  MessageInv'
  <1>1. Singles'
    BY DEF Singles, MovesOn
  <1>2. Awaited'
    BY DEF MessageInv, Awaited, MovesOn
  <1>3. Unused'
    <2>1. \A c \in Elements(pool') : Empty(c)'
      BY DEF MovesOn
    <2>2. ASSUME NEW r \in Reqs, req'[r] \in {"write", "push"} PROVE Empty(conn[r])'
      <3>1. PICK c \in Conns : conn'[r] = c /\ ((c # x /\ Empty(c)) \/ Empty(c)')
        BY <2>2
      <3>2. Empty(c)'
        BY <3>1 DEF MovesOn
      <3> QED
        BY <3>1, <3>2 DEF Empty
    <2> QED
      BY <2>1, <2>2 DEF Unused
  <1> QED
    BY <1>1, <1>2, <1>3 DEF MessageInv

\* A connection left as it is, or closed, has no new message.
LEMMA Untouched ==
  ASSUME NEW c \in Conns, Single(c), cend'[c] = "open" => cend[c] = "open",
         UNCHANGED <<up[c], held[c]>>, down'[c] = down[c] \/ down'[c] = <<>>
  PROVE  MovesOn(c)
  BY DEF MovesOn, Single, Empty, InTransit

LEMMA ClosedMovesOn ==
  ASSUME TypeOK, Singles, UNCHANGED held, NEW S \in SUBSET Conns, CloseClientEnds(S)
  PROVE  \A c \in Conns : MovesOn(c)
  <1> SUFFICES ASSUME NEW c \in Conns PROVE MovesOn(c)
    OBVIOUS
  <1>1. /\ cend'[c] = "open" => cend[c] = "open"
        /\ UNCHANGED <<up, held>> /\ (down'[c] = down[c] \/ down'[c] = <<>>)
    BY DEF CloseClientEnds
  <1> QED
    BY <1>1, Untouched DEF Singles

LEMMA NetMovesOn ==
  ASSUME Singles, UNCHANGED <<netVars, held>>
  PROVE  \A c \in Conns : MovesOn(c)
  BY Untouched DEF Singles

LEMMA ExitMovesOn ==
  ASSUME TypeOK, Singles, UNCHANGED held, NEW x, ClientExits(x)
  PROVE  \A c \in Conns : MovesOn(c)
  <1>1. {c \in Conns : cend[c] = "open"} \in SUBSET Conns
    OBVIOUS
  <1> QED
    BY <1>1, ClosedMovesOn DEF ClientExits

\* Who has an idle connection.
LEMMA IdleOnes ==
  ASSUME TypeOK, Connected, MessageInv
  PROVE  /\ \A c \in Elements(pool) : c \in Conns /\ Empty(c)
         /\ \A q \in Reqs : req[q] \in {"write", "push"} => conn[q] \in Conns /\ Empty(conn[q])
  <1>1. \A c \in Elements(pool) : c \in Conns
    BY DEF TypeOK, ClientTypeOK, Elements
  <1> QED
    BY <1>1 DEF MessageInv, Unused, Connected, Using

\* Steps of the server, the shards and the watcher of stdin.
LEMMA MessagesStay ==
  ASSUME TypeOK, Connected, MessageInv, UNCHANGED <<pool, conn>>,
         \A c \in Conns : MovesOn(c),
         \A q \in Reqs : req'[q] = req[q] \/ (req[q] = "idle" /\ req'[q] = "take")
  PROVE  MessageInv'
  <1>1. PICK x : x = NoConn
    OBVIOUS
  <1>2. x \notin Conns
    BY <1>1, ClientAssumption
  <1>3. \A c \in Elements(pool') : c \in Conns /\ c # x /\ Empty(c)
    BY <1>2, IdleOnes
  <1>4. \A q \in Reqs : req[q] = "read" => req'[q] = "read" /\ conn'[q] = conn[q]
    OBVIOUS
  <1>5. \A q \in Reqs : req'[q] \in {"write", "push"}
          => \E c \in Conns : conn'[q] = c /\ c # x /\ Empty(c)
    BY <1>2, IdleOnes
  <1> QED
    BY <1>2, <1>3, <1>4, <1>5, MessageStep

LEMMA TakeMessages ==
  ASSUME TypeOK, Connected, MessageInv, UNCHANGED held, NEW r \in Reqs, Take(r)
  PROVE  MessageInv'
  <1>1. PICK x : x = NoConn
    OBVIOUS
  <1>2. x \notin Conns
    BY <1>1, ClientAssumption
  <1>3. \A c \in Conns : MovesOn(c)
    BY NetMovesOn DEF Take, MessageInv
  <1>4. /\ Elements(pool') \subseteq Elements(pool)
        /\ \/ Goes(r, "take", "dial") /\ UNCHANGED conn
           \/ \E c \in Elements(pool) : Goes(r, "take", "write") /\ conn' = [conn EXCEPT ![r] = c]
    <2>1. CASE pool = <<>>
      BY <2>1 DEF Take
    <2>2. CASE pool # <<>>
      <3>1. pool \in Seq(Conns)
        BY DEF TypeOK, ClientTypeOK
      <3>2. /\ pool[Len(pool)] \in Elements(pool)
            /\ Elements(pool) = Elements(pool') \cup {pool[Len(pool)]}
        BY <2>2, <3>1, PopLast DEF Take
      <3> QED
        BY <2>2, <3>2 DEF Take
    <2> QED
      BY <2>1, <2>2
  <1>5. \A c \in Elements(pool') : c \in Conns /\ c # x /\ Empty(c)
    BY <1>2, <1>4, IdleOnes
  <1>6. /\ req[r] = "take" /\ req'[r] \in {"dial", "write"}
        /\ \A q \in Reqs : q # r => req'[q] = req[q] /\ conn'[q] = conn[q]
        /\ req'[r] = "write" => conn'[r] \in Elements(pool)
    <2>1. CASE Goes(r, "take", "dial") /\ UNCHANGED conn
      BY <2>1, GoesOn
    <2>2. ASSUME NEW c \in Elements(pool), Goes(r, "take", "write"), conn' = [conn EXCEPT ![r] = c]
          PROVE  /\ req[r] = "take" /\ req'[r] = "write"
                 /\ \A q \in Reqs : q # r => req'[q] = req[q] /\ conn'[q] = conn[q]
                 /\ conn'[r] = c
      <3>1. /\ req[r] = "take" /\ req'[r] = "write"
            /\ \A q \in Reqs : q # r => req'[q] = req[q]
        BY <2>2, GoesOn
      <3>2. conn'[r] = c /\ \A q \in Reqs : q # r => conn'[q] = conn[q]
        BY <2>2, SetsConn
      <3> QED
        BY <3>1, <3>2
    <2> QED
      BY <1>4, <2>1, <2>2
  <1>7. \A q \in Reqs : req[q] = "read" => req'[q] = "read" /\ conn'[q] = conn[q]
    BY <1>6
  <1>8. \A q \in Reqs : req'[q] \in {"write", "push"}
          => \E c \in Conns : conn'[q] = c /\ c # x /\ Empty(c)
    BY <1>2, <1>6, IdleOnes
  <1> QED
    BY <1>2, <1>3, <1>5, <1>7, <1>8, MessageStep

\* A request puts its connection back, or ends.
LEMMA EndMessages ==
  ASSUME TypeOK, Connected, MessageInv, UNCHANGED held, NEW r \in Reqs,
         DialFails(r) \/ Push(r) \/ Done(r)
  PROVE  MessageInv'
  <1>1. PICK x : x = NoConn
    OBVIOUS
  <1>2. x \notin Conns
    BY <1>1, ClientAssumption
  <1>3. \A c \in Conns : MovesOn(c)
    <2>1. UNCHANGED netVars \/ ClientExits("failed")
      BY DEF DialFails, Push, Done, Add
    <2> QED
      BY <2>1, NetMovesOn, ExitMovesOn DEF MessageInv
  <1>4. \A c \in Elements(pool') : c \in Conns /\ c # x /\ Empty(c)
    <2>1. CASE UNCHANGED pool
      BY <1>2, <2>1, IdleOnes
    <2>2. CASE Push(r)
      <3>1. req[r] = "push" /\ conn[r] \in Conns /\ Empty(conn[r])
        BY <2>2, GoesOn, IdleOnes DEF Push
      <3>2. pool \in Seq(Conns)
        BY DEF TypeOK, ClientTypeOK
      <3>3. PICK c \in Conns : c = conn[r]
        BY <3>1
      <3>4. PICK p : p = Append(pool, c) /\ p = pool'
        BY <2>2, <3>3 DEF Push
      <3>5. Elements(p) = Elements(pool) \cup {c}
        BY <3>2, <3>4, AppendOne
      <3> QED
        BY <1>2, <3>1, <3>3, <3>4, <3>5, IdleOnes
    <2> QED
      BY <2>1, <2>2 DEF DialFails, Done
  <1>5. /\ req[r] # "read" /\ req'[r] \in {"done", "idle"}
        /\ \A q \in Reqs : q # r => req'[q] = req[q]
    BY GoesOn DEF DialFails, Push, Done
  <1>6. \A q \in Reqs : q # r => conn'[q] = conn[q]
    BY SetsConn DEF DialFails, Push, Done
  <1>7. \A q \in Reqs : req[q] = "read" => req'[q] = "read" /\ conn'[q] = conn[q]
    BY <1>5, <1>6
  <1>8. \A q \in Reqs : req'[q] \in {"write", "push"}
          => \E c \in Conns : conn'[q] = c /\ c # x /\ Empty(c)
    BY <1>2, <1>5, <1>6, IdleOnes
  <1> QED
    BY <1>2, <1>3, <1>4, <1>7, <1>8, MessageStep

LEMMA DialMessages ==
  ASSUME TypeOK, Connected, MessageInv, Served, UNCHANGED held, NEW r \in Reqs, Dial(r)
  PROVE  MessageInv'
  <1>1. PICK c \in Conns \ (Pooled \cup Ranged \cup {conn[q] : q \in Reqs}) :
          Connect(c) /\ conn' = [conn EXCEPT ![r] = c]
    BY DEF Dial
  <1>2. c \in Conns /\ c \notin Elements(pool) /\ \A q \in Reqs : conn[q] # c
    BY <1>1 DEF Pooled, Elements
  <1>3. /\ req[r] = "dial" /\ req'[r] = "write" /\ UNCHANGED pool
        /\ \A q \in Reqs : q # r => req'[q] = req[q]
    BY GoesOn DEF Dial
  <1>4. conn'[r] = c /\ \A q \in Reqs : q # r => conn'[q] = conn[q]
    BY <1>1, SetsConn
  <1>5. Empty(c)'
    <2>1. held[c] = {}
      BY <1>1, <1>2 DEF Dial, Connect, Free, Served
    <2> QED
      BY <1>1, <1>2, <2>1 DEF Connect, Empty, TypeOK, LinksTypeOK
  <1>6. Single(c)' /\ \A q \in Reqs : ~InTransit(c, q)'
    BY <1>5 DEF Single, Empty, InTransit
  <1>7. \A d \in Conns : d # c => MovesOn(d)
    <2>1. \A d \in Conns : d # c => UNCHANGED <<cend[d], up[d], down[d], held[d]>>
      BY <1>1 DEF Connect, TypeOK, LinksTypeOK
    <2> QED
      BY <2>1, Untouched DEF MessageInv, Singles
  <1>8. \A d \in Elements(pool') : d \in Conns /\ d # c /\ Empty(d)
    BY <1>2, <1>3, IdleOnes
  <1>9. \A q \in Reqs : req'[q] \in {"write", "push"}
          => \E d \in Conns : conn'[q] = d /\ ((d # c /\ Empty(d)) \/ Empty(d)')
    BY <1>2, <1>3, <1>4, <1>5, IdleOnes
  <1>10. \A q \in Reqs : req[q] = "read" => req'[q] = "read" /\ conn'[q] = conn[q]
    BY <1>3, <1>4
  <1> QED
    BY <1>6, <1>7, <1>8, <1>9, <1>10, MessageStep

\* The connection of a request at work belongs to nobody else.
LEMMA OwnConn ==
  ASSUME TypeOK, Connected, Owned, MessageInv, NEW r \in Reqs, Using(r), NEW c, c = conn[r]
  PROVE  /\ c \in Conns
         /\ \A d \in Elements(pool) : d \in Conns /\ d # c /\ Empty(d)
         /\ \A q \in Reqs : q # r /\ req[q] = "read" => conn[q] # c
         /\ \A q \in Reqs : q # r /\ req[q] \in {"write", "push"}
              => conn[q] \in Conns /\ conn[q] # c /\ Empty(conn[q])
  BY IdleOnes DEF Connected, Owned, Using

\* What an action of one request at its connection c has to show.
LEMMA OwnMessages ==
  ASSUME TypeOK, Connected, Owned, MessageInv, NEW r \in Reqs, Using(r), NEW c, c = conn[r],
         UNCHANGED <<pool, conn>>, \A q \in Reqs : q # r => req'[q] = req[q],
         \A d \in Conns : d # c => MovesOn(d),
         Single(c)',
         \A q \in Reqs : cend'[c] = "open" /\ InTransit(c, q)' => q = r /\ req'[r] = "read",
         req'[r] \in {"write", "push"} => Empty(c)'
  PROVE  MessageInv'
  <1>1. \A q \in Reqs : c \in Conns /\ cend'[c] = "open" /\ InTransit(c, q)'
          => conn'[q] = c /\ req'[q] = "read"
    OBVIOUS
  <1>2. \A d \in Elements(pool') : d \in Conns /\ d # c /\ Empty(d)
    BY OwnConn
  <1>3. \A q \in Reqs : req[q] = "read" /\ conn[q] # c => req'[q] = "read" /\ conn'[q] = conn[q]
    OBVIOUS
  <1>4. \A q \in Reqs : req'[q] \in {"write", "push"}
          => \E d \in Conns : conn'[q] = d /\ ((d # c /\ Empty(d)) \/ Empty(d)')
    BY OwnConn
  <1> QED
    BY <1>1, <1>2, <1>3, <1>4, MessageStep

LEMMA WriteMessages ==
  ASSUME TypeOK, Connected, Owned, MessageInv, UNCHANGED held, NEW r \in Reqs, Write(r)
  PROVE  MessageInv'
  <1>1. /\ req[r] = "write" /\ req'[r] = "read" /\ UNCHANGED <<pool, conn>>
        /\ \A q \in Reqs : q # r => req'[q] = req[q]
    BY GoesOn DEF Write
  <1>2. PICK c \in Conns : c = conn[r] /\ Empty(c)
    BY <1>1, IdleOnes
  <1>3. Using(r)
    BY <1>1 DEF Using
  <1>4. CASE ClientError(c)
    <2>1. ClientExits("failed")
      BY <1>2, <1>4 DEF Write
    <2>2. (\A d \in Conns : MovesOn(d)) /\ cend'[c] = "closed"
      BY <2>1, ExitMovesOn, ExitCloses DEF MessageInv
    <2> QED
      BY <1>1, <1>2, <1>3, <2>2, OwnMessages DEF MovesOn
  <1>5. CASE ~ClientError(c)
    <2>1. WriteRequest(c, r)
      BY <1>2, <1>5 DEF Write
    <2>2. \A d \in Conns : d # c => MovesOn(d)
      <3>1. \A d \in Conns : d # c => UNCHANGED <<cend[d], up[d], down[d], held[d]>>
        BY <2>1 DEF WriteRequest, TypeOK, LinksTypeOK
      <3> QED
        BY <3>1, Untouched DEF MessageInv, Singles
    <2>3. up'[c] = <<>> \/ up'[c] = <<r>>
      <3>1. up' = up \/ up' = [up EXCEPT ![c] = Append(up[c], r)]
        BY <2>1 DEF WriteRequest
      <3>2. up[c] = <<>> /\ Append(<<>>, r) = <<r>>
        BY <1>2 DEF Empty
      <3> QED
        BY <3>1, <3>2 DEF TypeOK, LinksTypeOK
    <2>4. down'[c] = <<>> /\ held'[c] = {}
      BY <1>2, <2>1 DEF WriteRequest, Empty
    <2>5. Single(c)' /\ \A q \in Reqs : InTransit(c, q)' => q = r
      BY <2>3, <2>4 DEF Single, Empty, InTransit
    <2> QED
      BY <1>1, <1>2, <1>3, <2>2, <2>5, OwnMessages
  <1> QED
    BY <1>4, <1>5

LEMMA ReadMessages ==
  ASSUME TypeOK, Connected, Owned, MessageInv, UNCHANGED held, NEW r \in Reqs, Read(r)
  PROVE  MessageInv'
  <1>1. /\ req[r] = "read" /\ req'[r] = "push" /\ UNCHANGED <<pool, conn>>
        /\ \A q \in Reqs : q # r => req'[q] = req[q]
    BY GoesOn DEF Read
  <1>2. Using(r)
    BY <1>1 DEF Using
  <1>3. PICK c \in Conns : c = conn[r]
    BY <1>2 DEF Connected
  <1>4. ReadResponse(c)
    BY <1>3 DEF Read
  <1>5. \A d \in Conns : d # c => MovesOn(d)
    <2>1. \A d \in Conns : d # c => UNCHANGED <<cend[d], up[d], down[d], held[d]>>
      BY <1>4 DEF ReadResponse, TypeOK, LinksTypeOK
    <2> QED
      BY <2>1, Untouched DEF MessageInv, Singles
  <1>6. Empty(c)'
    <2>1. PICK q \in Reqs : up[c] = <<>> /\ down[c] = <<q>> /\ held[c] = {}
      BY <1>4 DEF ReadResponse, MessageInv, Singles, Single, Empty
    <2>2. down'[c] = Tail(<<q>>)
      BY <1>4, <2>1 DEF ReadResponse, TypeOK, LinksTypeOK
    <2> QED
      BY <1>4, <2>1, <2>2 DEF ReadResponse, Empty
  <1>7. Single(c)' /\ \A q \in Reqs : ~InTransit(c, q)'
    BY <1>6 DEF Single, Empty, InTransit
  <1> QED
    BY <1>1, <1>2, <1>3, <1>5, <1>6, <1>7, OwnMessages

LEMMA EOFMessages ==
  ASSUME TypeOK, Connected, Owned, MessageInv, UNCHANGED held, NEW r \in Reqs,
         ReadEOF(r) \/ ReadError(r)
  PROVE  MessageInv'
  <1>1. /\ req[r] = "read" /\ req'[r] = "done" /\ UNCHANGED <<pool, conn>>
        /\ \A q \in Reqs : q # r => req'[q] = req[q]
    BY GoesOn DEF ReadEOF, ReadError
  <1>2. Using(r)
    BY <1>1 DEF Using
  <1>3. PICK c \in Conns : c = conn[r]
    BY <1>2 DEF Connected
  <1>4. cend'[c] = "closed" /\ \A d \in Conns : MovesOn(d)
    <2>1. CASE ReadEOF(r)
      <3>1. CloseClientEnds({c}) /\ {c} \in SUBSET Conns
        BY <1>3, <2>1 DEF ReadEOF
      <3>2. cend'[c] = "closed"
        BY <3>1 DEF CloseClientEnds
      <3> QED
        BY <3>1, <3>2, ClosedMovesOn DEF MessageInv
    <2>2. CASE ReadError(r)
      BY <2>2, ExitMovesOn, ExitCloses DEF ReadError, MessageInv
    <2> QED
      BY <2>1, <2>2
  <1> QED
    BY <1>1, <1>2, <1>3, <1>4, OwnMessages DEF MovesOn

\* The server moves a message from one place to the next.
LEMMA ServerMovesOn ==
  ASSUME TypeOK, MessageInv, BenchMain
  PROVE  \A c \in Conns : MovesOn(c)
  <1> USE DEF TypeOK, LinksTypeOK, ServerTypeOK
  <1>0. \A c \in Conns : Single(c)
    BY DEF MessageInv, Singles
  <1>1. CASE UNCHANGED <<cend, up, down, held>>
    BY <1>0, <1>1, Untouched
  <1>2. ASSUME NEW c \in Conns, HandlerRead(c) PROVE \A d \in Conns : MovesOn(d)
    <2>1. \A d \in Conns : d # c => UNCHANGED <<cend[d], up[d], down[d], held[d]>>
      BY <1>2 DEF HandlerRead, ReadRequest
    <2>2. PICK r \in Reqs : up[c] = <<r>> /\ down[c] = <<>> /\ held[c] = {}
      <3>1. up[c] # <<>>
        BY <1>2 DEF HandlerRead, ReadRequest
      <3> QED
        BY <1>0, <3>1 DEF Single, Empty
    <2>3. Tail(<<r>>) = <<>> /\ Head(<<r>>) = r
      OBVIOUS
    <2>4. up'[c] = <<>> /\ down'[c] = <<>> /\ held'[c] = {r} /\ UNCHANGED cend
      BY <1>2, <2>2, <2>3 DEF HandlerRead, ReadRequest
    <2>5. MovesOn(c)
      BY <2>2, <2>4 DEF MovesOn, Single, Empty, InTransit
    <2> QED
      BY <1>0, <2>1, <2>5, Untouched
  <1>3. ASSUME NEW c \in Conns, HandlerRespond(c) PROVE \A d \in Conns : MovesOn(d)
    <2>1. PICK r \in held[c] : WriteResponse(c, r) /\ held' = [held EXCEPT ![c] = {}]
      BY <1>3 DEF HandlerRespond
    <2>2. \A d \in Conns : d # c => UNCHANGED <<cend[d], up[d], down[d], held[d]>>
      BY <2>1 DEF WriteResponse
    <2>3. r \in Reqs /\ up[c] = <<>> /\ down[c] = <<>> /\ held[c] = {r}
      BY <1>0, <2>1 DEF Single, Empty
    <2>4. /\ down' = down \/ down' = [down EXCEPT ![c] = Append(down[c], r)]
          /\ Append(<<>>, r) = <<r>> /\ UNCHANGED <<cend, up>>
      BY <2>1 DEF WriteResponse
    <2>5. up'[c] = <<>> /\ (down'[c] = <<>> \/ down'[c] = <<r>>) /\ held'[c] = {}
      BY <2>1, <2>3, <2>4
    <2>6. MovesOn(c)
      <3>1. Single(c)' /\ ~Empty(c)
        BY <2>3, <2>5 DEF Single, Empty
      <3>2. \A q \in Reqs : InTransit(c, q)' => q \in held[c]
        <4>1. \A q \in Reqs : <<r>> = <<q>> => q \in held[c]
          BY <2>3
        <4>2. \A q \in Reqs : <<>> # <<q>>
          OBVIOUS
        <4> QED
          BY <2>5, <4>1, <4>2 DEF InTransit
      <3> QED
        BY <2>4, <3>1, <3>2 DEF MovesOn, InTransit
    <2> QED
      BY <1>0, <2>2, <2>6, Untouched
  <1>4. ASSUME NEW S \in SUBSET Conns, CloseServerEnds(S), UNCHANGED held
        PROVE  \A d \in Conns : MovesOn(d)
    <2>1. \A d \in Conns : up'[d] = up[d] \/ up'[d] = <<>>
      BY <1>4 DEF CloseServerEnds
    <2> QED
      BY <1>0, <1>4, <2>1 DEF CloseServerEnds, MovesOn, Single, Empty, InTransit
  <1>5. CASE \E x : ServerExits(x) /\ UNCHANGED held
    <2>1. {c \in Conns : send[c] # "closed"} \in SUBSET Conns
      OBVIOUS
    <2> QED
      BY <1>4, <1>5, <2>1 DEF ServerExits
  <1>6. ASSUME NEW c \in Conns, HandlerEOF(c) PROVE \A d \in Conns : MovesOn(d)
    BY <1>4, <1>6 DEF HandlerEOF
  <1>7. ASSUME NEW c \in Conns, Accept(c) \/ HandlerError(c) PROVE \A d \in Conns : MovesOn(d)
    BY <1>1, <1>5, <1>7 DEF Accept, HandlerError
  <1>8. CASE AcceptFails \/ Timer
    BY <1>1, <1>5, <1>8 DEF AcceptFails, Timer, TimerFires, CloseStdin, Reap
  <1> QED
    BY <1>2, <1>3, <1>6, <1>7, <1>8 DEF BenchMain, Handler

\* Only Dial gives a connection to the server, and only an open one.
LEMMA ClientSends ==
  ASSUME Next, UNCHANGED serverVars, ~UNCHANGED vars, ~BenchMain
  PROVE  UNCHANGED <<sproc, send>> \/ \E r \in Reqs : Dial(r)
  <1>1. ASSUME NEW s \in Shards, Shard(s) PROVE UNCHANGED <<sproc, send>>
    BY <1>1 DEF Shard, AddShard, SelectStop, SelectTimer, ShardDone, StartRequest, Add,
                ClientExits, CloseClientEnds
  <1>2. ASSUME NEW r \in Reqs, SendOneRequest(r), ~Dial(r) PROVE UNCHANGED <<sproc, send>>
    BY <1>2 DEF SendOneRequest, Take, DialFails, Write, Read, ReadEOF, ReadError, Push, Done,
                Add, ClientExits, CloseClientEnds, WriteRequest, ReadResponse
  <1>3. ASSUME WatchStdin PROVE UNCHANGED <<sproc, send>>
    BY <1>3 DEF WatchStdin, StdinEOF, WaitAll, WakeAll, RangeConns, CloseNext, Report, Exit,
                ClientExits, CloseClientEnds
  <1> QED
    BY <1>1, <1>2, <1>3, ClientStep

LEMMA ServedStep ==
  ASSUME TypeOK, Served, [Next]_vars
  PROVE  Served'
  <1> USE DEF TypeOK, LinksTypeOK, ServerTypeOK
  <1>1. CASE UNCHANGED <<sproc, send, held>>
    BY <1>1 DEF Served
  <1>2. CASE BenchMain
    <2>1. ASSUME NEW c \in Conns, Accept(c) PROVE Served'
      BY <2>1 DEF Accept, Served
    <2>2. ASSUME NEW c \in Conns, HandlerRead(c) PROVE Served'
      BY <2>2 DEF HandlerRead, ReadRequest, Served
    <2>3. ASSUME NEW c \in Conns, HandlerRespond(c) PROVE Served'
      BY <2>3 DEF HandlerRespond, WriteResponse, Served
    <2>4. ASSUME NEW c \in Conns, HandlerEOF(c) PROVE Served'
      BY <2>4 DEF HandlerEOF, CloseServerEnds, Served
    <2>5. ASSUME NEW x, ServerExits(x), x # "running" PROVE Served'
      BY <2>5 DEF ServerExits, Served
    <2>6. ASSUME NEW c \in Conns, HandlerError(c) PROVE Served'
      BY <2>5, <2>6 DEF HandlerError
    <2>7. CASE AcceptFails \/ Reap
      BY <2>5, <2>7 DEF AcceptFails, Reap
    <2>8. CASE TimerFires \/ CloseStdin
      BY <1>1, <2>5, <2>8 DEF TimerFires, CloseStdin
    <2> QED
      BY <1>2, <2>1, <2>2, <2>3, <2>4, <2>6, <2>7, <2>8 DEF BenchMain, Handler, Timer
  <1>3. ASSUME NEW r \in Reqs, Dial(r), UNCHANGED serverVars PROVE Served'
    <2>1. PICK c \in Conns : Connect(c)
      BY <1>3 DEF Dial
    <2> QED
      BY <1>3, <2>1 DEF Dial, Connect, Free, Served
  <1> QED
    BY <1>1, <1>2, <1>3, ClientSends, ClientStep DEF vars

\* Shards and the watcher of stdin use no connection.
LEMMA OthersUse ==
  ASSUME TypeOK, Connected, Owned, Kept, MessageInv, UNCHANGED held,
         (\E s \in Shards : Shard(s)) \/ WatchStdin
  PROVE  Owned' /\ Kept' /\ MessageInv'
  <1>1. UNCHANGED <<pool, conn>>
    BY DEF Shard, AddShard, SelectStop, SelectTimer, ShardDone, StartRequest,
           WatchStdin, StdinEOF, WaitAll, WakeAll, RangeConns, CloseNext, Report, Exit
  <1>2. \A q \in Reqs : req'[q] = req[q] \/ (req[q] = "idle" /\ req'[q] = "take")
    <2>1. UNCHANGED req \/ \E r \in Reqs : Goes(r, "idle", "take")
      BY DEF Shard, AddShard, SelectStop, SelectTimer, ShardDone, StartRequest,
             WatchStdin, StdinEOF, WaitAll, WakeAll, RangeConns, CloseNext, Report, Exit
    <2> QED
      BY <2>1, GoesOn
  <1>3. /\ \A c \in Conns : cend'[c] = "open" => cend[c] = "open"
        /\ \A c \in Conns : MovesOn(c)
    <2>1. CASE UNCHANGED netVars
      BY <2>1, NetMovesOn DEF MessageInv
    <2>2. CASE \E x : ClientExits(x)
      BY <2>2, ExitMovesOn, ExitCloses DEF MessageInv
    <2>3. CASE CloseNext
      <3>1. {ranged[nclosed + 1]} \in SUBSET Conns
        BY <2>3 DEF CloseNext, TypeOK, ClientTypeOK
      <3>2. CloseClientEnds({ranged[nclosed + 1]})
        BY <2>3 DEF CloseNext
      <3>3. \A c \in Conns : MovesOn(c)
        BY <3>1, <3>2, ClosedMovesOn DEF MessageInv
      <3> QED
        BY <3>2, <3>3 DEF CloseClientEnds
    <2> QED
      BY <2>1, <2>2, <2>3
         DEF Shard, AddShard, SelectStop, SelectTimer, ShardDone, StartRequest, Add,
             WatchStdin, StdinEOF, WaitAll, WakeAll, RangeConns, CloseNext, Report, Exit
  <1>4. \A q \in Reqs : (Using(q)' <=> Using(q)) /\ conn'[q] = conn[q]
    BY <1>1, <1>2 DEF Using
  <1> QED
    BY <1>1, <1>2, <1>3, <1>4, OwnersStay, MessagesStay

LEMMA UseStep ==
  ASSUME TypeOK, Connected, UseInv, [Next]_vars
  PROVE  UseInv'
  <1> USE DEF UseInv
  <1>1. CASE UNCHANGED clientVars /\ UNCHANGED cend /\ \A c \in Conns : MovesOn(c)
    <2>1. \A q \in Reqs : (Using(q)' <=> Using(q)) /\ conn'[q] = conn[q] /\ req'[q] = req[q]
      BY <1>1 DEF Using
    <2> QED
      BY <1>1, <2>1, OwnersStay, MessagesStay, ServedStep
  <1>2. CASE UNCHANGED vars
    BY <1>1, <1>2, NetMovesOn DEF vars, MessageInv
  <1>3. CASE BenchMain /\ UNCHANGED clientVars
    <2>1. UNCHANGED cend
      BY <1>3 DEF BenchMain, Accept, Handler, HandlerRead, HandlerRespond, HandlerEOF, HandlerError,
                  AcceptFails, Timer, TimerFires, CloseStdin, Reap, ServerExits, CloseServerEnds,
                  ReadRequest, WriteResponse
    <2> QED
      BY <1>1, <1>3, <2>1, ServerMovesOn
  <1>4. ASSUME NEW r \in Reqs, SendOneRequest(r), UNCHANGED serverVars PROVE UseInv'
    <2>1. Owned' /\ Kept'
      BY <1>4, RequestOwns
    <2>2. MessageInv'
      BY <1>4, TakeMessages, EndMessages, DialMessages, WriteMessages, ReadMessages, EOFMessages
         DEF SendOneRequest
    <2> QED
      BY <2>1, <2>2, ServedStep
  <1> QED
    BY <1>2, <1>3, <1>4, OthersUse, ServedStep, ClientStep

LEMMA UseInvariant == Spec => [](DrainInv /\ UseInv)
  <1>1. Init => UseInv
    <2> SUFFICES ASSUME Init PROVE UseInv
      OBVIOUS
    <2> USE DEF Init, LinksInit, ClientInit, ServerInit
    <2>1. Elements(pool) = {} /\ \A r \in Reqs : ~Using(r)
      BY DEF Elements, Using
    <2>2. \A c \in Conns : Empty(c) /\ cend[c] = "closed"
      BY DEF Empty
    <2>3. Distinct(pool)
      BY DEF Distinct
    <2> QED
      BY <2>1, <2>2, <2>3
         DEF UseInv, Owned, Kept, MessageInv, Singles, Single, Awaited, Unused, Served, Using, Empty
  <1>2. DrainInv /\ UseInv /\ [Next]_vars => UseInv'
    BY UseStep DEF DrainInv
  <1> QED
    BY <1>1, <1>2, DrainInvariant, PTL DEF Spec

(***************************************************************************)
(* A connection in the pool of rpc.go is there once, no request uses it,   *)
(* and nothing is in transit on it.                                        *)
(***************************************************************************)
THEOREM PooledIdle == Spec => []PoolIsIdle
  <1>1. DrainInv /\ UseInv => PoolIsIdle
    <2> SUFFICES ASSUME DrainInv, UseInv, NEW i \in 1..Len(pool)
                 PROVE  /\ \A j \in 1..Len(pool) : pool[i] = pool[j] => i = j
                        /\ Users(pool[i]) = {}
                        /\ Outstanding(pool[i]) = 0
      BY DEF PoolIsIdle
    <2>1. pool[i] \in Elements(pool)
      BY DEF Elements
    <2>2. Users(pool[i]) = {}
      BY <2>1 DEF UseInv, Owned, Users, Using
    <2>3. up[pool[i]] = <<>> /\ down[pool[i]] = <<>> /\ held[pool[i]] = {}
      BY <2>1 DEF UseInv, MessageInv, Unused, Empty
    <2>4. Outstanding(pool[i]) = 0
      BY <2>3 DEF Outstanding
    <2> QED
      BY <2>2, <2>4 DEF UseInv, Owned, Distinct
  <1> QED
    BY <1>1, UseInvariant, PTL

(***************************************************************************)
(* A connection carries at most one request or answer, that of the request *)
(* reading from it: no answer meets another request, and the handler's     *)
(* JSON decoder has no following header to swallow.                        *)
(***************************************************************************)
THEOREM OneAtATime == Spec => []OneOutstanding
  <1>1. UseInv => OneOutstanding
    <2> SUFFICES ASSUME UseInv, NEW c \in Conns
                 PROVE  /\ Outstanding(c) <= 1
                        /\ \A r \in Reqs :
                             (<<r>> \in {up[c], down[c]} \/ r \in held[c]) /\ cend[c] = "open"
                               => conn[r] = c /\ req[r] = "read"
      BY DEF OneOutstanding
    <2>1. Single(c)
      BY DEF UseInv, MessageInv, Singles
    <2>2. Outstanding(c) <= 1
      <3>1. CASE Empty(c)
        <4>1. Outstanding(c) = 0
          BY <3>1 DEF Empty, Outstanding
        <4> QED
          BY <4>1
      <3>2. ASSUME NEW r \in Reqs, up[c] = <<r>>, down[c] = <<>>, held[c] = {}
            PROVE  Outstanding(c) = 1
        BY <3>2 DEF Outstanding
      <3>3. ASSUME NEW r \in Reqs, up[c] = <<>>, down[c] = <<r>>, held[c] = {}
            PROVE  Outstanding(c) = 1
        BY <3>3 DEF Outstanding
      <3>4. ASSUME NEW r \in Reqs, up[c] = <<>>, down[c] = <<>>, held[c] = {r}
            PROVE  Outstanding(c) = 1
        <4>1. held[c] # {}
          BY <3>4
        <4> QED
          BY <3>4, <4>1 DEF Outstanding
      <3> QED
        BY <2>1, <3>1, <3>2, <3>3, <3>4 DEF Single
    <2>3. \A r \in Reqs : <<r>> \in {up[c], down[c]} \/ r \in held[c] => InTransit(c, r)
      BY DEF InTransit
    <2> QED
      BY <2>2, <2>3 DEF UseInv, MessageInv, Awaited
  <1> QED
    BY <1>1, UseInvariant, PTL

-----------------------------------------------------------------------------
(* The shutdown. *)

\* A late shutdown stays one.
LEMMA StaysPrompt ==
  ASSUME DrainInv, [Next]_vars, prompt'
  PROVE  prompt
  <1>1. CASE UNCHANGED prompt
    BY <1>1
  <1>2. CASE WatchStdin
    BY <1>1, <1>2 DEF WatchStdin, StdinEOF, WaitAll, WakeAll, RangeConns, CloseNext, Report, Exit,
                      StdinGoes, DrainInv, Drained
  <1> QED
    BY <1>1, <1>2, ClientStep, ShardKeeps, RequestKeeps DEF vars

\* A client that runs has a server that runs, and sound connections.
LEMMA RunsIntact ==
  ASSUME Clean, prompt, ~Breaks, cproc = "running"
  PROVE  sproc = "running" /\ Intact
  BY DEF Clean, Breaks

\* A client that goes on, on connections that stay sound.
LEMMA CleanStays ==
  ASSUME Clean, cproc = "running", UNCHANGED <<cproc, sproc, prompt>>,
         prompt /\ sproc = "running" /\ Intact => Intact'
  PROVE  Clean'
  BY RunsIntact DEF Clean, Breaks

LEMMA ClosesIntact ==
  ASSUME TypeOK, Intact, NEW S \in SUBSET Conns, CloseClientEnds(S), UNCHANGED held,
         \A c \in S : Empty(c)
  PROVE  Intact'
  <1>1. \A c \in Conns : cend'[c] = "open" => cend[c] = "open"
    BY DEF CloseClientEnds
  <1>2. \A c \in Conns : Empty(c) => Empty(c)'
    BY DEF CloseClientEnds, Empty
  <1>3. \A c \in Conns : cend'[c] = "closed" => Empty(c)
    BY DEF CloseClientEnds, Intact
  <1>4. reset' = {}
    BY DEF CloseClientEnds, Intact, Empty
  <1> QED
    BY <1>1, <1>2, <1>3, <1>4 DEF CloseClientEnds, Intact

LEMMA ServerIntact ==
  ASSUME TypeOK, Intact, BenchMain, sproc' = "running"
  PROVE  Intact'
  <1> USE DEF TypeOK, LinksTypeOK, ServerTypeOK
  <1>1. CASE UNCHANGED netVars /\ UNCHANGED held
    BY <1>1 DEF Intact, Empty
  <1>2. ASSUME NEW c \in Conns, Accept(c) PROVE Intact'
    BY <1>2 DEF Accept, Intact, Empty
  <1>3. ASSUME NEW c \in Conns, HandlerRead(c) PROVE Intact'
    <2>1. cend[c] = "open"
      BY <1>3 DEF HandlerRead, ReadRequest, Intact, Empty
    <2>2. UNCHANGED <<cend, send, reset>> /\ \A d \in Conns : d # c => Empty(d)' = Empty(d)
      BY <1>3 DEF HandlerRead, ReadRequest, Empty
    <2> QED
      BY <2>1, <2>2 DEF Intact
  <1>4. ASSUME NEW c \in Conns, HandlerRespond(c) PROVE Intact'
    <2>1. PICK r \in held[c] : WriteResponse(c, r) /\ held' = [held EXCEPT ![c] = {}]
      BY <1>4 DEF HandlerRespond
    <2>2. cend[c] = "open"
      BY <2>1 DEF Intact, Empty
    <2>3. UNCHANGED <<cend, send, reset>> /\ \A d \in Conns : d # c => Empty(d)' = Empty(d)
      BY <2>1, <2>2 DEF WriteResponse, Empty
    <2> QED
      BY <2>2, <2>3 DEF Intact
  <1>5. ASSUME NEW c \in Conns, HandlerEOF(c) PROVE Intact'
    <2>1. CloseServerEnds({c}) /\ send[c] = "open" /\ cend[c] = "closed" /\ up[c] = <<>>
          /\ UNCHANGED held
      BY <1>5 DEF HandlerEOF, ServerEOF
    <2>2. reset' = {}
      BY <2>1 DEF CloseServerEnds, Intact
    <2>3. \A d \in Conns : Empty(d) => Empty(d)'
      BY <2>1 DEF CloseServerEnds, Empty
    <2>4. \A d \in Conns : cend'[d] = cend[d] /\ (d # c => send'[d] = send[d])
      BY <2>1 DEF CloseServerEnds
    <2> QED
      BY <2>1, <2>2, <2>3, <2>4 DEF Intact
  <1>6. ASSUME NEW c \in Conns, HandlerError(c) PROVE Intact'
    BY <1>6 DEF HandlerError, ServerError, Intact
  <1>7. CASE TimerFires \/ CloseStdin
    BY <1>1, <1>7 DEF TimerFires, CloseStdin, ServerExits
  <1>8. ~AcceptFails /\ ~Reap
    BY DEF AcceptFails, Reap, ServerExits
  <1> QED
    BY <1>2, <1>3, <1>4, <1>5, <1>6, <1>7, <1>8 DEF BenchMain, Handler, Timer

LEMMA ServerCloses ==
  ASSUME TypeOK, CloseInv, BenchMain, UNCHANGED clientVars
  PROVE  CloseInv'
  <1>1. UNCHANGED <<cproc, cend>> /\ sproc = "running"
    BY DEF BenchMain, Accept, Handler, HandlerRead, HandlerRespond, HandlerEOF, HandlerError,
           AcceptFails, Timer, TimerFires, CloseStdin, Reap, ServerExits, CloseServerEnds,
           ReadRequest, WriteResponse
  <1>2. Closing'
    BY <1>1 DEF CloseInv, Closing
  <1>3. Usable'
    <2>1. \A r \in Reqs : Using(r)' <=> Using(r)
      BY DEF Using
    <2> QED
      BY <1>1, <2>1 DEF CloseInv, Usable
  <1>4. Clean'
    <2> SUFFICES ASSUME prompt, sproc' \notin {"refused", "panicked"}
                 PROVE  /\ cproc # "failed"
                        /\ sproc' = "running" \/ (sproc' = "exited" /\ cproc = "exited")
                        /\ sproc' = "running" => Intact'
      BY <1>1 DEF Clean, Breaks
    <2>1. cproc # "failed" /\ Intact
      BY <1>1 DEF CloseInv, Clean, Breaks
    <2>2. sproc' = "running" => Intact'
      BY <2>1, ServerIntact
    <2>3. sproc' = "running" \/ (sproc' = "exited" /\ cproc = "exited")
      <3>1. ASSUME NEW c \in Conns, HandlerError(c) PROVE FALSE
        BY <2>1, <3>1 DEF HandlerError, ServerError, Intact
      <3>2. CASE Reap
        BY <2>1, <3>2 DEF Reap, ServerExits, TypeOK, LinksTypeOK
      <3>3. CASE ~Reap
        BY <1>1, <3>1, <3>3
           DEF BenchMain, Accept, Handler, HandlerRead, HandlerRespond, HandlerEOF,
               AcceptFails, Timer, TimerFires, CloseStdin, ServerExits
      <3> QED
        BY <3>2, <3>3
    <2> QED
      BY <2>1, <2>2, <2>3
  <1> QED
    BY <1>2, <1>3, <1>4 DEF CloseInv

\* While shards or requests are left, the last loop has not begun.
LEMMA NotClosing ==
  ASSUME DrainInv, Keeps, UNCHANGED <<prompt, stdinPC>>, prompt
  PROVE  stdinPC \notin {"close", "report"} /\ Closing'
  BY DEF DrainInv, Drained, Keeps, Closing

LEMMA ShardCloses ==
  ASSUME DrainInv, CloseInv, prompt, cproc = "running", UNCHANGED held, NEW s \in Shards, Shard(s)
  PROVE  CloseInv'
  <1>1. Keeps /\ UNCHANGED <<procVars, netVars, stdinVars, conn, pool>>
    BY ShardKeeps
  <1>2. \A q \in Reqs : Using(q)' <=> Using(q)
    <2>1. UNCHANGED req \/ \E r \in Reqs : Goes(r, "idle", "take")
      BY DEF Shard, AddShard, SelectStop, SelectTimer, ShardDone, StartRequest
    <2> QED
      BY <2>1, GoesOn DEF Using, DrainInv
  <1>3. Usable'
    BY <1>1, <1>2 DEF CloseInv, Usable
  <1>4. Intact => Intact'
    BY <1>1 DEF Intact, Empty
  <1> QED
    BY <1>1, <1>3, <1>4, NotClosing, CleanStays DEF CloseInv

\* What is left to show of a request's step, and a failure of the client.
LEMMA RequestShows ==
  ASSUME DrainInv, UseInv, CloseInv, prompt, cproc = "running", NEW r \in Reqs, SendOneRequest(r)
  PROVE  /\ Closing' /\ UNCHANGED <<prompt, stdinPC>>
         /\ \A c \in Elements(pool) : cend[c] = "open"
         /\ \A q \in Reqs : Using(q) => conn[q] \in Conns /\ cend[conn[q]] = "open"
         /\ ~Breaks => sproc = "running" /\ Intact
         /\ UNCHANGED <<cproc, sproc>> /\ (Intact => Intact') /\ Usable' => CloseInv'
         /\ Breaks /\ ClientExits("failed") => CloseInv'
  <1>1. Keeps /\ UNCHANGED <<prompt, stdinPC>>
    BY RequestKeeps
  <1>2. stdinPC \notin {"close", "report"} /\ Closing'
    BY <1>1, NotClosing
  <1>3. /\ \A c \in Elements(pool) : cend[c] = "open"
        /\ \A q \in Reqs : Using(q) => conn[q] \in Conns /\ cend[conn[q]] = "open"
    BY <1>2 DEF CloseInv, Usable, DrainInv, Connected
  <1>4. ~Breaks => sproc = "running" /\ Intact
    BY RunsIntact DEF CloseInv
  <1>5. UNCHANGED <<cproc, sproc>> /\ (Intact => Intact') /\ Usable' => CloseInv'
    BY <1>1, <1>2, CleanStays DEF CloseInv
  <1>6. Breaks /\ ClientExits("failed") => CloseInv'
    BY <1>2 DEF ClientExits, CloseInv, Usable, Clean, Breaks
  <1> QED
    BY <1>1, <1>2, <1>3, <1>4, <1>5, <1>6

LEMMA RequestCloses ==
  ASSUME DrainInv, UseInv, CloseInv, prompt, cproc = "running", UNCHANGED held,
         NEW r \in Reqs, SendOneRequest(r)
  PROVE  CloseInv'
  <1>0. TypeOK
    BY DEF DrainInv
  <1>1. CASE Take(r)
    <2>1. UNCHANGED <<procVars, netVars>>
      BY <1>1 DEF Take
    <2>2. \A c \in Elements(pool') : c \in Elements(pool)
      <3>1. pool \in Seq(Conns)
        BY <1>0 DEF TypeOK, ClientTypeOK
      <3> QED
        BY <1>1, <3>1, PopLast DEF Take
    <2>3. \A q \in Reqs : Using(q)' => cend[conn'[q]] = "open"
      <3>1. CASE pool = <<>>
        <4>1. UNCHANGED conn /\ Goes(r, "take", "dial")
          BY <1>1, <3>1 DEF Take
        <4>2. \A q \in Reqs : Using(q)' <=> Using(q)
          BY <1>0, <4>1, GoesOn DEF Using
        <4> QED
          BY <4>1, <4>2, RequestShows
      <3>2. CASE pool # <<>>
        <4>1. pool \in Seq(Conns)
          BY <1>0 DEF TypeOK, ClientTypeOK
        <4>2. PICK c \in Elements(pool) : conn' = [conn EXCEPT ![r] = c]
          BY <1>1, <3>2, <4>1, PopLast DEF Take
        <4>3. conn'[r] = c /\ \A q \in Reqs : q # r => conn'[q] = conn[q]
          BY <1>0, <4>2, SetsConn
        <4>4. \A q \in Reqs : q # r => req'[q] = req[q]
          BY <1>0, <1>1, <3>2, GoesOn DEF Take
        <4> QED
          BY <4>3, <4>4, RequestShows DEF Using
      <3> QED
        BY <3>1, <3>2
    <2>4. Usable'
      BY <2>1, <2>2, <2>3, RequestShows DEF Usable
    <2>5. Intact => Intact'
      BY <2>1 DEF Intact, Empty
    <2> QED
      BY <2>1, <2>4, <2>5, RequestShows
  <1>2. CASE Dial(r)
    <2>1. PICK c \in Conns \ (Pooled \cup Ranged \cup {conn[q] : q \in Reqs}) :
            Connect(c) /\ conn' = [conn EXCEPT ![r] = c]
      BY <1>2 DEF Dial
    <2>2. UNCHANGED <<procVars, pool>> /\ Goes(r, "dial", "write") /\ sproc = "running"
      BY <1>2 DEF Dial
    <2>3. cend'[c] = "open" /\ \A d \in Conns : cend[d] = "open" => cend'[d] = "open"
      BY <1>0, <2>1 DEF Connect, TypeOK, LinksTypeOK
    <2>4. \A q \in Reqs : Using(q)' => cend'[conn'[q]] = "open"
      <3>1. conn'[r] = c /\ \A q \in Reqs : q # r => conn'[q] = conn[q]
        BY <1>0, <2>1, SetsConn
      <3>2. \A q \in Reqs : q # r => req'[q] = req[q]
        BY <1>0, <2>2, GoesOn
      <3> QED
        BY <2>3, <3>1, <3>2, RequestShows DEF Using
    <2>5. Usable'
      <3>1. \A d \in Elements(pool) : d \in Conns
        BY <1>0 DEF TypeOK, ClientTypeOK, Elements
      <3> QED
        BY <2>2, <2>3, <2>4, <3>1, RequestShows DEF Usable
    <2>6. Intact => Intact'
      <3>1. \A d \in Conns : d # c => UNCHANGED <<cend[d], send[d], up[d], down[d], held[d]>>
        BY <1>0, <2>1 DEF Connect, TypeOK, LinksTypeOK
      <3>2. send'[c] = "backlog" /\ reset' = reset \ {c}
        BY <1>0, <2>1 DEF Connect, TypeOK, LinksTypeOK
      <3>3. \A d \in Conns : d # c /\ Empty(d) => Empty(d)'
        BY <3>1 DEF Empty
      <3> QED
        BY <2>3, <3>1, <3>2, <3>3 DEF Intact
    <2> QED
      BY <2>2, <2>5, <2>6, RequestShows
  <1>3. CASE DialFails(r) \/ Push(r) \/ Done(r)
    <2>1. UNCHANGED <<procVars, netVars>>
      BY <1>3, DoneReturns DEF DialFails, Push
    <2>2. \A q \in Reqs : Using(q)' => Using(q) /\ conn'[q] = conn[q]
      <3>1. ~Using(r)' /\ \A q \in Reqs : q # r => (Using(q)' <=> Using(q))
        <4>1. /\ req'[r] \in {"done", "idle"}
              /\ \A q \in Reqs : q # r => req'[q] = req[q]
          BY <1>0, <1>3, GoesOn DEF DialFails, Push, Done
        <4> QED
          BY <4>1 DEF Using
      <3>2. \A q \in Reqs : q # r => conn'[q] = conn[q]
        BY <1>0, <1>3, SetsConn DEF DialFails, Push, Done
      <3> QED
        BY <3>1, <3>2
    <2>3. \A c \in Elements(pool') : cend[c] = "open"
      <3>1. CASE UNCHANGED pool
        BY <3>1, RequestShows
      <3>2. CASE Push(r)
        <4>1. Using(r)
          BY <1>0, <3>2, GoesOn DEF Push, Using
        <4>2. PICK c \in Conns : c = conn[r] /\ cend[c] = "open"
          BY <4>1, RequestShows
        <4>3. PICK p : p = Append(pool, c) /\ p = pool'
          BY <3>2, <4>2 DEF Push
        <4>4. pool \in Seq(Conns)
          BY <1>0 DEF TypeOK, ClientTypeOK
        <4>5. Elements(p) = Elements(pool) \cup {c}
          BY <4>3, <4>4, AppendOne
        <4> QED
          BY <4>2, <4>3, <4>5, RequestShows
      <3> QED
        BY <1>3, <3>1, <3>2 DEF DialFails, Done
    <2>4. Usable'
      BY <2>1, <2>2, <2>3, RequestShows DEF Usable
    <2>5. Intact => Intact'
      BY <2>1 DEF Intact, Empty
    <2> QED
      BY <2>1, <2>4, <2>5, RequestShows
  <1>4. CASE Write(r)
    <2>1. PICK c \in Conns : c = conn[r] /\ cend[c] = "open"
      BY <1>0, <1>4, GoesOn, RequestShows DEF Write, Using
    <2>2. CASE ClientError(c)
      <3>1. ClientExits("failed")
        BY <1>4, <2>1, <2>2 DEF Write
      <3>2. Breaks
        BY <2>1, <2>2, RequestShows DEF ClientError, Intact
      <3> QED
        BY <3>1, <3>2, RequestShows
    <2>3. CASE ~ClientError(c)
      <3>1. WriteRequest(c, r) /\ UNCHANGED <<procVars, pool, conn>>
        BY <1>4, <2>1, <2>3 DEF Write
      <3>2. \A q \in Reqs : Using(q)' <=> Using(q)
        BY <1>0, <1>4, GoesOn DEF Write, Using
      <3>3. Usable'
        BY <3>1, <3>2, RequestShows DEF WriteRequest, Usable
      <3>4. Intact => Intact'
        <4>1. \A d \in Conns : d # c => UNCHANGED <<up[d], down[d], held[d]>>
          BY <1>0, <3>1 DEF WriteRequest, TypeOK, LinksTypeOK
        <4>2. \A d \in Conns : d # c /\ Empty(d) => Empty(d)'
          BY <4>1 DEF Empty
        <4>3. UNCHANGED <<cend, send>> /\ (send[c] # "closed" => UNCHANGED reset)
          BY <3>1 DEF WriteRequest
        <4> QED
          BY <2>1, <4>2, <4>3 DEF Intact
      <3> QED
        BY <3>1, <3>3, <3>4, RequestShows
    <2> QED
      BY <2>2, <2>3
  <1>5. CASE Read(r)
    <2>1. PICK c \in Conns : c = conn[r] /\ cend[c] = "open"
      BY <1>0, <1>5, GoesOn, RequestShows DEF Read, Using
    <2>2. ReadResponse(c) /\ UNCHANGED <<procVars, pool, conn>>
      BY <1>5, <2>1 DEF Read
    <2>3. \A q \in Reqs : Using(q)' <=> Using(q)
      BY <1>0, <1>5, GoesOn DEF Read, Using
    <2>4. Usable'
      BY <2>2, <2>3, RequestShows DEF ReadResponse, Usable
    <2>5. Intact => Intact'
      <3>1. \A d \in Conns : d # c => UNCHANGED <<up[d], down[d], held[d]>>
        BY <1>0, <2>2 DEF ReadResponse, TypeOK, LinksTypeOK
      <3>2. \A d \in Conns : d # c /\ Empty(d) => Empty(d)'
        BY <3>1 DEF Empty
      <3> QED
        BY <2>1, <2>2, <3>2 DEF ReadResponse, Intact
    <2> QED
      BY <2>2, <2>4, <2>5, RequestShows
  <1>6. CASE ReadEOF(r) \/ ReadError(r)
    <2>1. Using(r)
      BY <1>0, <1>6, GoesOn DEF ReadEOF, ReadError, Using
    <2>2. PICK c \in Conns : c = conn[r] /\ cend[c] = "open"
      BY <2>1, RequestShows
    <2>3. Breaks
      BY <1>6, <2>2, RequestShows DEF ReadEOF, ReadError, ClientEOF, ClientError, Intact
    <2>4. CASE ReadError(r)
      BY <2>3, <2>4, RequestShows DEF ReadError
    <2>5. CASE ReadEOF(r)
      <3>1. CloseClientEnds({c}) /\ UNCHANGED <<procVars, pool, conn>>
        BY <2>2, <2>5 DEF ReadEOF
      <3>2. \A d \in Conns : d # c => cend'[d] = cend[d]
        BY <3>1 DEF CloseClientEnds
      <3>3. \A d \in Elements(pool) : d \in Conns /\ d # c
        BY <1>0, <2>1, <2>2 DEF UseInv, Owned, TypeOK, ClientTypeOK, Elements
      <3>4. \A q \in Reqs : Using(q)' => Using(q) /\ q # r
        BY <1>0, <2>5, GoesOn DEF ReadEOF, Using
      <3>5. \A q \in Reqs : Using(q) /\ q # r => conn[q] # c
        BY <2>1, <2>2 DEF UseInv, Owned
      <3>6. Usable'
        BY <3>1, <3>2, <3>3, <3>4, <3>5, RequestShows DEF Usable
      <3> QED
        BY <2>3, <3>1, <3>6, RequestShows DEF CloseInv, Clean, Breaks
    <2> QED
      BY <1>6, <2>4, <2>5
  <1> QED
    BY <1>1, <1>2, <1>3, <1>4, <1>5, <1>6 DEF SendOneRequest

\* A client that passed wg.Wait has all its open connections in the pool.
LEMMA AllPooled ==
  ASSUME DrainInv, UseInv, Quiet
  PROVE  \A c \in Conns : cend[c] = "open" => c \in Elements(pool)
  BY DEF UseInv, Kept, Quiet, Using

LEMMA WatchCloses ==
  ASSUME DrainInv, UseInv, CloseInv, prompt, prompt', cproc = "running", UNCHANGED held, WatchStdin
  PROVE  CloseInv'
  <1> USE DEF StdinGoes
  <1>0. TypeOK /\ UNCHANGED <<req, conn, pool>>
    BY WatchKeeps DEF DrainInv
  <1>1. \A q \in Reqs : Using(q)' <=> Using(q)
    BY <1>0 DEF Using
  <1>2. stdinPC \in {"range", "close", "report"} => Quiet
    BY DEF DrainInv, Drained
  <1>3. CASE StdinEOF \/ WaitAll \/ WakeAll
    <2>1. UNCHANGED <<procVars, netVars>>
      BY <1>3, WakeReturns DEF StdinEOF, WaitAll
    <2>2. Closing'
      BY <1>3 DEF StdinEOF, WaitAll, WakeAll, Closing
    <2>3. Usable'
      BY <1>0, <1>1, <1>3, <2>1 DEF StdinEOF, WaitAll, WakeAll, CloseInv, Usable
    <2>4. Intact => Intact'
      BY <2>1 DEF Intact, Empty
    <2> QED
      BY <2>1, <2>2, <2>3, <2>4, CleanStays DEF CloseInv
  <1>4. CASE RangeConns
    <2>1. UNCHANGED <<procVars, netVars>>
      BY <1>4 DEF RangeConns
    <2>2. Closing'
      BY <1>0, <1>4 DEF RangeConns, Closing
    <2>3. Usable'
      BY <1>0, <1>1, <1>4, <2>1 DEF RangeConns, CloseInv, Usable
    <2>4. Intact => Intact'
      BY <2>1 DEF Intact, Empty
    <2> QED
      BY <2>1, <2>2, <2>3, <2>4, CleanStays DEF CloseInv
  <1>5. CASE CloseNext
    <2>1. /\ ranged = pool /\ nclosed' = nclosed + 1 /\ nclosed < Len(pool) /\ UNCHANGED ranged
          /\ UNCHANGED <<procVars, stdinPC>> /\ stdinPC = "close" /\ Quiet
          /\ \A i \in 1..nclosed : cend[pool[i]] = "closed"
      BY <1>2, <1>5 DEF CloseNext, CloseInv, Closing
    <2>2. nclosed \in Nat /\ Len(pool) \in Nat /\ pool[nclosed + 1] \in Conns
      BY <1>0, <2>1 DEF TypeOK, ClientTypeOK
    <2>3. PICK c \in Conns : c = pool[nclosed + 1] /\ CloseClientEnds({c})
      BY <1>5, <2>1, <2>2 DEF CloseNext
    <2>4. c \in Elements(pool)
      BY <2>1, <2>2, <2>3 DEF Elements
    <2>5. \A i \in 1..(nclosed + 1) : i = nclosed + 1 \/ i \in 1..nclosed
      BY <2>2
    <2>6. \A i \in 1..nclosed : pool[i] \in Conns
      BY <1>0, <2>1, <2>2 DEF TypeOK, ClientTypeOK
    <2>7. cend'[c] = "closed" /\ \A d \in Conns : cend[d] = "closed" => cend'[d] = "closed"
      BY <2>3 DEF CloseClientEnds
    <2>8. Closing'
      <3>1. \A i \in 1..(nclosed + 1) : cend'[pool[i]] = "closed"
        BY <2>1, <2>3, <2>5, <2>6, <2>7
      <3> QED
        BY <1>0, <2>1, <3>1 DEF Closing
    <2>9. Usable'
      BY <1>1, <2>1 DEF Usable, Quiet, Using
    <2>10. Intact => Intact'
      BY <1>0, <2>3, <2>4, ClosesIntact DEF UseInv, MessageInv, Unused
    <2> QED
      BY <1>5, <2>1, <2>8, <2>9, <2>10, CleanStays DEF CloseInv
  <1>6. CASE Report
    <2>1. Quiet /\ Quiet' /\ UNCHANGED prompt
      BY <1>0, <1>2, <1>6 DEF Report, Quiet
    <2>2. CASE UNCHANGED <<procVars, netVars>>
      <3>1. Closing'
        BY <1>0, <1>6, <2>2 DEF Report, CloseInv, Closing
      <3>2. Usable'
        BY <1>1, <1>6, <2>1, <2>2 DEF Report, Usable, Quiet, Using
      <3>3. Intact => Intact'
        BY <2>2 DEF Intact, Empty
      <3> QED
        BY <2>1, <2>2, <3>1, <3>2, <3>3, CleanStays DEF CloseInv
    <2>3. CASE ClientExits("panicked")
      <3>1. \A c \in Conns : cend'[c] = "closed"
        BY <1>0, <2>3, ExitCloses
      <3>2. Closing'
        <4>1. \A i \in 1..nclosed : ranged[i] \in Conns
          BY <1>0 DEF TypeOK, ClientTypeOK
        <4> QED
          BY <1>6, <3>1, <4>1 DEF Report, CloseInv, Closing
      <3>3. Usable'
        BY <2>3 DEF ClientExits, Usable
      <3>4. Intact => Intact'
        <4>1. \A c \in {d \in Conns : cend[d] = "open"} : Empty(c)
          BY <2>1, AllPooled DEF UseInv, MessageInv, Unused
        <4> QED
          BY <1>0, <2>3, <4>1, ClosesIntact DEF ClientExits
      <3>5. Clean'
        BY <2>1, <2>3, <3>4, RunsIntact DEF ClientExits, CloseInv, Clean, Breaks
      <3> QED
        BY <3>2, <3>3, <3>5 DEF CloseInv
    <2> QED
      BY <1>6, <2>2, <2>3 DEF Report
  <1>7. CASE Exit
    <2>1. ClientExits("exited") /\ UNCHANGED clientVars /\ Quiet
      BY <1>2, <1>7 DEF Exit
    <2>2. \A c \in Conns : cend'[c] = "closed"
      BY <1>0, <2>1, ExitCloses
    <2>3. Closing'
      <3>1. \A i \in 1..nclosed : ranged[i] \in Conns
        BY <1>0 DEF TypeOK, ClientTypeOK
      <3> QED
        BY <2>1, <2>2, <3>1 DEF CloseInv, Closing
    <2>4. Usable'
      BY <2>1 DEF ClientExits, Usable
    <2>5. Intact => Intact'
      <3>1. \A c \in {d \in Conns : cend[d] = "open"} : Empty(c)
        BY <2>1, AllPooled DEF UseInv, MessageInv, Unused
      <3> QED
        BY <1>0, <2>1, <3>1, ClosesIntact DEF ClientExits
    <2>6. Clean'
      BY <2>1, <2>5, RunsIntact DEF ClientExits, CloseInv, Clean, Breaks
    <2> QED
      BY <2>3, <2>4, <2>6 DEF CloseInv
  <1> QED
    BY <1>3, <1>4, <1>5, <1>6, <1>7 DEF WatchStdin

LEMMA CloseStep ==
  ASSUME DrainInv, UseInv, CloseInv, [Next]_vars
  PROVE  CloseInv'
  <1>1. CASE ~prompt'
    BY <1>1 DEF CloseInv, Closing, Usable, Clean
  <1>2. CASE prompt' /\ UNCHANGED vars
    <2>1. (\A q \in Reqs : Using(q)' <=> Using(q)) /\ (Intact => Intact')
      BY <1>2 DEF vars, Using, Intact, Empty
    <2> QED
      BY <1>2, <2>1 DEF vars, CloseInv, Closing, Usable, Clean, Breaks
  <1>3. CASE prompt' /\ ~UNCHANGED vars
    <2>1. prompt
      BY <1>3, StaysPrompt
    <2> QED
      BY <1>3, <2>1, ServerCloses, ShardCloses, RequestCloses, WatchCloses, ClientStep DEF DrainInv
  <1> QED
    BY <1>1, <1>2, <1>3

LEMMA CloseInvariant == Spec => [](DrainInv /\ UseInv /\ CloseInv)
  <1>1. Init => CloseInv
    <2> SUFFICES ASSUME Init PROVE CloseInv
      OBVIOUS
    <2> USE DEF Init, LinksInit, ClientInit, ServerInit
    <2>1. Elements(pool) = {} /\ \A r \in Reqs : ~Using(r)
      BY DEF Elements, Using
    <2>2. Intact
      BY DEF Intact, Empty
    <2> QED
      BY <2>1, <2>2 DEF CloseInv, Closing, Usable, Clean
  <1>2. DrainInv /\ UseInv /\ CloseInv /\ [Next]_vars => CloseInv'
    BY CloseStep
  <1> QED
    BY <1>1, <1>2, UseInvariant, PTL DEF Spec

(***************************************************************************)
(* When a client told to stop after its start reports, every connection it *)
(* ever dialled is closed: none is lost on a way out of sendOneRequest of  *)
(* rpc.go, or missed by the last loop over the pool.                       *)
(***************************************************************************)
THEOREM AllClosed == Spec => []NothingLeaked
  <1>1. DrainInv /\ UseInv /\ CloseInv => NothingLeaked
    <2> SUFFICES ASSUME DrainInv, UseInv, CloseInv, prompt, stdinPC = "report", NEW c \in Conns,
                        cend[c] # "closed"
                 PROVE  FALSE
      BY DEF NothingLeaked
    <2>1. Quiet
      BY DEF DrainInv, Drained
    <2>2. c \in Elements(pool)
      BY <2>1, AllPooled DEF DrainInv, TypeOK, LinksTypeOK
    <2>3. \A i \in 1..Len(pool) : cend[pool[i]] = "closed"
      BY DEF CloseInv, Closing
    <2> QED
      BY <2>2, <2>3 DEF Elements
  <1> QED
    BY <1>1, CloseInvariant, PTL

(***************************************************************************)
(* "Wait for stdin to close, then shut down cleanly" (rpc.go:186): begun   *)
(* after the client has started, a shutdown ends without an error on       *)
(* either side unless Accept fails in the server, or a report of the       *)
(* latencies panics (rpc.go:116, 203).                                     *)
(***************************************************************************)
THEOREM EndsCleanly == Spec => []StartedEndsCleanly
  <1>1. CloseInv => StartedEndsCleanly
    BY DEF CloseInv, Clean, Breaks, StartedEndsCleanly, ShutsDownCleanly
  <1> QED
    BY <1>1, CloseInvariant, PTL
=============================================================================
