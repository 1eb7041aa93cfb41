------------------------------- MODULE Runner -------------------------------
(***************************************************************************)
(* gcbench/main.go: a benchmark program runs itself again as a child with  *)
(* the trace of the garbage collector on, and turns the child's output     *)
(* into a line of benchmark results.                                       *)
(*                                                                         *)
(* In the child the goroutine that runs the script of benchMain, the       *)
(* collector and the writes of its trace interleave; os.Exit, and a panic, *)
(* stop them all between any two writes.                                   *)
(***************************************************************************)
EXTENDS Programs, GCTrace

CONSTANTS
    Running,        \* the programs to run, and how: pairs
    Cycles,         \* what a GC cycle may measure
    MinGCs,         \* what the LargeBSS benchmark wants at least
    Infinity        \* how +Inf is written, as a number

ASSUME RunnerAssumption ==
    /\ MinGCs \in Nat /\ Infinity \in Int
    /\ \A run \in Running : run[2] \in
         [godebug : BOOLEAN, lastWins : BOOLEAN, gcbench : {"unset", "empty", "other"},
          cpus : Nat \ {0}, phases : Nat, args : BOOLEAN,
          maxGCs : Nat]

\* A script that checks its cycles makes its GCChecker before, and ends after.
ChecksFirst(script) ==
    \A i, j \in DOMAIN script :
        script[i] = "check" => /\ script[j] = "checker" => j < i
                               /\ script[j] \in {"exit", "return"} => i < j

ASSUME ScriptAssumption ==
    \A run \in Running : /\ run = <<run[1], run[2]>>
                         /\ run[1].script \in Seq(STRING) \ {<<>>}
                         /\ ChecksFirst(run[1].script)

\* NewBenchmark gets a name that Parse takes for one and no number at its end,
\* Config a name of its own each time.
ASSUME NameAssumption ==
    \A run \in Running :
        LET name == run[1].name
            cfg == run[1].cfg
        IN  /\ name \in Seq(STRING \X Int) \ {<<>>}
            /\ name[1] \notin {None, Word("x")} /\ (Len(name) > 1 => ~IsInt(Last(name)))
            /\ cfg \in Seq([key : STRING \ {"", GOMAXPROCS}, raw : STRING \X Int])
            /\ \A i, j \in DOMAIN cfg : cfg[i].key = cfg[j].key => i = j

VARIABLES
    prog, user,     \* the program; environment, Go version, command line, and
                    \* a bound on the cycles that no call of runtime.GC starts
    pc,             \* of the parent
    ip,             \* of the child: position in the script, 0 when not running
    checker,        \* cycles there were when its GCChecker was made
    gcs, gp, call,  \* cycles begun, trace writes of the last, called by the script
    out, status,    \* output of the child, its exit status
    torn, cut,      \* ghosts: a write fell into a line; the exit cut one off
    trace,          \* the parsed trace, at most one
    measured,       \* what its cycles measured, forced ones apart
    result, closed, \* the parent's line of results, and is it ended?
    trailer,        \* the line after it
    failed, shown   \* was a failure reported; lines of the child passed on

setting == <<prog, user>>
child == <<ip, checker, gcs, gp, call, out, status, torn, cut>>
stdout == <<result, closed, trailer>>
report == <<trace, measured, stdout, failed, shown>>
vars == <<setting, pc, child, report>>

TypeOK ==
    /\ <<prog, user>> \in Running
    /\ pc \in {"main", "named", "running", "parse", "print", "trailer", "done",
               "usage", "silent", "forking"}
    /\ ip \in 0..Len(prog.script)
    /\ gcs \in Seq([called : BOOLEAN, forced : BOOLEAN])
    /\ checker \in 0..Len(gcs) /\ gp \in 0..6 /\ (gp > 0 => gcs # <<>>)
    /\ status \in 0..2
    /\ torn \in BOOLEAN /\ cut \in BOOLEAN /\ closed \in BOOLEAN /\ failed \in BOOLEAN
    /\ closed => pc \in {"trailer", "done"} /\ ~failed

Init ==
    /\ \E run \in Running : prog = run[1] /\ user = run[2]
    /\ pc = "main" /\ ip = 0
    /\ checker = 0 /\ gcs = <<>> /\ gp = 0 /\ call = FALSE
    /\ out = <<>> /\ status = 0
    /\ torn = FALSE /\ cut = FALSE
    /\ trace = {} /\ measured = <<>>
    /\ result = Blank /\ closed = FALSE /\ trailer = Blank
    /\ failed = FALSE /\ shown = {}

-----------------------------------------------------------------------------
(* The parent, up to the start of the child. *)

Goes(from, to) == pc = from /\ pc' = to

\* main parses the flags first, and exits when they are wrong.
Usage ==
    /\ prog.parses /\ ~user.args
    /\ Goes("main", "usage")
    /\ UNCHANGED <<setting, child, report>>

\* Another benchmark's GCBENCH: Run takes itself for a child, and exits.
Silent ==
    /\ prog.parses => user.args
    /\ user.gcbench = "other"
    /\ Goes("main", "silent")
    /\ UNCHANGED <<setting, child, report>>

\* Mutant of FullName: the short form even with a configuration.
FullNameShort ==
    LET procs == Num(1000 * user.cpus) IN
    [name |-> IF user.cpus = 1 THEN prog.name ELSE Append(prog.name, procs),
     parts |-> prog.cfg]

\* Name, configuration and GOMAXPROCS.
FullName ==
    LET procs == Num(1000 * user.cpus) IN
    [name |-> IF prog.cfg # <<>> \/ user.cpus = 1 THEN prog.name ELSE Append(prog.name, procs),
     parts |-> IF prog.cfg = <<>> \/ user.cpus = 1 THEN prog.cfg
               ELSE Append(prog.cfg, Part(GOMAXPROCS, procs))]

\* The name goes to standard output, the results will follow.
PrintName ==
    /\ prog.parses => user.args
    /\ user.gcbench # "other"
    /\ Goes("main", "named")
    /\ result' = BenchLine(FullName.name, FullName.parts, <<>>)
    /\ UNCHANGED <<setting, child, trace, measured, closed, trailer, failed, shown>>

(***************************************************************************)
(* The child's environment is GODEBUG and GCBENCH in front of the          *)
(* parent's.  Of a repeated variable it takes the last or, with an older   *)
(* os/exec, the first.                                                     *)
(***************************************************************************)
Tracing == ~(user.godebug /\ user.lastWins)

ChildIsParent == user.gcbench = "empty" /\ user.lastWins

\* "os.Getenv("GCBENCH")" is empty in the child as well: it forks again.
ForkAgain ==
    /\ ChildIsParent
    /\ Goes("named", "forking")
    /\ UNCHANGED <<setting, child, report>>

Fork ==
    /\ ~ChildIsParent
    /\ Goes("named", "running")
    /\ ip' = 1
    /\ UNCHANGED <<setting, checker, gcs, gp, call, out, status, torn, cut, report>>

-----------------------------------------------------------------------------
(* The child: writes, cycles, exits. *)

Alive == pc = "running" /\ ip > 0

Op == prog.script[ip]

Step == ip' = IF ip < Len(prog.script) THEN ip + 1 ELSE ip

\* The script writes lines of its own, perhaps into a line of the trace.
Writes(lines) ==
    /\ out' = out \o lines
    /\ torn' = (torn \/ gp > 1)

\* The child ends, and with it whatever it was about to write.
Exits(code) ==
    /\ ip' = 0
    /\ status' = code
    /\ cut' = (gp > 0)
    /\ UNCHANGED <<setting, pc, checker, gcs, gp, call, out, torn, report>>

\* -trace: "MAIN TRACE LIB", before benchMain; the file may not be created.
TraceFlag ==
    /\ Alive /\ ip = 1 /\ out = <<>> /\ gp = 0 /\ prog.parses
    /\ \/ out' = <<Write("text", 0)>>
          /\ UNCHANGED <<setting, pc, checker, ip, gcs, gp, call, status, torn, cut, report>>
       \/ Exits(1)

\* flag.Parse in benchMain: wrong flags end the child.
Flags ==
    /\ Alive /\ Op = "flags"
    /\ IF user.args THEN Step /\ UNCHANGED <<setting, pc, checker, gcs, gp, call, out, status, torn, cut, report>>
                    ELSE Exits(2)

Work ==
    /\ Alive /\ Op \notin {"flags", "gc", "text", "metric", "relay", "checker", "check", "exit", "return"}
    /\ Step
    /\ UNCHANGED <<setting, pc, checker, gcs, gp, call, out, status, torn, cut, report>>

\* NewGCChecker reads the number of cycles.
Checker ==
    /\ Alive /\ Op = "checker"
    /\ checker' = Len(gcs)
    /\ Step
    /\ UNCHANGED <<setting, pc, gcs, gp, call, out, status, torn, cut, report>>

Reported == {"text", "metric", "relay"}

WriteLine ==
    /\ Alive /\ Op \in Reported
    /\ Writes(IF Op = "relay"
              THEN <<Write("text", ip)>> \o [j \in 1..3 |-> Write("metric", 100 * j + ip)]
              ELSE <<Write(Op, ip)>>)
    /\ Step
    /\ UNCHANGED <<setting, pc, checker, gcs, gp, call, status, cut, report>>

\* Mutant of Check: the check only warns.
CheckSoft ==
    /\ Alive /\ Op = "check"
    /\ Step
    /\ UNCHANGED <<setting, pc, checker, gcs, gp, call, out, status, torn, cut, report>>

\* NumGCAtLeast: too few cycles are a failure.
Check ==
    /\ Alive /\ Op = "check"
    /\ IF Len(gcs) - checker < MinGCs THEN Exits(1)
       ELSE Step /\ UNCHANGED <<setting, pc, checker, gcs, gp, call, out, status, torn, cut, report>>

\* benchMain ends the process, or returns and Run does.
Exit ==
    /\ Alive /\ Op \in {"exit", "return"}
    /\ Exits(0)

\* A panic, a fatal error or a signal; whatever it prints is no line above.
Crash == Alive /\ Exits(2)

Background == Cardinality({i \in DOMAIN gcs : ~gcs[i].called}) < user.maxGCs

\* A cycle: the script's runtime.GC, the -stw loop's, or one in the background.
BeginGC(called) ==
    /\ Alive /\ gp = 0
    /\ IF called THEN Op = "gc" /\ ~call ELSE Background
    /\ gcs' = Append(gcs, [called |-> called,
                           forced |-> called \/ (prog.stw /\ Op # "gc" /\ ip > Len(Measure))])
    /\ gp' = IF Tracing THEN 1 ELSE 0
    /\ call' = (called /\ Tracing)
    /\ IF called /\ ~Tracing THEN Step ELSE UNCHANGED ip
    /\ UNCHANGED <<setting, pc, checker, out, status, torn, cut, report>>

TraceLine == TraceWrites(Len(gcs), Last(gcs).forced)

\* The next piece of the line of the trace; runtime.GC returns after the last.
WriteTrace ==
    /\ Alive /\ gp > 0
    /\ out' = Append(out, TraceLine[gp])
    /\ gp' = IF gp < Len(TraceLine) THEN gp + 1 ELSE 0
    /\ call' = (call /\ gp < Len(TraceLine))
    /\ IF call /\ gp = Len(TraceLine) THEN Step ELSE UNCHANGED ip
    /\ UNCHANGED <<setting, pc, checker, gcs, status, torn, cut, report>>

Script == Flags \/ Work \/ WriteLine \/ Checker \/ Check \/ Exit

-----------------------------------------------------------------------------
(* The parent, after the child. *)

Elapsed == Len(gcs) + 1

\* The metric lines of the output, by what reported them.
Extra == {l[1].v : l \in {x \in LinesOf(out) : StartsWith(x, "metric")}}

\* Value and label of each metric that is not NaN.
Tokens(metrics) ==
    LET printed == InOrder({i \in DOMAIN metrics : metrics[i].value # {}})
    IN  Pairs([j \in DOMAIN printed |->
                <<Num(CHOOSE x \in metrics[printed[j]].value : TRUE),
                  Word(metrics[printed[j]].label)>>])

\* The extra metrics: some value, and the name each was reported with.
ExtraTokens(extra) ==
    LET keys == InOrder(extra)
    IN  Pairs([i \in DOMAIN keys |-> <<Num(1000), Num(keys[i])>>])

Fields(metrics, extra) == <<Num(1000)>> \o Tokens(metrics) \o ExtraTokens(extra)

\* cmd.CombinedOutput returns an error: it is reported with the output.
ChildFails ==
    /\ pc = "running" /\ ip = 0 /\ status # 0
    /\ pc' = "trailer"
    /\ failed' = TRUE /\ shown' = {w.v : w \in ToSet(out)}
    /\ UNCHANGED <<setting, child, trace, measured, stdout>>

ChildSucceeds ==
    /\ pc = "running" /\ ip = 0 /\ status = 0
    /\ pc' = "parse"
    /\ UNCHANGED <<setting, child, report>>

Parse ==
    /\ Goes("parse", "print")
    /\ \E parsed \in {ParseGCTrace(out, user.phases)} :
         /\ trace' = parsed
         /\ measured' \in [{c.n : c \in UNION {ToSet(WithoutForced(t)) : t \in parsed}} -> Cycles]
    /\ UNCHANGED <<setting, child, stdout, failed, shown>>

\* Mutant of ParseFails: it tries again.
ParseFailsRetry ==
    /\ pc = "print" /\ trace = {}
    /\ pc' = "parse"
    /\ UNCHANGED <<setting, child, report>>

\* The trace cannot be parsed: no results either.
ParseFails ==
    /\ pc = "print" /\ trace = {}
    /\ pc' = "trailer"
    /\ failed' = TRUE /\ shown' = {w.v : w \in ToSet(out)}
    /\ UNCHANGED <<setting, child, trace, measured, stdout>>

\* Lines that are neither trace nor metrics, unless -gctrace shows them all.
NonGC(all) ==
    {l \in LinesOf(out) : all \/ ~(StartsWith(l, "gc") \/ StartsWith(l, "metric"))}

\* The metrics that are not NaN, the extra ones, and the rest of the output.
PrintResults(all) ==
    /\ Goes("print", "trailer")
    /\ \E run \in {WithoutForced(t) : t \in trace}, extra \in {Extra} :
       \E metrics \in {Metrics(run, measured, user.phases, Elapsed, Infinity)} :
         result' = [result EXCEPT !.fields = Fields(metrics, extra)]
    /\ closed' = TRUE
    /\ shown' = {w.v : w \in UNION {ToSet(l) : l \in NonGC(all)}}
    /\ UNCHANGED <<setting, child, trace, measured, trailer, failed>>

\* "time: ..." on a line of its own is a line of configuration.
TimeLine == ConfigLine("time", Word("elapsed"))

\* main prints its own time and memory, into the line begun if it was not ended.
Trailer ==
    /\ Goes("trailer", "done")
    /\ result' = IF closed THEN result ELSE [result EXCEPT !.fields = <<Word("time:")>>]
    /\ trailer' = IF closed THEN TimeLine ELSE trailer
    /\ UNCHANGED <<setting, child, trace, measured, closed, failed, shown>>

Parent ==
    \/ Usage \/ Silent \/ PrintName \/ ForkAgain \/ Fork
    \/ ChildFails \/ ChildSucceeds \/ Parse \/ ParseFails
    \/ (\E all \in IF prog.parses THEN BOOLEAN ELSE {FALSE} : PrintResults(all))
    \/ Trailer

-----------------------------------------------------------------------------
Ended == pc \in {"done", "usage", "silent", "forking"} /\ UNCHANGED vars

Next ==
    \/ Parent
    \/ Script
    \/ TraceFlag
    \/ Crash
    \/ \E called \in BOOLEAN : BeginGC(called)
    \/ WriteTrace
    \/ Ended

Spec == Init /\ [][Next]_vars

\* Both processes are scheduled: the script (and the timer it waits for),
\* the cycle runtime.GC waits for, and the writes of the trace.
FairSpec ==
    /\ Spec
    /\ WF_vars(Parent) /\ WF_vars(Script) /\ WF_vars(WriteTrace)
    /\ WF_vars(BeginGC(TRUE))

-----------------------------------------------------------------------------
(***************************************************************************)
(* What Run and main leave on standard output, bench.Parse understands     *)
(* (main.go:47-61, 86, 136-155; largeheap.go:58-61; parse.go:69-205):      *)
(* after a success one benchmark with the program's name and exactly its   *)
(* configuration, and a line of configuration below it, where it can only  *)
(* concern later runs in the same file (suite.sh:3-6); after a failure,    *)
(* reported on standard error, neither, although main continues the line   *)
(* that was begun.                                                         *)
(***************************************************************************)
ResultParses ==
    pc = "done" =>
        /\ closed = IsBenchmark(result) /\ failed = ~closed
        /\ ~IsBenchmark(trailer)
        /\ trailer.kind = "config" => closed
        /\ closed => /\ Name(result) = prog.name
                     /\ Over(Own(result), Default) =
                          Over([k \in {GOMAXPROCS} |-> Num(1000 * user.cpus)],
                               [c \in {p.key : p \in ToSet(prog.cfg)} |->
                                  (CHOOSE p \in ToSet(prog.cfg) : p.key = c).raw])

(***************************************************************************)
(* A benchmark that was killed, or ran fewer cycles than it wants, yields  *)
(* no results (check.go:23-30, main.go:98-101).                            *)
(***************************************************************************)
NoResultsWithoutRun ==
    closed => status = 0 /\ ("check" \in ToSet(prog.script) => Len(gcs) - checker >= MinGCs)

(***************************************************************************)
(* The trace the metrics are computed from is the collector's              *)
(* (gctrace.go:86-195): each cycle at most once, in order, forced or not   *)
(* as it was, except that an exit can cut off the mark of the last one;    *)
(* and all of them, unless a line was torn or cut.                         *)
(***************************************************************************)
TraceIsTrue ==
    \A t \in trace :
        /\ \A i, j \in DOMAIN t : i < j => t[i].n < t[j].n
        /\ \A i \in DOMAIN t :
             t[i].forced # gcs[t[i].n].forced => t[i].n = Len(gcs) /\ cut
        /\ (Tracing /\ ~torn /\ ~cut) => Len(t) = Len(gcs)

(***************************************************************************)
(* Nothing the child reported is lost in a run that succeeds (main.go:     *)
(* 105-119, 164-173): its metrics are in the results and its lines are     *)
(* passed on, unless one was written into a line of the trace.             *)
(***************************************************************************)
Written(kind) == {w.v : w \in {x \in ToSet(out) : x.k = kind}}

LostOnlyIfTorn ==
    (closed /\ ~torn) =>
        /\ Written("text") \subseteq shown
        /\ \A v \in Written("metric") : \E i \in DOMAIN result.fields : result.fields[i] = Num(v)

\* A run ends, unless an empty GCBENCH makes every child a parent.
RunEnds == <>(pc \in {"done", "usage", "silent", "forking"})
=============================================================================
