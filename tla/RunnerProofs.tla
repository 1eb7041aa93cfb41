---------------------------- MODULE RunnerProofs ----------------------------
(***************************************************************************)
(* Theorems about the runner, for any programs and settings as the         *)
(* assumptions of Runner describe them: its types, that a line of results  *)
(* is ended only for a child that ran to its end, that nothing the child   *)
(* reported is lost, that the trace is the collector's, and that           *)
(* bench.Parse understands the results.                                    *)
(***************************************************************************)
EXTENDS Runner, BenchTextProofs

Enough == Len(gcs) - checker >= MinGCs

\* The child that is past its check has run the cycles it wants.
CheckPassed ==
    \A i \in DOMAIN prog.script : (prog.script[i] = "check" /\ i < ip) => Enough

\* What the child's exit status of zero stands for.
RanWell == status = 0 => ("check" \in ToSet(prog.script) => Enough)

\* A script that called runtime.GC waits there.
Blocked == (call /\ ip > 0) => Op = "gc"

(***************************************************************************)
(* The invariant: a status of zero is trusted from the moment the child    *)
(* is gone, and the parent goes on to its results only with it; a failure  *)
(* is reported last, and before the child nothing is called.               *)
(***************************************************************************)
Trusted ==
    /\ CheckPassed /\ Blocked
    /\ (pc = "running" /\ ip = 0) => RanWell
    /\ (pc \in {"parse", "print"} \/ closed) => status = 0 /\ RanWell
    /\ failed => pc \in {"trailer", "done"}
    /\ pc \in {"main", "named"} => ~call

IInv == TypeOK /\ Trusted
-----------------------------------------------------------------------------
(***************************************************************************)
(* What the child says, and what the parent makes of it: the invariant     *)
(* behind the properties of the trace and of the results.                  *)
(***************************************************************************)
\* A line of the trace that has not come to its end.
Pieces == {"gc", "pct", "clock", "procs", "forced"}
Kinds == Pieces \cup EndsLine

\* A write, one that ends a line of its own, and what is known of a cycle.
Writing == [k : Kinds, v : Nat]
Line == [k : {"text", "metric"}, v : Nat]
GCs == [called : BOOLEAN, forced : BOOLEAN]

\* What the collector writes after a piece.
After(k, forced) ==
    CASE k = "gc" -> "pct"
      [] k = "pct" -> "clock"
      [] k = "clock" -> "procs"
      [] k = "procs" -> (IF forced THEN "forced" ELSE "eol")
      [] k = "forced" -> "eol"

\* Where a line may start.
Starting(p) == p = 1 \/ out[p - 1].k \in EndsLine

\* What the collector wrote, in pieces: only the writes of others tear a line.
Continued ==
    /\ \A p \in DOMAIN out :
         /\ out[p].k \in Pieces => out[p].v \in DOMAIN gcs
         /\ out[p].k = "gc" => Starting(p)
    /\ \A p \in DOMAIN out, q \in DOMAIN out :
         q = p + 1 /\ out[p].k \in Pieces /\ out[q].k \notin {"text", "metric"} =>
           out[q] = Write(After(out[p].k, gcs[out[p].v].forced), out[p].v)

\* A line that is not at its end is the one being written.
Unfinished ==
    /\ gp > 0 => gp <= Len(TraceLine)
    /\ (out # <<>> /\ out[Len(out)].k \in Pieces) =>
         gp > 1 /\ out[Len(out)] = TraceLine[gp - 1]

\* Every cycle begins one line, in order.
Numbered ==
    /\ \A p \in DOMAIN out :
         out[p].k = "gc" => out[p].v \in DOMAIN gcs /\ ~(out[p].v = Len(gcs) /\ gp = 1)
    /\ \A p, q \in DOMAIN out :
         p < q /\ out[p].k = "gc" /\ out[q].k = "gc" => out[p].v < out[q].v
    /\ Tracing => \A c \in DOMAIN gcs :
         (c = Len(gcs) /\ gp = 1) \/ \E p \in DOMAIN out : out[p] = Write("gc", c)

\* The lines of others start where a line may, unless they tear one.
Whole == ~torn => \A p \in DOMAIN out : out[p].k \in {"text", "metric"} => Starting(p)

Spoken ==
    /\ out \in Seq(Writing)
    /\ pc # "running" => ip = 0
    /\ ip = 0 => cut = (gp > 0)
    /\ Continued /\ Unfinished /\ Numbered /\ Whole

\* What the parent makes of it.
ParsedOutput ==
    /\ trace # {} => pc \in {"print", "trailer", "done"}
    /\ trace \subseteq ParseGCTrace(out, user.phases)

IsFields(fields) ==
    /\ \E K : fields \in Seq(K)
    /\ \E n \in Nat \ {0} : DOMAIN fields = 1..(1 + 2 * n)
    /\ fields[1] = Num(1000)
    /\ \A j \in DOMAIN fields : j % 2 = 0 => IsFloat(fields[j])

ResultShape ==
    /\ pc \notin {"main", "usage", "silent"} =>
         result = BenchLine(FullName.name, FullName.parts, result.fields)
    /\ closed => IsFields(result.fields)
    /\ (pc = "done" /\ ~closed) => result.fields = <<Word("time:")>>
    /\ pc \in {"trailer", "done"} => failed = ~closed
-----------------------------------------------------------------------------

\* Facts about the script of the program that runs.
LEMMA ScriptFacts ==
    ASSUME <<prog, user>> \in Running
    PROVE  /\ prog.script \in Seq(STRING) /\ Len(prog.script) \in Nat \ {0}
           /\ ChecksFirst(prog.script)
           /\ ToSet(prog.script) = {prog.script[i] : i \in DOMAIN prog.script}
<1>1. prog.script \in Seq(STRING) /\ prog.script # <<>> /\ ChecksFirst(prog.script)
    BY ScriptAssumption
<1>2. Len(prog.script) \in Nat \ {0}
    BY <1>1
<1>3. ToSet(prog.script) = {prog.script[i] : i \in DOMAIN prog.script}
    BY Zenon DEF ToSet
<1> QED
    BY <1>1, <1>2, <1>3

\* The parent has not begun, and there is no child.
LEMMA InitIInv == Init => IInv
<1> SUFFICES ASSUME Init PROVE IInv
    OBVIOUS
<1>1. <<prog, user>> \in Running
    <2>1. PICK run \in Running : prog = run[1] /\ user = run[2]
        BY DEF Init
    <2>2. run = <<run[1], run[2]>>
        BY ScriptAssumption
    <2> QED
        BY <2>1, <2>2, Zenon
<1>2. Len(prog.script) \in Nat
    BY <1>1, ScriptFacts
<1>3. gcs \in Seq([called : BOOLEAN, forced : BOOLEAN]) /\ Len(gcs) = 0
    BY DEF Init
<1>4. TypeOK
    <2>1. ip \in 0..Len(prog.script) /\ checker \in 0..Len(gcs) /\ gp \in 0..6
        BY <1>2, <1>3 DEF Init
    <2>2. (gp > 0 => gcs # <<>>) /\ status \in 0..2
        BY DEF Init
    <2>3. torn \in BOOLEAN /\ cut \in BOOLEAN /\ closed \in BOOLEAN /\ failed \in BOOLEAN
        BY Zenon DEF Init
    <2>4. pc = "main" /\ ~closed
        BY DEF Init
    <2> QED
        BY <1>1, <1>3, <2>1, <2>2, <2>3, <2>4 DEF TypeOK
<1>5. Trusted
    <2>1. prog.script \in Seq(STRING)
        BY <1>1, ScriptFacts
    <2>2. \A i \in DOMAIN prog.script : i > 0
        BY <2>1
    <2> QED
        BY <2>1, <2>2 DEF Init, Trusted, CheckPassed, Blocked
<1> QED
    BY <1>4, <1>5 DEF IInv

-----------------------------------------------------------------------------
(* The child. *)

\* What a step of the child owes: it touches neither the parent nor its report.
LEMMA OfChild ==
    ASSUME IInv, Alive, UNCHANGED <<setting, pc, report>>,
           ip' \in 0..Len(prog.script),
           gcs' \in Seq([called : BOOLEAN, forced : BOOLEAN]), checker' \in 0..Len(gcs'),
           gp' \in 0..6, gp' > 0 => gcs' # <<>>, status' \in 0..2,
           torn' \in BOOLEAN, cut' \in BOOLEAN,
           CheckPassed', Blocked', ip' = 0 => RanWell'
    PROVE  IInv'
<1>1. /\ prog' = prog /\ user' = user /\ pc' = pc /\ closed' = closed /\ failed' = failed
      /\ pc = "running" /\ ~closed
    BY DEF IInv, TypeOK, Alive, setting, report, stdout
<1>2. TypeOK'
    <2>1. <<prog', user'>> \in Running /\ pc' = "running"
        BY <1>1 DEF IInv, TypeOK
    <2>2. closed' \in BOOLEAN /\ failed' \in BOOLEAN /\ ~closed'
        BY <1>1 DEF IInv, TypeOK
    <2> QED
        BY <1>1, <2>1, <2>2 DEF TypeOK
<1>3. Trusted'
    BY <1>1 DEF Trusted, IInv
<1> QED
    BY <1>2, <1>3 DEF IInv

\* The state a step of the child starts from.
LEMMA ChildTypes ==
    ASSUME IInv, Alive
    PROVE  /\ <<prog, user>> \in Running /\ Len(prog.script) \in Nat \ {0}
           /\ ip \in 1..Len(prog.script)
           /\ gcs \in Seq([called : BOOLEAN, forced : BOOLEAN]) /\ Len(gcs) \in Nat
           /\ checker \in 0..Len(gcs) /\ gp \in 0..6 /\ (gp > 0 => gcs # <<>>)
           /\ status \in 0..2 /\ torn \in BOOLEAN /\ cut \in BOOLEAN
           /\ CheckPassed /\ Blocked
           /\ prog.script \in Seq(STRING)
           /\ \A i \in DOMAIN prog.script : i \in 1..Len(prog.script)
<1>1. <<prog, user>> \in Running
    BY DEF IInv, TypeOK
<1> QED
    BY <1>1, ScriptFacts DEF IInv, TypeOK, Alive, Trusted

\* Step goes on by at most one step of the script, and stays in it.
LEMMA StepInScript ==
    ASSUME IInv, Alive, Step
    PROVE  ip' \in 1..Len(prog.script) /\ ip' <= ip + 1
BY ChildTypes DEF Step

\* Past a check nothing undoes it, if the check itself is not stepped over.
LEMMA CheckKept ==
    ASSUME IInv, Alive, prog' = prog, checker' = checker,
           gcs' \in Seq([called : BOOLEAN, forced : BOOLEAN]), Len(gcs') >= Len(gcs),
           \/ ip' \in 0..ip
           \/ Step /\ (Op = "check" => Enough)
    PROVE  CheckPassed'
<1> SUFFICES ASSUME NEW i \in DOMAIN prog.script, prog.script[i] = "check", i < ip'
             PROVE  Len(gcs') - checker' >= MinGCs
    BY DEF CheckPassed, Enough
<1>1. /\ ip \in Nat /\ ip' \in Nat /\ ip' <= ip + 1 /\ i \in Nat
      /\ Len(gcs) \in Nat /\ Len(gcs') \in Nat /\ checker \in Nat /\ MinGCs \in Nat
    BY ChildTypes, StepInScript, RunnerAssumption, SMTT(20)
<1>2. Enough
    <2>1. CASE i < ip
        BY <2>1, ChildTypes DEF CheckPassed
    <2>2. CASE ~(i < ip)
        <3>1. i = ip /\ ~(ip' \in 0..ip)
            BY <1>1, <2>2
        <3> QED
            BY <3>1 DEF Op
    <2> QED
        BY <2>1, <2>2
<1> QED
    BY <1>1, <1>2 DEF Enough

\* The child ends: with zero only if it is past its check.
LEMMA ExitsKeepsIInv ==
    ASSUME IInv, Alive, NEW code \in 0..2, Exits(code),
           code = 0 => ("check" \in ToSet(prog.script) => Enough)
    PROVE  IInv'
<1>1. /\ ip' = 0 /\ status' = code /\ UNCHANGED <<setting, pc, report>>
      /\ checker' = checker /\ gcs' = gcs /\ gp' = gp /\ torn' = torn
    BY DEF Exits
<1>2. cut' \in BOOLEAN
    <2>1. CASE gp > 0
        BY <2>1 DEF Exits
    <2>2. CASE ~(gp > 0)
        BY <2>2 DEF Exits
    <2> QED
        BY <2>1, <2>2
<1>3. prog' = prog
    BY <1>1 DEF setting
<1>4. CheckPassed'
    <2>1. \A i \in DOMAIN prog.script : ~(i < 0)
        BY ChildTypes
    <2> QED
        BY <1>1, <1>3, <2>1 DEF CheckPassed
<1>5. RanWell'
    BY <1>1, <1>3 DEF RanWell, Enough
<1>6. Blocked'
    BY <1>1 DEF Blocked
<1> QED
    BY <1>1, <1>2, <1>4, <1>5, <1>6, ChildTypes, OfChild

\* A step of the script that only moves on, or writes.
LEMMA MovesOn ==
    ASSUME IInv, Alive, Step, Op # "gc", Op = "check" => Enough, torn' \in BOOLEAN,
           UNCHANGED <<setting, pc, checker, gcs, gp, call, status, cut, report>>
    PROVE  IInv'
<1>1. ip' \in 1..Len(prog.script)
    BY StepInScript
<1>2. prog' = prog /\ Len(gcs') >= Len(gcs)
    BY ChildTypes DEF setting
<1>3. CheckPassed'
    BY <1>2, ChildTypes, CheckKept
<1>4. Blocked'
    BY ChildTypes DEF Blocked
<1> QED
    BY <1>1, <1>3, <1>4, ChildTypes, OfChild

\* A step that stays where the script is.
LEMMA StaysThere ==
    ASSUME IInv, Alive, UNCHANGED <<setting, pc, ip, checker, status, torn, cut, report>>,
           gcs' \in Seq([called : BOOLEAN, forced : BOOLEAN]), Len(gcs') >= Len(gcs),
           gp' \in 0..6, gp' > 0 => gcs' # <<>>, call' => Op = "gc"
    PROVE  IInv'
<1>1. ip' \in 0..Len(prog.script) /\ ip' \in 0..ip /\ prog' = prog
    BY ChildTypes DEF setting
<1>2. CheckPassed'
    BY <1>1, CheckKept
<1>3. Blocked'
    BY <1>1 DEF Blocked, Op
<1>4. checker' \in 0..Len(gcs')
    BY ChildTypes
<1>5. ip' # 0
    BY ChildTypes
<1> QED
    BY <1>1, <1>2, <1>3, <1>4, <1>5, ChildTypes, OfChild

\* The steps of the script that neither end it nor start a cycle.
LEMMA ScriptKeepsIInv ==
    ASSUME IInv, Script
    PROVE  IInv'
<1>1. CASE Flags
    <2>1. CASE user.args
        BY <1>1, <2>1, ChildTypes, MovesOn DEF Flags
    <2>2. CASE ~user.args
        BY <1>1, <2>2, ExitsKeepsIInv DEF Flags
    <2> QED
        BY <2>1, <2>2
<1>2. CASE Work
    BY <1>2, ChildTypes, MovesOn DEF Work
<1>3. CASE WriteLine
    <2>1. torn' \in BOOLEAN
        BY <1>3, Zenon DEF WriteLine, Writes
    <2>2. Alive /\ Op \in Reported /\ Step
          /\ UNCHANGED <<setting, pc, checker, gcs, gp, call, status, cut, report>>
        BY <1>3 DEF WriteLine
    <2> QED
        BY <2>1, <2>2, MovesOn DEF Reported
<1>4. CASE Checker
    <2> USE <1>4 DEF Checker
    <2>1. ip' \in 1..Len(prog.script) /\ ip' <= ip + 1
        BY StepInScript
    <2>2. prog' = prog /\ checker' \in 0..Len(gcs')
        BY ChildTypes DEF setting
    <2>3. CheckPassed'
        <3>1. ChecksFirst(prog.script) /\ ip \in DOMAIN prog.script
            BY ChildTypes, ScriptFacts
        <3>2. \A i \in DOMAIN prog.script : prog.script[i] = "check" => ip < i
            BY <3>1 DEF ChecksFirst, Op
        <3> QED
            BY <2>1, <2>2, <3>2, ChildTypes DEF CheckPassed
    <2>4. Blocked'
        BY ChildTypes DEF Blocked
    <2> QED
        BY <2>1, <2>2, <2>3, <2>4, ChildTypes, OfChild
<1>5. CASE Check
    <2>1. CASE Enough
        BY <1>5, <2>1, ChildTypes, RunnerAssumption, MovesOn DEF Check, Enough
    <2>2. CASE ~Enough
        BY <1>5, <2>2, ChildTypes, RunnerAssumption, ExitsKeepsIInv DEF Check, Enough
    <2> QED
        BY <2>1, <2>2
<1>6. CASE Exit
    <2>1. "check" \in ToSet(prog.script) => Enough
        <3> SUFFICES ASSUME NEW i \in DOMAIN prog.script, prog.script[i] = "check"
                     PROVE  Enough
            BY <1>6, ChildTypes, ScriptFacts DEF Exit
        <3>1. ChecksFirst(prog.script) /\ ip \in DOMAIN prog.script
            BY <1>6, ChildTypes, ScriptFacts DEF Exit
        <3>2. i < ip
            BY <1>6, <3>1 DEF Exit, ChecksFirst, Op
        <3> QED
            BY <1>6, <3>2, ChildTypes DEF Exit, CheckPassed
    <2> QED
        BY <1>6, <2>1, ExitsKeepsIInv DEF Exit
<1> QED
    BY <1>1, <1>2, <1>3, <1>4, <1>5, <1>6 DEF Script

LEMMA TraceFlagKeepsIInv ==
    ASSUME IInv, TraceFlag
    PROVE  IInv'
<1>1. Alive
    BY DEF TraceFlag
<1>2. CASE Exits(1)
    BY <1>1, <1>2, ExitsKeepsIInv
<1>3. CASE UNCHANGED <<setting, pc, checker, ip, gcs, gp, call, status, torn, cut, report>>
    <2>1. gcs' \in Seq([called : BOOLEAN, forced : BOOLEAN]) /\ Len(gcs') >= Len(gcs)
          /\ gp' \in 0..6 /\ (gp' > 0 => gcs' # <<>>)
        BY <1>1, <1>3, ChildTypes
    <2>2. call' => Op = "gc"
        BY <1>1, <1>3, ChildTypes DEF Blocked, Alive
    <2> QED
        BY <1>1, <1>3, <2>1, <2>2, StaysThere
<1> QED
    BY <1>2, <1>3 DEF TraceFlag

\* A cycle begins: there is one more.
LEMMA BeginGCKeepsIInv ==
    ASSUME IInv, NEW called \in BOOLEAN, BeginGC(called)
    PROVE  IInv'
<1>1. Alive /\ UNCHANGED <<setting, pc, checker, out, status, torn, cut, report>>
    BY DEF BeginGC
<1>2. /\ gcs' \in Seq([called : BOOLEAN, forced : BOOLEAN])
      /\ Len(gcs') = Len(gcs) + 1 /\ gcs' # <<>>
    <2> DEFINE forced == called \/ (prog.stw /\ Op # "gc" /\ ip > Len(Measure))
               cycle == [called |-> called, forced |-> forced]
    <2>1. forced \in BOOLEAN
        BY Zenon
    <2> HIDE DEF forced
    <2>2. cycle \in [called : BOOLEAN, forced : BOOLEAN]
        BY <2>1
    <2>3. gcs' = Append(gcs, cycle)
        BY DEF BeginGC, forced
    <2> HIDE DEF cycle
    <2> QED
        BY <1>1, <2>2, <2>3, ChildTypes
<1>3. gp' \in 0..6 /\ checker' \in 0..Len(gcs') /\ prog' = prog
    BY <1>1, <1>2, ChildTypes DEF BeginGC, setting
<1>4. CASE called /\ ~Tracing
    <2>1. Step /\ Op = "gc" /\ ~call'
        BY <1>4 DEF BeginGC
    <2>2. ip' \in 1..Len(prog.script)
        BY <1>1, <2>1, StepInScript
    <2>3. CheckPassed'
        BY <1>1, <1>2, <1>3, <2>1, ChildTypes, CheckKept
    <2>4. Blocked'
        BY <2>1 DEF Blocked
    <2> QED
        BY <1>1, <1>2, <1>3, <2>2, <2>3, <2>4, ChildTypes, OfChild
<1>5. CASE ~(called /\ ~Tracing)
    <2>1. ip' = ip /\ (call' => Op = "gc")
        BY <1>5 DEF BeginGC
    <2> QED
        BY <1>1, <1>2, <1>3, <2>1, ChildTypes, StaysThere
<1> QED
    BY <1>4, <1>5

\* What the collector writes of a cycle.
LEMMA TraceWritesAre ==
    ASSUME NEW c, NEW forced \in BOOLEAN, NEW n, n = IF forced THEN 6 ELSE 5
    PROVE  /\ TraceWrites(c, forced) \in [1..n -> {Write(k, c) : k \in Kinds}]
           /\ Len(TraceWrites(c, forced)) = n
           /\ TraceWrites(c, forced)[1] = Write("gc", c)
           /\ TraceWrites(c, forced)[n] = Write("eol", c)
           /\ \A g \in 1..(n - 1) :
                /\ TraceWrites(c, forced)[g].k \in Pieces
                /\ TraceWrites(c, forced)[g].k = "gc" => g = 1
                /\ TraceWrites(c, forced)[g + 1] =
                     Write(After(TraceWrites(c, forced)[g].k, forced), c)
<1> DEFINE kinds == IF forced THEN <<"gc", "pct", "clock", "procs", "forced", "eol">>
                              ELSE <<"gc", "pct", "clock", "procs", "eol">>
<1>1. TraceWrites(c, forced) = [i \in DOMAIN kinds |-> Write(kinds[i], c)]
    BY DEF TraceWrites
<1>2. DOMAIN kinds = 1..n /\ n \in Nat /\ \A i \in 1..n : kinds[i] \in Kinds
    <2>1. CASE forced
        BY <2>1 DEF Kinds, Pieces, EndsLine
    <2>2. CASE ~forced
        BY <2>2 DEF Kinds, Pieces, EndsLine
    <2> QED
        BY <2>1, <2>2
<1>3. kinds[1] = "gc" /\ kinds[n] = "eol" /\ 1 \in 1..n /\ n \in 1..n
    BY DEF kinds
<1>4. ASSUME NEW g \in 1..(n - 1)
      PROVE  /\ g \in 1..n /\ g + 1 \in 1..n /\ kinds[g] \in Pieces /\ (kinds[g] = "gc" => g = 1)
             /\ kinds[g + 1] = After(kinds[g], forced)
    <2>1. CASE g = 1
        BY <2>1 DEF After, Pieces
    <2>2. CASE g = 2
        BY <2>2 DEF After, Pieces
    <2>3. CASE g = 3
        BY <2>3 DEF After, Pieces
    <2>4. CASE g = 4
        BY <2>4 DEF After, Pieces
    <2>5. CASE g = 5
        BY <2>5 DEF After, Pieces
    <2> QED
        BY <2>1, <2>2, <2>3, <2>4, <2>5
<1> DEFINE t == TraceWrites(c, forced)
<1>5. t = [i \in 1..n |-> Write(kinds[i], c)]
    BY <1>1, <1>2
<1>6. \A k : Write(k, c).k = k
    BY DEF Write
<1> HIDE DEF kinds, t
<1>7. t \in [1..n -> {Write(k, c) : k \in Kinds}] /\ Len(t) = n
    BY <1>2, <1>5
<1>8. t[1] = Write("gc", c) /\ t[n] = Write("eol", c)
    BY <1>3, <1>5
<1>9. ASSUME NEW g \in 1..(n - 1)
      PROVE  t[g].k \in Pieces /\ (t[g].k = "gc" => g = 1)
             /\ t[g + 1] = Write(After(t[g].k, forced), c)
    <2>1. t[g] = Write(kinds[g], c) /\ t[g + 1] = Write(kinds[g + 1], c)
        BY <1>4, <1>5
    <2> QED
        BY <1>4, <1>6, <2>1
<1> QED
    BY <1>7, <1>8, <1>9 DEF t

\* A line of the trace has at most six pieces.
LEMMA TraceLineLength ==
    ASSUME IInv, gcs # <<>>
    PROVE  Last(gcs).forced \in BOOLEAN /\ Len(TraceLine) \in 5..6
<1>1. gcs \in Seq([called : BOOLEAN, forced : BOOLEAN])
    BY DEF IInv, TypeOK
<1>2. Last(gcs) \in [called : BOOLEAN, forced : BOOLEAN]
    <2> DEFINE K == [called : BOOLEAN, forced : BOOLEAN]
    <2>1. gcs \in Seq(K)
        BY <1>1
    <2> HIDE DEF K
    <2>2. Last(gcs) \in K
        BY <2>1, LastIs
    <2> QED
        BY <2>2 DEF K
<1>3. Last(gcs).forced \in BOOLEAN
    BY <1>2
<1>4. Len(TraceLine) = IF Last(gcs).forced THEN 6 ELSE 5
    BY <1>3, TraceWritesAre DEF TraceLine
<1> QED
    BY <1>3, <1>4

\* The trace is written on, and runtime.GC returns after the last piece.
LEMMA WriteTraceKeepsIInv ==
    ASSUME IInv, WriteTrace
    PROVE  IInv'
<1>1. /\ Alive /\ gp > 0
      /\ UNCHANGED <<setting, pc, checker, gcs, status, torn, cut, report>>
    BY DEF WriteTrace
<1>2. gp' \in 0..6 /\ prog' = prog
    <2> DEFINE n == Len(TraceLine)
    <2>1. gp' = IF gp < n THEN gp + 1 ELSE 0
        BY Zenon DEF WriteTrace
    <2>2. n \in 5..6 /\ gp \in 0..6
        BY <1>1, ChildTypes, TraceLineLength
    <2> HIDE DEF n
    <2>3. gp' \in 0..6
        BY <2>1, <2>2
    <2> QED
        BY <1>1, <2>3 DEF setting
<1>3. CASE call /\ gp = Len(TraceLine)
    <2>1. Step /\ Op = "gc"
        BY <1>1, <1>3, ChildTypes DEF WriteTrace, Blocked, Alive
    <2>2. ~call'
        <3>1. ~(gp < Len(TraceLine))
            BY <1>3, TraceLineLength
        <3>2. call' = (call /\ gp < Len(TraceLine))
            BY Zenon DEF WriteTrace
        <3> QED
            BY <3>1, <3>2, Zenon
    <2>3. ip' \in 1..Len(prog.script)
        BY <1>1, <2>1, StepInScript
    <2>4. CheckPassed'
        BY <1>1, <1>2, <2>1, ChildTypes, CheckKept
    <2>5. Blocked'
        BY <2>2 DEF Blocked
    <2> QED
        BY <1>1, <1>2, <2>3, <2>4, <2>5, ChildTypes, OfChild
<1>4. CASE ~(call /\ gp = Len(TraceLine))
    <2>1. ip' = ip
        BY <1>4 DEF WriteTrace
    <2>2. call' => Op = "gc"
        BY <1>1, ChildTypes DEF WriteTrace, Blocked, Alive
    <2> QED
        BY <1>1, <1>2, <2>1, <2>2, ChildTypes, StaysThere
<1> QED
    BY <1>3, <1>4

\* The child is killed, or ends itself, in the middle of anything.
LEMMA CrashKeepsIInv ==
    ASSUME IInv, Crash
    PROVE  IInv'
BY ExitsKeepsIInv DEF Crash

-----------------------------------------------------------------------------
(* The parent. *)

\* What the parent owes before there is a child, and after it is gone.
LEMMA OfParent ==
    ASSUME IInv, UNCHANGED <<setting, child>>,
           pc' \in {"main", "named", "parse", "print", "trailer", "done",
                    "usage", "silent", "forking"},
           closed' \in BOOLEAN, failed' \in BOOLEAN,
           closed' => pc' \in {"trailer", "done"} /\ ~failed',
           failed' => pc' \in {"trailer", "done"},
           pc' \in {"main", "named"} => pc = "main",
           (pc' \in {"parse", "print"} \/ closed') => status = 0 /\ RanWell
    PROVE  IInv'
<1>1. /\ prog' = prog /\ user' = user /\ ip' = ip /\ checker' = checker /\ gcs' = gcs
      /\ gp' = gp /\ call' = call /\ status' = status /\ torn' = torn /\ cut' = cut
    BY DEF setting, child
<1>2. TypeOK'
    BY <1>1 DEF IInv, TypeOK
<1>3. CheckPassed' /\ Blocked' /\ RanWell' = RanWell
    BY <1>1 DEF IInv, Trusted, CheckPassed, Blocked, Op, RanWell, Enough
<1>4. Trusted'
    BY <1>1, <1>3 DEF Trusted, IInv
<1> QED
    BY <1>2, <1>4 DEF IInv

\* The parent, before the child and after it.
LEMMA ParentKeepsIInv ==
    ASSUME IInv, Parent
    PROVE  IInv'
<1>1. CASE Usage \/ Silent \/ ForkAgain
    BY <1>1, OfParent DEF Usage, Silent, ForkAgain, Goes, report, stdout, IInv, TypeOK, Trusted
<1>2. CASE PrintName
    BY <1>2, OfParent DEF PrintName, Goes, IInv, TypeOK, Trusted
<1>3. CASE Fork
    <2> USE <1>3 DEF Fork, Goes
    <2>1. prog' = prog /\ user' = user /\ closed' = closed /\ failed' = failed
        BY DEF setting, report, stdout
    <2>2. <<prog, user>> \in Running /\ Len(prog.script) \in Nat \ {0} /\ ~closed
        BY ScriptFacts DEF IInv, TypeOK
    <2>3. TypeOK'
        BY <2>1, <2>2 DEF IInv, TypeOK
    <2>4. Trusted'
        <3>1. \A i \in DOMAIN prog.script : ~(i < 1)
            BY <2>2, ScriptFacts
        <3>2. CheckPassed'
            BY <2>1, <3>1 DEF CheckPassed
        <3>3. ~call'
            BY DEF IInv, Trusted, child
        <3>4. Blocked' /\ (failed' => FALSE)
            BY <2>1, <3>3 DEF Blocked, IInv, Trusted
        <3> QED
            BY <2>1, <2>2, <3>2, <3>3, <3>4 DEF Trusted
    <2> QED
        BY <2>3, <2>4 DEF IInv
<1>4. CASE ChildFails
    BY <1>4, OfParent DEF ChildFails, IInv, TypeOK, stdout
<1>5. CASE ChildSucceeds
    BY <1>5, OfParent DEF ChildSucceeds, report, stdout, IInv, TypeOK, Trusted
<1>6. CASE Parse
    BY <1>6, OfParent DEF Parse, Goes, IInv, TypeOK, Trusted, stdout
<1>7. CASE ParseFails
    BY <1>7, OfParent DEF ParseFails, IInv, TypeOK, stdout
<1>8. CASE \E all \in BOOLEAN : PrintResults(all)
    <2>1. /\ pc = "print" /\ pc' = "trailer" /\ closed' = TRUE /\ failed' = failed
          /\ UNCHANGED <<setting, child>>
        BY <1>8, Zenon DEF PrintResults, Goes
    <2> QED
        BY <2>1, OfParent DEF IInv, TypeOK, Trusted
<1>9. CASE Trailer
    BY <1>9, OfParent DEF Trailer, Goes, IInv, TypeOK, Trusted
<1>10. (\E all \in IF prog.parses THEN BOOLEAN ELSE {FALSE} : PrintResults(all))
         => \E all \in BOOLEAN : PrintResults(all)
    BY Zenon
<1> QED
    BY <1>1, <1>2, <1>3, <1>4, <1>5, <1>6, <1>7, <1>8, <1>9, <1>10 DEF Parent

-----------------------------------------------------------------------------
LEMMA NextKeepsIInv == IInv /\ [Next]_vars => IInv'
<1> SUFFICES ASSUME IInv, [Next]_vars PROVE IInv'
    OBVIOUS
<1>1. CASE Parent
    BY <1>1, ParentKeepsIInv
<1>2. CASE Script
    BY <1>2, ScriptKeepsIInv
<1>3. CASE TraceFlag
    BY <1>3, TraceFlagKeepsIInv
<1>4. CASE Crash
    BY <1>4, CrashKeepsIInv
<1>5. CASE \E called \in BOOLEAN : BeginGC(called)
    BY <1>5, BeginGCKeepsIInv
<1>6. CASE WriteTrace
    BY <1>6, WriteTraceKeepsIInv
<1>7. CASE Ended \/ UNCHANGED vars
    <2>1. /\ prog' = prog /\ user' = user /\ pc' = pc /\ ip' = ip /\ checker' = checker
          /\ gcs' = gcs /\ gp' = gp /\ call' = call /\ status' = status
          /\ torn' = torn /\ cut' = cut /\ closed' = closed /\ failed' = failed
        BY <1>7 DEF Ended, vars, setting, child, report, stdout
    <2> QED
        BY <2>1 DEF IInv, TypeOK, Trusted, CheckPassed, Blocked, Op, RanWell, Enough
<1> QED
    BY <1>1, <1>2, <1>3, <1>4, <1>5, <1>6, <1>7 DEF Next

LEMMA IInvHolds == Spec => []IInv
<1> QED
    BY InitIInv, NextKeepsIInv, PTL DEF Spec

(***************************************************************************)
(* Type correctness (main.go): the child's script is never left but by an  *)
(* exit, the pieces of a trace line are at most six, and a result that is  *)
(* ended was not reported as a failure.                                    *)
(***************************************************************************)
THEOREM TypeCorrect == Spec => []TypeOK
<1>1. IInv => TypeOK
    BY DEF IInv
<1> QED
    BY <1>1, IInvHolds, PTL

(***************************************************************************)
(* A line of results is ended only for a child that exited with zero, and  *)
(* with zero only after the cycles its GCChecker wants (check.go:23-30,    *)
(* main.go:98-101), wherever the child is killed or crashes and whatever   *)
(* collector cycles run beside it.                                         *)
(***************************************************************************)
THEOREM ResultsOnlyFromRuns == Spec => []NoResultsWithoutRun
<1>1. IInv => NoResultsWithoutRun
    BY DEF IInv, Trusted, RanWell, Enough, NoResultsWithoutRun
<1> QED
    BY <1>1, IInvHolds, PTL

-----------------------------------------------------------------------------
(* What the child says. *)

\* The collector's side of it.
LEMMA CollectorTypes ==
    ASSUME IInv
    PROVE  /\ gcs \in Seq([called : BOOLEAN, forced : BOOLEAN]) /\ Len(gcs) \in Nat
           /\ DOMAIN gcs = 1..Len(gcs)
           /\ \A c \in DOMAIN gcs : gcs[c].forced \in BOOLEAN
           /\ gp \in 0..6 /\ (gp > 0 => Len(gcs) \in DOMAIN gcs /\ gcs # <<>>)
<1>1. gcs \in Seq([called : BOOLEAN, forced : BOOLEAN]) /\ gp \in 0..6 /\ (gp > 0 => gcs # <<>>)
    BY DEF IInv, TypeOK
<1>2. gcs \in Seq(GCs)
    BY <1>1 DEF GCs
<1>3. /\ Len(gcs) \in Nat /\ DOMAIN gcs = 1..Len(gcs) /\ (\A c \in DOMAIN gcs : gcs[c] \in GCs)
      /\ (gcs # <<>> => Len(gcs) \in DOMAIN gcs)
    BY <1>2, SeqIs
<1>4. \A c \in DOMAIN gcs : gcs[c].forced \in BOOLEAN
    BY <1>3 DEF GCs
<1> QED
    BY <1>1, <1>3, <1>4

\* The pieces of the line of the last cycle.
LEMMA TraceLineIs ==
    ASSUME IInv, gcs # <<>>
    PROVE  \E n \in 5..6 :
              /\ Len(TraceLine) = n
              /\ TraceLine \in [1..n -> {Write(k, Len(gcs)) : k \in Kinds}]
              /\ TraceLine[1] = Write("gc", Len(gcs))
              /\ TraceLine[n] = Write("eol", Len(gcs))
              /\ \A g \in 1..(n - 1) :
                   /\ TraceLine[g].k \in Pieces
                   /\ TraceLine[g].k = "gc" => g = 1
                   /\ TraceLine[g + 1] =
                        Write(After(TraceLine[g].k, gcs[Len(gcs)].forced), Len(gcs))
<1>1. Last(gcs).forced \in BOOLEAN
    BY TraceLineLength
<1>2. PICK n \in 5..6 : n = IF Last(gcs).forced THEN 6 ELSE 5
    BY <1>1
<1>3. Last(gcs) = gcs[Len(gcs)]
    BY DEF Last
<1>4. PICK c, f : c = Len(gcs) /\ f = Last(gcs).forced
    OBVIOUS
<1>5. TraceLine = TraceWrites(c, f)
    BY <1>4 DEF TraceLine
<1>6. f = gcs[Len(gcs)].forced /\ f \in BOOLEAN /\ n = IF f THEN 6 ELSE 5
    BY <1>1, <1>2, <1>3, <1>4
<1>7. /\ Len(TraceLine) = n
      /\ TraceLine \in [1..n -> {Write(k, c) : k \in Kinds}]
      /\ TraceLine[1] = Write("gc", c)
      /\ TraceLine[n] = Write("eol", c)
      /\ \A g \in 1..(n - 1) :
           /\ TraceLine[g].k \in Pieces
           /\ TraceLine[g].k = "gc" => g = 1
           /\ TraceLine[g + 1] = Write(After(TraceLine[g].k, f), c)
    BY <1>5, <1>6, TraceWritesAre
<1> QED
    BY <1>4, <1>6, <1>7, Zenon

\* Steps that say nothing.
LEMMA SilentKeepsSpoken ==
    ASSUME Spoken, UNCHANGED <<user, out, gcs, gp, torn>>,
           pc' # "running" => ip' = 0, ip' = 0 => cut' = (gp' > 0)
    PROVE  Spoken'
<1>1. TraceLine' = TraceLine /\ Tracing' = Tracing /\ \A p : Starting(p)' = Starting(p)
    BY DEF TraceLine, Tracing, Starting
<1>2. Continued' /\ Unfinished' /\ Numbered' /\ Whole'
    BY <1>1 DEF Spoken, Continued, Unfinished, Numbered, Whole
<1> QED
    BY <1>2 DEF Spoken

\* Lines of others.
LEMMA WritesKeepsSpoken ==
    ASSUME IInv, Spoken, NEW lines \in Seq(Line), Writes(lines),
           UNCHANGED <<user, gcs, gp, cut>>, pc = "running", pc' = pc, ip' # 0
    PROVE  Spoken'
<1>1. out' = out \o lines /\ torn' = (torn \/ gp > 1)
    BY DEF Writes
<1>2. out \in Seq(Writing) /\ \A p \in DOMAIN out : out[p] \in Writing
    BY SeqIs DEF Spoken
<1>3. PICK n \in Nat : n = Len(out)
    BY <1>2
<1>4. PICK m \in Nat : m = Len(lines)
    OBVIOUS
<1>5. /\ out' \in Seq(Writing) /\ DOMAIN out' = 1..(n + m) /\ DOMAIN out = 1..n
      /\ \A p \in 1..n : out'[p] = out[p]
      /\ \A p \in (n + 1)..(n + m) : out'[p] \in Line
      /\ Len(out') = n + m
    <2>1. Line \subseteq Writing
        BY DEF Line, Writing, Kinds, EndsLine
    <2>2. lines \in Seq(Writing) /\ \A j \in 1..m : lines[j] \in Line
        BY <1>4, <2>1
    <2>3. out' \in Seq(Writing) /\ Len(out') = n + m
        BY <1>1, <1>2, <1>3, <1>4, <2>2
    <2>4. \A p \in 1..n : out'[p] = out[p]
        BY <1>1, <1>2, <1>3, <1>4, <2>2
    <2>5. \A p \in (n + 1)..(n + m) : out'[p] = lines[p - n] /\ p - n \in 1..m
        BY <1>1, <1>2, <1>3, <1>4, <2>2
    <2>6. DOMAIN out' = 1..(n + m) /\ DOMAIN out = 1..n
        BY <1>2, <1>3, <2>3
    <2> QED
        BY <2>2, <2>3, <2>4, <2>5, <2>6
<1>6. \A p \in DOMAIN out' : p \in 1..n \/ (p \in (n + 1)..(n + m) /\ out'[p].k \in {"text", "metric"}
                                              /\ out'[p].v \in Nat)
    BY <1>5 DEF Line
<1>7. ASSUME NEW p \in 1..n PROVE Starting(p)' = Starting(p)
    <2>1. p = 1 \/ p - 1 \in 1..n
        OBVIOUS
    <2> QED
        BY <1>5, <2>1 DEF Starting
<1>8. Continued'
    <2>1. ASSUME NEW p \in DOMAIN out'
          PROVE  /\ out'[p].k \in Pieces => out'[p].v \in DOMAIN gcs
                 /\ out'[p].k = "gc" => Starting(p)'
        BY <1>5, <1>6, <1>7, <2>1 DEF Spoken, Continued, Pieces
    <2>2. ASSUME NEW p \in DOMAIN out', NEW q \in DOMAIN out',
                 q = p + 1, out'[p].k \in Pieces, out'[q].k \notin {"text", "metric"}
          PROVE  out'[q] = Write(After(out'[p].k, gcs[out'[p].v].forced), out'[p].v)
        <3>1. p \in 1..n /\ q \in 1..n
            BY <1>6, <2>2 DEF Pieces
        <3>2. out'[p] = out[p] /\ out'[q] = out[q]
            BY <1>5, <3>1
        <3> QED
            BY <1>5, <2>2, <3>1, <3>2 DEF Spoken, Continued
    <2> QED
        BY <2>1, <2>2 DEF Continued
<1>9. Unfinished'
    <2>1. CASE m = 0
        <3>1. out' = out
            BY <1>2, <1>3, <1>5, <2>1
        <3>2. TraceLine' = TraceLine
            BY DEF TraceLine
        <3> QED
            BY <3>1, <3>2 DEF Spoken, Unfinished
    <2>2. CASE m # 0
        <3>1. out'[n + m].k \notin Pieces
            BY <1>5, <2>2 DEF Line, Pieces
        <3>2. TraceLine' = TraceLine
            BY DEF TraceLine
        <3> QED
            BY <1>5, <3>1, <3>2 DEF Spoken, Unfinished
    <2> QED
        BY <2>1, <2>2
<1>10. Numbered'
    <2>1. \A p \in DOMAIN out' : out'[p].k = "gc" => p \in DOMAIN out /\ out'[p] = out[p]
        BY <1>5, <1>6
    <2>2. \A p \in DOMAIN out : p \in DOMAIN out' /\ out'[p] = out[p]
        BY <1>5
    <2>3. Tracing' = Tracing
        BY DEF Tracing
    <2>4. \A p \in DOMAIN out' :
            out'[p].k = "gc" => out'[p].v \in DOMAIN gcs /\ ~(out'[p].v = Len(gcs) /\ gp = 1)
        BY <2>1 DEF Spoken, Numbered
    <2>5. \A p, q \in DOMAIN out' :
            p < q /\ out'[p].k = "gc" /\ out'[q].k = "gc" => out'[p].v < out'[q].v
        BY <2>1 DEF Spoken, Numbered
    <2>6. Tracing => \A c \in DOMAIN gcs :
            (c = Len(gcs) /\ gp = 1) \/ \E p \in DOMAIN out' : out'[p] = Write("gc", c)
        BY <2>2 DEF Spoken, Numbered
    <2> QED
        BY <2>3, <2>4, <2>5, <2>6 DEF Numbered
<1>11. Whole'
    <2> SUFFICES ASSUME ~torn', NEW p \in DOMAIN out', out'[p].k \in {"text", "metric"}
                 PROVE  Starting(p)'
        BY DEF Whole
    <2>1. ~torn /\ ~(gp > 1)
        BY <1>1
    <2>2. CASE p \in 1..n
        BY <1>5, <1>7, <2>1, <2>2 DEF Spoken, Whole
    <2>3. CASE p = n + 1
        <3>1. CASE n = 0
            BY <2>3, <3>1 DEF Starting
        <3>2. CASE n # 0
            <4>1. out[n] \in Writing /\ out # <<>>
                BY <1>2, <1>3, <1>5, <3>2
            <4>2. out[n].k \notin Pieces
                BY <1>3, <2>1, <4>1 DEF Spoken, Unfinished
            <4>3. out'[n] = out[n] /\ out[n].k \in EndsLine
                BY <1>5, <3>2, <4>1, <4>2 DEF Writing, Kinds
            <4>4. p - 1 = n
                BY <2>3
            <4> QED
                BY <4>3, <4>4 DEF Starting
        <3> QED
            BY <3>1, <3>2
    <2>4. CASE p > n + 1
        <3>1. p - 1 \in (n + 1)..(n + m)
            BY <1>5, <2>4
        <3>2. out'[p - 1].k \in EndsLine
            BY <1>5, <3>1 DEF Line, EndsLine
        <3> QED
            BY <3>2 DEF Starting
    <2> QED
        BY <1>5, <2>2, <2>3, <2>4
<1> QED
    BY <1>5, <1>8, <1>9, <1>10, <1>11 DEF Spoken

\* A cycle begins: its line is the next to come.
LEMMA BeginGCKeepsSpoken ==
    ASSUME IInv, Spoken, NEW called \in BOOLEAN, BeginGC(called)
    PROVE  Spoken'
<1>1. /\ Alive /\ gp = 0 /\ gp' = IF Tracing THEN 1 ELSE 0
      /\ UNCHANGED <<setting, pc, out, torn, cut>>
    BY DEF BeginGC
<1>2. PICK n \in Nat : n = Len(gcs)
    BY CollectorTypes
<1>3. /\ DOMAIN gcs = 1..n /\ DOMAIN gcs' = 1..(n + 1) /\ Len(gcs') = n + 1
      /\ \A c \in 1..n : gcs'[c] = gcs[c]
    <2>1. PICK r : gcs' = Append(gcs, r)
        BY DEF BeginGC
    <2>2. gcs \in Seq(GCs)
        BY CollectorTypes DEF GCs
    <2> QED
        BY <1>2, <2>1, <2>2
<1>4. ip' # 0
    <2>1. CASE called /\ ~Tracing
        <3>1. Step
            BY <2>1 DEF BeginGC
        <3> QED
            BY <1>1, <3>1, StepInScript
    <2>2. CASE ~(called /\ ~Tracing)
        BY <1>1, <2>2 DEF BeginGC, Alive
    <2> QED
        BY <2>1, <2>2
<1>5. pc' = "running" /\ user' = user
    BY <1>1 DEF Alive, setting
<1>6. \A p : Starting(p)' = Starting(p)
    BY <1>1 DEF Starting
<1>7. Continued'
    <2>1. \A p \in DOMAIN out : out[p].k \in Pieces => out[p].v \in 1..n
        BY <1>3 DEF Spoken, Continued
    <2>2. \A p \in DOMAIN out, q \in DOMAIN out :
            q = p + 1 /\ out[p].k \in Pieces /\ out[q].k \notin {"text", "metric"} =>
              out[q] = Write(After(out[p].k, gcs'[out[p].v].forced), out[p].v)
        BY <1>3, <2>1 DEF Spoken, Continued
    <2>3. \A c \in 1..n : c \in 1..(n + 1)
        OBVIOUS
    <2> QED
        BY <1>1, <1>3, <1>6, <2>1, <2>2, <2>3 DEF Spoken, Continued
<1>8. Unfinished'
    <2>1. ~(out # <<>> /\ out[Len(out)].k \in Pieces)
        BY <1>1 DEF Spoken, Unfinished
    <2>2. gp' \in {0, 1} /\ 1 <= Len(TraceLine')
        <3>1. gcs' # <<>> /\ IInv'
            BY <1>2, <1>3, BeginGCKeepsIInv
        <3>2. Last(gcs').forced \in BOOLEAN
            <4>1. gcs' \in Seq(GCs)
                BY <3>1 DEF IInv, TypeOK, GCs
            <4>2. Last(gcs') \in GCs
                BY <3>1, <4>1, LastIs
            <4> QED
                BY <4>2 DEF GCs
        <3>3. PICK c, g : c = Len(gcs') /\ g = Last(gcs').forced
            OBVIOUS
        <3>4. TraceLine' = TraceWrites(c, g)
            BY <3>3 DEF TraceLine
        <3>5. Len(TraceWrites(c, g)) = IF g THEN 6 ELSE 5
            BY <3>2, <3>3, TraceWritesAre
        <3> QED
            BY <1>1, <3>4, <3>5
    <2> QED
        BY <1>1, <2>1, <2>2 DEF Unfinished
<1>9. Numbered'
    <2>1. \A p \in DOMAIN out : out[p].k = "gc" => out[p].v \in 1..n /\ out[p].v \in 1..(n + 1) /\ out[p].v # n + 1
        BY <1>3 DEF Spoken, Numbered
    <2>2. Tracing' = Tracing
        BY <1>5 DEF Tracing
    <2>3. ASSUME Tracing, NEW c \in 1..(n + 1)
          PROVE  (c = n + 1 /\ gp' = 1) \/ \E p \in DOMAIN out : out[p] = Write("gc", c)
        <3>1. CASE c = n + 1
            BY <1>1, <2>3, <3>1
        <3>2. CASE c # n + 1
            <4>1. c \in DOMAIN gcs
                BY <1>3, <3>2
            <4>2. ~(c = Len(gcs) /\ gp = 1)
                BY <1>1
            <4>3. \E p \in DOMAIN out : out[p] = Write("gc", c)
                BY <2>3, <4>1, <4>2 DEF Spoken, Numbered
            <4> QED
                BY <4>3
        <3> QED
            BY <3>1, <3>2
    <2> QED
        BY <1>1, <1>3, <2>1, <2>2, <2>3 DEF Spoken, Numbered
<1>10. Whole'
    BY <1>1, <1>6 DEF Spoken, Whole
<1> QED
    BY <1>1, <1>4, <1>5, <1>7, <1>8, <1>9, <1>10 DEF Spoken

\* The next piece of the line of the last cycle.
LEMMA WriteTraceKeepsSpoken ==
    ASSUME IInv, Spoken, WriteTrace
    PROVE  Spoken'
<1>1. /\ Alive /\ gp > 0 /\ out' = Append(out, TraceLine[gp])
      /\ UNCHANGED <<setting, pc, gcs, torn, cut>>
    BY DEF WriteTrace
<1>2. PICK c \in Nat : c = Len(gcs) /\ c \in DOMAIN gcs /\ DOMAIN gcs = 1..c /\ gcs # <<>> /\ gp \in 1..6
    <2>1. gp \in 0..6 /\ Len(gcs) \in Nat /\ DOMAIN gcs = 1..Len(gcs)
          /\ Len(gcs) \in DOMAIN gcs /\ gcs # <<>>
        BY <1>1, CollectorTypes, Zenon
    <2>2. gp \in 1..6
        BY <1>1, <2>1
    <2> QED
        BY <2>1, <2>2, Zenon
<1>3. PICK m \in 5..6 :
        /\ Len(TraceLine) = m
        /\ TraceLine \in [1..m -> {Write(k, c) : k \in Kinds}]
        /\ TraceLine[1] = Write("gc", c)
        /\ TraceLine[m] = Write("eol", c)
        /\ \A g \in 1..(m - 1) :
             /\ TraceLine[g].k \in Pieces
             /\ TraceLine[g].k = "gc" => g = 1
             /\ TraceLine[g + 1] = Write(After(TraceLine[g].k, gcs[c].forced), c)
    BY <1>2, TraceLineIs
<1>4. gp' = (IF gp < m THEN gp + 1 ELSE 0) /\ pc' = "running" /\ user' = user
    BY <1>1, <1>3 DEF WriteTrace, Alive, setting
\* The pieces stop at the end of the line.
<1>5. gp \in 1..m /\ gp' # 1 /\ gp' \in 0..m
    <2>1. gp <= m
        BY <1>1, <1>3 DEF Spoken, Unfinished
    <2> QED
        BY <1>2, <1>4, <2>1
<1>6. TraceLine' = TraceLine /\ Tracing' = Tracing
    BY <1>1, <1>4 DEF TraceLine, Tracing
<1>7. PICK x : x = TraceLine[gp]
    OBVIOUS
<1>8. x \in Writing /\ x.k \in Kinds /\ x.v = c
    BY <1>2, <1>3, <1>5, <1>7 DEF Writing, Write
<1>9. /\ x.k \in Pieces => gp < m
      /\ x.k = "gc" => gp = 1
      /\ gp = 1 => x = Write("gc", c)
    <2>1. CASE gp = m
        <3>1. x.k = "eol"
            BY <1>3, <1>7, <2>1 DEF Write
        <3> QED
            BY <1>3, <2>1, <3>1 DEF Pieces
    <2>2. CASE gp \in 1..(m - 1)
        BY <1>3, <1>7, <2>2
    <2> QED
        BY <1>5, <2>1, <2>2
<1>10. out \in Seq(Writing) /\ \A p \in DOMAIN out : out[p] \in Writing
    BY SeqIs DEF Spoken
<1>11. PICK n \in Nat : n = Len(out)
    BY <1>10
<1>12. /\ DOMAIN out = 1..n /\ DOMAIN out' = 1..(n + 1) /\ Len(out') = n + 1
       /\ out' \in Seq(Writing) /\ out'[n + 1] = x /\ \A p \in 1..n : out'[p] = out[p]
    BY <1>1, <1>7, <1>8, <1>10, <1>11
<1>13. ASSUME NEW p \in 1..n PROVE Starting(p)' = Starting(p)
    <2>1. p = 1 \/ p - 1 \in 1..n
        OBVIOUS
    <2> QED
        BY <1>12, <2>1 DEF Starting
\* The last piece before, if the line was begun and not torn.
<1>14. (n # 0 /\ out[n].k \in Pieces) => gp - 1 \in 1..(m - 1) /\ out[n] = TraceLine[gp - 1]
    <2>1. n # 0 => out # <<>>
        BY <1>12
    <2> QED
        BY <1>5, <1>11, <2>1 DEF Spoken, Unfinished
<1>15. Continued'
    <2>1. ASSUME NEW p \in 1..(n + 1)
          PROVE  /\ out'[p].k \in Pieces => out'[p].v \in DOMAIN gcs
                 /\ out'[p].k = "gc" => Starting(p)'
        <3>1. CASE p \in 1..n
            BY <1>12, <1>13, <3>1 DEF Spoken, Continued
        <3>2. CASE p = n + 1
            <4>1. out'[p].v \in DOMAIN gcs
                BY <1>2, <1>8, <1>12, <3>2
            <4>2. ASSUME out'[p].k = "gc" PROVE Starting(p)'
                <5>1. gp = 1
                    BY <1>9, <1>12, <3>2, <4>2
                <5>2. CASE n = 0
                    BY <3>2, <5>2 DEF Starting
                <5>3. CASE n # 0
                    <6>1. out[n].k \notin Pieces
                        BY <1>14, <5>1, <5>3
                    <6>2. out[n].k \in EndsLine
                        BY <1>10, <1>12, <5>3, <6>1 DEF Writing, Kinds
                    <6>3. p - 1 = n /\ out'[n] = out[n]
                        BY <1>12, <3>2, <5>3
                    <6> QED
                        BY <6>2, <6>3 DEF Starting
                <5> QED
                    BY <5>2, <5>3
            <4> QED
                BY <4>1, <4>2
        <3> QED
            BY <3>1, <3>2
    <2>2. ASSUME NEW p \in 1..(n + 1), NEW q \in 1..(n + 1),
                 q = p + 1, out'[p].k \in Pieces, out'[q].k \notin {"text", "metric"}
          PROVE  out'[q] = Write(After(out'[p].k, gcs[out'[p].v].forced), out'[p].v)
        <3>1. p \in 1..n /\ out'[p] = out[p]
            BY <1>12, <2>2
        <3>2. CASE q \in 1..n
            BY <1>12, <2>2, <3>1, <3>2 DEF Spoken, Continued
        <3>3. CASE q = n + 1
            <4>1. p = n /\ n # 0
                BY <2>2, <3>1, <3>3
            <4>2. gp - 1 \in 1..(m - 1) /\ out[n] = TraceLine[gp - 1]
                BY <1>14, <2>2, <3>1, <4>1
            <4>3. PICK g \in 1..(m - 1) : g = gp - 1 /\ g + 1 = gp
                BY <1>5, <4>2
            <4>4. x = Write(After(out[n].k, gcs[c].forced), c)
                BY <1>3, <1>7, <4>2, <4>3
            <4>5. out[n].v = c
                BY <1>3, <4>2, <4>3 DEF Write
            <4> QED
                BY <1>12, <3>1, <3>3, <4>1, <4>4, <4>5
        <3> QED
            BY <3>2, <3>3
    <2> QED
        BY <1>1, <1>12, <2>1, <2>2 DEF Continued
<1>16. Unfinished'
    <2>1. ASSUME x.k \in Pieces PROVE gp' > 1 /\ x = TraceLine[gp' - 1]
        <3>1. gp' = gp + 1 /\ gp' - 1 = gp
            BY <1>4, <1>5, <1>9, <2>1
        <3> QED
            BY <1>5, <1>7, <3>1
    <2> QED
        BY <1>3, <1>5, <1>6, <1>12, <2>1 DEF Unfinished
<1>17. Numbered'
    <2>1. ASSUME NEW p \in 1..(n + 1), out'[p].k = "gc"
          PROVE  out'[p].v \in DOMAIN gcs /\ ~(out'[p].v = Len(gcs) /\ gp' = 1)
        <3>1. CASE p \in 1..n
            BY <1>5, <1>12, <2>1, <3>1 DEF Spoken, Numbered
        <3>2. CASE p = n + 1
            BY <1>2, <1>5, <1>8, <1>12, <3>2
        <3> QED
            BY <3>1, <3>2
    <2>2. ASSUME NEW p \in 1..(n + 1), NEW q \in 1..(n + 1),
                 p < q, out'[p].k = "gc", out'[q].k = "gc"
          PROVE  out'[p].v < out'[q].v
        <3>1. p \in 1..n /\ out'[p] = out[p]
            BY <1>12, <2>2
        <3>2. CASE q \in 1..n
            BY <1>12, <2>2, <3>1, <3>2 DEF Spoken, Numbered
        <3>3. CASE q = n + 1
            <4>1. gp = 1 /\ out'[q].v = c
                BY <1>8, <1>9, <1>12, <2>2, <3>3
            <4>2. out[p].v \in 1..c /\ out[p].v # c
                BY <1>2, <1>12, <2>2, <3>1, <4>1 DEF Spoken, Numbered
            <4> QED
                BY <3>1, <4>1, <4>2
        <3> QED
            BY <3>2, <3>3
    <2>3. ASSUME Tracing, NEW d \in DOMAIN gcs
          PROVE  \E p \in 1..(n + 1) : out'[p] = Write("gc", d)
        <3>1. CASE d = c /\ gp = 1
            <4>1. out'[n + 1] = Write("gc", d) /\ n + 1 \in 1..(n + 1)
                BY <1>9, <1>12, <3>1
            <4> QED
                BY <4>1
        <3>2. CASE ~(d = c /\ gp = 1)
            <4>1. PICK p \in 1..n : out[p] = Write("gc", d)
                BY <1>2, <1>12, <2>3, <3>2 DEF Spoken, Numbered
            <4>2. p \in 1..(n + 1) /\ out'[p] = Write("gc", d)
                BY <1>12, <4>1
            <4> QED
                BY <4>2
        <3> QED
            BY <3>1, <3>2
    <2> QED
        BY <1>1, <1>6, <1>12, <2>1, <2>2, <2>3 DEF Numbered
<1>18. Whole'
    <2> SUFFICES ASSUME ~torn', NEW p \in 1..(n + 1), out'[p].k \in {"text", "metric"}
                 PROVE  Starting(p)'
        BY <1>12 DEF Whole
    <2>1. x.k \notin {"text", "metric"}
        <3>1. CASE gp = m
            BY <1>3, <1>7, <3>1 DEF Write
        <3>2. CASE gp \in 1..(m - 1)
            BY <1>3, <1>7, <3>2 DEF Pieces
        <3> QED
            BY <1>5, <3>1, <3>2
    <2>2. p \in 1..n /\ out'[p] = out[p]
        BY <1>12, <2>1
    <2> QED
        BY <1>1, <1>12, <1>13, <2>2 DEF Spoken, Whole
<1>19. ip' # 0
    <2>1. CASE call /\ gp = Len(TraceLine)
        <3>1. Step
            BY <2>1 DEF WriteTrace
        <3> QED
            BY <1>1, <3>1, StepInScript
    <2>2. CASE ~(call /\ gp = Len(TraceLine))
        BY <1>1, <2>2 DEF WriteTrace, Alive
    <2> QED
        BY <2>1, <2>2
<1> QED
    BY <1>4, <1>12, <1>15, <1>16, <1>17, <1>18, <1>19 DEF Spoken

\* The lines the script writes.
LEMMA ScriptLines ==
    ASSUME IInv, Spoken, WriteLine
    PROVE  Spoken'
<1>1. /\ Alive /\ Op \in Reported /\ Step
      /\ UNCHANGED <<setting, pc, checker, gcs, gp, call, status, cut, report>>
    BY DEF WriteLine
<1>2. ip \in Nat /\ ip' # 0 /\ pc = "running" /\ pc' = pc /\ user' = user
    BY <1>1, ChildTypes, StepInScript DEF Alive, setting
<1>3. PICK lines : lines = IF Op = "relay"
              THEN <<Write("text", ip)>> \o [j \in 1..3 |-> Write("metric", 100 * j + ip)]
              ELSE <<Write(Op, ip)>>
    OBVIOUS
<1>4. Writes(lines)
    BY <1>3 DEF WriteLine
<1>5. lines \in Seq(Line)
    <2>1. \A v \in Nat, k \in {"text", "metric"} : Write(k, v) \in Line
        BY DEF Write, Line
    <2>2. CASE Op = "relay"
        <3>1. <<Write("text", ip)>> \in Seq(Line)
            BY <1>2, <2>1
        <3>2. [j \in 1..3 |-> Write("metric", 100 * j + ip)] \in Seq(Line)
            <4>1. \A j \in 1..3 : 100 * j + ip \in Nat
                BY <1>2
            <4>2. \A j \in 1..3 : Write("metric", 100 * j + ip) \in Line
                BY <2>1, <4>1
            <4> QED
                BY <4>2
        <3> QED
            BY <1>3, <2>2, <3>1, <3>2
    <2>3. CASE Op # "relay"
        <3>1. Op \in {"text", "metric"}
            BY <1>1, <2>3 DEF Reported
        <3>2. Write(Op, ip) \in Line
            BY <1>2, <2>1, <3>1
        <3> QED
            BY <1>3, <2>3, <3>2
    <2> QED
        BY <2>2, <2>3
<1> QED
    BY <1>1, <1>2, <1>4, <1>5, WritesKeepsSpoken

\* The child ends, whatever it was about to write.
LEMMA ExitsKeepsSpoken ==
    ASSUME Spoken, Alive, NEW code, Exits(code)
    PROVE  Spoken'
<1>1. /\ UNCHANGED <<user, out, gcs, gp, torn>> /\ ip' = 0 /\ cut' = (gp > 0)
    BY Zenon DEF Exits, setting
<1>2. gp' = gp
    BY <1>1
<1>3. cut' = (gp' > 0)
    BY <1>1, <1>2, Zenon
<1> QED
    BY <1>1, <1>3, SilentKeepsSpoken

\* The script goes on, and says nothing.
LEMMA GoesOnKeepsSpoken ==
    ASSUME IInv, Spoken, Alive, ip' # 0, UNCHANGED <<setting, pc, gcs, gp, out, torn>>
    PROVE  Spoken'
BY SilentKeepsSpoken DEF Alive, setting

LEMMA ScriptKeepsSpoken ==
    ASSUME IInv, Spoken, Script
    PROVE  Spoken'
<1>0. (Alive /\ Step) => ip' # 0
    BY StepInScript
<1>1. CASE Flags
    <2>1. CASE user.args
        BY <1>0, <1>1, <2>1, GoesOnKeepsSpoken DEF Flags
    <2>2. CASE ~user.args
        BY <1>1, <2>2, ExitsKeepsSpoken DEF Flags
    <2> QED
        BY <2>1, <2>2
<1>2. CASE Work
    BY <1>0, <1>2, GoesOnKeepsSpoken DEF Work
<1>3. CASE WriteLine
    BY <1>3, ScriptLines
<1>4. CASE Checker
    BY <1>0, <1>4, GoesOnKeepsSpoken DEF Checker
<1>5. CASE Check
    <2>1. CASE Len(gcs) - checker < MinGCs
        BY <1>5, <2>1, ExitsKeepsSpoken DEF Check
    <2>2. CASE ~(Len(gcs) - checker < MinGCs)
        BY <1>0, <1>5, <2>2, GoesOnKeepsSpoken DEF Check
    <2> QED
        BY <2>1, <2>2
<1>6. CASE Exit
    BY <1>6, ExitsKeepsSpoken DEF Exit
<1> QED
    BY <1>1, <1>2, <1>3, <1>4, <1>5, <1>6 DEF Script

\* The note of -trace is the first line.
LEMMA TraceFlagKeepsSpoken ==
    ASSUME IInv, Spoken, TraceFlag
    PROVE  Spoken'
<1>1. Alive /\ out = <<>> /\ gp = 0
    BY DEF TraceFlag
<1>2. CASE Exits(1)
    BY <1>1, <1>2, ExitsKeepsSpoken
<1>3. CASE /\ out' = <<Write("text", 0)>>
           /\ UNCHANGED <<setting, pc, checker, ip, gcs, gp, call, status, torn, cut, report>>
    <2>1. PICK lines : lines = <<Write("text", 0)>>
        OBVIOUS
    <2>2. lines \in Seq(Line)
        <3>1. Write("text", 0) \in Line
            BY DEF Write, Line
        <3> QED
            BY <2>1, <3>1
    <2>3. torn' = (torn \/ gp > 1)
        <3>1. torn' = torn /\ ~(gp > 1)
            BY <1>1, <1>3
        <3>2. torn \in BOOLEAN
            BY DEF IInv, TypeOK
        <3> QED
            BY <3>1, <3>2, Zenon
    <2>4. out' = out \o lines
        BY <1>1, <1>3, <2>1, <2>2
    <2>5. /\ UNCHANGED <<user, gcs, gp, cut>> /\ pc = "running" /\ pc' = pc /\ ip' # 0
        BY <1>1, <1>3 DEF Alive, setting, IInv, TypeOK
    <2> QED
        BY <2>2, <2>3, <2>4, <2>5, WritesKeepsSpoken DEF Writes
<1> QED
    BY <1>2, <1>3 DEF TraceFlag

\* The parent has no voice in it.
LEMMA ParentKeepsSpoken ==
    ASSUME IInv, Spoken, Parent
    PROVE  Spoken'
<1>1. CASE Fork
    <2>1. /\ UNCHANGED <<user, out, gcs, gp, torn>> /\ ip' = 1 /\ pc' = "running"
        BY <1>1 DEF Fork, Goes, setting
    <2> QED
        BY <2>1, SilentKeepsSpoken
<1>2. CASE UNCHANGED <<setting, child>> /\ ip = 0
    <2>1. /\ UNCHANGED <<user, out, gcs, gp, torn, cut>> /\ ip' = 0
        BY <1>2 DEF setting, child
    <2>2. cut' = (gp' > 0)
        <3>1. cut = (gp > 0)
            BY <1>2, Zenon DEF Spoken
        <3> QED
            BY <2>1, <3>1, Zenon
    <2> QED
        BY <2>1, <2>2, SilentKeepsSpoken
<1>3. Parent => Fork \/ (UNCHANGED <<setting, child>> /\ ip = 0)
    <2>1. pc # "running" => ip = 0
        BY DEF Spoken
    <2>2. CASE Usage \/ Silent \/ PrintName \/ ForkAgain
        BY <2>1, <2>2 DEF Usage, Silent, PrintName, ForkAgain, Goes
    <2>3. CASE ChildFails \/ ChildSucceeds
        BY <2>3 DEF ChildFails, ChildSucceeds, stdout
    <2>4. CASE Parse
        <3>1. pc = "parse" /\ UNCHANGED <<setting, child>>
            BY <2>4, Zenon DEF Parse, Goes, stdout
        <3> QED
            BY <2>1, <3>1
    <2>5. CASE ParseFails \/ Trailer
        BY <2>1, <2>5 DEF ParseFails, Trailer, Goes, stdout
    <2>6. ASSUME NEW all, PrintResults(all)
          PROVE  UNCHANGED <<setting, child>> /\ ip = 0
        <3>1. pc = "print" /\ UNCHANGED <<setting, child>>
            BY <2>6, Zenon DEF PrintResults, Goes
        <3> QED
            BY <2>1, <3>1
    <2> QED
        BY <2>2, <2>3, <2>4, <2>5, <2>6, Zenon DEF Parent
<1> QED
    BY <1>1, <1>2, <1>3

LEMMA SpokenHolds == Spec => [](IInv /\ Spoken)
<1>1. Init => Spoken
    <2> SUFFICES ASSUME Init PROVE Spoken
        OBVIOUS
    <2>1. out = <<>> /\ gcs = <<>> /\ ip = 0 /\ gp = 0
        BY DEF Init
    <2>2. cut = (gp > 0)
        <3>1. cut = FALSE
            BY DEF Init
        <3>2. (gp > 0) = FALSE
            BY <2>1
        <3> QED
            BY <3>1, <3>2, Zenon
    <2>3. out \in Seq(Writing)
        BY <2>1
    <2>4. Continued /\ Unfinished /\ Numbered /\ Whole
        BY <2>1 DEF Continued, Unfinished, Numbered, Whole
    <2> QED
        BY <2>1, <2>2, <2>3, <2>4 DEF Spoken
<1>2. IInv /\ Spoken /\ [Next]_vars => Spoken'
    <2> SUFFICES ASSUME IInv, Spoken, [Next]_vars PROVE Spoken'
        OBVIOUS
    <2>1. CASE Parent
        BY <2>1, ParentKeepsSpoken
    <2>2. CASE Script
        BY <2>2, ScriptKeepsSpoken
    <2>3. CASE TraceFlag
        BY <2>3, TraceFlagKeepsSpoken
    <2>4. CASE Crash
        BY <2>4, ExitsKeepsSpoken DEF Crash
    <2>5. CASE \E called \in BOOLEAN : BeginGC(called)
        BY <2>5, BeginGCKeepsSpoken
    <2>6. CASE WriteTrace
        BY <2>6, WriteTraceKeepsSpoken
    <2>7. CASE Ended \/ UNCHANGED vars
        <3>1. /\ user' = user /\ pc' = pc /\ ip' = ip /\ gcs' = gcs /\ gp' = gp
              /\ out' = out /\ torn' = torn /\ cut' = cut
            BY <2>7 DEF Ended, vars, setting, child
        <3>2. ip = 0 => cut = (gp > 0)
            BY Zenon DEF Spoken
        <3>3. ip' = 0 => cut' = (gp' > 0)
            BY <3>1, <3>2, Zenon
        <3>4. pc # "running" => ip = 0
            BY DEF Spoken
        <3> QED
            BY <3>1, <3>3, <3>4, SilentKeepsSpoken
    <2> QED
        BY <2>1, <2>2, <2>3, <2>4, <2>5, <2>6, <2>7 DEF Next
<1> QED
    BY <1>1, <1>2, InitIInv, NextKeepsIInv, PTL DEF Spec

-----------------------------------------------------------------------------
(* Lines. *)

\* A line goes to its first end, or to the end of the output.
LEMMA LineAtIs ==
    ASSUME NEW K, NEW o \in Seq(K), NEW i \in DOMAIN o
    PROVE  \E e \in DOMAIN o :
             /\ i <= e /\ LineAt(o, i) = SubSeq(o, i, e)
             /\ e = Len(o) \/ o[e].k \in EndsLine
             /\ \A j \in DOMAIN o : i <= j /\ j < e => o[j].k \notin EndsLine
<1>1. PICK n \in Nat : n = Len(o) /\ DOMAIN o = 1..n /\ i \in 1..n
    BY SeqIs
<1> DEFINE T == {e \in 1..n : i <= e /\ (e = n \/ o[e].k \in EndsLine)}
<1>2. PICK e \in T : \A y \in T : e <= y
    <2>1. n \in T /\ T \in SUBSET Nat
        BY <1>1
    <2> HIDE DEF T
    <2> QED
        BY <2>1, LeastNumber
<1> DEFINE End(d) == /\ d = Len(o) \/ o[d].k \in EndsLine
                     /\ \A j \in i..(d - 1) : o[j].k \notin EndsLine
<1>3. e \in i..n /\ End(e)
    <2>1. e \in 1..n /\ i <= e /\ (e = n \/ o[e].k \in EndsLine)
        OBVIOUS
    <2>2. ASSUME NEW j \in i..(e - 1), o[j].k \in EndsLine PROVE FALSE
        <3>1. j \in 1..n /\ i <= j /\ ~(e <= j)
            BY <1>1, <2>1
        <3>2. j \in T
            BY <2>2, <3>1
        <3> QED
            BY <1>2, <3>1, <3>2
    <2> QED
        BY <1>1, <2>1, <2>2
<1>4. PICK d : d = CHOOSE x \in i..n : End(x)
    OBVIOUS
<1>5. d \in i..n /\ End(d)
    BY <1>3, <1>4, Zenon
<1>6. LineAt(o, i) = SubSeq(o, i, d)
    BY <1>1, <1>4, Zenon DEF LineAt
<1> HIDE DEF T
<1>7. d \in DOMAIN o /\ i <= d /\ (d = Len(o) \/ o[d].k \in EndsLine)
    BY <1>1, <1>5
<1>8. ASSUME NEW j \in DOMAIN o, i <= j, j < d PROVE o[j].k \notin EndsLine
    <2>1. j \in i..(d - 1)
        BY <1>1, <1>5, <1>8
    <2> QED
        BY <1>5, <2>1
<1> QED
    BY <1>6, <1>7, <1>8, Zenon

\* The pieces of a line.
LEMMA LinePieces ==
    ASSUME NEW K, NEW o \in Seq(K), NEW i \in DOMAIN o, NEW e \in DOMAIN o, i <= e
    PROVE  \E m \in Nat \ {0} :
             /\ m = e - i + 1 /\ SubSeq(o, i, e) \in Seq(K)
             /\ Len(SubSeq(o, i, e)) = m /\ DOMAIN SubSeq(o, i, e) = 1..m
             /\ \A j \in 1..m : /\ SubSeq(o, i, e)[j] = o[i + j - 1]
                                /\ i + j - 1 \in i..e
             /\ SubSeq(o, i, e) # <<>>
<1>1. PICK n \in Nat : n = Len(o) /\ DOMAIN o = 1..n
    BY SeqIs
<1>2. PICK m \in Nat \ {0} : m = e - i + 1
    BY <1>1
<1>3. SubSeq(o, i, e) \in Seq(K) /\ Len(SubSeq(o, i, e)) = m
    BY <1>1, <1>2
<1>4. DOMAIN SubSeq(o, i, e) = 1..m
    BY <1>3
<1>5. \A j \in 1..m : SubSeq(o, i, e)[j] = o[i + j - 1] /\ i + j - 1 \in i..e
    BY <1>1, <1>2
<1>6. SubSeq(o, i, e) # <<>>
    BY <1>2, <1>3
<1> QED
    BY <1>2, <1>3, <1>4, <1>5, <1>6

\* A write that ends a line and stands where one may start is a line.
LEMMA LineOfOne ==
    ASSUME NEW K, NEW o \in Seq(K), NEW i \in DOMAIN o, o[i].k \in EndsLine
    PROVE  LineAt(o, i) = <<o[i]>>
<1>1. PICK e \in DOMAIN o :
        /\ i <= e /\ LineAt(o, i) = SubSeq(o, i, e)
        /\ \A j \in DOMAIN o : i <= j /\ j < e => o[j].k \notin EndsLine
    BY LineAtIs
<1>2. i \in Int /\ e \in Int
    BY SeqIs
<1>3. e = i
    BY <1>1, <1>2
<1>4. PICK m \in Nat \ {0} :
             /\ m = e - i + 1 /\ SubSeq(o, i, e) \in Seq(K)
             /\ Len(SubSeq(o, i, e)) = m /\ DOMAIN SubSeq(o, i, e) = 1..m
             /\ \A j \in 1..m : /\ SubSeq(o, i, e)[j] = o[i + j - 1]
                                /\ i + j - 1 \in i..e
             /\ SubSeq(o, i, e) # <<>>
    <2>1. i <= e
        BY <1>1
    <2> QED
        BY <2>1, LinePieces, Zenon
<1>5. m = 1 /\ 1 \in 1..m /\ i + 1 - 1 = i
    BY <1>2, <1>3, <1>4
<1>6. PICK l : l = SubSeq(o, i, e)
    OBVIOUS
<1>7. l \in Seq(K) /\ Len(l) = 1 /\ l[1] = o[i]
    BY <1>4, <1>5, <1>6
<1>8. l = <<l[1]>>
    BY <1>7
<1> QED
    BY <1>1, <1>6, <1>7, <1>8

\* A line starts with its first write.
LEMMA LineStarts ==
    ASSUME NEW K, NEW o \in Seq(K), NEW i \in DOMAIN o
    PROVE  LineAt(o, i) # <<>> /\ LineAt(o, i)[1] = o[i]
<1>1. PICK e \in DOMAIN o : i <= e /\ LineAt(o, i) = SubSeq(o, i, e)
    BY LineAtIs
<1>2. PICK m \in Nat \ {0} :
             /\ m = e - i + 1 /\ SubSeq(o, i, e) \in Seq(K)
             /\ Len(SubSeq(o, i, e)) = m /\ DOMAIN SubSeq(o, i, e) = 1..m
             /\ \A j \in 1..m : /\ SubSeq(o, i, e)[j] = o[i + j - 1]
                                /\ i + j - 1 \in i..e
             /\ SubSeq(o, i, e) # <<>>
    BY <1>1, LinePieces, Zenon
<1>3. 1 \in 1..m /\ i + 1 - 1 = i
    BY SeqIs
<1> QED
    BY <1>1, <1>2, <1>3

\* What the lines that start in a way report is finite.
LEMMA ExtraIs ==
    ASSUME out \in Seq(Writing)
    PROVE  /\ Extra \in SUBSET Int /\ IsFiniteSet(Extra)
           /\ \A p \in Starts(out) : out[p].k = "metric" => out[p].v \in Extra
<1>1. PICK n \in Nat : n = Len(out) /\ DOMAIN out = 1..n
    BY SeqIs
<1>2. \A p \in 1..n : /\ out[p] \in Writing /\ out[p].v \in Int
                      /\ LineAt(out, p) # <<>> /\ LineAt(out, p)[1] = out[p]
    <2>1. \A p \in 1..n : out[p] \in Writing
        BY <1>1, SeqIs
    <2>2. \A p \in 1..n : LineAt(out, p) # <<>> /\ LineAt(out, p)[1] = out[p]
        BY <1>1, LineStarts
    <2> QED
        BY <2>1, <2>2 DEF Writing
<1> DEFINE f == [p \in 1..n |-> out[p].v]
           T == {f[p] : p \in 1..n}
<1>3. IsFiniteSet(T)
    <2>1. f \in Surjection(1..n, T)
        BY DEF Surjection
    <2>2. IsFiniteSet(1..n)
        BY FS_Interval
    <2> QED
        BY <2>1, <2>2, FS_Surjection
<1>4. Starts(out) \subseteq 1..n
    BY <1>1 DEF Starts
<1>5. Extra \subseteq T
    <2> SUFFICES ASSUME NEW v \in Extra PROVE v \in T
        OBVIOUS
    <2>1. PICK l \in LinesOf(out) : StartsWith(l, "metric") /\ v = l[1].v
        BY DEF Extra
    <2>2. PICK p \in Starts(out) : l = LineAt(out, p)
        BY <2>1 DEF LinesOf
    <2>3. p \in 1..n /\ v = out[p].v
        BY <1>2, <1>4, <2>1, <2>2
    <2> QED
        BY <2>3
<1>6. T \subseteq Int
    BY <1>2
<1>7. ASSUME NEW p \in Starts(out), out[p].k = "metric" PROVE out[p].v \in Extra
    <2>1. LineAt(out, p) \in LinesOf(out)
        BY DEF LinesOf
    <2>2. StartsWith(LineAt(out, p), "metric") /\ LineAt(out, p)[1].v = out[p].v
        BY <1>2, <1>4, <1>7 DEF StartsWith
    <2> QED
        BY <2>1, <2>2 DEF Extra
<1> HIDE DEF T
<1> QED
    BY <1>3, <1>5, <1>6, <1>7, FS_Subset

-----------------------------------------------------------------------------
(* The line of results. *)

\* There is a metric that is never NaN.
LEMMA MetricsAre ==
    ASSUME NEW t, NEW of, NEW phases, NEW elapsed
    PROVE  /\ DOMAIN Metrics(t, of, phases, elapsed, Infinity) = 1..8
           /\ Metrics(t, of, phases, elapsed, Infinity)[1].value # {}
<1>1. Metric("GCs/op", {Len(t)}).value # {}
    BY DEF Metric
<1>2. DOMAIN Metrics(t, of, phases, elapsed, Infinity) = 1..8
    BY SMTT(30) DEF Metrics
<1>3. Metrics(t, of, phases, elapsed, Infinity)[1] = Metric("GCs/op", {Len(t)})
    BY SMTT(30) DEF Metrics
<1> QED
    BY <1>1, <1>2, <1>3

\* Every metric printed has a value.
LEMMA TokensAre ==
    ASSUME NEW m, DOMAIN m = 1..8, m[1].value # {}
    PROVE  \E n \in Nat \ {0} :
             /\ DOMAIN Tokens(m) = 1..(2 * n) /\ Len(Tokens(m)) = 2 * n
             /\ Tokens(m) = [i \in 1..(2 * n) |-> Tokens(m)[i]]
             /\ \A j \in 1..n : IsFloat(Tokens(m)[2 * j - 1])
<1> DEFINE S == {i \in 1..8 : m[i].value # {}}
           printed == InOrder(S)
           f == [j \in DOMAIN printed |->
                  <<Num(CHOOSE x \in m[printed[j]].value : TRUE), Word(m[printed[j]].label)>>]
<1>1. S \in SUBSET Int /\ IsFiniteSet(S) /\ 1 \in S
    <2>1. S \in SUBSET (1..8)
        OBVIOUS
    <2>2. IsFiniteSet(S)
        <3>1. 1 \in Int /\ 8 \in Int
            OBVIOUS
        <3>2. IsFiniteSet(1..8)
            BY <3>1, FS_Interval, Zenon
        <3> HIDE DEF S
        <3> QED
            BY <2>1, <3>2, FS_Subset
    <2> QED
        BY <2>1, <2>2
<1>2. Tokens(m) = Pairs(f)
    BY DEF Tokens
<1>3. PICK n \in Nat \ {0} : DOMAIN printed = 1..n
    <2> HIDE DEF S
    <2>1. PICK n \in Nat : printed \in [1..n -> S] /\ \A x \in S : \E i \in 1..n : printed[i] = x
        BY <1>1, InOrderIs
    <2>2. n # 0
        BY <1>1, <2>1
    <2> QED
        BY <2>1, <2>2
<1> HIDE DEF printed
<1>4. DOMAIN f = 1..n /\ \A j \in 1..n : IsFloat(f[j][1])
    BY <1>3 DEF IsFloat, Num
<1>5. Len(f) = n
    <2> HIDE DEF f
    <2>1. n \in Nat
        OBVIOUS
    <2> QED
        BY <1>3, <2>1 DEF f
<1> HIDE DEF f
<1>6. /\ DOMAIN Pairs(f) = 1..(2 * n) /\ Len(Pairs(f)) = 2 * n
      /\ \A j \in 1..n : Pairs(f)[2 * j - 1] = f[j][1]
      /\ Pairs(f) = [i \in 1..(2 * n) |-> Pairs(f)[i]]
    BY <1>4, <1>5, PairsAre
<1>7. \A j \in 1..n : IsFloat(Pairs(f)[2 * j - 1])
    BY <1>4, <1>6
<1> QED
    BY <1>2, <1>6, <1>7

\* Numbers and their units alternate; the extra metrics are among the fields.
Values(s, n) == Len(s) = 2 * n /\ \A j \in 1..n : IsFloat(s[2 * j - 1])
Mentions(s, E) == \A v \in E : \E i \in DOMAIN s : s[i] = Num(v)

\* The extra metrics in pairs, each with an iteration count of its own.
LEMMA ExtraFields ==
    ASSUME NEW E \in SUBSET Int, IsFiniteSet(E)
    PROVE  \E b \in Nat : /\ Values(ExtraTokens(E), b) /\ (\E R : ExtraTokens(E) \in Seq(R))
                          /\ Mentions(ExtraTokens(E), E)
<1> DEFINE keys == InOrder(E)
           r == ExtraTokens(E)
           f == [i \in DOMAIN keys |-> <<Num(1000), Num(keys[i])>>]
<1>1. r = Pairs(f)
    BY DEF ExtraTokens
<1> HIDE DEF keys, r
<1>2. PICK b \in Nat :
        /\ b = Cardinality(E) /\ keys \in [1..b -> E]
        /\ \A x \in E : \E i \in 1..b : keys[i] = x
    <2>1. \E n \in Nat :
             /\ n = Cardinality(E)
             /\ InOrder(E) \in [1..n -> E]
             /\ \A i, j \in 1..n : i < j => InOrder(E)[i] < InOrder(E)[j]
             /\ \A x \in E : \E i \in 1..n : InOrder(E)[i] = x
        BY InOrderIs
    <2> QED
        BY <2>1 DEF keys
<1>3. DOMAIN f = 1..b /\ f = [i \in 1..b |-> <<Num(1000), Num(keys[i])>>]
    BY <1>2
<1>4. \A j \in 1..b : f[j][1] = Num(1000) /\ f[j][2] = Num(keys[j])
    BY <1>3
<1> HIDE DEF f
<1>5. PICK g : g = f
    OBVIOUS
<1>6. DOMAIN g = 1..b /\ Len(g) = b /\ r = Pairs(g)
    <2>1. g = [i \in 1..b |-> g[i]]
        BY <1>3, <1>5
    <2>2. Len(g) = b
        BY <2>1
    <2> QED
        BY <1>1, <1>3, <1>5, <2>2
<1>7. /\ DOMAIN Pairs(g) = 1..(2 * b) /\ Len(Pairs(g)) = 2 * b
      /\ \A j \in 1..b : /\ 2 * j - 1 \in 1..(2 * b) /\ 2 * j \in 1..(2 * b)
                         /\ Pairs(g)[2 * j - 1] = g[j][1] /\ Pairs(g)[2 * j] = g[j][2]
      /\ Pairs(g) = [i \in 1..(2 * b) |-> Pairs(g)[i]]
    BY <1>6, PairsAre, Zenon
<1>8. IsFloat(Num(1000))
    BY DEF IsFloat, Num
<1>9. ASSUME NEW j \in 1..b PROVE IsFloat(r[2 * j - 1])
    <2>1. g[j][1] = Num(1000)
        BY <1>4, <1>5
    <2>2. Pairs(g)[2 * j - 1] = g[j][1]
        BY <1>7, Zenon
    <2> QED
        BY <1>6, <1>8, <2>1, <2>2
<1>10. Mentions(r, E)
    <2> SUFFICES ASSUME NEW v \in E PROVE \E i \in DOMAIN r : r[i] = Num(v)
        BY DEF Mentions
    <2>1. PICK j \in 1..b : keys[j] = v
        BY <1>2
    <2>2. g[j][2] = Num(keys[j])
        BY <1>4, <1>5
    <2>3. 2 * j \in DOMAIN Pairs(g) /\ Pairs(g)[2 * j] = g[j][2]
        BY <1>7
    <2> QED
        BY <1>6, <2>1, <2>2, <2>3
<1>11. Len(r) = 2 * b /\ \E R : r \in Seq(R)
    <2>1. PICK c \in Nat : c = 2 * b
        OBVIOUS
    <2>2. PICK h : h = Pairs(g)
        OBVIOUS
    <2>3. Len(h) = c /\ h = [i \in 1..c |-> h[i]]
        BY <1>7, <2>1, <2>2
    <2>4. h \in Seq({h[i] : i \in 1..c})
        BY <2>3, FunctionIsSeq
    <2> QED
        BY <1>6, <2>1, <2>2, <2>3, <2>4
<1> QED
    BY <1>9, <1>10, <1>11 DEF Values, r

\* The fields of a line of results: numbers and their units, the extra ones last.
LEMMA FieldsAre ==
    ASSUME NEW m, DOMAIN m = 1..8, m[1].value # {}, NEW E \in SUBSET Int, IsFiniteSet(E)
    PROVE  IsFields(Fields(m, E)) /\ Mentions(Fields(m, E), E)
<1>1. PICK r : r = ExtraTokens(E)
    OBVIOUS
<1>2. PICK b \in Nat : Values(r, b) /\ (\E R : r \in Seq(R)) /\ Mentions(r, E)
    BY <1>1, ExtraFields
<1>3. Values(r, b) /\ Mentions(r, E)
    BY <1>2, Zenon
<1>4. PICK R : r \in Seq(R)
    BY <1>2, Zenon
<1>5. PICK a \in Nat \ {0} :
        /\ DOMAIN Tokens(m) = 1..(2 * a) /\ Len(Tokens(m)) = 2 * a
        /\ Tokens(m) = [i \in 1..(2 * a) |-> Tokens(m)[i]]
        /\ \A j \in 1..a : IsFloat(Tokens(m)[2 * j - 1])
    BY TokensAre
<1>6. PICK q : q = Tokens(m)
    OBVIOUS
<1>7. PICK Q : q \in Seq(Q)
    <2>1. PICK c \in Nat : c = 2 * a
        OBVIOUS
    <2>2. q = [i \in 1..c |-> q[i]]
        BY <1>5, <1>6, <2>1
    <2>3. q \in Seq({q[i] : i \in 1..c})
        BY <2>2, FunctionIsSeq
    <2> QED
        BY <2>3
<1>8. PICK K : K = {Num(1000)} \cup Q \cup R
    OBVIOUS
<1>9. q \in Seq(K) /\ r \in Seq(K)
    BY <1>4, <1>7, <1>8
<1>10. PICK p : p = <<Num(1000)>>
    OBVIOUS
<1>11. p \in Seq(K) /\ Len(p) = 1 /\ p[1] = Num(1000)
    BY <1>8, <1>10
<1>12. PICK s : s = p \o q
    OBVIOUS
<1>13. s \in Seq(K) /\ Len(s) = Len(p) + Len(q) /\ IsConcat(s, p, Len(p), q, Len(q))
    <2>1. p \in Seq(K) /\ q \in Seq(K)
        BY <1>9, <1>11
    <2>2. p \o q \in Seq(K) /\ Len(p \o q) = Len(p) + Len(q)
          /\ IsConcat(p \o q, p, Len(p), q, Len(q))
        BY <2>1, ConcatIs, Zenon
    <2> QED
        BY <1>12, <2>2, Zenon
<1>14. PICK fields : fields = s \o r
    OBVIOUS
<1>15. IsConcat(fields, s, Len(s), r, Len(r))
    <2>1. IsConcat(s \o r, s, Len(s), r, Len(r))
        BY <1>9, <1>13, ConcatIs, Zenon
    <2> QED
        BY <1>14, <2>1, Zenon
<1>16. Values(q, a)
    BY <1>5, <1>6 DEF Values
<1>17. Len(s) = 1 + Len(q)
    BY <1>11, <1>13, Zenon
<1>18. PICK ka \in Nat, kb \in Nat, n \in Nat : ka = 2 * a /\ kb = 2 * b /\ n = 1 + ka
    OBVIOUS
<1>19. Len(s) = n /\ Len(r) = kb /\ Len(q) = ka
    BY <1>3, <1>11, <1>16, <1>17, <1>18 DEF Values
<1>20. /\ \A i \in 1..1 : s[i] = p[i]
      /\ \A i \in 1..ka : s[1 + i] = q[i]
    <2>1. IsConcat(s, p, 1, q, ka)
        BY <1>11, <1>13, <1>19
    <2> QED
        BY <2>1, Zenon DEF IsConcat
<1>21. IsConcat(fields, s, n, r, kb)
    BY <1>15, <1>19
<1>22. DOMAIN fields = 1..(n + kb) /\ \A i \in 1..n : fields[i] = s[i]
    BY <1>21, Zenon DEF IsConcat
<1>23. \A i \in 1..kb : fields[n + i] = r[i]
    BY <1>21, Zenon DEF IsConcat
<1>24. fields[1] = Num(1000)
    <2>1. 1 \in 1..n /\ 1 \in 1..1
        BY <1>18
    <2>2. fields[1] = s[1]
        BY <1>22, <2>1
    <2>3. s[1] = p[1]
        BY <1>20, <2>1
    <2> QED
        BY <1>11, <2>2, <2>3
<1>25. \E c \in Nat \ {0} : DOMAIN fields = 1..(1 + 2 * c)
    <2>1. PICK c \in Nat \ {0} : c = a + b
        OBVIOUS
    <2>2. n + kb = 1 + 2 * c
        BY <1>18, <2>1
    <2> QED
        BY <1>22, <2>2
<1>26. ASSUME NEW j \in DOMAIN fields, j % 2 = 0 PROVE IsFloat(fields[j])
    <2>1. j \in 1..(n + kb)
        BY <1>22
    <2>2. PICK h \in Nat \ {0} : j = 2 * h
        BY <1>26, <2>1
    <2>3. CASE h \in 1..a
        <3>1. PICK g \in 1..ka : g = 2 * h - 1 /\ j = 1 + g /\ j \in 1..n
            BY <1>18, <2>2, <2>3
        <3>2. fields[j] = s[j] /\ s[j] = q[g]
            BY <1>20, <1>22, <3>1
        <3>3. IsFloat(q[g])
            BY <1>16, <2>3, <3>1 DEF Values
        <3> QED
            BY <3>2, <3>3
    <2>4. CASE h \notin 1..a
        <3>1. PICK d \in 1..b : d = h - a
            BY <1>18, <2>1, <2>2, <2>4
        <3>2. PICK g \in 1..kb : g = 2 * d - 1 /\ j = n + g
            BY <1>18, <2>2, <3>1
        <3>3. fields[j] = r[g]
            <4>1. fields[n + g] = r[g]
                BY <1>23, Zenon
            <4> QED
                BY <3>2, <4>1
        <3>4. IsFloat(r[2 * d - 1])
            <4>1. \A l \in 1..b : IsFloat(r[2 * l - 1])
                BY <1>3, Zenon DEF Values
            <4> QED
                BY <3>1, <4>1, Zenon
        <3>5. IsFloat(r[g])
            BY <3>2, <3>4
        <3> QED
            BY <3>3, <3>5
    <2> QED
        BY <2>3, <2>4
<1>27. IsFields(fields)
    <2>1. s \o r \in Seq(K)
        BY <1>9, <1>13, ConcatIs, Zenon
    <2>2. \E J : fields \in Seq(J)
        BY <1>14, <2>1, Zenon
    <2> QED
        BY <1>24, <1>25, <1>26, <2>2, Zenon DEF IsFields
<1>28. ASSUME NEW i \in 1..(2 * b) PROVE \E l \in DOMAIN fields : fields[l] = r[i]
    <2>1. i \in 1..kb /\ n + i \in 1..(n + kb)
        BY <1>18
    <2>2. n + i \in DOMAIN fields
        BY <1>22, <2>1
    <2>3. fields[n + i] = r[i]
        BY <1>23, <2>1, Zenon
    <2> QED
        BY <2>2, <2>3
<1>29. DOMAIN r = 1..(2 * b)
    <2>1. Len(r) = 2 * b
        BY <1>3 DEF Values
    <2>2. DOMAIN r = 1..Len(r)
        BY <1>4
    <2> QED
        BY <2>1, <2>2
<1>30. Mentions(fields, E)
    <2> SUFFICES ASSUME NEW v \in E PROVE \E l \in DOMAIN fields : fields[l] = Num(v)
        BY DEF Mentions
    <2>1. PICK i \in DOMAIN r : r[i] = Num(v)
        BY <1>3 DEF Mentions
    <2> QED
        BY <1>28, <1>29, <2>1
<1>31. Fields(m, E) = fields
    <2>1. Fields(m, E) = <<Num(1000)>> \o Tokens(m) \o r
        BY <1>1, Zenon DEF Fields
    <2>2. <<Num(1000)>> \o Tokens(m) = s
        BY <1>6, <1>10, <1>12
    <2> QED
        BY <1>14, <2>1, <2>2
<1> QED
    BY <1>27, <1>30, <1>31

\* The parent prints what the child reported, but for what is in a torn line.
LEMMA PrintResultsIs ==
    ASSUME Spoken, NEW all, PrintResults(all),
           DOMAIN result = DOMAIN Blank
    PROVE  /\ IsFields(result'.fields)
           /\ result' = [result EXCEPT !.fields = result'.fields]
           /\ LostOnlyIfTorn'
<1>1. /\ UNCHANGED <<setting, child>>
      /\ shown' = {w.v : w \in UNION {ToSet(l) : l \in NonGC(all)}}
    BY Zenon DEF PrintResults
<1>2. out' = out /\ torn' = torn
    BY <1>1 DEF child
<1>3. PICK run \in {WithoutForced(t) : t \in trace}, extra \in {Extra} :
         \E metrics \in {Metrics(run, measured, user.phases, Elapsed, Infinity)} :
           result' = [result EXCEPT !.fields = Fields(metrics, extra)]
    BY Zenon DEF PrintResults
<1>4. PICK m \in {Metrics(run, measured, user.phases, Elapsed, Infinity)} :
         result' = [result EXCEPT !.fields = Fields(m, extra)]
    BY <1>3, Zenon
<1>5. PICK fields : fields = Fields(m, extra)
    OBVIOUS
<1>6. result' = [result EXCEPT !.fields = fields] /\ result'.fields = fields
    <2>1. result' = [result EXCEPT !.fields = fields]
        BY <1>4, <1>5
    <2>2. "fields" \in DOMAIN result
        BY DEF Blank
    <2> QED
        BY <2>1, <2>2
<1>7. Extra \in SUBSET Int /\ IsFiniteSet(Extra)
      /\ \A p \in Starts(out) : out[p].k = "metric" => out[p].v \in Extra
    BY ExtraIs DEF Spoken
<1>8. IsFields(fields) /\ \A v \in Extra : \E i \in DOMAIN fields : fields[i] = Num(v)
    <2>1. DOMAIN m = 1..8 /\ m[1].value # {}
        BY MetricsAre
    <2>2. extra = Extra
        OBVIOUS
    <2>3. IsFields(fields) /\ Mentions(fields, extra)
        BY <1>5, <1>7, <2>1, <2>2, FieldsAre
    <2> QED
        BY <2>2, <2>3 DEF Mentions
<1>9. ASSUME ~torn, NEW p \in DOMAIN out, out[p].k \in {"text", "metric"}
      PROVE  p \in Starts(out)
    BY <1>9 DEF Spoken, Whole, Starting, Starts
<1>10. ASSUME ~torn, NEW v \in Written("text") PROVE v \in shown'
    <2>1. PICK p \in DOMAIN out : out[p].k = "text" /\ v = out[p].v
        BY DEF Written, ToSet
    <2>2. p \in Starts(out)
        BY <1>9, <1>10, <2>1
    <2>3. PICK l : l = <<out[p]>>
        OBVIOUS
    <2>4. LineAt(out, p) = l
        BY <2>1, <2>3, LineOfOne DEF Spoken, EndsLine
    <2>5. l \in LinesOf(out)
        BY <2>2, <2>4 DEF LinesOf
    <2>6. ~StartsWith(l, "gc") /\ ~StartsWith(l, "metric")
        BY <2>1, <2>3 DEF StartsWith
    <2>7. l \in NonGC(all)
        BY <2>5, <2>6, Zenon DEF NonGC
    <2>8. out[p] \in ToSet(l)
        BY <2>3 DEF ToSet
    <2>9. \E w \in UNION {ToSet(x) : x \in NonGC(all)} : v = w.v
        BY <2>1, <2>7, <2>8, Zenon
    <2> QED
        BY <1>1, <2>9
<1>11. ASSUME ~torn, NEW v \in Written("metric")
       PROVE  \E i \in DOMAIN fields : fields[i] = Num(v)
    <2>1. PICK p \in DOMAIN out : out[p].k = "metric" /\ v = out[p].v
        BY DEF Written, ToSet
    <2> QED
        BY <1>7, <1>8, <1>9, <1>11, <2>1
<1>12. \A kind : Written(kind)' = Written(kind)
    BY <1>2 DEF Written
<1> QED
    BY <1>2, <1>6, <1>8, <1>10, <1>11, <1>12 DEF LostOnlyIfTorn

\* A line of results with other fields.
LEMMA LineIs ==
    ASSUME NEW name, NEW parts, NEW fields, NEW other
    PROVE  /\ BenchLine(name, parts, fields).fields = fields
           /\ BenchLine(name, parts, fields).name = name
           /\ BenchLine(name, parts, fields).parts = parts
           /\ BenchLine(name, parts, fields).kind = "bench"
           /\ DOMAIN BenchLine(name, parts, fields) = DOMAIN Blank
           /\ [BenchLine(name, parts, fields) EXCEPT !.fields = other] = BenchLine(name, parts, other)
BY DEF BenchLine, Blank

\* The line of results is the program's own, ended after a success and no other time.
Printed == ResultShape /\ LostOnlyIfTorn

\* Before the results are printed the line stays as it is.
LEMMA NotYet ==
    ASSUME ResultShape, UNCHANGED <<setting, result, closed>>, ~closed,
           pc \notin {"main", "usage", "silent"} \/ pc' \in {"main", "usage", "silent"},
           pc' # "done", pc' = "trailer" => failed'
    PROVE  Printed'
<1>1. /\ prog' = prog /\ user' = user /\ result' = result /\ closed' = closed /\ ~closed'
    BY DEF setting
<1>2. FullName' = FullName
    BY <1>1 DEF FullName
<1>3. pc' \notin {"main", "usage", "silent"} =>
         result' = BenchLine(FullName'.name, FullName'.parts, result'.fields)
    BY <1>1, <1>2 DEF ResultShape
<1>4. pc' \in {"trailer", "done"} => failed' /\ ~closed'
    BY <1>1
<1>5. pc' \in {"trailer", "done"} => failed' = ~closed'
    BY <1>4
<1> QED
    BY <1>1, <1>3, <1>5 DEF Printed, ResultShape, LostOnlyIfTorn

LEMMA ParentKeepsResults ==
    ASSUME IInv, Spoken, Printed, Parent
    PROVE  Printed'
<1>1. /\ closed => pc \in {"trailer", "done"}
      /\ failed => pc \in {"trailer", "done"}
      /\ closed \in BOOLEAN /\ failed \in BOOLEAN
      /\ ResultShape /\ LostOnlyIfTorn
    BY DEF IInv, TypeOK, Trusted, Printed
<1>2. CASE Usage \/ Silent \/ ForkAgain \/ Fork
    BY <1>1, <1>2, NotYet DEF Usage, Silent, ForkAgain, Fork, Goes, report, stdout
<1>3. CASE PrintName
    <2>1. /\ pc' = "named" /\ ~closed' /\ result' = BenchLine(FullName.name, FullName.parts, <<>>)
          /\ prog' = prog /\ user' = user
        BY <1>1, <1>3 DEF PrintName, Goes, setting
    <2>2. FullName' = FullName
        BY <2>1 DEF FullName
    <2>3. result'.fields = <<>>
        BY <2>1, LineIs
    <2> QED
        BY <2>1, <2>2, <2>3 DEF Printed, ResultShape, LostOnlyIfTorn
<1>4. CASE ChildFails \/ ParseFails
    BY <1>1, <1>4, NotYet DEF ChildFails, ParseFails, stdout
<1>5. CASE ChildSucceeds
    BY <1>1, <1>5, NotYet DEF ChildSucceeds, report, stdout
<1>6. CASE Parse
    <2>1. pc = "parse" /\ pc' = "print" /\ UNCHANGED <<setting, result, closed>>
        BY <1>6, Zenon DEF Parse, Goes, stdout
    <2> QED
        BY <1>1, <2>1, NotYet
<1>7. ASSUME NEW all, PrintResults(all) PROVE Printed'
    <2>1. /\ pc = "print" /\ pc' = "trailer" /\ closed' = TRUE /\ failed' = failed
          /\ UNCHANGED <<setting, child>>
        BY <1>7, Zenon DEF PrintResults, Goes
    <2>2. result = BenchLine(FullName.name, FullName.parts, result.fields)
        BY <1>1, <2>1 DEF ResultShape
    <2>3. DOMAIN result = DOMAIN Blank
        BY <2>2, LineIs
    <2>4. /\ IsFields(result'.fields)
          /\ result' = [result EXCEPT !.fields = result'.fields]
          /\ LostOnlyIfTorn'
        BY <1>7, <2>3, PrintResultsIs
    <2>5. PICK fields : fields = result'.fields
        OBVIOUS
    <2>6. result' = BenchLine(FullName.name, FullName.parts, fields)
        <3>1. result' = [result EXCEPT !.fields = fields]
            BY <2>4, <2>5, Zenon
        <3>2. PICK name, parts, f : name = FullName.name /\ parts = FullName.parts /\ f = result.fields
            OBVIOUS
        <3>3. result = BenchLine(name, parts, f)
            BY <2>2, <3>2, Zenon
        <3>4. result' = BenchLine(name, parts, fields)
            <4>1. [BenchLine(name, parts, f) EXCEPT !.fields = fields] = BenchLine(name, parts, fields)
                BY DEF BenchLine, Blank
            <4> QED
                BY <3>1, <3>3, <4>1
        <3> QED
            BY <3>2, <3>4, Zenon
    <2>7. FullName' = FullName
        BY <2>1 DEF FullName, setting
    <2>8. failed' = ~closed'
        <3>1. failed' = FALSE /\ closed' = TRUE
            BY <1>1, <2>1
        <3> QED
            BY <3>1
    <2> QED
        BY <2>1, <2>4, <2>5, <2>6, <2>7, <2>8 DEF Printed, ResultShape
<1>8. CASE Trailer
    <2>1. /\ pc = "trailer" /\ pc' = "done" /\ closed' = closed /\ failed' = failed
          /\ prog' = prog /\ user' = user /\ out' = out /\ torn' = torn /\ shown' = shown
          /\ result' = IF closed THEN result ELSE [result EXCEPT !.fields = <<Word("time:")>>]
        BY <1>8 DEF Trailer, Goes, setting, child
    <2>2. FullName' = FullName
        BY <2>1 DEF FullName
    <2>3. PICK name, parts, f : name = FullName.name /\ parts = FullName.parts /\ f = result.fields
        OBVIOUS
    <2>4. result = BenchLine(name, parts, f)
        BY <1>1, <2>1, <2>3 DEF ResultShape
    <2>5. failed' = ~closed'
        <3>1. failed = ~closed
            BY <1>1, <2>1 DEF ResultShape
        <3> QED
            BY <2>1, <3>1, Zenon
    <2>6. CASE closed
        <3>1. result' = result /\ closed'
            BY <2>1, <2>6
        <3>2. IsFields(result'.fields) /\ result' = BenchLine(FullName'.name, FullName'.parts, result'.fields)
            BY <1>1, <2>2, <2>3, <2>4, <2>6, <3>1 DEF ResultShape
        <3>3. LostOnlyIfTorn'
            BY <1>1, <2>1, <3>1 DEF LostOnlyIfTorn, Written
        <3> QED
            BY <2>1, <2>5, <3>1, <3>2, <3>3 DEF Printed, ResultShape
    <2>7. CASE ~closed
        <3>1. PICK fields : fields = <<Word("time:")>>
            OBVIOUS
        <3>2. result' = [result EXCEPT !.fields = fields]
            BY <2>1, <2>7, <3>1
        <3>3. result' = BenchLine(name, parts, fields)
            <4>1. [BenchLine(name, parts, f) EXCEPT !.fields = fields] = BenchLine(name, parts, fields)
                BY DEF BenchLine, Blank
            <4> QED
                BY <2>4, <3>2, <4>1
        <3>4. result'.fields = fields
            BY <3>3, LineIs
        <3> QED
            BY <2>1, <2>2, <2>3, <2>5, <2>7, <3>1, <3>3, <3>4 DEF Printed, ResultShape, LostOnlyIfTorn
    <2> QED
        BY <2>6, <2>7
<1> QED
    BY <1>2, <1>3, <1>4, <1>5, <1>6, <1>7, <1>8, Zenon DEF Parent

\* The child has no part in it.
LEMMA NextKeepsResults ==
    ASSUME IInv, Spoken, Printed, [Next]_vars
    PROVE  Printed'
<1>1. CASE Parent
    BY <1>1, ParentKeepsResults
<1>2. CASE Script \/ TraceFlag \/ Crash \/ (\E called \in BOOLEAN : BeginGC(called)) \/ WriteTrace
    <2>1. pc = "running" /\ UNCHANGED <<setting, pc, report>>
        BY <1>2 DEF Script, Flags, Work, WriteLine, Checker, Check, Exit, TraceFlag, Crash,
                    BeginGC, WriteTrace, Exits, Alive
    <2>2. ~closed
        BY <2>1 DEF IInv, TypeOK
    <2> QED
        BY <2>1, <2>2, NotYet DEF Printed, report, stdout
<1>3. CASE Ended \/ UNCHANGED vars
    <2>1. UNCHANGED vars
        BY <1>3 DEF Ended
    <2>2. /\ prog' = prog /\ user' = user /\ pc' = pc /\ out' = out /\ torn' = torn
          /\ result' = result /\ closed' = closed /\ failed' = failed /\ shown' = shown
        BY <2>1 DEF vars, setting, child, report, stdout
    <2>3. FullName' = FullName /\ \A kind : Written(kind)' = Written(kind)
        BY <2>2 DEF FullName, Written
    <2>4. ResultShape'
        BY <2>2, <2>3 DEF Printed, ResultShape
    <2>5. LostOnlyIfTorn'
        BY <2>2, <2>3 DEF Printed, LostOnlyIfTorn
    <2> QED
        BY <2>4, <2>5 DEF Printed
<1> QED
    BY <1>1, <1>2, <1>3 DEF Next

LEMMA ResultsHold == Spec => [](IInv /\ Spoken /\ Printed)
<1>1. Init => Printed
    BY DEF Init, Printed, ResultShape, LostOnlyIfTorn
<1>2. IInv /\ Spoken /\ Printed /\ [Next]_vars => Printed'
    BY NextKeepsResults
<1> QED
    BY <1>1, <1>2, SpokenHolds, PTL DEF Spec

(***************************************************************************)
(* Nothing the child reported is lost in a run that succeeds (main.go:     *)
(* 105-119, 164-173): every metric is in the results and every line is     *)
(* passed on, unless a write tore a line of the trace, for any programs    *)
(* and any interleaving of script, collector and exit.                     *)
(***************************************************************************)
THEOREM NothingLost == Spec => []LostOnlyIfTorn
<1>1. IInv /\ Spoken /\ Printed => LostOnlyIfTorn
    BY DEF Printed
<1> QED
    BY <1>1, ResultsHold, PTL

-----------------------------------------------------------------------------
(* The trace the parent finds in the output. *)

\* The four forms of a line that parses: with the mark of a forced cycle or
\* without, and with its end or cut off before it.
LineForm(line, forced, ended) ==
    LET n == IF forced THEN 5 ELSE 4
    IN  /\ DOMAIN line = 1..(IF ended THEN n + 1 ELSE n)
        /\ line[1].k = "gc" /\ line[2].k = "pct" /\ line[3].k = "clock" /\ line[4].k = "procs"
        /\ forced => line[5].k = "forced"
        /\ ended => line[n + 1].k = "eol"

LEMMA LineForms ==
    ASSUME NEW line \in Seq(Writing), NEW phases, IsTraceLine(line), PartsParse(line, phases)
    PROVE  \E forced, ended \in BOOLEAN :
              LineForm(line, forced, ended) /\ Cycle(line) = [n |-> line[1].v, forced |-> forced]
<1>1. PICK m \in Nat : m = Len(line) /\ DOMAIN line = 1..m /\ m > 1
    <2>1. Len(line) \in Nat /\ DOMAIN line = 1..Len(line)
        BY SeqIs
    <2> QED
        BY <2>1 DEF IsTraceLine
<1>2. line # <<>> /\ line[1].k = "gc" /\ line[2].k = "pct" /\ Last(line) = line[m]
    BY <1>1 DEF IsTraceLine, StartsWith, Last
<1>3. PICK ended \in BOOLEAN : ended = (Last(line).k = "eol")
    OBVIOUS
<1>4. PICK b \in Nat : /\ b = IF ended THEN m - 1 ELSE m
                       /\ m = IF ended THEN b + 1 ELSE b
    BY <1>1
<1>5. PICK text : text = IF Last(line).k = "eol" THEN Front(line) ELSE line
    OBVIOUS
<1>6. Len(text) = b /\ \A i \in 1..b : text[i] = line[i]
    <2>1. CASE ended
        <3>1. text = SubSeq(line, 1, m - 1)
            BY <1>1, <1>3, <1>5, <2>1 DEF Front
        <3> QED
            BY <1>1, <1>4, <2>1, <3>1
    <2>2. CASE ~ended
        <3>1. text = line
            BY <1>3, <1>5, <2>2
        <3> QED
            BY <1>1, <1>4, <2>2, <3>1
    <2> QED
        BY <2>1, <2>2
<1>7. Parts(line) = [i \in 1..(b - 2) |-> line[i + 2].k]
    <2>1. Parts(line) = [i \in 1..(b - 2) |-> text[i + 2].k]
        BY <1>5, <1>6, Zenon DEF Parts
    <2>2. \A i \in 1..(b - 2) : i + 2 \in 1..b
        OBVIOUS
    <2>3. \A i \in 1..(b - 2) : text[i + 2].k = line[i + 2].k
        BY <1>6, <2>2, Zenon
    <2> QED
        BY <2>1, <2>3
<1>8. PICK parts : parts = Parts(line)
    OBVIOUS
<1>9. parts = <<"clock", "procs">> \/ parts = <<"clock", "procs", "forced">>
    BY <1>8 DEF PartsParse
<1>10. Cycle(line) = [n |-> line[1].v, forced |-> Last(parts) = "forced"]
    BY <1>8, Zenon DEF Cycle
<1>11. CASE parts = <<"clock", "procs">>
    <2>1. b = 4
        <3>1. DOMAIN <<"clock", "procs">> = 1..2 /\ 2 \in 1..2 /\ 3 \notin 1..2
            OBVIOUS
        <3>2. DOMAIN parts = 1..(b - 2)
            BY <1>7, <1>8, Zenon
        <3>3. 1..(b - 2) = 1..2
            BY <1>11, <3>1, <3>2, Zenon
        <3>4. 2 \in 1..(b - 2) /\ 3 \notin 1..(b - 2)
            BY <3>1, <3>3, Zenon
        <3> QED
            BY <3>4
    <2>2. line[3].k = "clock" /\ line[4].k = "procs"
        <3>1. parts[1] = "clock" /\ parts[2] = "procs"
            BY <1>11
        <3>2. parts[1] = line[3].k /\ parts[2] = line[4].k
            BY <1>7, <1>8, <2>1
        <3> QED
            BY <3>1, <3>2
    <2>3. (Last(parts) = "forced") = FALSE
        <3>1. Last(parts) = "procs"
            BY <1>11 DEF Last
        <3> QED
            BY <3>1
    <2>4. LineForm(line, FALSE, ended)
        <3>1. CASE ended
            <4>1. DOMAIN line = 1..(4 + 1) /\ line[4 + 1].k = "eol"
                <5>1. m = 4 + 1
                    <6>1. m = b + 1
                        BY <1>4, <3>1, Zenon
                    <6> QED
                        BY <2>1, <6>1, Zenon
                <5>2. line[m].k = "eol"
                    BY <1>2, <1>3, <3>1, Zenon
                <5> QED
                    BY <1>1, <5>1, <5>2
            <4> QED
                BY <1>2, <2>2, <3>1, <4>1 DEF LineForm
        <3>2. CASE ~ended
            <4>1. DOMAIN line = 1..4
                BY <1>1, <1>4, <2>1, <3>2
            <4> QED
                BY <1>2, <2>2, <3>2, <4>1 DEF LineForm
        <3> QED
            BY <3>1, <3>2
    <2> QED
        BY <1>10, <2>3, <2>4, Zenon
<1>12. CASE parts = <<"clock", "procs", "forced">>
    <2>1. b = 5
        <3>1. DOMAIN <<"clock", "procs", "forced">> = 1..3 /\ 3 \in 1..3 /\ 4 \notin 1..3
            OBVIOUS
        <3>2. DOMAIN parts = 1..(b - 2)
            BY <1>7, <1>8, Zenon
        <3>3. 1..(b - 2) = 1..3
            BY <1>12, <3>1, <3>2, Zenon
        <3>4. 3 \in 1..(b - 2) /\ 4 \notin 1..(b - 2)
            BY <3>1, <3>3, Zenon
        <3> QED
            BY <3>4
    <2>2. line[3].k = "clock" /\ line[4].k = "procs" /\ line[5].k = "forced"
        <3>1. parts[1] = "clock" /\ parts[2] = "procs" /\ parts[3] = "forced"
            BY <1>12
        <3>2. parts[1] = line[3].k /\ parts[2] = line[4].k /\ parts[3] = line[5].k
            BY <1>7, <1>8, <2>1
        <3> QED
            BY <3>1, <3>2
    <2>3. (Last(parts) = "forced") = TRUE
        <3>1. Last(parts) = "forced"
            BY <1>12 DEF Last
        <3> QED
            BY <3>1
    <2>4. LineForm(line, TRUE, ended)
        <3>1. CASE ended
            <4>1. DOMAIN line = 1..(5 + 1) /\ line[5 + 1].k = "eol"
                <5>1. m = 5 + 1
                    <6>1. m = b + 1
                        BY <1>4, <3>1, Zenon
                    <6> QED
                        BY <2>1, <6>1, Zenon
                <5>2. line[m].k = "eol"
                    BY <1>2, <1>3, <3>1, Zenon
                <5> QED
                    BY <1>1, <5>1, <5>2
            <4> QED
                BY <1>2, <2>2, <3>1, <4>1 DEF LineForm
        <3>2. CASE ~ended
            <4>1. DOMAIN line = 1..5
                BY <1>1, <1>4, <2>1, <3>2
            <4> QED
                BY <1>2, <2>2, <3>2, <4>1 DEF LineForm
        <3> QED
            BY <3>1, <3>2
    <2> QED
        BY <1>10, <2>3, <2>4, Zenon
<1> QED
    BY <1>9, <1>11, <1>12

\* The piece after a piece, if nobody wrote in between.
LEMMA NextPiece ==
    ASSUME Spoken, NEW p \in DOMAIN out, p + 1 \in DOMAIN out,
           out[p].k \in Pieces, out[p + 1].k \notin {"text", "metric"}
    PROVE  /\ out[p + 1].k = After(out[p].k, gcs[out[p].v].forced)
           /\ out[p + 1].v = out[p].v
<1>1. PICK q \in DOMAIN out : q = p + 1
    OBVIOUS
<1>2. out[q] = Write(After(out[p].k, gcs[out[p].v].forced), out[p].v)
    BY <1>1, Zenon DEF Spoken, Continued
<1> QED
    BY <1>1, <1>2 DEF Write

\* A line that parses says whether its cycle was forced, unless the exit cut it off.
LEMMA CycleIs ==
    ASSUME IInv, Spoken, ip = 0, NEW phases, NEW i \in Traces(out),
           PartsParse(LineAt(out, i), phases)
    PROVE  /\ out[i].k = "gc" /\ Cycle(LineAt(out, i)).n = out[i].v
           /\ Cycle(LineAt(out, i)).forced # gcs[out[i].v].forced => out[i].v = Len(gcs) /\ cut
<1>1. PICK n \in Nat : n = Len(out) /\ DOMAIN out = 1..n /\ out \in Seq(Writing)
    BY SeqIs DEF Spoken
<1>2. i \in DOMAIN out /\ IsTraceLine(LineAt(out, i))
    BY DEF Traces, Starts
<1>3. PICK e \in DOMAIN out : /\ i <= e /\ LineAt(out, i) = SubSeq(out, i, e)
                              /\ e = Len(out) \/ out[e].k \in EndsLine
    BY <1>1, <1>2, LineAtIs
<1>4. PICK m \in Nat \ {0} :
             /\ m = e - i + 1 /\ SubSeq(out, i, e) \in Seq(Writing)
             /\ Len(SubSeq(out, i, e)) = m /\ DOMAIN SubSeq(out, i, e) = 1..m
             /\ \A j \in 1..m : /\ SubSeq(out, i, e)[j] = out[i + j - 1]
                                /\ i + j - 1 \in i..e
             /\ SubSeq(out, i, e) # <<>>
    BY <1>1, <1>2, <1>3, LinePieces, Zenon
<1>5. PICK line : line = LineAt(out, i)
    OBVIOUS
<1>6. line \in Seq(Writing) /\ DOMAIN line = 1..m /\ \A j \in 1..m : line[j] = out[i + j - 1]
    BY <1>3, <1>4, <1>5
<1>7. PICK forced, ended \in BOOLEAN :
              LineForm(line, forced, ended) /\ Cycle(line) = [n |-> line[1].v, forced |-> forced]
    BY <1>2, <1>5, <1>6, LineForms
<1>8. Cycle(line).n = line[1].v /\ Cycle(line).forced = forced
    BY <1>7
<1>9. m = (IF forced THEN 5 ELSE 4) + (IF ended THEN 1 ELSE 0)
    <2>1. PICK w \in Nat : w = (IF forced THEN 5 ELSE 4) + (IF ended THEN 1 ELSE 0)
        OBVIOUS
    <2>2. 1..m = 1..w
        BY <1>6, <1>7, <2>1 DEF LineForm
    <2>3. m \in 1..w /\ w \in 1..m
        BY <2>1, <2>2
    <2> QED
        BY <2>1, <2>3
<1>10. /\ i \in 1..n /\ i + 1 \in 1..n /\ i + 2 \in 1..n /\ i + 3 \in 1..n /\ e = i + m - 1
       /\ line[1] = out[i] /\ line[2] = out[i + 1] /\ line[3] = out[i + 2] /\ line[4] = out[i + 3]
       /\ m > 4 => i + 4 \in 1..n /\ line[5] = out[i + 4]
    <2>1. /\ i \in 1..n /\ e \in 1..n /\ m >= 4 /\ e = i + m - 1
        BY <1>1, <1>2, <1>4, <1>9
    <2>2. line[1] = out[i + 1 - 1] /\ line[2] = out[i + 2 - 1] /\ line[3] = out[i + 3 - 1]
          /\ line[4] = out[i + 4 - 1] /\ (m > 4 => line[5] = out[i + 5 - 1])
        BY <1>6, <2>1
    <2>3. i + 1 - 1 = i /\ i + 2 - 1 = i + 1 /\ i + 3 - 1 = i + 2 /\ i + 4 - 1 = i + 3 /\ i + 5 - 1 = i + 4
        BY <2>1
    <2> QED
        BY <2>1, <2>2, <2>3
<1>11. /\ out[i].k = "gc" /\ out[i + 1].k = "pct" /\ out[i + 2].k = "clock" /\ out[i + 3].k = "procs"
    BY <1>7, <1>10 DEF LineForm
<1>12. out[i + 1].v = out[i].v /\ out[i + 2].v = out[i].v /\ out[i + 3].v = out[i].v
    <2>1. out[i + 1].v = out[i].v
        BY <1>1, <1>10, <1>11, NextPiece DEF Pieces
    <2>2. out[i + 2].v = out[i + 1].v
        <3>1. (i + 1) + 1 = i + 2
            BY <1>10
        <3> QED
            BY <1>1, <1>10, <1>11, <3>1, NextPiece DEF Pieces
    <2>3. out[i + 3].v = out[i + 2].v
        <3>1. (i + 2) + 1 = i + 3
            BY <1>10
        <3> QED
            BY <1>1, <1>10, <1>11, <3>1, NextPiece DEF Pieces
    <2> QED
        BY <2>1, <2>2, <2>3
<1>13. out[i].v \in DOMAIN gcs /\ gcs[out[i].v].forced \in BOOLEAN
    BY <1>1, <1>10, <1>11, CollectorTypes DEF Spoken, Continued, Pieces
<1>14. CASE m = 4
    <2>1. e = i + 3 /\ ~forced
        BY <1>9, <1>10, <1>14
    <2>2. e = n
        BY <1>1, <1>3, <1>11, <2>1 DEF EndsLine
    <2>3. gp > 1 /\ out[n] = TraceLine[gp - 1]
        <3>1. out # <<>> /\ out[Len(out)].k \in Pieces
            BY <1>1, <1>11, <2>1, <2>2 DEF Pieces
        <3> QED
            BY <1>1, <3>1, Zenon DEF Spoken, Unfinished
    <2>4. gp <= Len(TraceLine) /\ gp \in 0..6 /\ gcs # <<>> /\ cut = (gp > 0)
        <3>1. gp \in 0..6 /\ (gp > 0 => gcs # <<>>)
            BY CollectorTypes
        <3>2. gp > 0
            BY <2>3, <3>1
        <3>3. cut = (gp > 0)
            BY Zenon DEF Spoken
        <3> QED
            BY <3>1, <3>2, <3>3 DEF Spoken, Unfinished
    <2>5. PICK w \in 5..6 :
              /\ Len(TraceLine) = w
              /\ TraceLine \in [1..w -> {Write(k, Len(gcs)) : k \in Kinds}]
        BY <2>4, TraceLineIs
    <2>6. gp - 1 \in 1..w
        BY <2>3, <2>4, <2>5
    <2>7. PICK k \in Kinds : TraceLine[gp - 1] = Write(k, Len(gcs))
        BY <2>5, <2>6
    <2>8. out[i].v = Len(gcs)
        BY <1>12, <2>1, <2>2, <2>3, <2>7 DEF Write
    <2>9. cut
        <3>1. gp > 0
            BY <2>3, <2>4
        <3> QED
            BY <2>4, <3>1, Zenon
    <2> QED
        BY <1>5, <1>8, <1>10, <1>11, <2>8, <2>9
<1>15. CASE m # 4
    <2>1. m > 4 /\ line[5].k = IF forced THEN "forced" ELSE "eol"
        BY <1>7, <1>9, <1>15 DEF LineForm
    <2>2. (i + 3) + 1 = i + 4 /\ i + 4 \in 1..n /\ i + 3 \in 1..n
          /\ out[i + 4].k = IF forced THEN "forced" ELSE "eol"
        BY <1>10, <2>1
    <2>3. out[i + 4].k = After(out[i + 3].k, gcs[out[i + 3].v].forced)
        BY <1>1, <1>11, <2>2, NextPiece DEF Pieces
    <2>4. out[i + 4].k = IF gcs[out[i].v].forced THEN "forced" ELSE "eol"
        BY <1>11, <1>12, <2>3 DEF After
    <2>5. forced = gcs[out[i].v].forced
        BY <1>13, <2>2, <2>4
    <2> QED
        BY <1>5, <1>8, <1>10, <1>11, <2>5
<1> QED
    BY <1>14, <1>15

\* Every cycle whose line is whole begins a line of the trace.
LEMMA CycleTraced ==
    ASSUME IInv, Spoken, ip = 0, Tracing, ~torn, ~cut, NEW c \in DOMAIN gcs
    PROVE  \E i \in Traces(out) : out[i].v = c
<1>1. PICK n \in Nat : n = Len(out) /\ DOMAIN out = 1..n /\ out \in Seq(Writing) /\ (out # <<>> => n \in 1..n)
    BY SeqIs DEF Spoken
<1>2. gp = 0
    <2>1. cut = (gp > 0) /\ gp \in 0..6
        BY CollectorTypes, Zenon DEF Spoken
    <2>2. ~(gp > 0)
        BY <2>1, Zenon
    <2> QED
        BY <2>1, <2>2
<1>3. PICK i \in DOMAIN out : out[i] = Write("gc", c)
    <2>1. ~(c = Len(gcs) /\ gp = 1)
        BY <1>2
    <2> QED
        BY <2>1, Zenon DEF Spoken, Numbered
<1>4. out[i].k = "gc" /\ out[i].v = c /\ out # <<>>
    BY <1>1, <1>3 DEF Write
<1>5. Starting(i)
    BY <1>4, Zenon DEF Spoken, Continued
<1>6. i \in Starts(out)
    BY <1>5, Zenon DEF Starts, Starting
<1>7. i # n
    <2>1. (out[Len(out)].k \in Pieces) => gp > 1
        BY <1>4, Zenon DEF Spoken, Unfinished
    <2> QED
        BY <1>1, <1>2, <1>4, <2>1 DEF Pieces
<1>8. i + 1 \in DOMAIN out
    BY <1>1, <1>7
<1>9. out[i + 1].k \notin {"text", "metric"}
    <2> SUFFICES ASSUME out[i + 1].k \in {"text", "metric"} PROVE FALSE
        OBVIOUS
    <2>1. Starting(i + 1)
        BY <1>8, Zenon DEF Spoken, Whole
    <2>2. i + 1 # 1 /\ (i + 1) - 1 = i
        BY <1>1
    <2> QED
        BY <1>4, <2>1, <2>2 DEF Starting, EndsLine
<1>10. out[i + 1].k = "pct"
    BY <1>4, <1>8, <1>9, NextPiece DEF Pieces, After
<1>11. PICK e \in DOMAIN out : /\ i <= e /\ LineAt(out, i) = SubSeq(out, i, e)
                               /\ e = Len(out) \/ out[e].k \in EndsLine
    BY <1>1, LineAtIs
<1>12. e # i
    BY <1>1, <1>4, <1>7, <1>11 DEF EndsLine
<1>13. PICK m \in Nat \ {0} :
             /\ m = e - i + 1 /\ SubSeq(out, i, e) \in Seq(Writing)
             /\ Len(SubSeq(out, i, e)) = m /\ DOMAIN SubSeq(out, i, e) = 1..m
             /\ \A j \in 1..m : /\ SubSeq(out, i, e)[j] = out[i + j - 1]
                                /\ i + j - 1 \in i..e
             /\ SubSeq(out, i, e) # <<>>
    BY <1>1, <1>11, LinePieces, Zenon
<1>14. PICK line : line = LineAt(out, i)
    OBVIOUS
<1>15. 1 \in 1..m /\ 2 \in 1..m /\ i + 1 - 1 = i /\ i + 2 - 1 = i + 1 /\ m > 1
    BY <1>1, <1>11, <1>12, <1>13
<1>16. line # <<>> /\ Len(line) > 1 /\ line[1] = out[i] /\ line[2] = out[i + 1]
    BY <1>11, <1>13, <1>14, <1>15
<1>17. IsTraceLine(line)
    BY <1>4, <1>10, <1>16 DEF IsTraceLine, StartsWith
<1>18. i \in Traces(out)
    BY <1>6, <1>14, <1>17 DEF Traces
<1> QED
    BY <1>4, <1>18

\* What the parser makes of the output.
LEMMA TraceOfOutput ==
    ASSUME IInv, Spoken, ip = 0, NEW phases, NEW t \in ParseGCTrace(out, phases)
    PROVE  /\ \A i, j \in DOMAIN t : i < j => t[i].n < t[j].n
           /\ \A i \in DOMAIN t :
                t[i].forced # gcs[t[i].n].forced => t[i].n = Len(gcs) /\ cut
           /\ (Tracing /\ ~torn /\ ~cut) => Len(t) = Len(gcs)
<1>1. PICK n \in Nat : n = Len(out) /\ DOMAIN out = 1..n /\ out \in Seq(Writing)
    BY SeqIs DEF Spoken
<1>2. PICK T : T = Traces(out)
    OBVIOUS
<1>3. T \in SUBSET (1..n) /\ T \in SUBSET Int /\ IsFiniteSet(T)
    <2>1. T \in SUBSET (1..n)
        BY <1>1, <1>2 DEF Traces, Starts
    <2>2. IsFiniteSet(1..n)
        BY FS_Interval
    <2>3. IsFiniteSet(T)
        BY <2>1, <2>2, FS_Subset
    <2>4. T \in SUBSET Int
        BY <2>1
    <2> QED
        BY <2>1, <2>3, <2>4
<1>4. PICK m \in Nat :
             /\ m = Cardinality(T)
             /\ InOrder(T) \in [1..m -> T]
             /\ \A i, j \in 1..m : i < j => InOrder(T)[i] < InOrder(T)[j]
             /\ \A x \in T : \E i \in 1..m : InOrder(T)[i] = x
    BY <1>3, InOrderIs, Zenon
<1>5. PICK s : s = InOrder(T)
    OBVIOUS
<1>6. /\ s \in [1..m -> T] /\ \A i, j \in 1..m : i < j => s[i] < s[j]
    BY <1>4, <1>5
<1>7. /\ \A i \in T : PartsParse(LineAt(out, i), phases)
      /\ t = [j \in DOMAIN s |-> Cycle(LineAt(out, s[j]))]
    BY <1>2, <1>5, Zenon DEF ParseGCTrace
<1>8. DOMAIN t = 1..m /\ Len(t) = m /\ \A j \in 1..m : t[j] = Cycle(LineAt(out, s[j]))
    <2>1. DOMAIN s = 1..m
        BY <1>6
    <2>2. t = [j \in 1..m |-> Cycle(LineAt(out, s[j]))]
        BY <1>7, <2>1, Zenon
    <2> QED
        BY <2>2
<1>9. \A i \in T :
         /\ out[i].k = "gc" /\ Cycle(LineAt(out, i)).n = out[i].v
         /\ Cycle(LineAt(out, i)).forced # gcs[out[i].v].forced => out[i].v = Len(gcs) /\ cut
    BY <1>2, <1>7, CycleIs
<1>10. \A j \in 1..m : /\ s[j] \in T /\ t[j].n = out[s[j]].v
                       /\ t[j].forced # gcs[t[j].n].forced => t[j].n = Len(gcs) /\ cut
    BY <1>6, <1>8, <1>9
<1>11. \A i, j \in T : i < j => out[i].v < out[j].v
    <2>1. \A p, q \in DOMAIN out :
             p < q /\ out[p].k = "gc" /\ out[q].k = "gc" => out[p].v < out[q].v
        BY Zenon DEF Spoken, Numbered
    <2> QED
        BY <1>1, <1>3, <1>9, <2>1, Zenon
<1>12. \A i, j \in 1..m : i < j => t[i].n < t[j].n
    <2> SUFFICES ASSUME NEW i \in 1..m, NEW j \in 1..m, i < j PROVE t[i].n < t[j].n
        OBVIOUS
    <2>1. s[i] < s[j] /\ s[i] \in T /\ s[j] \in T
        BY <1>6, <1>10
    <2>2. out[s[i]].v < out[s[j]].v
        BY <1>11, <2>1, Zenon
    <2> QED
        BY <1>10, <2>2
<1>13. ASSUME Tracing, ~torn, ~cut PROVE m = Len(gcs)
    <2>1. PICK g \in Nat : g = Len(gcs) /\ DOMAIN gcs = 1..g
        BY CollectorTypes
    <2> DEFINE f == [i \in T |-> out[i].v]
    <2>2. f \in [T -> 1..g]
        <3>1. \A i \in T : i \in DOMAIN out /\ out[i].k = "gc"
            BY <1>1, <1>3, <1>9
        <3>2. \A i \in T : out[i].v \in DOMAIN gcs
            BY <3>1, Zenon DEF Spoken, Numbered
        <3> QED
            BY <2>1, <3>2
    <2>3. \A i, j \in T : f[i] = f[j] => i = j
        <3> SUFFICES ASSUME NEW i \in T, NEW j \in T, f[i] = f[j], i # j PROVE FALSE
            OBVIOUS
        <3>1. f[i] = out[i].v /\ f[j] = out[j].v /\ f[i] \in 1..g /\ f[j] \in 1..g
            BY <2>2
        <3>2. i \in Int /\ j \in Int
            BY <1>3
        <3>3. i < j \/ j < i
            BY <3>2
        <3>4. out[i].v < out[j].v \/ out[j].v < out[i].v
            BY <1>11, <3>3, Zenon
        <3> QED
            BY <3>1, <3>4
    <2>4. \A c \in 1..g : \E i \in T : f[i] = c
        BY <1>2, <1>13, <2>1, CycleTraced
    <2> HIDE DEF f
    <2>5. f \in Injection(T, 1..g) /\ f \in Surjection(T, 1..g)
        BY <2>2, <2>3, <2>4 DEF Injection, IsInjective, Surjection
    <2>6. IsFiniteSet(1..g) /\ Cardinality(1..g) = g
        BY FS_Interval
    <2>7. Cardinality(T) = g
        BY <2>5, <2>6, FS_Injection
    <2> QED
        BY <1>4, <2>1, <2>7
<1> QED
    BY <1>8, <1>10, <1>12, <1>13

\* The trace stays what was parsed.
LEMMA NextKeepsParsed ==
    ASSUME Spoken, ParsedOutput, [Next]_vars
    PROVE  ParsedOutput'
<1>1. CASE Parse
    <2>1. pc' = "print" /\ UNCHANGED <<setting, child>> /\ trace' = ParseGCTrace(out, user.phases)
        BY <1>1 DEF Parse, Goes, stdout
    <2>2. out' = out /\ user' = user
        BY <2>1 DEF setting, child
    <2> QED
        BY <2>1, <2>2 DEF ParsedOutput
<1>2. ASSUME trace' = trace, trace # {} => UNCHANGED <<out, user>> /\ pc' \in {"print", "trailer", "done"}
      PROVE  ParsedOutput'
    <2>1. CASE trace = {}
        BY <1>2, <2>1 DEF ParsedOutput
    <2>2. CASE trace # {}
        BY <1>2, <2>2 DEF ParsedOutput
    <2> QED
        BY <2>1, <2>2
<1>3. pc \in {"main", "named", "running"} => trace = {}
    BY DEF ParsedOutput
<1>4. trace # {} => pc \in {"print", "trailer", "done"}
    BY DEF ParsedOutput
<1>5. CASE Usage \/ Silent \/ PrintName \/ ForkAgain \/ Fork \/ ChildFails \/ ChildSucceeds
    <2>1. trace' = trace /\ pc \in {"main", "named", "running"}
        BY <1>5 DEF Usage, Silent, PrintName, ForkAgain, Fork, ChildFails, ChildSucceeds, Goes, report, stdout
    <2> QED
        BY <1>2, <1>3, <2>1
<1>6. CASE ParseFails \/ Trailer \/ \E all \in BOOLEAN : PrintResults(all)
    <2>1. trace' = trace /\ UNCHANGED <<setting, child>> /\ pc' \in {"trailer", "done"}
        BY <1>6, Zenon DEF ParseFails, Trailer, PrintResults, Goes, stdout
    <2>2. out' = out /\ user' = user
        BY <2>1 DEF setting, child
    <2> QED
        BY <1>2, <2>1, <2>2
<1>7. CASE Script \/ TraceFlag \/ Crash \/ (\E called \in BOOLEAN : BeginGC(called)) \/ WriteTrace
    <2>1. pc = "running" /\ UNCHANGED report
        BY <1>7 DEF Script, Flags, Work, WriteLine, Checker, Check, Exit, TraceFlag, Crash,
                    BeginGC, WriteTrace, Exits, Alive
    <2>2. trace' = trace
        BY <2>1 DEF report, stdout
    <2> QED
        BY <1>2, <1>3, <2>1, <2>2
<1>8. CASE Ended \/ UNCHANGED vars
    <2>1. trace' = trace /\ pc' = pc /\ UNCHANGED <<out, user>>
        BY <1>8 DEF Ended, vars, setting, child, report, stdout
    <2> QED
        BY <1>2, <1>4, <2>1
<1>9. ASSUME NEW all \in (IF prog.parses THEN BOOLEAN ELSE {FALSE}) PROVE all \in BOOLEAN
    <2>1. CASE prog.parses
        BY <1>9, <2>1
    <2>2. CASE ~prog.parses
        BY <1>9, <2>2
    <2> QED
        BY <2>1, <2>2
<1>10. Parent => \/ Parse \/ ParseFails \/ Trailer \/ (\E all \in BOOLEAN : PrintResults(all))
                 \/ Usage \/ Silent \/ PrintName \/ ForkAgain \/ Fork \/ ChildFails \/ ChildSucceeds
    BY <1>9, Zenon DEF Parent
<1> QED
    BY <1>1, <1>5, <1>6, <1>7, <1>8, <1>10, Zenon DEF Next

(***************************************************************************)
(* The trace the metrics are computed from is the collector's              *)
(* (gctrace.go:86-195): the cycles in order, each at most once, forced or  *)
(* not as it was unless the exit cut off the mark of the last, and all of  *)
(* them unless a line was torn or cut, for any script, collector and       *)
(* interleaving of their writes.                                           *)
(***************************************************************************)
THEOREM TraceTrue == Spec => []TraceIsTrue
<1>1. Init => ParsedOutput
    BY DEF Init, ParsedOutput
<1>2. Spoken /\ ParsedOutput /\ [Next]_vars => ParsedOutput'
    BY NextKeepsParsed
<1>3. IInv /\ Spoken /\ ParsedOutput => TraceIsTrue
    <2> SUFFICES ASSUME IInv, Spoken, ParsedOutput, NEW t \in trace
                 PROVE  /\ \A i, j \in DOMAIN t : i < j => t[i].n < t[j].n
                        /\ \A i \in DOMAIN t :
                             t[i].forced # gcs[t[i].n].forced => t[i].n = Len(gcs) /\ cut
                        /\ (Tracing /\ ~torn /\ ~cut) => Len(t) = Len(gcs)
        BY Zenon DEF TraceIsTrue
    <2>1. t \in ParseGCTrace(out, user.phases) /\ pc # "running"
        BY DEF ParsedOutput
    <2>2. ip = 0
        BY <2>1, Zenon DEF Spoken
    <2> QED
        BY <2>1, <2>2, TraceOfOutput
<1> QED
    BY <1>1, <1>2, <1>3, SpokenHolds, PTL DEF Spec

-----------------------------------------------------------------------------
(* What bench.Parse makes of the line of results. *)

\* The fields of a line of results are an iteration count and results.
LEMMA FieldsParse ==
    ASSUME NEW fields, IsFields(fields)
    PROVE  /\ fields # <<>> /\ IsInt(Head(fields)) /\ Head(fields)[2] > 0
           /\ Results(Tail(fields)) # {}
<1>1. PICK K : fields \in Seq(K)
    BY DEF IsFields
<1>2. PICK n \in Nat \ {0} : DOMAIN fields = 1..(1 + 2 * n)
    BY DEF IsFields
<1>3. Len(fields) = 1 + 2 * n
    <2>1. Len(fields) \in Nat /\ DOMAIN fields = 1..Len(fields)
        BY <1>1, SeqIs
    <2>2. PICK m \in Nat : m = Len(fields)
        BY <2>1
    <2>3. PICK l \in Nat : l = 1 + 2 * n
        OBVIOUS
    <2>4. 1..m = 1..l
        BY <1>2, <2>1, <2>2, <2>3, Zenon
    <2>5. m = l
        BY <2>4
    <2> QED
        BY <2>2, <2>3, <2>5
<1>4. fields # <<>> /\ Head(fields) = fields[1] /\ fields[1] = Num(1000)
    BY <1>1, <1>3 DEF IsFields
<1>5. IsInt(Num(1000)) /\ Num(1000)[2] > 0
    BY DEF IsInt, IsFloat, Num
<1>6. PICK tail : tail = Tail(fields)
    OBVIOUS
<1>7. Len(tail) = 2 * n /\ \A i \in 1..(2 * n) : tail[i] = fields[i + 1]
    BY <1>1, <1>3, <1>4, <1>6
<1>8. ASSUME NEW j \in 1..n PROVE IsFloat(tail[2 * j - 1])
    <2>1. PICK i \in 1..(2 * n) : i = 2 * j - 1 /\ i + 1 = 2 * j
        OBVIOUS
    <2>2. tail[i] = fields[i + 1]
        BY <1>7
    <2>3. i + 1 \in DOMAIN fields /\ (i + 1) % 2 = 0
        BY <1>2, <2>1
    <2>4. IsFloat(fields[i + 1])
        BY <2>3 DEF IsFields
    <2> QED
        BY <2>1, <2>2, <2>4
<1>9. tail # <<>>
    BY <1>7
<1>10. Results(tail) # {}
    BY <1>7, <1>8, <1>9, ResultsInFields
<1> QED
    BY <1>4, <1>5, <1>6, <1>10

\* The configuration that a program gives.
LEMMA OwnOfProgram ==
    ASSUME NEW cfg, NEW n \in Nat, DistinctKeys(cfg, n)
    PROVE  /\ {p.key : p \in ToSet(cfg)} = {cfg[i].key : i \in 1..n}
           /\ \A i \in 1..n : (CHOOSE p \in ToSet(cfg) : p.key = cfg[i].key).raw = cfg[i].raw
<1>1. /\ DOMAIN cfg = 1..n
      /\ \A i, j \in 1..n : cfg[i].key = cfg[j].key => i = j
    BY DEF DistinctKeys
<1>2. ToSet(cfg) = {cfg[i] : i \in 1..n}
    BY <1>1 DEF ToSet
<1>3. ASSUME NEW i \in 1..n PROVE (CHOOSE p \in ToSet(cfg) : p.key = cfg[i].key).raw = cfg[i].raw
    <2>1. PICK q : q = CHOOSE p \in ToSet(cfg) : p.key = cfg[i].key
        OBVIOUS
    <2>2. cfg[i] \in ToSet(cfg)
        BY <1>2
    <2>3. q \in ToSet(cfg) /\ q.key = cfg[i].key
        BY <2>1, <2>2, Zenon
    <2>4. PICK j \in 1..n : q = cfg[j]
        BY <1>2, <2>3
    <2>5. j = i
        BY <1>1, <2>3, <2>4, Zenon
    <2> QED
        BY <2>1, <2>4, <2>5, Zenon
<1> QED
    BY <1>2, <1>3

\* Name and configuration of the program that runs.
Token == STRING \X Int
Setting == [key : STRING \ {"", GOMAXPROCS}, raw : Token]

LEMMA ProgramFacts ==
    ASSUME <<prog, user>> \in Running
    PROVE  /\ prog.name \in Seq(Token) /\ prog.name # <<>>
           /\ prog.name[1] \notin {None, Word("x")}
           /\ Len(prog.name) > 1 => ~IsInt(Last(prog.name))
           /\ prog.cfg \in Seq(Setting)
           /\ \A i, j \in DOMAIN prog.cfg : prog.cfg[i].key = prog.cfg[j].key => i = j
           /\ user.cpus \in Nat \ {0}
<1>1. PICK run \in Running : run[1] = prog /\ run[2] = user
    OBVIOUS
<1>2. run[2].cpus \in Nat \ {0}
    BY RunnerAssumption
<1>3. /\ run[1].name \in Seq(Token) /\ run[1].name # <<>>
      /\ run[1].name[1] \notin {None, Word("x")}
      /\ Len(run[1].name) > 1 => ~IsInt(Last(run[1].name))
      /\ run[1].cfg \in Seq(Setting)
      /\ \A i, j \in DOMAIN run[1].cfg : run[1].cfg[i].key = run[1].cfg[j].key => i = j
    BY NameAssumption, Zenon DEF Token, Setting
<1> QED
    BY <1>1, <1>2, <1>3

\* FullName is read back as it was made: the name, the configuration, the number of CPUs.
LEMMA NameParses ==
    ASSUME IInv, NEW fields, NEW line, line = BenchLine(FullName.name, FullName.parts, fields)
    PROVE  /\ IsName(line) /\ Name(line) = prog.name
           /\ Over(Own(line), Default) =
                Over([k \in {GOMAXPROCS} |-> Num(1000 * user.cpus)],
                     [c \in {p.key : p \in ToSet(prog.cfg)} |->
                        (CHOOSE p \in ToSet(prog.cfg) : p.key = c).raw])
<1>1. /\ prog.name \in Seq(Token) /\ prog.name # <<>>
      /\ prog.name[1] \notin {None, Word("x")}
      /\ Len(prog.name) > 1 => ~IsInt(Last(prog.name))
      /\ prog.cfg \in Seq(Setting)
      /\ \A i, j \in DOMAIN prog.cfg : prog.cfg[i].key = prog.cfg[j].key => i = j
      /\ user.cpus \in Nat \ {0}
    BY ProgramFacts DEF IInv, TypeOK
<1>2. PICK cpus \in Nat \ {0} : cpus = user.cpus
    BY <1>1
<1>3. PICK name : name = prog.name
    OBVIOUS
<1>4. PICK cfg : cfg = prog.cfg
    OBVIOUS
<1>5. PICK procs : procs = Num(1000 * user.cpus)
    OBVIOUS
<1>6. IsInt(procs) /\ (cpus = 1 => procs = Num(1000))
    <2>1. procs = <<"num", 1000 * cpus>>
        BY <1>2, <1>5 DEF Num
    <2>2. (1000 * cpus) % 1000 = 0
        OBVIOUS
    <2>3. IsInt(procs)
        BY <2>1, <2>2 DEF IsInt, IsFloat
    <2>4. cpus = 1 => procs = Num(1000)
        <3>1. cpus = 1 => 1000 * cpus = 1000
            OBVIOUS
        <3> QED
            BY <2>1, <3>1 DEF Num
    <2> QED
        BY <2>3, <2>4
<1>7. PICK n \in Nat : n = Len(cfg) /\ DOMAIN cfg = 1..n /\ (\A i \in 1..n : cfg[i] \in Setting)
    BY <1>1, <1>4, SeqIs
<1>8. /\ line.name = IF cfg # <<>> \/ cpus = 1 THEN name ELSE Append(name, procs)
      /\ line.parts = IF cfg = <<>> \/ cpus = 1 THEN cfg ELSE Append(cfg, Part(GOMAXPROCS, procs))
    <2>1. line.name = FullName.name /\ line.parts = FullName.parts
        <3>1. PICK a, b : a = FullName.name /\ b = FullName.parts
            OBVIOUS
        <3>2. line = BenchLine(a, b, fields)
            BY <3>1, Zenon
        <3> QED
            BY <3>1, <3>2, LineIs
    <2> QED
        BY <1>2, <1>3, <1>4, <1>5, <2>1 DEF FullName
<1>9. \A i \in 1..n : cfg[i].key \notin {"", GOMAXPROCS}
    BY <1>7 DEF Setting
<1>10. DistinctKeys(cfg, n)
    BY <1>1, <1>4, <1>7, <1>9 DEF DistinctKeys
<1> DEFINE given == [k \in {GOMAXPROCS} |-> procs]
           keys == {cfg[i].key : i \in 1..n}
           set == [c \in {p.key : p \in ToSet(cfg)} |-> (CHOOSE p \in ToSet(cfg) : p.key = c).raw]
<1>11. DOMAIN set = keys /\ \A i \in 1..n : set[cfg[i].key] = cfg[i].raw
    <2>1. {p.key : p \in ToSet(cfg)} = keys
        BY <1>10, OwnOfProgram
    <2>2. set = [c \in keys |-> (CHOOSE p \in ToSet(cfg) : p.key = c).raw]
        BY <2>1, Zenon
    <2>3. \A i \in 1..n : (CHOOSE p \in ToSet(cfg) : p.key = cfg[i].key).raw = cfg[i].raw
        BY <1>10, OwnOfProgram
    <2> HIDE DEF set
    <2> QED
        BY <2>2, <2>3
<1>12. DOMAIN given = {GOMAXPROCS} /\ given[GOMAXPROCS] = procs
    OBVIOUS
<1>13. DOMAIN Default = {GOMAXPROCS} /\ Default[GOMAXPROCS] = Num(1000)
    BY DEF Default
<1> HIDE DEF given, set
<1>14. PICK all : all = keys \cup {GOMAXPROCS}
    OBVIOUS
<1>15. CASE cfg = <<>> /\ cpus # 1
    <2>1. line.name = Append(name, procs) /\ line.parts = <<>>
        BY <1>8, <1>15
    <2>2. PICK K : K = Token \cup {procs}
        OBVIOUS
    <2>3. PICK l \in Nat \ {0} : l = Len(name) /\ name \in Seq(K)
        BY <1>1, <1>3, <2>2
    <2>4. PICK long : long = Append(name, procs)
        OBVIOUS
    <2>5. long \in Seq(K) /\ Len(long) = l + 1 /\ long[l + 1] = procs
          /\ \A i \in 1..l : long[i] = name[i]
        BY <2>2, <2>3, <2>4
    <2>6. Last(long) = procs /\ Front(long) = name
        <3>1. Last(long) = procs
            BY <2>5 DEF Last
        <3>2. Front(long) = SubSeq(long, 1, l)
            BY <2>5 DEF Front
        <3>3. SubSeq(long, 1, l) = name
            BY <2>3, <2>5
        <3> QED
            BY <3>1, <3>2, <3>3
    <2>7. ShortForm(line)
        BY <1>6, <2>1, <2>3, <2>4, <2>5, <2>6 DEF ShortForm
    <2>8. Name(line) = prog.name
        BY <1>3, <2>1, <2>4, <2>6, <2>7 DEF Name
    <2>9. IsName(line)
        <3>1. long[1] = name[1]
            BY <2>3, <2>5
        <3> QED
            BY <1>1, <1>3, <2>1, <2>4, <3>1 DEF IsName
    <2>10. Own(line) = given
        BY <2>1, <2>4, <2>6, <2>7, Zenon DEF Own, given
    <2>11. n = 0
        BY <1>7, <1>15
    <2>12. Over(given, Default) = Over(given, set)
        <3>1. keys = {}
            BY <2>11
        <3>2. DOMAIN given \cup DOMAIN Default = all /\ DOMAIN given \cup DOMAIN set = all
            BY <1>11, <1>12, <1>13, <1>14, <3>1
        <3>3. \A x \in all : x \in DOMAIN given
            BY <1>12, <1>14, <3>1
        <3>4. \A x \in all : (IF x \in DOMAIN given THEN given[x] ELSE Default[x])
                               = IF x \in DOMAIN given THEN given[x] ELSE set[x]
            BY <3>3
        <3> QED
            BY <3>2, <3>4, OverSame
    <2> QED
        BY <1>4, <1>5, <2>8, <2>9, <2>10, <2>12 DEF given, set
<1>16. CASE ~(cfg = <<>> /\ cpus # 1)
    <2>1. line.name = name
        BY <1>8, <1>16
    <2>2. ~ShortForm(line) /\ IsName(line) /\ Name(line) = prog.name
        BY <1>1, <1>3, <2>1 DEF ShortForm, IsName, Name
    <2>3. PICK parts : parts = line.parts
        OBVIOUS
    <2>4. CASE cpus = 1
        <3>1. parts = cfg
            BY <1>8, <2>3, <2>4
        <3>2. DOMAIN Own(line) = keys /\ \A i \in 1..n : Own(line)[cfg[i].key] = cfg[i].raw
            <4>1. DistinctKeys(parts, n)
                BY <1>10, <3>1, Zenon
            <4>2. Maps(Own(line), parts, n)
                BY <2>2, <2>3, <4>1, OwnOfParts
            <4> QED
                BY <3>1, <4>2, Zenon DEF Maps
        <3>3. Over(Own(line), Default) = Over(given, set)
            <4>1. /\ DOMAIN Own(line) \cup DOMAIN Default = all
                  /\ DOMAIN given \cup DOMAIN set = all
                BY <1>11, <1>12, <1>13, <1>14, <3>2
            <4>2. ASSUME NEW x \in all
                  PROVE  (IF x \in DOMAIN Own(line) THEN Own(line)[x] ELSE Default[x])
                           = IF x \in DOMAIN given THEN given[x] ELSE set[x]
                <5>1. CASE x = GOMAXPROCS
                    <6>1. x \notin keys
                        BY <1>9, <5>1
                    <6> QED
                        BY <1>6, <1>12, <1>13, <2>4, <3>2, <5>1, <6>1
                <5>2. CASE x # GOMAXPROCS
                    <6>1. PICK i \in 1..n : x = cfg[i].key
                        BY <1>14, <4>2, <5>2
                    <6>2. x \in DOMAIN Own(line) /\ x \notin DOMAIN given
                        BY <1>12, <3>2, <5>2, <6>1
                    <6>3. Own(line)[x] = set[x]
                        BY <1>11, <3>2, <6>1
                    <6> QED
                        BY <6>2, <6>3, Zenon
                <5> QED
                    BY <5>1, <5>2
            <4> QED
                BY <4>1, <4>2, OverSame
        <3> QED
            BY <1>4, <1>5, <2>2, <3>3 DEF given, set
    <2>5. CASE cpus # 1
        <3>1. PICK part : part = Part(GOMAXPROCS, procs)
            OBVIOUS
        <3>2. part.key = GOMAXPROCS /\ part.raw = procs /\ GOMAXPROCS # ""
            BY <3>1 DEF Part, GOMAXPROCS
        <3>3. parts = Append(cfg, part)
            BY <1>8, <1>16, <2>3, <2>5, <3>1
        <3>4. /\ DOMAIN parts = 1..(n + 1) /\ parts[n + 1] = part
              /\ \A i \in 1..n : parts[i] = cfg[i]
            BY <1>1, <1>4, <1>7, <3>3
        <3>5. DistinctKeys(parts, n + 1)
            <4>1. ASSUME NEW i \in 1..(n + 1), NEW j \in 1..(n + 1), parts[i].key = parts[j].key
                  PROVE  i = j
                <5>1. CASE i \in 1..n /\ j \in 1..n
                    BY <1>10, <3>4, <4>1, <5>1 DEF DistinctKeys
                <5>2. CASE i = n + 1 /\ j \in 1..n
                    BY <1>9, <3>2, <3>4, <4>1, <5>2
                <5>3. CASE i \in 1..n /\ j = n + 1
                    BY <1>9, <3>2, <3>4, <4>1, <5>3
                <5> QED
                    BY <5>1, <5>2, <5>3
            <4>2. ASSUME NEW i \in 1..(n + 1) PROVE parts[i].key # ""
                <5>1. i \in 1..n \/ i = n + 1
                    OBVIOUS
                <5> QED
                    BY <1>9, <3>2, <3>4, <5>1
            <4> QED
                BY <3>4, <4>1, <4>2 DEF DistinctKeys
        <3>6. /\ DOMAIN Own(line) = {parts[i].key : i \in 1..(n + 1)}
              /\ \A i \in 1..(n + 1) : Own(line)[parts[i].key] = parts[i].raw
            <4>1. PICK m \in Nat : m = n + 1
                OBVIOUS
            <4>2. DistinctKeys(parts, m)
                BY <3>5, <4>1, Zenon
            <4>3. Maps(Own(line), parts, m)
                BY <2>2, <2>3, <4>2, OwnOfParts
            <4> QED
                BY <4>1, <4>3, Zenon DEF Maps
        <3>7. DOMAIN Own(line) = keys \cup {GOMAXPROCS}
            <4>1. \A i \in 1..(n + 1) : i \in 1..n \/ i = n + 1
                OBVIOUS
            <4>2. n + 1 \in 1..(n + 1) /\ \A i \in 1..n : i \in 1..(n + 1)
                OBVIOUS
            <4>3. ASSUME NEW k \in DOMAIN Own(line) PROVE k \in keys \cup {GOMAXPROCS}
                <5>1. PICK i \in 1..(n + 1) : k = parts[i].key
                    BY <3>6, <4>3, Zenon
                <5> QED
                    BY <3>2, <3>4, <4>1, <5>1
            <4>4. ASSUME NEW k \in keys PROVE k \in DOMAIN Own(line)
                <5>1. PICK i \in 1..n : k = cfg[i].key
                    BY <4>4
                <5>2. i \in 1..(n + 1) /\ k = parts[i].key
                    BY <3>4, <4>2, <5>1
                <5> QED
                    BY <3>6, <5>2, Zenon
            <4>5. GOMAXPROCS \in DOMAIN Own(line)
                <5>1. GOMAXPROCS = parts[n + 1].key
                    BY <3>2, <3>4
                <5> QED
                    BY <3>6, <4>2, <5>1, Zenon
            <4> QED
                BY <4>3, <4>4, <4>5, Zenon
        <3>8. Own(line)[GOMAXPROCS] = procs /\ \A i \in 1..n : Own(line)[cfg[i].key] = cfg[i].raw
            <4>1. n + 1 \in 1..(n + 1) /\ \A i \in 1..n : i \in 1..(n + 1)
                OBVIOUS
            <4> QED
                BY <3>2, <3>4, <3>6, <4>1
        <3>9. Over(Own(line), Default) = Over(given, set)
            <4>1. /\ DOMAIN Own(line) \cup DOMAIN Default = all
                  /\ DOMAIN given \cup DOMAIN set = all
                BY <1>11, <1>12, <1>13, <1>14, <3>7
            <4>2. ASSUME NEW x \in all
                  PROVE  (IF x \in DOMAIN Own(line) THEN Own(line)[x] ELSE Default[x])
                           = IF x \in DOMAIN given THEN given[x] ELSE set[x]
                <5>1. CASE x = GOMAXPROCS
                    BY <1>12, <3>7, <3>8, <5>1
                <5>2. CASE x # GOMAXPROCS
                    <6>1. PICK i \in 1..n : x = cfg[i].key
                        BY <1>14, <4>2, <5>2
                    <6>2. x \in DOMAIN Own(line) /\ x \notin DOMAIN given
                        BY <1>12, <3>7, <5>2, <6>1
                    <6>3. Own(line)[x] = set[x]
                        BY <1>11, <3>8, <6>1
                    <6> QED
                        BY <6>2, <6>3, Zenon
                <5> QED
                    BY <5>1, <5>2
            <4> QED
                BY <4>1, <4>2, OverSame
        <3> QED
            BY <1>4, <1>5, <2>2, <3>9 DEF given, set
    <2> QED
        BY <2>4, <2>5
<1> QED
    BY <1>15, <1>16

\* The line main prints below the results, once they are ended.
TrailerShape == trailer = Blank \/ (trailer = TimeLine /\ closed)

\* Only main's last step prints it (largeheap.go:60-61).
LEMMA TrailerAlone ==
    ASSUME Next, ~Trailer
    PROVE  trailer' = trailer /\ (closed => closed')
<1>1. CASE Usage \/ Silent \/ ForkAgain \/ Fork \/ ChildSucceeds \/ Ended
    BY <1>1 DEF Usage, Silent, ForkAgain, Fork, ChildSucceeds, Ended, vars, report, stdout
<1>2. CASE PrintName
    BY <1>2, Zenon DEF PrintName
<1>3. CASE ChildFails \/ Parse \/ ParseFails
    <2>1. UNCHANGED stdout
        BY <1>3, Zenon DEF ChildFails, Parse, ParseFails
    <2> QED
        BY <2>1 DEF stdout
<1>4. ASSUME NEW all, PrintResults(all) PROVE trailer' = trailer /\ (closed => closed')
    BY <1>4, Zenon DEF PrintResults
<1>5. CASE Script \/ TraceFlag \/ Crash \/ (\E called \in BOOLEAN : BeginGC(called)) \/ WriteTrace
    <2>1. UNCHANGED report
        BY <1>5 DEF Script, Flags, Work, WriteLine, Checker, Check, Exit, TraceFlag, Crash,
                    BeginGC, WriteTrace, Exits
    <2> QED
        BY <2>1 DEF report, stdout
<1> QED
    BY <1>1, <1>2, <1>3, <1>4, <1>5, Zenon DEF Next, Parent

LEMMA TrailerHolds == Spec => []TrailerShape
<1>1. Init => TrailerShape
    BY DEF Init, TrailerShape
<1>2. TrailerShape /\ [Next]_vars => TrailerShape'
    <2> SUFFICES ASSUME TrailerShape, [Next]_vars PROVE TrailerShape'
        OBVIOUS
    <2>1. CASE Trailer
        <3>1. closed' = closed /\ trailer' = IF closed THEN TimeLine ELSE trailer
            BY <2>1, Zenon DEF Trailer
        <3>2. TimeLine' = TimeLine
            BY DEF TimeLine
        <3> QED
            BY <3>1, <3>2 DEF TrailerShape
    <2>2. CASE Next /\ ~Trailer
        BY <2>2, TrailerAlone, Zenon DEF TrailerShape, TimeLine
    <2>3. CASE UNCHANGED vars
        BY <2>3 DEF vars, report, stdout, TrailerShape
    <2> QED
        BY <2>1, <2>2, <2>3
<1> QED
    BY <1>1, <1>2, PTL DEF Spec

(***************************************************************************)
(* What a run leaves on standard output, bench.Parse understands           *)
(* (main.go:47-61, 86, 136-155; largeheap.go:58-61; parse.go:69-205):      *)
(* after a success one benchmark with the program's name and its           *)
(* configuration, and main's line of configuration below it, after a       *)
(* failure neither, for any programs with names that Parse accepts, any    *)
(* number of CPUs and whatever the child says or how it ends.              *)
(***************************************************************************)
THEOREM ResultsParse == Spec => []ResultParses
<1>1. IInv /\ Printed /\ TrailerShape => ResultParses
    <2> SUFFICES ASSUME IInv, Printed, TrailerShape, pc = "done"
                 PROVE  /\ closed = IsBenchmark(result) /\ failed = ~closed
                        /\ ~IsBenchmark(trailer)
                        /\ trailer.kind = "config" => closed
                        /\ closed => /\ Name(result) = prog.name
                                     /\ Over(Own(result), Default) =
                                          Over([k \in {GOMAXPROCS} |-> Num(1000 * user.cpus)],
                                               [c \in {p.key : p \in ToSet(prog.cfg)} |->
                                                  (CHOOSE p \in ToSet(prog.cfg) : p.key = c).raw])
        BY Zenon DEF ResultParses
    <2>1. /\ result = BenchLine(FullName.name, FullName.parts, result.fields)
          /\ failed = ~closed
        BY Zenon DEF Printed, ResultShape
    <2>2. closed => IsFields(result.fields)
        BY Zenon DEF Printed, ResultShape
    <2>3. ~closed => result.fields = <<Word("time:")>>
        BY Zenon DEF Printed, ResultShape
    <2>4. PICK fields : fields = result.fields
        OBVIOUS
    <2>5. PICK line : line = result
        OBVIOUS
    <2>6. line = BenchLine(FullName.name, FullName.parts, fields) /\ line.fields = fields
        BY <2>1, <2>4, <2>5, Zenon
    <2>7. /\ IsName(line) /\ Name(line) = prog.name
          /\ Over(Own(line), Default) =
               Over([k \in {GOMAXPROCS} |-> Num(1000 * user.cpus)],
                    [c \in {p.key : p \in ToSet(prog.cfg)} |->
                       (CHOOSE p \in ToSet(prog.cfg) : p.key = c).raw])
        BY <2>6, NameParses, Zenon
    <2>8. closed => IsBenchmark(line)
        <3> SUFFICES ASSUME closed PROVE IsBenchmark(line)
            OBVIOUS
        <3>1. /\ fields # <<>> /\ IsInt(Head(fields)) /\ Head(fields)[2] > 0
              /\ Results(Tail(fields)) # {}
            BY <2>2, <2>4, FieldsParse, Zenon
        <3>2. line.kind = "bench"
            <4>1. PICK a, b : a = FullName.name /\ b = FullName.parts
                OBVIOUS
            <4>2. line = BenchLine(a, b, fields)
                BY <2>6, <4>1, Zenon
            <4> QED
                BY <4>2, LineIs
        <3> QED
            BY <2>6, <2>7, <3>1, <3>2, Zenon DEF IsBenchmark
    <2>9. ~closed => ~IsBenchmark(line)
        <3> SUFFICES ASSUME ~closed PROVE ~IsBenchmark(line)
            OBVIOUS
        <3>1. PICK word : word = Word("time:")
            OBVIOUS
        <3>2. fields = <<word>>
            BY <2>3, <2>4, <3>1, Zenon
        <3>3. Head(fields) = word
            BY <3>2
        <3>4. ~IsInt(word)
            BY <3>1 DEF IsInt, IsFloat, Word
        <3> QED
            BY <2>6, <3>3, <3>4, Zenon DEF IsBenchmark
    <2>10. closed \in BOOLEAN /\ IsBenchmark(line) \in BOOLEAN
        BY DEF IInv, TypeOK, IsBenchmark
    <2>11. ~IsBenchmark(trailer) /\ (trailer.kind = "config" => closed)
        <3>1. Blank.kind = "blank" /\ TimeLine.kind = "config"
            BY DEF Blank, TimeLine, ConfigLine
        <3> QED
            BY <3>1 DEF TrailerShape, IsBenchmark
    <2> QED
        BY <2>1, <2>5, <2>7, <2>8, <2>9, <2>10, <2>11, Zenon
<1> QED
    BY <1>1, ResultsHold, TrailerHolds, PTL
=============================================================================
