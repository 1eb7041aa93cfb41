------------------------------ MODULE GCTrace ------------------------------
(***************************************************************************)
(* gcbench/gctrace.go and gcbench/metrics.go: the parent reads the output  *)
(* of a benchmark, finds the lines of the garbage collector's trace and    *)
(* computes its metrics.                                                   *)
(*                                                                         *)
(* The output is the sequence of writes of the child.  The runtime writes  *)
(* a line of the trace in pieces, so the writes of other goroutines may    *)
(* fall between them: "gc" starts the line, "pct" ends its header with the *)
(* utilisation, "clock" stands for the phases and heap sizes, "procs" for  *)
(* the last part, "forced" marks a forced cycle, "eol" ends the line.  Its *)
(* number v is the cycle.  "metric" and "text" are whole lines.            *)
(***************************************************************************)
EXTENDS Ascending, SequencesExt

Write(k, v) == [k |-> k, v |-> v]

EndsLine == {"eol", "metric", "text"}

\* The writes of the trace of a cycle.
TraceWrites(c, forced) ==
    LET kinds == IF forced THEN <<"gc", "pct", "clock", "procs", "forced", "eol">>
                           ELSE <<"gc", "pct", "clock", "procs", "eol">>
    IN  [i \in DOMAIN kinds |-> Write(kinds[i], c)]

\* Where the lines of the output start; the line that starts at i, the last of
\* which may have no end.
Starts(out) == {i \in DOMAIN out : i = 1 \/ out[i - 1].k \in EndsLine}

LineAt(out, i) ==
    SubSeq(out, i, CHOOSE e \in i..Len(out) : /\ e = Len(out) \/ out[e].k \in EndsLine
                                             /\ \A j \in i..(e - 1) : out[j].k \notin EndsLine)

\* Mutant of LinesOf: the last line is taken for the empty one after the output.
LinesButLast(out) == {LineAt(out, i) : i \in {j \in Starts(out) : \E l \in Starts(out) : j < l}}

LinesOf(out) == {LineAt(out, i) : i \in Starts(out)}

StartsWith(line, k) == line # <<>> /\ line[1].k = k

-----------------------------------------------------------------------------
(* ParseGCTrace *)

\* gcTraceLine: the header must be there, whatever follows it.
IsTraceLine(line) == StartsWith(line, "gc") /\ Len(line) > 1 /\ line[2].k = "pct"

\* Mutant of Parts: the mark of a forced cycle is dropped with the end of the line.
PartsUnmarked(line) ==
    LET text == IF Last(line).k = "eol" THEN Front(line) ELSE line
        bare == IF Last(text).k = "forced" THEN Front(text) ELSE text
    IN  [i \in 1..(Len(bare) - 2) |-> bare[i + 2].k]

\* The parts after the header, without the end of the line.
Parts(line) ==
    LET text == IF Last(line).k = "eol" THEN Front(line) ELSE line
    IN  [i \in 1..(Len(text) - 2) |-> text[i + 2].k]

\* Every part is one the parser knows, and there are 5 (Go 1.5) or 3 phases.
PartsParse(line, phases) ==
    /\ Parts(line) \in {<<"clock", "procs">>, <<"clock", "procs", "forced">>}
    /\ phases \in {3, 5}

\* Where the lines of the trace start.
Traces(out) == {i \in Starts(out) : IsTraceLine(LineAt(out, i))}

Cycle(line) == [n |-> line[1].v, forced |-> Last(Parts(line)) = "forced"]

\* The cycles of the trace, or nothing if a line cannot be parsed.
ParseGCTrace(out, phases) ==
    IF \E i \in Traces(out) : ~PartsParse(LineAt(out, i), phases) THEN {}
    ELSE {[j \in DOMAIN starts |-> Cycle(LineAt(out, starts[j]))] :
            starts \in {InOrder(Traces(out))}}

WithoutForced(trace) == SelectSeq(trace, LAMBDA c : ~c.forced)

-----------------------------------------------------------------------------
(* The metrics.  A value that is NaN is the empty set, another its         *)
(* singleton; ratios are in percent.  The function of gives the            *)
(* measurements of a cycle by its number.                                  *)

Pctile(xs, pct) ==
    IF xs = <<>> THEN {} ELSE {SortSeq(xs, <)[((Len(xs) - 1) * pct) \div 100 + 1]}

\* extract: the field of each cycle.
Extract(t, of, field) == [i \in DOMAIN t |-> of[t[i].n][field]]

SumSeq(xs) == FoldSeq(LAMBDA x, y : x + y, 0, xs)

\* 0/0 is NaN; the rate of marking that took no time is infinite.
Ratio(a, b, Infinity) == IF b > 0 THEN {a \div b} ELSE IF a = 0 THEN {} ELSE {Infinity}

\* "Ignore very small heaps."
HeapOvershoot(t, of) ==
    LET large == SelectSeq(t, LAMBDA c : of[c.n].goal >= 10)
    IN  [i \in DOMAIN large |-> (100 * of[large[i].n].actual) \div of[large[i].n].goal - 100]

\* Not for Go 1.5, nor for a cycle whose mark phase took no time.
CPUUtil(t, of, phases) ==
    LET timed == SelectSeq(t, LAMBDA c : phases # 5 /\ of[c.n].clockMark # 0)
    IN  [i \in DOMAIN timed |->
           (100 * (of[timed[i].n].assist + of[timed[i].n].background))
             \div (of[timed[i].n].clockMark * of[timed[i].n].procs)]

\* A row of the table of metrics: what it is called, and what it may be.
Metric(label, value) == [label |-> label, value |-> value]

\* The table of metrics, for the cycles not forced.  The warnings about a
\* value are left out.
Metrics(t, of, phases, elapsed, Infinity) ==
    LET over(pct) == Pctile(HeapOvershoot(t, of), pct)
    IN  <<
        Metric("GCs/op", {Len(t)}),
        Metric("GCs/sec", {IF t = <<>> THEN 0 ELSE Len(t) \div (elapsed - t[1].n)}),
        Metric("95%ile-ns/sweepTerm", Pctile(Extract(t, of, "sweepTerm"), 95)),
        Metric("95%ile-ns/markTerm", Pctile(Extract(t, of, "markTerm"), 95)),
        Metric("MB-marked/CPU/sec",
               Ratio(SumSeq(Extract(t, of, "marked")), SumSeq(Extract(t, of, "cpuMark")), Infinity)),
        Metric("95%ile-heap-overshoot", over(95)),
        Metric("5%ile-heap-overshoot", over(5)),
        Metric("95%ile-CPU-util", Pctile(CPUUtil(t, of, phases), 95))>>
=============================================================================
