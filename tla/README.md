# A verification project for go-gcbench

go-gcbench is a set of Go programs that put the garbage collector under
particular loads (many goroutines, large stacks, large objects, a large heap,
an RPC-like system), a small library they share, and a reader and printer of
the Go benchmark format. This directory models the parts with state in TLA+,
checks them with TLC on small instances and proves the central properties with
TLAPS for every size. `PROJECT.json` is the index: which definition models which
lines, what each run checks, which bug each property catches, what is proved.

## The system

| Component | Source | State | Operations | Interacts with |
|---|---|---|---|---|
| StackShrink | `gcbench/progs/stackshrink.go` | three WaitGroups `phase`, `a`, `b`; a stack per goroutine | `stack`, `benchMain` | Churner, GC, exit timer |
| Churner | `gcbench/churn.go` | channel pair `stop`/`stopped`, ticker, ballast | `Start`, `Stop`, the goroutine | its caller, ticker |
| LatencyDist | `gcbench/lat.go` | `N`, `Max`, `Buckets` | `Add`, `Quantile`, `Fprint`, `FprintHist`, LatencyTracker | called concurrently by RPC, LargeObject, LargeHeap |
| RPC | `gcbench/progs/rpc.go` | connection pool, WaitGroup, `stop` channel, per-connection handlers | `doClient`, `sendOneRequest`, `handler`, `benchMain` | two processes over TCP and a stdin pipe, LatencyDist |
| Heap generation | `gcbench/heapgen/heapgen.go` | slice of generated values | `Generate`, `Measure` | goroutines, MemStats |
| De Bruijn graphs | `gcbench/heapgen/debruijn.go` | node graph | `MakeDeBruijn2` | LargeHeap |
| Runner | `gcbench/main.go` | environment, configuration, results | `Run`, `ReportExtra` | child process, gctrace, metrics, printer |
| GC trace, metrics | `gcbench/gctrace.go`, `metrics.go` | parsed cycles | `parse`, aggregates | Runner |
| GC checker | `gcbench/check.go` | first MemStats | `NumGCAtLeast` | LargeBSS |
| Parser | `bench/parse.go` | current configuration, result list | `Parse`, `ParseValues` | tools |
| Printer | `bench/print.go` | printed configuration | `Fprint`, `pretty` | Runner |
| Flags, stack | `gcbench/flag.go`, `stack.go` | none | `Bytes.Set/String`, `WithStack` | programs |
| Other programs | `gcbench/progs/*.go` | goroutines, heaps | `benchMain` each | the above |

What makes each of them correct, and what is hard about it:

* **StackShrink** must bring all stacks to one size, let the GC see them, and
  only then bring them to the other. Hard: three WaitGroups are reused round
  after round, and sync.WaitGroup panics when one is reused too early; a
  goroutine may run ahead by any number of steps; the GC runs on its own clock
  and its counter may count a cycle that began too early.
* **Churner** must have stopped when `Stop` returns. Hard: a select with two
  ready cases, a channel pair that is replaced on every `Start`, and a goroutine
  that is still running when `Stop` has returned.
* **LatencyDist** must count every sample once, and `Quantile` must find the
  bucket of the right sample. Hard: lock-free updates of three fields that are
  read one by one, and boundary ranks and buckets.
* **RPC** must give each connection to one request at a time, wait for all
  requests before it closes the connections, and report after that. Hard: the
  shutdown races the start, the timers and the requests in flight.
* **Generate** must fill each slot once from concurrent goroutines; **De Bruijn
  graphs** must have two in- and two out-edges per node.
* **Parser, printer** must agree on the format; blocks of configuration apply to
  what follows them, and results share them.
* **Runner** must tell parent from child and parse what the child really prints.

`PROJECT.json` lists the hazards at their lines.

## Plan

1. `Churner`, `StackShrink` with the abstract `StackPhases`, and proofs. *Done.*
2. `LatencyBuckets`, `LatencyDist`, and proofs. *Done.*
3. `RPCClient`, `RPCServer`, composed by `RPC`, with the abstract `RPCDrain`:
   shards, pool, shutdown, handlers, and proofs of all its safety properties. *Done.*
4. `LatencyHist`: printing beside concurrent Adds, the resampling into columns,
   the places of the ticks, and proofs. *Done.*
5. `HeapGen` on `DeBruijn`: Measure beside the collector, Generate with its
   goroutines, and proofs. *Done.*
6. `BenchText`, `BenchFormat`: the format, the parser, the conversion of values,
   the printer, the round trip; proofs about the parser, the values and the round
   trip. *Done.*
7. `Runner` on `Programs` and `GCTrace`: parent, child, trace, metrics; proofs of
   what a line of results vouches for, that it parses, that the trace is the
   collector's and that nothing of the output is lost. *Done.*

Every safety property that a run checks is proved but those of the findings; what
is left to TLC alone is liveness.

Runs stay within two minutes: two or three actors of a kind are enough for every
pairwise race, and a step of data more than that only repeats itself.

## Modules

| Module | Models |
|---|---|
| `WaitGroup` | sync.WaitGroup values: counter and parked callers, and when calls panic (external) |
| `Churner` | churn.go; EXTENDed by the module of a program that uses it |
| `StackShrink` | stackshrink.go, composed with `Churner`, `WaitGroup`, GC cycles and the exit timer |
| `StackPhases` | what StackShrink promises: lock-step alternation |
| `LatencyBuckets` | the bucket arithmetic of lat.go |
| `LatencyDist` | `Add` and `Quantile`, one atomic operation or load per step |
| `RPCLinks` | what the RPC processes share: their status, the client's stdin, TCP connections (mostly external) |
| `RPCClient` | `doClient` and `sendOneRequest` of rpc.go |
| `RPCServer` | `benchMain` after the start of the client, and `handler` |
| `RPC` | the two composed, and their properties |
| `RPCDrain` | what the client's shutdown promises: a drain |
| `LatencyHist` | `Fprint` and `FprintHist` of lat.go, one load of a bucket per step, beside `Add` |
| `DeBruijn` | debruijn.go: number of nodes, edges, panics, what node 0 leads to |
| `HeapGen` | heapgen.go: `Measure` with collector and statistics, `Generate` with its goroutines |
| `Ascending` | sorted lists of a set, and a list of pairs as one of their members, as theorems can use them |
| `BenchText` | lines and tokens of the benchmark format, what is a benchmark line, how `Fprint` writes one |
| `BenchFormat` | `Parse`, `ParseValues`, `Fprint`, and `Parse` of what was printed |
| `GCTrace` | gctrace.go and metrics.go: the trace the runtime writes, what the parser takes, the table of metrics |
| `Programs` | the benchmark programs as scripts, as the runner sees them |
| `Runner` | main.go and check.go: parent and child, composed with `GCTrace` and a script |
| `MC...` | small instances for TLC |
| `StackShrinkProofs`, `LatencyDistProofs`, `LatencyHistProofs`, `RPCProofs`, `HeapProofs`, `BenchTextProofs`, `BenchFormatProofs`, `RunnerProofs` | theorems |

A definition whose comment starts with "Mutant of" is a planted bug that shows
what a property catches; nothing else uses it.

### StackShrink and Churner

`mpc` and `pc` are the places in `benchMain` and in the goroutines' loop between
two calls that other threads can observe. A goroutine in `HighPCs` is inside
`WithStack(high-low)`. A WaitGroup is `[n, waiters]`: `Add` that reaches zero
empties `waiters`, which *releases* the parked callers; each of them still has to
run, and panics if it finds the group in use again, which is what the Go library
does. A panic sets `status` and ends all other steps, as the timer's `os.Exit`
does (`Live`, `Ended`).

The Churner keeps only the current channel pair, so the model gives a pair, and
the goroutine made for it, an identity in `Runs`, reused once the goroutine has
ended; with two identities a run can begin while the previous goroutine is still
touching the ballast. The ticker is its one-slot channel.

A GC cycle may begin at any time and counts in `NumGC` when it ends. `seen` is
`mstats1.NumGC - mstats0.NumGC`, capped at the 2 the code compares with; `gc`
says whether the cycle in progress began before (`old`) or after (`new`) mstats0
was read. `GCTrigger` bounds the garbage that is counted.

One goroutine at least is assumed. The model does not say how large a stack is,
only which `WithStack` a goroutine is in.

### LatencyDist

Each call of `Add` is a goroutine of its own, which allows more interleavings
than workers that make several. `Quantile` loads `N` up to three times, a bucket
twice and `Max` twice; each load is a step. `WaitForAdds` says whether the caller
waited for the Adds (RPC client) or not (LargeObject). Buckets are computed with
integer powers: `LogBucket` counts the k with LM^k <= t^NB, which is the
truncated logarithm, and `Power` the truncated root. Floating-point rounding is
not modelled. Durations are natural numbers: the clock is monotonic. An Add of a
bucket that the array does not have panics, as the scan past its end does.

The code takes `int(q*(N+1))`, a rank counted from one, for an index from zero
(lat.go:228-237), so its median of three samples is the largest. `QuantileIsRanked`
is what is left of "the bucket containing this quantile": at least the fraction q of
the samples lies in or below the bucket found, and less than one sample more than
that fraction lies below it; the exact quantile would do without the one more.

### RPC

Each goroutine has a program counter: the shards (`shard`), every
`sendOneRequest` (`req`, with its connection in `conn`), the goroutine that
watches stdin (`stdinPC`), the timer's goroutine (`timer`). A handler is the
server's end of its connection and the request it has read (`held`). `pool` is
`conns.q`; a critical section under its lock is one step. A process that exits
has all its connections and pipes closed by the kernel (`ClientExits`,
`ServerExits`), which is how one side learns of the other's end.

A request is one message, sent by one `Write`, named for the `sendOneRequest` it
belongs to, so that an answer to the wrong request would show. Of TCP the model
keeps what the error paths tell apart: end of file, an error (`reset`) after the
peer closed with data unread or before Accept, and, as the platform likes, after
a write to a closed peer. A dial may fail at any time ("This could just mean the
server is overloaded"), and Accept may fail, which ends the server (`refused`).

The range over `conns.q` at line 199 takes no lock. The model evaluates the slice
once (`ranged`) and lets an append that stays within the array's capacity replace
an element still to be read. A torn read of the slice header itself is left out;
it needs the same early shutdown that the finding below is about.

`prompt` is a history variable: it turns false when stdin is seen to close before
all shards were added. It separates what the shutdown promises after a complete
start (`WaitedForAll`, `NothingLeaked`, `StartedEndsCleanly`) from what holds in
every case (`PoolIsIdle`, `OneOutstanding`, `BenchmarkEnds`, `ClientFollows`).
In `RPCDrain` an early shutdown is an aborted one.

Both processes end by printing a plot of their latencies, which may panic (rpc.go:116,
203; the run `hist_ticks`): `TimerFires` and `Report` then end the process
(`panicked`), and the other one follows with an error of its own. Recording latencies
and the text of the reports are part of the steps around them;
`WaitedForAll` is what justifies `WaitForAdds = TRUE` of `LatencyDist` for the
client's report.

### LatencyHist

`form` is the method called, `i` the loop's bucket, `range` what `bounds` returned
from loads of its own: the loop that prints loads every bucket again, and Adds
(`Record`, the last step of `Add`) happen between any two loads. `before`, `seen`
and `drawn` are ghosts that count samples at the call, loaded and printed.

Column edges are exact fractions with the denominator `D`. The code computes them
in floating point and says itself that "numerical error can push just over width";
so the last right edge, the only one that meets the plot's, may be off by a
`Fine`-th of a bucket either way. The logarithmic bars are compared by integer
powers. A tick is multiplied in `IntWidth` bits, because its overflow is what ends
the loop when a sample lies in the last bucket. `HalfLabel` is half the length of
a label: `XBase` stands for ten, three ticks for a change of unit.

### HeapGen and DeBruijn

The heap is counted in nodes: `live` what the sink or the slice keeps, `dead`
garbage, `other` the rest of the program. A cycle frees what was dead when it
began (`doomed`) and may begin and end at any time; `runtime.GC` ends the cycle in
progress or does a whole one, and that is why `Measure` calls it twice. HeapInuse
is the sum. The rest of the program may let go of memory unless it is `idle`, which is
the precondition the code states.

What a call of the generator retains follows from the graph: only node 0 is held,
so it is the number of nodes that edges lead to from there. The negative powers,
power 0, and those at or above the width of an int are inputs. "MakeDeBruijn2
constructs a de Bruijn graph of objects of degree 2 with exactly 2**power nodes"
(debruijn.go:11-12) does not hold for power 0, which the guard lets pass: the graph of
one node is indexed past its end.
`PanicsOnlyWhen` says that no graph is made for these powers, and that nothing else
panics in an idle system.

`BytesGarbage` is documented as the "bytes of non-retained garbage produced by calling
Gen()" (heapgen.go:26-27). With `SetGCPercent(-1)` commented out (heapgen.go:47, 51) a
background cycle can end between the call and the reading of mstats1 and take some of
it away. The ghost `swept` says that one did; `MeasureExact` demands the comment's
value exactly unless it did, and only then anything up to it. In `Generate` each goroutine has its `next` slot,
and each call its number in `out`, so that a slot written twice, a result lost
and an early `Wait` would all show. The wait group is its counter: it is raised
before the goroutines start and waited for once.

### BenchFormat

A line is a sequence of tokens; spaces and alignment only separate them. Config
objects live in `heap` and benchmarks hold their addresses, as the maps of the
source hold pointers: the sharing between benchmarks of a block, which
`ParseValues` depends on to convert each value once, is explicit. The address of
an object is the line that made it and its key: a line makes at most one object of
a key, so no two have the same. `Converted` is what the loop over one key with one
parser leaves: the benchmarks up to the first failure have been tried, and an
object already set is skipped. The map order of keys is arbitrary. The
same variables run twice: `round` 2 parses what was printed, and `RoundTrip`
compares it with `first`, the result of round 1.

The printer leaves a line without newline when a benchmark has no results, so the
next line continues it (`Glue`); writes may fail between any two blocks or lines,
reads at any line. `pretty` is modelled by its rounding to at least three figures,
and by its loop, which does not end for every value.

A benchmark without `-N` and without a gomaxprocs of its own gets gomaxprocs 1 from
parse.go:168-170. The comment on `Benchmark.Config` (parse.go:32-37) does not speak of
a default, and parse_test.go expects none (lines 18-24, 29-31, 62-71, 85-119); that
test does not compile any more, as it still writes four fields into a `Config`, which
has three. The model follows the code. `ConfigMeaning` demands what both agree on: what
the line's name and the block say, as written there, and nothing else but perhaps a
gomaxprocs.

`RoundTrip` has four exceptions, each a gap of the printer: a benchmark without
results; a name that ends in a number and is printed without gomaxprocs, which then
reads as its gomaxprocs; a gomaxprocs of 1 in a line, which is not printed although
the block above sets another; and a gomaxprocs that is no integer and is printed in
the short form (print.go:107), where the parser takes it for part of the name. The
last was found by the proof: no file of the run had such a line then, and one has now.

### Runner, GCTrace, Programs

The parent is `pc`; the child is a place in its script (`ip`), the collector
(`gcs`, and `gp` for how much of the last cycle's trace is written) and its output.
The runtime writes a line of the trace in pieces without holding off other writers
of standard error, so lines of the program, and the exit, may fall between them:
`torn` and `cut` are ghosts that say so. The lock that `println` takes is held for
a whole line, which allows more interleavings than the runtime has where it holds
it for longer. The environment (a GODEBUG or GCBENCH of the user, and which of two
settings an os/exec prefers), a wrong command line and one processor are initial
states, in `user`.

After its results `main` prints `time: ` and its memory (largeheap.go:58-61). To
`bench.Parse` such a line is a configuration line: in the log of several programs
that suite.sh leaves, `time` becomes a configuration of the benchmarks below.
`trailer` is that line, and `ResultParses` says that it stands below the results, is
no benchmark, and appears as a line of its own only after a success; after a failure
it continues the line begun.

Metrics are computed from what each cycle measured. The numbers inside a line
are abstracted to the number of its cycle, and `measured` gives the cycles their
values when the parent prints; nothing before depends on them. Where a definition binds a variable over a
set of one element, TLC evaluates the value once instead of at every use.

A program is the name, configuration and script of `benchMain` as far as the
runner can tell: forced collections, lines on standard error, reports, how it
ends. What its goroutines do meanwhile is in the modules above (StackShrink, RPC,
HeapGen) or is work nobody observes.

## Runs

| Run | Instance | Question |
|---|---|---|
| `stack` | 2 goroutines, 2 Churner runs, GC forced after 2 allocations, fairness | are the WaitGroups used legally, the stacks in step, the GC cycle a whole one, the Churner runs disjoint; does the barrier implement `StackPhases`, fairness included, and does `Stop` return? |
| `latency_wait` | 3 Adds of {0,1,2,6,12} ns, 4 buckets up to 10 ns, P25, P50 and P99, fairness | is everything counted within the array, the right bucket found, the answer within it, and does the swap loop end? |
| `latency_race` (violation) | as `latency_wait`, no waiting, symmetry | can `Quantile` run off the array while Adds go on? |
| `rpc_safety` | 2 shards, 2 requests and 2 connections at once, symmetry | are connections exclusive, is everything waited for and closed, does nobody fail, unless Accept fails or a report panics? |
| `rpc_live` | 1 shard, 2 requests, 1 connection, fairness | does the shutdown implement `RPCDrain`, do both processes end? |
| `rpc_early` (violation) | as `rpc_safety` | is the shutdown clean even if stdin closes during the start? |
| `hist` | 6 buckets up to 27, plot of 5 by 2 cells, 8-bit durations, 4 samples, fairness | are samples lost or invented, do the bars follow the counts, where can it panic, does it end? |
| `hist_ticks` (violation) | as `hist` | does a plot ever panic? |
| `bench` | all files of up to 3 lines out of 19 | does each benchmark get the configuration in force, are values converted alike, does the round trip agree, are parsed benchmarks left alone? |
| `bench_zero` (violation) | as `bench` | does `pretty` end for every result that `Parse` accepts? |
| `runner` | 5 programs in the usual and the odd environments, 2 or 3 cycles of 3 kinds, fairness | does what is left on standard output parse, main's own line included, are failed runs without results, is the trace the collector's, is output lost, does a run end? |
| `heap` | an AST and graphs of -1 to 6 bits with 6-bit ints, goals 0 and 5, 1 to 3 goroutines, fairness | is the measurement exact, can anything panic but a power without a graph, is each slot filled once, the goal covered, does Generate return? |

Why the bounds suffice. *Stack*: with two goroutines one can run ahead and one
lag; rounds repeat without bound, so reuse of the WaitGroups is covered, and the
safety properties are proved for any number. *Latency*: the durations cover zero,
the lowest bucket, inner buckets, a sample below the midpoint of its bucket and
one above `latencyMax`; three Adds allow a swap to fail twice. Of three
samples the quartile has the index 1, an inner one, the median 2, the last, and P99 is
cut off at the last; of two the quartile is the first; of none all are -1. *RPC*:
two shards are what the early shutdown needs (one has ended, one is being added);
two requests compete for pooled connections and two connections give the pool an
order; identities are reused, so the number of requests is unbounded. With one
connection (`rpc_live`) a request that finds it taken fails to dial. *Hist*: the
range can be one bucket or all, narrower and wider than the plot, so that a bucket
falls within a column or spreads over several; four samples give columns of zero,
one and more; 27 buckets' worth of duration in 8 bits leaves room for one overflow
beyond the plot. *Bench*: three lines are a block, a benchmark and a change, or two
benchmarks that share a block; the 19 lines include each way in which a line is
not a benchmark. *Runner*: two cycles are enough to tear one line and cut off
another; a third lets the last differ from both. *Heap*: three goroutines with no, fewer and more slots
than goroutines; one cycle in progress when Measure begins and any number after.

Deadlock is checked in all runs.

Fairness: every goroutine is scheduled (weak fairness on each thread), the ticker
fires, a cycle is begun at the trigger and ends, and a select whose stop channel
stays closed picks it eventually (strong fairness: Go's select chooses at random
among ready cases). The exit timer of StackShrink is not assumed to fire. In RPC
the benchmark's timer fires and Accept returns, as the kernel owes them; the
shards' timers need not fire, and no failure is owed. In LatencyHist the printing
goroutine runs and no Add is owed; in HeapGen the caller and each worker run, and
no background cycle is owed; in Runner both processes run, the cycle that
`runtime.GC` waits for begins, and its trace is written. `bench` has safety
properties only.

### Findings

`latency_race` shows that `Quantile` (lat.go:226-237), whose comment says "Find
the bucket containing this quantile.", indexes past `d.Buckets` when a worker
stands between its count in `N` (line 30) and its count in a bucket (line 41).
LargeObject calls it with its workers running (largeobject.go:77-79). With the
Adds waited for, as in rpc.go:197-205, it cannot happen, and that is proved.

`rpc_early` shows that the client's shutdown, "Wait for stdin to close, then shut
down cleanly." (rpc.go:186), is not clean if stdin closes while doClient still
adds shards, for example with a very short `-benchtime`: the shards added so far
end and release `wg.Wait`, the next `wg.Add(1)` raises the counter from zero, and
the waiter panics because the WaitGroup is in use again. The server then ends
with "client failed". With stdin closed after the start this cannot happen
(`StartedEndsCleanly`).

`hist_ticks` shows that `FprintHist` indexes its rows below zero when the first
tick has no room for its label to the left, or lies left of the plot (lat.go:201-209);
in rpc.go that ends the server (line 116) or the client (line 203).
`PanicsOnlyAtEdges` says what else can panic: with a sample in the last bucket no tick
is past the plot, and after one in that bucket's column the tick is multiplied until it
overflows and its column is below zero. No column of the resampling is ever out of range.

`bench_zero` shows that a result of zero, which `Parse` accepts, makes the loop of
`pretty` (print.go:234) go on for ever.

Four disagreements are described above with the modules and have no run of their own,
because a property says exactly how far they go: the index of a quantile
(LatencyDist), `BytesGarbage` and power 0 (HeapGen), and the default gomaxprocs
(BenchFormat).

## Proofs

Everything below holds for every value of the constants that meets the ASSUMEs of
the modules, which TLC evaluates on every run: any finite set of goroutines, calls,
shards and requests, any number of buckets, any files, programs and environments.

* `StackShrinkProofs`: `ChurnerJoins`, by adding that a run whose
  `stopped` is closed has left the loop; `GCRanOnSmallStacks`, by adding that
  until a whole cycle has been seen at most the cycle running at the read of
  mstats0 has been counted. For the barrier, the inductive `BarrierInv` divides a
  round into four stages (Up, Top, Down, Bottom) and says for each where goroutines
  can be (`Places`), which gates are shut (`Gates`), that the parked are the waiters
  of a shut gate and an open gate has none (`GateWaiters`, `PhaseWaiters`), and that
  `phase` counts exactly the goroutines that have still to report (`Count`). The
  count is what the argument needs: a `phase.Wait` that finds zero knows that
  nobody is pending, and a `Done` never goes below zero because its caller is.
  From it follow `NeverPanics`, `BarrierIsKept` and `BarrierRefinesPhases`, the
  step simulation of `StackPhases` (a gate opening is a flip, a push or pop of the
  large frames a move).
* `LatencyDistProofs`: `TypeCorrect`, in which every Add stays within the array, because
  a panic is no program counter of `TypeOK`; `NothingLost` and `MaxOnlyGrows`, by adding that a swap is
  only tried with a value above the maximum it loaded; `QuantileFindsBucket` and
  `QuantileFindsRank`, by the scan invariant that the remaining rank is the rank
  less the number of calls below the current bucket; `AnswersBelowMax`, also while Adds
  go on (no run lists `QuantileBelowMax`: in a passing one nobody adds during a Quantile);
  `QuantileStaysInBucket`: some sample lies in the bucket found, so the maximum is at
  least the bucket's lower end, and cutting the midpoint off at it stays inside.
* `LatencyHistProofs`: `PrintConserves`. The state holds only how many samples there
  were at the call and how many were read, which is not inductive, since a bucket
  read early may be smaller than it is now. `Accounted` therefore says that there
  *are* two distributions behind these counts, the one at the call and the one read,
  each bucket at its own time, that lie one below the other. In the plot, `Shared`
  says that what the columns still lack of a bucket is its part right of the
  current column, so the rounded shares telescope. `BarsShowColumns` needs that no
  share is negative (`Upward`: parts left of an edge grow with the edge), and then
  that a larger count never fills fewer cells. `PlotPanicsOnlyAtEdges`: `Placed` adds that
  the column of a bucket that is spread stays within the plot, so that a panic comes
  from a tick; and that with a first tick in the range that has room for its label
  (`Clear`) every tick has, until there is one in the column of the last bucket
  (`Full`): ticks are at least a column apart, so the later ones have the room of the
  first, and a tick past the last bound ends the plot unless the last bucket is in it.
* `RPCProofs`: the inductive `DrainInv` says what the WaitGroup counts (`Counted`: the
  shards and requests that have begun and not ended), who waits for it (`Waits`), and
  that a shutdown that began after the start gets past `wg.Wait` only when all is
  quiet (`Drained`). It gives `ReportWaits` and the step simulation of `RPCDrain`,
  `RefinesDrain`; how soon requests end is no part of it.
  For the connections, `UseInv` gives each open connection one owner, the pool or a request
  (`Owned`, `Kept`), at most one request or answer in transit, awaited by that owner
  (`Singles`, `Awaited`, `Unused`), and says that a handler that has ended holds
  nothing (`Served`): `PooledIdle`, `OneAtATime`. `CloseInv` goes on with the
  shutdown: the last loop ranges over the whole pool and has closed a prefix of it
  (`Closing`), the client has open what it pools or uses (`Usable`), and unless Accept
  failed or a report panicked (`Breaks`) no connection was reset and the server closes
  after the client (`Clean`):
  `AllClosed`, `EndsCleanly`.
* `HeapProofs`: the inductive `HInv` has two halves. `HeapInv` follows the heap
  through Measure: `Alive` says what is live at each step, `NoneFloats` that after
  two collections no garbage is left that a cycle in progress could miss, `Stats`
  what the three readings must then have been, and from the last follows
  `MeasureIsExact`, for any generator, heap and schedule of background cycles.
  `SliceInv` follows Generate: a goroutine stays on its stride (`Strides`), has
  filled all of it that is behind it and nothing ahead (`Behind`, `Untouched`),
  results are numbered without repetition (`Numbered`), and the WaitGroup counts
  the goroutines that have not ended (`Counted`), so that `Wait` returns with every
  slot filled once: `GenerateRetainsAll`, for any number of goroutines and slots.
  `GenerateCoversGoal` combines both: what is live is what one call retains, times the
  calls made (`AmountInv`). `NoOtherPanics`: twice a node's number modulo the number of
  nodes, plus a digit, is a node, as that number is even for every power that has a
  graph (`GoodPower`), and what is retained, which Generate divides by, is positive
  (`RetainsSome`). `HeapTypeCorrect` is type correctness; `DegreeTwo`
  counts the edges of a graph of any even size.
* `BenchFormatProofs`: `ParseInv` reads the state off the text: each key of the block
  configuration has the object of its last configuration line above (`BlockInv`), each
  benchmark had that of its own line (`BsInv`), and an object still says what its line
  says (`HeapInv`). From it follow `ConfigIsAsWritten`, in both rounds, and
  `ParsedObjectsStay`, because a new object never takes the address of an old one.
  `ValuesAreUniform` adds `ValuesInv`: every key is still to be looked at, the
  current one, or settled, and each parser before the current one has refused a
  value of the current key. Objects of different keys are different, so settling
  one key does not disturb another, in whatever order the map yields them.
  `RoundTrips` follows the text once around. `LinesInv`: a parse reads one benchmark of
  each line that is one, in order; so after the first parse each benchmark has the
  configuration its line means (`FirstIs`, `Meant`), and a key that a block once set stays
  set (`GoodFirst`). While the blocks are made, `SplitInv` claims for each block the
  block configuration `G` that is in force once its lines are printed (`Forces`): the
  lines turn that of the block before into it, and it is what the block's
  benchmarks need. While they are printed, `PrintInv` claims the line `at[j]` of each
  benchmark printed (`PrintedText`), above which the last line for each key of its
  block says what it needs (`LastSays`), and that below the last line `G` is in force
  (`Shows`); these positions and configurations are no variables of the model, so the
  invariant says that they exist. The second parse of that text enumerates the same
  lines as `at` does, both in ascending order, so they are equal (`SameEnumeration`);
  each line reads as the benchmark printed on it (`PrintedReads`) and means its
  configuration (`MeantAgain`), which is where the exceptions are needed.
* `BenchTextProofs`: the lemmas both users of the format rest on. A sorted list has
  each member of its set once (`InOrderIs`, `ListedIs`); the fields of a line have the
  result that their columns give (`ResultsRead`, `ColumnsRead`); `pretty` rounds by at
  most half a percent (`PrettyIs`); a name, printed, reads as the name and the
  configuration it was printed from (`PrintedNameReads`), and so the fields
  (`PrintedFieldsRead`).
* `RunnerProofs`: `IInv` follows a status of zero from the child's exit to the parent's
  last line (`Trusted`), and in the child that what follows the GC check in a
  script runs only if it passed, and a call that waits for the collector stands at a
  collection: `TypeCorrect`, `ResultsOnlyFromRuns`. `Spoken` is about the output: a
  piece of a trace line goes on where the one before ended, unless a line of the
  program tore them apart (`Continued`), only the last line can be unfinished and is
  the one the collector is at (`Unfinished`), each cycle begins one line, in order
  (`Numbered`), and unless torn, the program's lines start where a line may (`Whole`).
  So a line of the output is either the program's or begins a cycle, whose metrics
  are then all found: `NothingLost`. What the parser takes for trace lines are,
  in order, lines of the collector (`CycleIs`), all of them if none was torn or cut
  (`CycleTraced`): `TraceTrue`. `ResultShape` says that the line of results is the
  program's name and pairs with the fields that the metrics give, or `time:` after a
  failure; `TrailerShape` that the line below is blank, or `time:` under an ended line of
  results; that a line of the first shape reads as one benchmark, and the other as
  none, is `ResultsParse`.

Assumptions that are more than types. Those that stand for arithmetic out of the
provers' reach, which have no definition of `^`: powers are positive and those of two
double (`IntBitsAssumption`) and monotonic (`PowersAssumption`, `HistPowersAssumption`), a tick times `XBase` does not
overflow before it passes the last bucket and lies at least a column further
(`TicksAssumption`, true with room to spare of 256 buckets up to a second in 70 columns;
a plot has at least four). All
nodes are reachable from node 0 (`ReachableAssumption`), which the code states and TLC
evaluates for the graphs of the run. The others describe the inputs:
`ClientAssumption` (finitely many shards and requests at once), `KeysAssumption` (the keys are
listed once each, gomaxprocs among them), `FilesAssumption` (files and
parsers are sequences, a configuration line has a key, as configRe demands, a
benchmark line a name, and keys and units are among those listed), `NameAssumption` (the
names given to NewBenchmark are names that Parse accepts, without a number at the
end, and no key is configured twice, as in all of progs),
`ScriptAssumption` (a script that checks its cycles makes its GCChecker before and
ends after, as in largebss.go).

Induction over data: the library's theorems take an operator as a parameter, which no
prover here can instantiate. `LatencyHistProofs` states them over a *set* of what is
true instead (`NumberInduction`, `SubsetInduction`), and proves with these what the
fold `Total` computes; `BenchTextProofs` gets the least counterexample from
`LeastNumber`, for `Results`, which reads a line from its end, and for names. Over lines
of text no induction is needed: the parser's invariant names the last line above by
`Max`. The provers have no definition of TLC's `@@` and `:>`, of `^`, and of the
filters and folds of sequences; the operators that these proofs go through use
`Over`, `Listed`, `InOrder`, `Pairs` and `Tens` instead.

Only model-checked: liveness (`StopReturns`, `AddReturns`, `BenchmarkEnds`,
`ClientFollows`, `PrintReturns`, `RunEnds`, `GenerateReturns`, and the progress part of
`ImplementsPhases` and `ImplementsDrain`), which is out of the prover's reach.
`TicksPlaced` and `PrettyEnds` are what two findings refute. The type invariants of
StackShrink, LatencyHist, BenchFormat, Runner and HeapGen declare their variables and no
run lists them; where the proofs need them they are lemmas or parts of the invariants
(`PrintTypes`, `ParseInv`).

## Not modelled

* `heapgen/nethttp.go` is one string constant, the text that `MakeAST` parses; it
  is 7705 of the 10530 lines of source, has no state and no control, and is the
  reason why only a small part of the lines is mapped. What go/parser does is external.
* `gcbench/flag.go` converts between numbers and text, without state.
* The flags, usage texts and MemStats printing of the programs, and the warnings about
  metrics out of range, which go to standard error; how many frames
  `WithStack` takes; `LatencyTracker`, whose state is local to one call.
* In the parser, the characters: `nextField` and the regular expression of a
  benchmark name are modelled by the tokens they give. A rune beyond the table of
  spaces (parse.go:120) is listed under the hazards without a property.
* In rpc.go, what comes before the client is started (listening, pipes: a failure
  ends the process at once), and the division of GOMAXPROCS between the processes.
* The shell scripts, and the work of programs that no other part observes.
