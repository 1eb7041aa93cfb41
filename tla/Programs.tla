------------------------------ MODULE Programs ------------------------------
(***************************************************************************)
(* The benchmark programs of gcbench/progs, as far as the runner sees      *)
(* them: the name and configuration they give NewBenchmark, and benchMain  *)
(* as a script.  The steps of a script:                                    *)
(*   "gc"      a call of runtime.GC, a forced cycle                        *)
(*   "flags"   flag.Parse                                                  *)
(*   "text"    a write of lines that are no metric                         *)
(*   "metric"  a call of ReportExtra, and "relay" the standard error of    *)
(*             the RPC client, with its metrics, in one write              *)
(*   "check"   GCChecker.NumGCAtLeast                                      *)
(*   "exit"    os.Exit(0), and "return" the end of benchMain               *)
(* Any other step only works and allocates.  A program whose main does not *)
(* parse the flags leaves that to its benchMain.                           *)
(***************************************************************************)
EXTENDS BenchText

\* heapgen.Measure: warm up, collect, generate, collect.
Measure == <<"generate", "gc", "gc", "generate", "gc", "gc">>

\* Measure, then Generate: the ballast of most programs.
Ballast == Measure \o <<"generate">>

Program(name, cfg, script) ==
    [name |-> <<Word(name)>>, cfg |-> cfg, script |-> script, parses |-> TRUE, stw |-> FALSE]

ActiveGs == Program("ActiveGs",
    <<Part("active-gs", Num(500000000)), Part("stack-size", Word("1kB"))>>,
    Ballast \o <<"spawn", "churn", "timer", "exit">>)

DirtyStack == Program("DirtyStack",
    <<Part("gs", Num(10000000)), Part("dirty-stack", Word("10kB"))>>,
    Ballast \o <<"spawn", "churn", "sleep", "exit">>)

IdleGs == Program("IdleGs",
    <<Part("idle-gs", Num(500000000))>>,
    <<"spawn", "churn", "timer", "exit">>)

\* NewGCChecker reads the number of cycles before the timer is set.
LargeBSS == [Program("LargeBSS",
    <<Part("bss", Word("100MB"))>>,
    <<"flags", "clear", "checker", "timer", "check", "exit">>) EXCEPT !.parses = FALSE]

LargeHeap == Program("LargeHeap",
    <<Part("retain", Word("1GB")), Part("heap", Word("AST"))>>,
    Measure \o <<"text", "generate", "timer", "metric", "exit">>)

\* With -stw the main loop calls runtime.GC until the timer fires.
LargeHeapSTW == [LargeHeap EXCEPT !.name = <<Word("LargeHeapSTW")>>, !.stw = TRUE]

LargeObject == Program("LargeObject",
    <<Part("obj-size", Word("32MB"))>>,
    <<"allocate", "ballast", "workers", "sleep", "text",
      "metric", "metric", "metric", "return">>)

RPCBench == Program("RPC",
    <<Part("reqs-per-sec", Num(8000000)), Part("ballast", Word("64MB"))>>,
    Ballast \o <<"serve", "client", "timer", "metric", "text", "text",
                 "join", "relay", "return">>)

SmallHeap == Program("SmallHeap", <<>>, <<"spawn", "timer", "exit">>)

StackShrinkBench == Program("StackShrink",
    <<Part("gs", Num(10000000)), Part("low", Word("0B")), Part("high", Word("10kB"))>>,
    <<"spawn", "grow", "timer", "exit">>)
=============================================================================
