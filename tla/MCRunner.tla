------------------------------ MODULE MCRunner ------------------------------
(* Small instances of Runner for TLC. *)
EXTENDS Runner

MCKeys == <<"active-gs", "ballast", "bss", "dirty-stack", GOMAXPROCS, "gs", "heap", "high",
            "idle-gs", "low", "obj-size", "reqs-per-sec", "retain", "stack-size">>

\* No result is printed by bench.Fprint here.
MCUnits == <<>>

\* A small heap that took no time to mark, two large ones.
MCSmall == [goal |-> 4, actual |-> 4, marked |-> 0, cpuMark |-> 0, clockMark |-> 0,
            assist |-> 0, background |-> 0, procs |-> 4, sweepTerm |-> 0, markTerm |-> 1]
MCLarge == [goal |-> 20, actual |-> 25, marked |-> 18, cpuMark |-> 4, clockMark |-> 2,
            assist |-> 1, background |-> 4, procs |-> 4, sweepTerm |-> 6, markTerm |-> 7]
MCUnder == [MCLarge EXCEPT !.actual = 15, !.sweepTerm = 1]

\* The usual case, and the others one at a time: settings already in the
\* environment, an older os/exec, one processor, formats of the trace.
MCUser == [godebug |-> FALSE, lastWins |-> TRUE, gcbench |-> "unset",
           cpus |-> 4, phases |-> 3, args |-> TRUE, maxGCs |-> 2]
MCUsers == {MCUser}
    \cup {[MCUser EXCEPT !.phases = p] : p \in {4, 5}}
    \cup {[MCUser EXCEPT !.cpus = 1], [MCUser EXCEPT !.args = FALSE],
          [MCUser EXCEPT !.gcbench = "other"]}
    \cup {[MCUser EXCEPT !.gcbench = "empty", !.lastWins = l] : l \in BOOLEAN}
    \cup {[MCUser EXCEPT !.godebug = TRUE, !.lastWins = l] : l \in BOOLEAN}

\* Programs of each shape: without and with a configuration, parsing its flags
\* late, calling runtime.GC in its loop, returning from benchMain.
MCRunning == ({SmallHeap, LargeBSS} \X MCUsers)
    \cup ({LargeHeapSTW} \X {MCUser, [MCUser EXCEPT !.phases = 5], [MCUser EXCEPT !.cpus = 1]})
    \cup {<<SmallHeap, [MCUser EXCEPT !.maxGCs = 3]>>}
    \cup ({LargeObject, RPCBench} \X {MCUser})

MCCycles == {MCSmall, MCLarge, MCUnder}
=============================================================================
