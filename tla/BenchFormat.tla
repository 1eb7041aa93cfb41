---------------------------- MODULE BenchFormat ----------------------------
(***************************************************************************)
(* bench/parse.go and bench/print.go: a file is parsed, its configuration  *)
(* values are converted (ParseValues), the benchmarks are printed, and     *)
(* what was printed is parsed again.                                       *)
(*                                                                         *)
(* Config objects live in heap and benchmarks refer to them, as the maps   *)
(* of the source hold pointers: benchmarks of the same block share the     *)
(* objects of its configuration lines.  A line makes at most one object    *)
(* that stays for a key, so the two name the object.                       *)
(***************************************************************************)
EXTENDS BenchText

CONSTANTS
    Files,          \* the files parsed, sequences of lines
    ValueParsers    \* for each parser in order, the raw values it accepts

BenchLineTypes(line) ==
    /\ line.name \in Seq(STRING \X Int) \ {<<>>}
    /\ line.parts \in Seq([key : ToSet(Keys) \cup {""}, raw : STRING \X Int])
    /\ line.fields \in Seq(STRING \X Int)
    /\ \A i \in 3..Len(line.fields) :
         IsFloat(line.fields[i - 1]) => line.fields[i] \in ToSet(Units)

\* Keys and Units list all that occur; names and fields are never empty.
ASSUME FilesAssumption ==
    /\ Len(ValueParsers) \in Nat /\ DOMAIN ValueParsers = 1..Len(ValueParsers)
    /\ Units \in Seq(STRING \X Int)
    /\ \A file \in Files :
         /\ Len(file) \in Nat /\ DOMAIN file = 1..Len(file)
         /\ \A n \in DOMAIN file :
              /\ file[n].kind = "config" => file[n].key \in ToSet(Keys) \ {""}
              /\ file[n].kind = "bench" => BenchLineTypes(file[n])

NoValue == <<0, None>>

VARIABLES
    text,           \* the lines of the file being parsed
    pc, round, li,  \* phase, 1 or 2 for the parse, lines read
    config,         \* Parse: the block configuration, key to object
    heap,           \* the Config objects, by the line and the key that made them
    bs, lines,      \* the benchmarks parsed; ghost: the line of each
    todo, key, vp,  \* ParseValues: keys left, the current one, parser to try
    lastConfig,     \* Fprint: the block configuration printed so far
    blocks, bi, k,  \* Fprint: blocks of benchmarks; blocks and benchmarks handled
    out, open,      \* what was printed; its last line has no newline yet
    first           \* the benchmarks of the first parse, as they were

parsing == <<text, round, li, config, bs, lines>>
values == <<todo, key, vp>>
printing == <<lastConfig, blocks, bi, k, out, open>>
vars == <<pc, parsing, heap, values, printing, first>>

Raw(o) == heap[o].raw
View(b) == [c \in DOMAIN b.config |->
              [raw |-> Raw(b.config[c]), inBlock |-> heap[b.config[c]].inBlock]]
Read(b) == [name |-> b.name, iterations |-> b.iterations,
            config |-> View(b), result |-> b.result]
AllRead == [j \in DOMAIN bs |-> Read(bs[j])]

TypeOK ==
    /\ pc \in {"parse", "failed", "values", "split", "print", "loops", "done"}
    /\ round \in {1, 2} /\ li \in 0..Len(text)
    /\ DOMAIN config \subseteq ToSet(Keys)
    /\ \A o \in DOMAIN heap : heap[o].inBlock \in BOOLEAN
    /\ \A c \in DOMAIN config : heap[config[c]].inBlock
    /\ Len(lines) = Len(bs)
    /\ \A j \in DOMAIN bs :
         /\ IsInt(bs[j].iterations) /\ bs[j].iterations[2] > 0
         /\ GOMAXPROCS \in DOMAIN bs[j].config
         /\ \A c \in DOMAIN bs[j].config : bs[j].config[c] \in DOMAIN heap
    /\ todo \subseteq ToSet(Keys) /\ key \in ToSet(Keys) \cup {""} /\ vp \in 1..(Len(ValueParsers) + 1)
    /\ \A j \in DOMAIN blocks : blocks[j].bs # <<>> /\ ToSet(blocks[j].bs) \subseteq DOMAIN bs
    /\ bi \in 0..Len(blocks) /\ k \in 0..Len(bs) /\ open \in BOOLEAN

Init ==
    /\ text \in Files
    /\ pc = "parse" /\ round = 1 /\ li = 0
    /\ config = <<>> /\ heap = <<>> /\ bs = <<>> /\ lines = <<>>
    /\ todo = {} /\ key = "" /\ vp = 1
    /\ lastConfig = <<>> /\ blocks = <<>> /\ bi = 0 /\ k = 0
    /\ out = <<>> /\ open = FALSE
    /\ first = <<>>

Object(raw, inBlock) == [raw |-> raw, inBlock |-> inBlock, value |-> NoValue]

-----------------------------------------------------------------------------
(* Parse. *)

Line == text[li + 1]

NextLine ==
    /\ pc = "parse" /\ li < Len(text)
    /\ li' = li + 1
    /\ UNCHANGED <<pc, text, round, values, printing, first>>

SkipLine ==
    /\ NextLine
    /\ Line.kind # "config" /\ ~IsBenchmark(Line)
    /\ UNCHANGED <<config, heap, bs, lines>>

\* Mutant of ConfigLineRead: an existing object is given the new value.
ConfigLineReused ==
    /\ NextLine
    /\ Line.kind = "config"
    /\ IF Line.key \in DOMAIN config
       THEN heap' = [heap EXCEPT ![config[Line.key]].raw = Line.raw] /\ UNCHANGED config
       ELSE /\ heap' = Over([o \in {<<li', Line.key>>} |-> Object(Line.raw, TRUE)], heap)
            /\ config' = Over([c \in {Line.key} |-> <<li', c>>], config)
    /\ UNCHANGED <<bs, lines>>

\* A configuration line makes a new object, even for a key it has seen.
ConfigLineRead ==
    /\ NextLine
    /\ Line.kind = "config"
    /\ heap' = Over([o \in {<<li', Line.key>>} |-> Object(Line.raw, TRUE)], heap)
    /\ config' = Over([c \in {Line.key} |-> <<li', c>>], config)
    /\ UNCHANGED <<bs, lines>>

\* Mutant of OwnConfig: the default is set before the block is looked at.
OwnConfigEager(own) == Over(own, Default)

\* What the line itself gives, and gomaxprocs if nobody does.
OwnConfig(own) ==
    IF GOMAXPROCS \in DOMAIN own \cup DOMAIN config THEN own ELSE Over(own, Default)

\* parseBenchmark: the block's objects are shared, the line's own are new.
BenchLineRead ==
    /\ NextLine
    /\ IsBenchmark(Line)
    /\ LET own == OwnConfig(Own(Line))
       IN  /\ heap' = Over([o \in {<<li', c>> : c \in DOMAIN own} |-> Object(own[o[2]], FALSE)],
                          heap)
           /\ bs' = Append(bs,
                [name |-> Name(Line),
                 iterations |-> Head(Line.fields),
                 config |-> Over([c \in DOMAIN own |-> <<li', c>>], config),
                 result |-> CHOOSE r \in Results(Tail(Line.fields)) : TRUE])
           /\ lines' = Append(lines, li')
    /\ UNCHANGED config

\* The reader fails, or a line is too long: Parse returns the error alone.
ReadFails ==
    /\ pc = "parse"
    /\ pc' = "failed"
    /\ bs' = <<>> /\ lines' = <<>>
    /\ UNCHANGED <<text, round, li, config, heap, values, printing, first>>

\* Parse returns; its caller goes on to convert the values.
Parsed ==
    /\ pc = "parse" /\ li = Len(text)
    /\ IF round = 1
       THEN /\ pc' = "values" /\ first' = AllRead
            /\ todo' = UNION {DOMAIN bs[j].config : j \in DOMAIN bs}
       ELSE pc' = "done" /\ UNCHANGED <<first, todo>>
    /\ UNCHANGED <<parsing, heap, key, vp, printing>>

Parse == SkipLine \/ ConfigLineRead \/ BenchLineRead \/ Parsed

-----------------------------------------------------------------------------
(* ParseValues. *)

Having(c) == {j \in DOMAIN bs : c \in DOMAIN bs[j].config}

\* The objects a key has.
Objects(c) == {bs[j].config[c] : j \in Having(c)}

\* Mutant of Cleared: the values of the parser before are left there.
Uncleared(objs) == [o \in objs |-> heap[o].value]

\* "Clear all values.  This way we can detect aliasing ..."
Cleared(objs) == [o \in objs |-> NoValue]

\* Parser p is tried on the objects of a key in the order of the benchmarks,
\* unless one has a value already, up to the first it does not take.
Converted(p, c) ==
    LET start == Cleared(Objects(c))
        Fails(j) == /\ start[bs[j].config[c]] = NoValue
                    /\ Raw(bs[j].config[c]) \notin ValueParsers[p]
        tried == {j \in Having(c) : \A i \in Having(c) : Fails(i) => j < i}
    IN  [good |-> \A j \in Having(c) : ~Fails(j),
         value |-> [o \in Objects(c) |->
                      IF start[o] = NoValue /\ (\E j \in tried : bs[j].config[c] = o)
                      THEN <<p, Raw(o)>> ELSE start[o]]]

SetValues(value) ==
    heap' = [o \in DOMAIN heap |->
               IF o \in DOMAIN value THEN [heap[o] EXCEPT !.value = value[o]] ELSE heap[o]]

\* The loop over the map of keys has no order.
NextKey(c) ==
    /\ pc = "values" /\ key = ""
    /\ todo' = todo \ {c} /\ key' = c /\ vp' = 1
    /\ UNCHANGED <<pc, parsing, heap, printing, first>>

\* One parser is tried on all values of the key.
TryParser ==
    /\ pc = "values" /\ key # "" /\ vp <= Len(ValueParsers)
    /\ LET s == Converted(vp, key) IN
         /\ SetValues(s.value)
         /\ IF s.good THEN key' = "" /\ UNCHANGED vp
                      ELSE vp' = vp + 1 /\ UNCHANGED key
    /\ UNCHANGED <<pc, parsing, todo, printing, first>>

\* "Fall back to strings."
FallBack ==
    /\ pc = "values" /\ key # "" /\ vp > Len(ValueParsers)
    /\ SetValues([o \in Objects(key) |-> <<vp, Raw(o)>>])
    /\ key' = ""
    /\ UNCHANGED <<pc, parsing, todo, vp, printing, first>>

ValuesParsed ==
    /\ pc = "values" /\ todo = {} /\ key = ""
    /\ pc' = "split"
    /\ UNCHANGED <<parsing, heap, values, printing, first>>

ParseValues == (\E c \in todo : NextKey(c)) \/ TryParser \/ FallBack \/ ValuesParsed

-----------------------------------------------------------------------------
(* Fprint. *)

\* Mutant of Changed: what a line gives itself is printed as a block's.
ChangedOwn(view) ==
    Listed(Keys, {c \in DOMAIN view : c \in DOMAIN lastConfig => lastConfig[c] # view[c].raw})

\* The keys of the block configuration that differ from what is in force.
Changed(view) ==
    Listed(Keys, {c \in DOMAIN view : /\ view[c].inBlock
                                      /\ c \in DOMAIN lastConfig => lastConfig[c] # view[c].raw})

\* "Split bs into configuration blocks."
Split ==
    /\ pc = "split" /\ k < Len(bs)
    /\ LET view == View(bs[k + 1])
           changed == Changed(view)
       IN  /\ lastConfig' = Over([c \in ToSet(changed) |-> view[c].raw], lastConfig)
           /\ IF blocks = <<>> \/ changed # <<>>
              THEN blocks' = Append(blocks,
                     [config |-> [n \in DOMAIN changed |->
                                    ConfigLine(changed[n], view[changed[n]].raw)],
                      bs |-> <<k + 1>>])
              ELSE blocks' = [blocks EXCEPT ![Len(blocks)].bs = Append(@, k + 1)]
    /\ k' = k + 1
    /\ UNCHANGED <<pc, parsing, heap, values, bi, out, open, first>>

Splitted ==
    /\ pc = "split" /\ k = Len(bs)
    /\ pc' = "print" /\ k' = 0
    /\ UNCHANGED <<parsing, heap, values, lastConfig, blocks, bi, out, open, first>>

Emit(new) ==
    out' = IF open /\ new # <<>>
           THEN Front(out) \o <<Glue(Last(out), Head(new))>> \o Tail(new)
           ELSE out \o new

\* A block's configuration, and the construction of its lines: pretty loops
\* for ever on a value that no power of ten makes large.
PrintHeader ==
    /\ pc = "print" /\ bi < Len(blocks)
    /\ k + 1 = Head(blocks[bi + 1].bs)
    /\ LET block == blocks[bi + 1] IN
         /\ Emit((IF bi > 0 THEN <<Blank>> ELSE <<>>) \o block.config
                   \o (IF block.config # <<>> THEN <<Blank>> ELSE <<>>))
         /\ pc' = IF \A j \in ToSet(block.bs) : PrettyReturns(bs[j].result)
                  THEN "print" ELSE "loops"
    /\ bi' = bi + 1
    /\ open' = FALSE
    /\ UNCHANGED <<parsing, heap, values, lastConfig, blocks, k, first>>

PrintBenchmark ==
    /\ pc = "print" /\ bi > 0
    /\ k + 1 \in ToSet(blocks[bi].bs)
    /\ Emit(<<PrintedLine(bs[k + 1], View(bs[k + 1]))>>)
    /\ open' = (bs[k + 1].result = <<>>)
    /\ k' = k + 1
    /\ UNCHANGED <<pc, parsing, heap, values, lastConfig, blocks, bi, first>>

\* A write fails: Fprint returns the error, the rest is not printed.
WriteFails ==
    /\ pc = "print" /\ k < Len(bs)
    /\ pc' = "failed"
    /\ UNCHANGED <<parsing, heap, values, printing, first>>

\* Fprint has returned: the file it wrote is parsed.
Printed ==
    /\ pc = "print" /\ k = Len(bs)
    /\ pc' = "parse" /\ round' = 2 /\ text' = out /\ li' = 0
    /\ config' = <<>> /\ heap' = <<>> /\ bs' = <<>> /\ lines' = <<>>
    /\ lastConfig' = <<>> /\ blocks' = <<>> /\ bi' = 0 /\ k' = 0
    /\ UNCHANGED <<values, out, open, first>>

Fprint == Split \/ Splitted \/ PrintHeader \/ PrintBenchmark \/ Printed

-----------------------------------------------------------------------------
Ended == pc \in {"failed", "loops", "done"} /\ UNCHANGED vars

Next == Parse \/ ReadFails \/ ParseValues \/ Fprint \/ WriteFails \/ Ended

Spec == Init /\ [][Next]_vars

-----------------------------------------------------------------------------
(***************************************************************************)
(* What Config promises (parse.go:32-37): each benchmark has its own pairs *)
(* and, for other keys, the value the file gives the key last above its    *)
(* line, marked as a block's.  Lines further down do not change it.  A     *)
(* gomaxprocs nobody wrote (parse.go:168-170) is not part of the promise,  *)
(* and parse_test.go:18-24 wants none: the property leaves it open.        *)
(***************************************************************************)
ConfigAbove(n) == {j \in 1..(n - 1) : text[j].kind = "config"}
LastAbove(n, c) == Max({j \in ConfigAbove(n) : text[j].key = c})

BlockAt(n) ==
    [c \in {text[j].key : j \in ConfigAbove(n)} |->
       [raw |-> text[LastAbove(n, c)].raw, inBlock |-> TRUE]]

OwnAt(n) == LET own == Own(text[n]) IN
    [c \in DOMAIN own |-> [raw |-> own[c], inBlock |-> FALSE]]

ConfigMeaning ==
    \A j \in DOMAIN bs :
        LET view == View(bs[j])
            written == Over(OwnAt(lines[j]), BlockAt(lines[j]))
        IN  /\ DOMAIN written \subseteq DOMAIN view
            /\ DOMAIN view \ DOMAIN written \subseteq {GOMAXPROCS}
            /\ \A c \in DOMAIN written : view[c] = written[c]

(***************************************************************************)
(* While a file is parsed no Config object handed to a benchmark changes,  *)
(* although benchmarks share them (parse.go:84, 141-144).                  *)
(***************************************************************************)
ParsedStays ==
    [][(pc = "parse" /\ pc' \in {"parse", "values"} /\ round' = round) =>
         /\ \A j \in DOMAIN bs : j \in DOMAIN bs' /\ bs'[j] = bs[j]
         /\ \A o \in DOMAIN heap : o \in DOMAIN heap' /\ heap'[o] = heap[o]]_vars

(***************************************************************************)
(* "If all of the raw values for a given configuration key can be parsed   *)
(* by one of the valueParsers, ParseValues sets the parsed values to the   *)
(* results of that ValueParser ... the earliest such parser" (parse.go:    *)
(* 222-226); otherwise all are strings.  In any order of the keys, and     *)
(* with objects shared between benchmarks.                                 *)
(***************************************************************************)
Chosen(c) ==
    LET good == {p \in DOMAIN ValueParsers : \A o \in Objects(c) : Raw(o) \in ValueParsers[p]}
    IN  IF good = {} THEN Len(ValueParsers) + 1 ELSE Min(good)

Uniform(c) == \A o \in Objects(c) : heap[o].value = <<Chosen(c), Raw(o)>>

ValuesUniform ==
    (pc \in {"split", "print", "loops"} /\ round = 1) => \A c \in ToSet(Keys) : Uniform(c)

(***************************************************************************)
(* What Fprint prints, Parse reads back: the same benchmarks in the same   *)
(* order with the same configuration, and results that differ by the       *)
(* rounding of pretty alone, at most half a percent.  There are four       *)
(* exceptions, each a gap of print.go: a benchmark without results (no     *)
(* newline, print.go:185), a name that ends in a number and is printed     *)
(* without gomaxprocs (print.go:104), a gomaxprocs of 1 in a line under a  *)
(* block that sets it (print.go:104), and a gomaxprocs that is no integer  *)
(* and printed in the short form, where it reads as part of the name       *)
(* (print.go:107).                                                         *)
(***************************************************************************)
InName(b, c) == c \in DOMAIN b.config /\ ~b.config[c].inBlock

\* Nothing but gomaxprocs is printed in the name.
NoParts(b) == \A c \in DOMAIN b.config \ {GOMAXPROCS} : ~InName(b, c)

LooksShort(b) ==
    /\ Len(b.name) > 1 /\ IsInt(Last(b.name)) /\ NoParts(b)
    /\ InName(b, GOMAXPROCS) => b.config[GOMAXPROCS].raw = Num(1000)

LooksNamed(b) ==
    NoParts(b) /\ InName(b, GOMAXPROCS) /\ ~IsInt(b.config[GOMAXPROCS].raw)

HidesBlock(j) ==
    /\ InName(first[j], GOMAXPROCS) /\ first[j].config[GOMAXPROCS].raw = Num(1000)
    /\ \E i \in 1..(j - 1) : first[i].config[GOMAXPROCS].inBlock

Printable ==
    \A j \in DOMAIN first :
        /\ first[j].result # <<>>
        /\ ~LooksShort(first[j]) /\ ~LooksNamed(first[j]) /\ ~HidesBlock(j)

Rounds(read, was) ==
    /\ DOMAIN read = DOMAIN was
    /\ \A u \in DOMAIN was : 200 * (read[u] - was[u]) \in -was[u]..was[u]

RoundTrip ==
    (pc = "done" /\ Printable) =>
        /\ DOMAIN bs = DOMAIN first
        /\ \A j \in DOMAIN bs :
             LET b == Read(bs[j]) IN
             /\ [b EXCEPT !.result = <<>>] = [first[j] EXCEPT !.result = <<>>]
             /\ Rounds(b.result, first[j].result)

\* "pretty returns x pretty-printed with at least three significant figures."
\* (print.go:230)
PrettyEnds == pc # "loops"
=============================================================================
