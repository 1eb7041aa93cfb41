----------------------------- MODULE BenchText -----------------------------
(***************************************************************************)
(* The text of a benchmark results file as bench/parse.go reads it and     *)
(* bench/print.go writes it.  A token is a pair: a number, in thousandths, *)
(* is <<"num", n>>, any other word <<w, 0>>.  Spaces, tabs and alignment   *)
(* only separate tokens and are left out.                                  *)
(*                                                                         *)
(* A name is the sequence of its pieces between dashes, the "Benchmark" in *)
(* front removed, then its parts between slashes.                          *)
(***************************************************************************)
EXTENDS Integers, SequencesExt, Ascending

CONSTANTS
    Keys,           \* configuration keys, in the order of sort.Strings
    Units           \* units of results, in the order of resultKeySorter

GOMAXPROCS == "gomaxprocs"

ASSUME KeysAssumption ==
    /\ Keys \in Seq(STRING) /\ GOMAXPROCS \in ToSet(Keys)
    /\ \A i, j \in DOMAIN Keys : Keys[i] = Keys[j] => i = j

Num(n) == <<"num", n>>
Word(w) == <<w, 0>>
None == Word("")

\* The map f put over g (TLC's @@, which the prover has no definition of).
Over(f, g) == [x \in DOMAIN f \cup DOMAIN g |-> IF x \in DOMAIN f THEN f[x] ELSE g[x]]

\* strconv.Atoi and strconv.ParseFloat accept ...
IsFloat(t) == t[1] = "num"
IsInt(t) == IsFloat(t) /\ t[2] % 1000 = 0

Blank == [kind |-> "blank", key |-> "", raw |-> None,
          name |-> <<>>, parts |-> <<>>, fields |-> <<>>]
ConfigLine(k, v) == [Blank EXCEPT !.kind = "config", !.key = k, !.raw = v]
BenchLine(name, parts, fields) ==
    [Blank EXCEPT !.kind = "bench", !.name = name, !.parts = parts, !.fields = fields]

\* A part k:v of a name, and one without a colon.
Part(k, v) == [key |-> k, raw |-> v]
Bare(v) == [key |-> "", raw |-> v]

-----------------------------------------------------------------------------
(* parseBenchmark *)

\* "Benchmark" alone, or followed by an upper-case letter.
IsName(line) ==
    \/ line.name = <<None>> /\ line.parts = <<>>
    \/ line.name[1] \notin {None, Word("x")}

\* BenchmarkX-N: the number is stripped, but only without parts.
ShortForm(line) ==
    line.parts = <<>> /\ Len(line.name) > 1 /\ IsInt(Last(line.name))

Name(line) == IF ShortForm(line) THEN Front(line.name) ELSE line.name

\* The configuration the line itself gives, and the default.
Own(line) ==
    LET at(k) == {i \in DOMAIN line.parts : line.parts[i].key = k}
    IN  IF ShortForm(line) THEN [k \in {GOMAXPROCS} |-> Last(line.name)]
        ELSE [k \in {p.key : p \in ToSet(line.parts)} \ {""} |-> line.parts[Max(at(k))].raw]

Default == [k \in {GOMAXPROCS} |-> Num(1000)]

(***************************************************************************)
(* The results in the fields after the iterations, or none: a value that   *)
(* is no number is skipped alone, a value without a unit or no field at    *)
(* all make the line invalid, and a repeated unit keeps the last value.    *)
(***************************************************************************)
Results(fields) ==
    LET Read[i \in 1..(Len(fields) + 2)] ==
          IF i > Len(fields) THEN {<<>>}
          ELSE IF ~IsFloat(fields[i]) THEN Read[i + 1]
          ELSE IF i = Len(fields) THEN {}
          ELSE {Over(r, [u \in {fields[i + 1]} |-> fields[i][2]]) : r \in Read[i + 2]}
    IN  IF fields = <<>> THEN {} ELSE Read[1]

\* Is it a benchmark, with an iteration count and results?
IsBenchmark(line) ==
    /\ line.kind = "bench" /\ IsName(line)
    /\ line.fields # <<>> /\ IsInt(Head(line.fields)) /\ Head(line.fields)[2] > 0
    /\ Results(Tail(line.fields)) # {}

-----------------------------------------------------------------------------
(* Fprint *)

\* The precisions at which the loop of pretty ends: val*10^prec >= 99.95.
Tens == <<1, 10, 100, 1000, 10000, 100000>>
Precisions(n) == {p \in 0..5 : n > 99949 \div Tens[p + 1]}

\* The number that pretty prints, in thousandths.
Pretty(n) ==
    LET p == Min(Precisions(n))
        unit == IF p >= 3 THEN 1 ELSE Tens[4 - p]
    IN  ((n + unit \div 2) \div unit) * unit

PrettyReturns(result) == \A u \in DOMAIN result : Precisions(result[u]) # {}

\* The name line of a benchmark; view gives each key's raw value and place.
PrintedLine(b, view) ==
    LET inName == {k \in DOMAIN view : ~view[k].inBlock}
        pairs == Listed(Keys, inName \ {GOMAXPROCS})
        parts == [i \in DOMAIN pairs |-> Part(pairs[i], view[pairs[i]].raw)]
        gmp == IF GOMAXPROCS \in inName THEN view[GOMAXPROCS].raw ELSE Num(1000)
        units == Listed(Units, DOMAIN b.result)
        columns == [i \in DOMAIN units |-> <<Num(Pretty(b.result[units[i]])), units[i]>>]
    IN  BenchLine(
            IF parts = <<>> /\ gmp # Num(1000) THEN Append(b.name, gmp) ELSE b.name,
            IF parts # <<>> /\ gmp # Num(1000)
              THEN Append(parts, Part(GOMAXPROCS, gmp)) ELSE parts,
            <<b.iterations>> \o Pairs(columns))

\* A benchmark without results ends in no newline: the next line continues it.
Glue(line, next) ==
    [line EXCEPT !.fields = @ \o (IF next.kind = "bench" THEN <<Word("Name")>> ELSE <<>>)
                              \o next.fields]
=============================================================================
