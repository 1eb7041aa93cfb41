--------------------------- MODULE MCBenchFormat ---------------------------
(* Small instances of BenchFormat for TLC: every file of up to Depth lines *)
(* from a small set of lines.                                              *)
EXTENDS BenchFormat

CONSTANT Depth

\* time.ParseDuration takes "1s", here the word, and a zero without unit.
MCKeys == <<"commit", GOMAXPROCS>>
MCUnits == <<Word("ns/op"), Word("B/op"), Num(2000)>>
MCValueParsers == <<
    {Num(n) : n \in {1000, 2000, 4000}},
    {Num(n) : n \in {1000, 1500, 2000, 4000}},
    {Word("1s")}>>

X == Word("X")
Nanos(n) == <<Num(1000), Num(n), Word("ns/op")>>

MCLines == {
    ConfigLine("commit", Num(1500)), ConfigLine("commit", Word("1s")),
    ConfigLine(GOMAXPROCS, Num(4000)), ConfigLine("commit", Num(2000)),
    Blank,
    BenchLine(<<X>>, <<>>, Nanos(12345)),
    BenchLine(<<None>>, <<>>, Nanos(99960) \o <<Num(700), Word("B/op")>>),
    BenchLine(<<X, Num(4000)>>, <<>>, Nanos(2000)),
    BenchLine(<<X, Num(1000)>>, <<>>, Nanos(2000)),
    BenchLine(<<X, Num(4000), Num(1000)>>, <<>>, Nanos(2000)),
    BenchLine(<<X, Word("a")>>, <<Part("commit", Num(2000)), Bare(Word("b"))>>, Nanos(2000)),
    BenchLine(<<X, Num(4000)>>, <<Part("commit", Word("1s")), Part("commit", Word("z")),
                Part(GOMAXPROCS, Num(2000))>>, Nanos(2000)),
    BenchLine(<<X, Num(4000)>>, <<Bare(Word("b"))>>, Nanos(2000)),
    BenchLine(<<X>>, <<Part(GOMAXPROCS, Word("z"))>>, Nanos(2000)),
    BenchLine(<<Word("x")>>, <<>>, Nanos(2000)),
    BenchLine(<<X>>, <<>>, <<Num(1000), Word("ns/op")>>),
    BenchLine(<<X>>, <<>>, <<Num(1000), Num(2000)>>),
    BenchLine(<<X>>, <<>>, <<Num(1500), Num(2000), Word("ns/op")>>),
    BenchLine(<<X>>, <<>>, <<Num(1000), Word("z"), Num(2000), Word("ns/op"),
                             Num(0), Word("B/op")>>)}

MCFiles == UNION {[1..n -> MCLines] : n \in 0..Depth}
=============================================================================
