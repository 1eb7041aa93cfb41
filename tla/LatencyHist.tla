---------------------------- MODULE LatencyHist ----------------------------
(***************************************************************************)
(* gcbench/lat.go: Fprint and FprintHist print a distribution while        *)
(* goroutines may still record into it: the RPC server and LargeObject     *)
(* print theirs without waiting (rpc.go:116, largeobject.go:80).           *)
(*                                                                         *)
(* Every load of a bucket is a step.  Column edges are exact fractions     *)
(* with the denominator D; only the last edge, which "numerical error can  *)
(* push just over width", may be off by one unit either way.  The glyphs   *)
(* of a bar are numbered from 0, the space.                                *)
(***************************************************************************)
EXTENDS LatencyBuckets, Functions

CONSTANTS
    Width, Height,  \* of the plot, in cells
    Fills,          \* number of glyphs a cell may be filled with
    XBase,          \* ratio of one X tick to the one before
    IntWidth,       \* bits of a time.Duration
    Fine,           \* units of a rounding error per width of a bucket
    Samples         \* bound on the samples recorded

ASSUME HistAssumption ==
    /\ {Width, Height, Fills, Fine} \subseteq Nat \ {0}
    /\ {XBase, IntWidth} \subseteq Nat \ {0, 1}
    /\ Samples \in Nat

\* Powers grow, as in LatencyBuckets, for the counts and the rows of a plot.
ASSUME HistPowersAssumption ==
    /\ \A x, y \in 1..Samples :
         x <= y => x^(Fills * (2 * Height - 1)) <= y^(Fills * (2 * Height - 1))
    /\ \A m \in 1..Samples, j, k \in 0..(2 * Fills * Height) : j <= k => m^j <= m^k

VARIABLES
    Buckets,        \* the distribution
    form,           \* the method called: "table" Fprint, "plot" FprintHist
    pc, i,          \* program counter, index of the loop over buckets
    minb, maxb,     \* what bounds returned
    count, right,   \* of the bucket being resampled, right in units of 1/D
    col, cols,      \* column being added to, the columns
    tick, marks,    \* next X tick, columns with a tick
    before, seen, drawn  \* ghosts: samples at the call, read so far, printed

input == <<form, before>>
range == <<minb, maxb>>
bucket == <<count, right, col>>
ticks == <<tick, marks>>
vars == <<Buckets, input, pc, i, range, bucket, cols, ticks, seen, drawn>>

Bs == 0..(NB - 1)
Columns == 0..(Width - 1)
Total(f) == FoldFunction(LAMBDA x, y : x + y, 0, f)

TypeOK ==
    /\ Buckets \in [Bs -> Nat]
    /\ form \in {"table", "plot"}
    /\ pc \in {"bounds", "table", "load", "spread", "ticks", "done", "panic"}
    /\ i \in 0..NB /\ minb \in -1..(NB - 1) /\ maxb \in 1..NB
    /\ count \in Nat /\ right \in Int /\ col \in Nat
    /\ cols \in [Columns -> Int]
    /\ tick \in Int /\ marks \subseteq Columns
    /\ {before, seen} \subseteq Nat /\ drawn \in Int

Init ==
    /\ Buckets \in [Bs -> 0..Samples] /\ Total(Buckets) <= Samples
    /\ form \in {"table", "plot"}
    /\ pc = "bounds" /\ i = 0 /\ minb = -1 /\ maxb = 1
    /\ count = 0 /\ right = 0 /\ col = 0
    /\ cols = [c \in Columns |-> 0]
    /\ tick = 0 /\ marks = {}
    /\ before = Total(Buckets) /\ seen = 0 /\ drawn = 0

\* A goroutine records a sample (the last step of Add).
Record(x) ==
    /\ Total(Buckets) < Samples
    /\ Buckets' = [Buckets EXCEPT ![x] = @ + 1]
    /\ UNCHANGED <<input, pc, i, range, bucket, cols, ticks, seen, drawn>>

Goes(from, to) == pc = from /\ pc' = to

-----------------------------------------------------------------------------
(* bounds. *)

Bound ==
    /\ i < NB /\ Goes("bounds", "bounds")
    /\ i' = i + 1
    /\ minb' = IF Buckets[i] > 0 /\ minb = -1 THEN i ELSE minb
    /\ maxb' = IF Buckets[i] > 0 THEN i + 1 ELSE maxb
    /\ UNCHANGED <<Buckets, input, bucket, cols, ticks, seen, drawn>>

\* Both methods print "no samples" and return when bounds found none.
Bounded ==
    /\ i = NB
    /\ Goes("bounds", IF minb = -1 THEN "done" ELSE IF form = "plot" THEN "load" ELSE "table")
    /\ i' = IF minb = -1 THEN 0 ELSE minb
    /\ UNCHANGED <<Buckets, input, range, bucket, cols, ticks, seen, drawn>>

\* Fprint: a row for each bucket in range.
Row ==
    /\ Goes("table", IF i + 1 < maxb THEN "table" ELSE "done")
    /\ i' = i + 1
    /\ seen' = seen + Buckets[i]
    /\ drawn' = drawn + Buckets[i]
    /\ UNCHANGED <<Buckets, input, range, bucket, cols, ticks>>

-----------------------------------------------------------------------------
(* FprintHist: resampling the buckets into columns. *)

D == (maxb - minb) * Fine
Left == (i - minb) * Width * Fine
Edge == Width * D

\* int(left), and the right edges bucket i may be given: only the last one
\* meets the edge of the plot.
LeftColumn == Left \div D
Rights == IF i + 1 < maxb THEN {Left + Width * Fine} ELSE {Edge - 1, Edge, Edge + 1}

\* Mutant of Clip: a right edge pushed over the width is left there.
NoClip(r) == r

Clip(r) == IF r > Edge THEN Edge ELSE r

\* The samples of bucket i that lie left of column edge x.
PartialCount(x) ==
    IF x * D < Left THEN 0
    ELSE IF x * D >= right THEN count
    ELSE (count * (x * D - Left)) \div (right - Left)

Read(r) ==
    /\ pc = "load" /\ i < maxb
    /\ count' = Buckets[i]
    /\ right' = Clip(r)
    /\ seen' = seen + Buckets[i]

\* The fast path: the bucket lies within a column.
LoadWithin(r) ==
    /\ Read(r)
    /\ Clip(r) \div D = LeftColumn
    /\ IF LeftColumn \in Columns
       THEN /\ cols' = [cols EXCEPT ![LeftColumn] = @ + Buckets[i]]
            /\ drawn' = drawn + Buckets[i]
            /\ i' = i + 1
            /\ UNCHANGED pc
       ELSE pc' = "panic" /\ UNCHANGED <<cols, drawn, i>>
    /\ UNCHANGED <<Buckets, input, range, col, ticks>>

LoadAcross(r) ==
    /\ Read(r)
    /\ Clip(r) \div D # LeftColumn
    /\ pc' = "spread"
    /\ col' = LeftColumn
    /\ UNCHANGED <<Buckets, input, i, range, cols, ticks, drawn>>

Load == \E r \in Rights : LoadWithin(r) \/ LoadAcross(r)

\* Mutant of Share: a column's share is computed by itself and rounded down.
ShareAlone(c) == count \div ((right - Left) \div D + 1)

\* "think of this as a line going from (left, 0) to (right, count)"
Share(c) == PartialCount(c + 1) - PartialCount(c)

Spread ==
    /\ pc = "spread"
    /\ IF col \in Columns
       THEN /\ cols' = [cols EXCEPT ![col] = @ + Share(col)]
            /\ drawn' = drawn + Share(col)
            /\ col' = col + 1
            /\ pc' = IF (col + 1) * D < right THEN "spread" ELSE "load"
            /\ i' = IF (col + 1) * D < right THEN i ELSE i + 1
       ELSE pc' = "panic" /\ UNCHANGED <<cols, drawn, col, i>>
    /\ UNCHANGED <<Buckets, input, range, count, right, ticks, seen>>

-----------------------------------------------------------------------------
(* The body of the plot. *)

MaxCount == CHOOSE m \in {cols[c] : c \in Columns} : \A c \in Columns : cols[c] <= m

(***************************************************************************)
(* int((frac - row) * len(fills)) cut off at the last glyph, where frac =  *)
(* (Height - 1/2) * log(count) / log(maxCount): it reaches k when frac is  *)
(* at least row + k / len(fills).  A maxCount of one makes frac NaN and    *)
(* its conversion to an int no positive number.                            *)
(***************************************************************************)
Filled(c, row) ==
    IF MaxCount = 1 THEN 0
    ELSE Cardinality({k \in 1..(Fills - 1) :
            cols[c]^(Fills * (2 * Height - 1)) >= MaxCount^(2 * (Fills * row + k))})

\* Mutant of Glyph: a bar of less than one glyph is not shown.
GlyphRaw(c, row) == IF cols[c] = 0 THEN 0 ELSE Filled(c, row)

\* The glyph of a cell, rows counted from the bottom.
Glyph(c, row) ==
    IF cols[c] = 0 THEN 0
    ELSE IF row = 0 /\ Filled(c, row) = 0 THEN 1
    ELSE Filled(c, row)

-----------------------------------------------------------------------------
(* The X ticks. *)

\* A bucket clipped at the last one, found without large powers.
BucketOf(t) == IF t >= LM THEN NB - 1 ELSE ToBucket(t)

Wrapped(t) == ((t + 2^(IntWidth - 1)) % 2^IntWidth) - 2^(IntWidth - 1)

\* The next tick does not overflow before it passes the last bucket, a factor
\* of XBase is at least a column however wide the range, and some power of XBase
\* is past the last bound (10, 1s, 256 buckets and 70 columns leave ample room).
ASSUME TicksAssumption ==
    /\ Width >= 4
    /\ LM * XBase <= 2^(IntWidth - 1) /\ 2^IntWidth = 2 * 2^(IntWidth - 1)
    /\ LM <= XBase^IntWidth
    /\ \A t \in 1..(LM - 1) :
         t * XBase < LM => (BucketOf(t * XBase) - BucketOf(t)) * Width >= NB - 1

\* The first power of XBase that is at least the lower bound of bucket minb;
\* the power of minus infinity is 0.
FirstTick ==
    LET mint == FromBucket(minb).lo
        Powers == {XBase^k : k \in 0..IntWidth}
    IN  IF mint = 0 THEN 0
        ELSE CHOOSE p \in Powers : p >= mint /\ \A s \in Powers : s >= mint => p <= s

\* int(float64(bucket-minb) / colWidth): truncated towards zero.
TickColumn(t) ==
    LET d == BucketOf(t) - minb IN
    IF d >= 0 THEN (d * Width) \div (maxb - minb) ELSE -((-d * Width) \div (maxb - minb))

\* len(label)/2: of "0s" and "1us", of "10us" and "100us".
HalfLabel(t) ==
    IF t = 0 \/ Cardinality({k \in 1..IntWidth : XBase^k <= t}) % 3 = 0 THEN 1 ELSE 2

\* The body is complete; the ticks follow.
StartTicks ==
    /\ i = maxb /\ Goes("load", "ticks")
    /\ tick' = FirstTick
    /\ UNCHANGED <<Buckets, input, i, range, bucket, cols, marks, seen, drawn>>

\* Mutant of Tick: the tick is not multiplied.
TickSame ==
    /\ TickColumn(tick) < Width /\ TickColumn(tick) >= HalfLabel(tick)
    /\ Goes("ticks", "ticks")
    /\ marks' = marks \cup {TickColumn(tick)}
    /\ UNCHANGED <<Buckets, input, i, range, bucket, cols, tick, seen, drawn>>

\* A tick and its label, centred on it, that fit.
Tick ==
    /\ TickColumn(tick) < Width /\ TickColumn(tick) >= HalfLabel(tick)
    /\ Goes("ticks", "ticks")
    /\ marks' = marks \cup {TickColumn(tick)}
    /\ tick' = Wrapped(tick * XBase)
    /\ UNCHANGED <<Buckets, input, i, range, bucket, cols, seen, drawn>>

\* The row or the label is indexed below zero.
TickPanics ==
    /\ TickColumn(tick) < Width /\ TickColumn(tick) < HalfLabel(tick)
    /\ Goes("ticks", "panic")
    /\ UNCHANGED <<Buckets, input, i, range, bucket, cols, ticks, seen, drawn>>

LastTick ==
    /\ TickColumn(tick) >= Width
    /\ Goes("ticks", "done")
    /\ UNCHANGED <<Buckets, input, i, range, bucket, cols, ticks, seen, drawn>>

-----------------------------------------------------------------------------
Printing == Bound \/ Bounded \/ Row \/ Load \/ Spread \/ StartTicks \/ Tick
            \/ TickPanics \/ LastTick

Ended == pc \in {"done", "panic"} /\ UNCHANGED vars

Next == Printing \/ (\E x \in Bs : Record(x)) \/ Ended

Spec == Init /\ [][Next]_vars

\* The printing goroutine is scheduled; those that record need not be.
FairSpec == Spec /\ WF_vars(Printing)

-----------------------------------------------------------------------------
(***************************************************************************)
(* Printing neither loses nor invents a sample (lat.go:72-94, 110-154):    *)
(* between two buckets the columns hold exactly the counts read so far,    *)
(* however the shares were rounded; in the end every sample recorded       *)
(* before the call is printed, although the range of buckets was found     *)
(* earlier, and none that was never recorded.                              *)
(***************************************************************************)
Conserved ==
    /\ pc \notin {"spread", "panic"} =>
         drawn = seen /\ (form = "plot" => drawn = Total(cols))
    /\ pc \in {"ticks", "done"} => before <= drawn /\ drawn <= Total(Buckets)

(***************************************************************************)
(* The bars show the columns (lat.go:142-180): a column with samples shows *)
(* something, one with more samples is nowhere lower, and no bar has a gap *)
(* below its top.                                                          *)
(***************************************************************************)
BarsFaithful ==
    (pc \in {"ticks", "done"} /\ form = "plot" /\ minb # -1) =>
        \A c \in Columns :
            /\ Glyph(c, 0) > 0 <=> cols[c] > 0
            /\ \A e \in Columns, row \in 0..(Height - 1) :
                 cols[c] <= cols[e] => Glyph(c, row) <= Glyph(e, row)
            /\ \A row \in 1..(Height - 1) :
                 Glyph(c, row) > 0 => Glyph(c, row - 1) = Fills - 1

(***************************************************************************)
(* A plot panics only among its ticks (lat.go:128-140, 191-209): never at  *)
(* a column of the resampling; and there only if the first tick lies below *)
(* the range, if its label has no room to the left, or if a sample in the  *)
(* last bucket keeps the loop going after it has placed a tick there,      *)
(* until the tick overflows.                                               *)
(***************************************************************************)
PanicsOnlyAtEdges ==
    pc = "panic" =>
        /\ i = maxb
        /\ \/ BucketOf(FirstTick) < minb
           \/ TickColumn(FirstTick) < HalfLabel(FirstTick)
           \/ maxb = NB /\ TickColumn(LM) \in marks

\* "Ticks and tick labels will be placed outside that box." (lat.go:101)
TicksPlaced == pc # "panic"

\* Printing ends: the ticks reach the last column, or overflow (lat.go:194-210).
PrintReturns == <>(pc \in {"done", "panic"})
=============================================================================
