------------------------- MODULE BenchFormatProofs -------------------------
(***************************************************************************)
(* Theorems about bench/parse.go, for any files, keys and value parsers:   *)
(* what a benchmark's configuration is, that objects once handed out stay, *)
(* which parser ParseValues settles on, and that what Fprint prints is     *)
(* read back.                                                              *)
(***************************************************************************)
EXTENDS BenchFormat, BenchTextProofs

\* A Config has its three fields.
IsObject(x) == x = [raw |-> x.raw, inBlock |-> x.inBlock, value |-> x.value]

LEMMA ObjectParts ==
    ASSUME NEW raw, NEW inBlock
    PROVE  /\ IsObject(Object(raw, inBlock))
           /\ Object(raw, inBlock).raw = raw /\ Object(raw, inBlock).inBlock = inBlock
BY DEF IsObject, Object

-----------------------------------------------------------------------------
(***************************************************************************)
(* The invariant of Parse.  The block configuration and the one each       *)
(* benchmark was given are known from the text above the line they were    *)
(* read at: every key has the object its last configuration line made, or  *)
(* the benchmark's line itself, and that object still says what it said.   *)
(***************************************************************************)
KeysAbove(n) == {text[j].key : j \in ConfigAbove(n)}

OwnFull(n) ==
    IF GOMAXPROCS \in DOMAIN Own(text[n]) \cup KeysAbove(n) THEN Own(text[n])
    ELSE Over(Own(text[n]), Default)

Says(o, raw, inBlock) ==
    o \in DOMAIN heap /\ heap[o].raw = raw /\ heap[o].inBlock = inBlock

BlockObject(n, c, o) ==
    o = <<LastAbove(n, c), c>> /\ Says(o, text[LastAbove(n, c)].raw, TRUE)

OwnObject(n, c, o) == o = <<n, c>> /\ Says(o, OwnFull(n)[c], FALSE)

HeapInv ==
    /\ li \in Nat
    /\ \A o \in DOMAIN heap : o[1] \in 1..li /\ IsObject(heap[o])

BlockInv ==
    /\ DOMAIN config = KeysAbove(li + 1)
    /\ \A c \in DOMAIN config : BlockObject(li + 1, c, config[c])

ReadInv(b, n) ==
    /\ n \in 1..li
    /\ DOMAIN b.config = DOMAIN OwnFull(n) \cup KeysAbove(n)
    /\ \A c \in DOMAIN b.config :
         IF c \in DOMAIN OwnFull(n) THEN OwnObject(n, c, b.config[c])
                                    ELSE BlockObject(n, c, b.config[c])

BsInv ==
    /\ IsSeq(bs) /\ IsSeq(lines) /\ Len(lines) = Len(bs)
    /\ \A j \in DOMAIN bs : ReadInv(bs[j], lines[j])

ParseInv == HeapInv /\ BlockInv /\ BsInv

\* Objects are made, but what there is keeps what it says.
HeapKeeps ==
    \A o \in DOMAIN heap : /\ o \in DOMAIN heap'
                           /\ heap'[o].raw = heap[o].raw
                           /\ heap'[o].inBlock = heap[o].inBlock

LEMMA SameText ==
    ASSUME text' = text, NEW n, NEW c
    PROVE  /\ ConfigAbove(n)' = ConfigAbove(n) /\ KeysAbove(n)' = KeysAbove(n)
           /\ LastAbove(n, c)' = LastAbove(n, c) /\ OwnFull(n)' = OwnFull(n)
           /\ OwnAt(n)' = OwnAt(n) /\ BlockAt(n)' = BlockAt(n)
BY DEF ConfigAbove, KeysAbove, LastAbove, OwnFull, OwnAt, BlockAt

LEMMA ObjectsKept ==
    ASSUME text' = text, HeapKeeps, NEW n, NEW c, NEW o
    PROVE  /\ BlockObject(n, c, o) => BlockObject(n, c, o)'
           /\ OwnObject(n, c, o) => OwnObject(n, c, o)'
<1>1. \A raw, inBlock : Says(o, raw, inBlock) => Says(o, raw, inBlock)'
    BY DEF Says, HeapKeeps
<1>2. /\ LastAbove(n, c)' = LastAbove(n, c) /\ OwnFull(n)' = OwnFull(n)
      /\ text[LastAbove(n, c)]' = text[LastAbove(n, c)]
    BY SameText
<1>3. BlockObject(n, c, o) => BlockObject(n, c, o)'
    BY <1>1, <1>2 DEF BlockObject
<1>4. OwnObject(n, c, o) => OwnObject(n, c, o)'
    BY <1>1, <1>2 DEF OwnObject
<1> QED
    BY <1>3, <1>4

LEMMA ReadKept ==
    ASSUME text' = text, HeapKeeps, li \in Nat, li' \in Nat, li' >= li,
           NEW b, NEW n, ReadInv(b, n)
    PROVE  ReadInv(b, n)'
<1>1. n \in 1..li'
    BY DEF ReadInv
<1>2. KeysAbove(n)' = KeysAbove(n) /\ OwnFull(n)' = OwnFull(n)
    BY SameText
<1>3. ASSUME NEW c \in DOMAIN b.config
      PROVE  IF c \in DOMAIN OwnFull(n) THEN OwnObject(n, c, b.config[c])'
                                        ELSE BlockObject(n, c, b.config[c])'
    BY <1>3, ObjectsKept DEF ReadInv
<1> QED
    BY <1>1, <1>2, <1>3 DEF ReadInv

-----------------------------------------------------------------------------
(* One line more. *)

LEMMA NextAbove ==
    ASSUME NEW n \in Nat \ {0}
    PROVE  ConfigAbove(n + 1) = IF text[n].kind = "config" THEN ConfigAbove(n) \cup {n}
                                                           ELSE ConfigAbove(n)
<1>1. 1..(n + 1 - 1) = (1..(n - 1)) \cup {n}
    OBVIOUS
<1> QED
    BY <1>1 DEF ConfigAbove

LEMMA OtherLine ==
    ASSUME NEW n \in Nat \ {0}, text[n].kind # "config"
    PROVE  /\ KeysAbove(n + 1) = KeysAbove(n)
           /\ \A c : LastAbove(n + 1, c) = LastAbove(n, c)
BY NextAbove DEF KeysAbove, LastAbove

\* The last of the lines of a key is the one just read.
LEMMA ConfigLineLast ==
    ASSUME NEW n \in Nat \ {0}, text[n].kind = "config"
    PROVE  /\ KeysAbove(n + 1) = KeysAbove(n) \cup {text[n].key}
           /\ LastAbove(n + 1, text[n].key) = n
           /\ \A c : c # text[n].key => LastAbove(n + 1, c) = LastAbove(n, c)
<1>1. ConfigAbove(n + 1) = ConfigAbove(n) \cup {n}
    BY NextAbove
<1>2. KeysAbove(n + 1) = KeysAbove(n) \cup {text[n].key}
    BY <1>1 DEF KeysAbove
<1>3. LastAbove(n + 1, text[n].key) = n
    <2> DEFINE S == {j \in ConfigAbove(n + 1) : text[j].key = text[n].key}
    <2>1. n \in S /\ \A j \in S : j \in Nat /\ n >= j
        BY <1>1 DEF ConfigAbove
    <2> HIDE DEF S
    <2>2. \A m : (m \in S /\ (\A j \in S : m >= j)) => m = n
        <3> SUFFICES ASSUME NEW m \in S, \A j \in S : m >= j PROVE m = n
            OBVIOUS
        <3>1. m \in Nat /\ n >= m /\ m >= n
            BY <2>1
        <3> QED
            BY <3>1
    <2>3. Max(S) = n
        BY <2>1, <2>2 DEF Max
    <2> QED
        BY <2>3 DEF LastAbove, S
<1>4. ASSUME NEW c, c # text[n].key
      PROVE  LastAbove(n + 1, c) = LastAbove(n, c)
    <2>1. {j \in ConfigAbove(n + 1) : text[j].key = c} = {j \in ConfigAbove(n) : text[j].key = c}
        BY <1>1, <1>4
    <2> QED
        BY <2>1 DEF LastAbove
<1> QED
    BY <1>2, <1>3, <1>4

\* No line is above the first.
LEMMA StartsAgain ==
    ASSUME li' = 0, config' = <<>>, heap' = <<>>, bs' = <<>>, lines' = <<>>
    PROVE  ParseInv'
<1>1. KeysAbove(1)' = {}
    <2>1. ConfigAbove(1)' = {}
        BY DEF ConfigAbove
    <2> QED
        BY <2>1 DEF KeysAbove
<1>2. DOMAIN <<>> = {}
    BY EmptyIsSeq
<1>3. HeapInv'
    BY <1>2 DEF HeapInv
<1>4. BlockInv'
    <2>1. KeysAbove(li + 1)' = {}
        BY <1>1 DEF KeysAbove, ConfigAbove
    <2> QED
        BY <1>2, <2>1 DEF BlockInv
<1>5. BsInv'
    BY <1>2, EmptyIsSeq DEF BsInv
<1> QED
    BY <1>3, <1>4, <1>5 DEF ParseInv

\* A step that reads nothing, and leaves what the objects say.
LEMMA NothingRead ==
    ASSUME ParseInv, UNCHANGED <<text, li, config>>,
           UNCHANGED <<bs, lines>> \/ (bs' = <<>> /\ lines' = <<>>),
           DOMAIN heap' = DOMAIN heap, HeapKeeps,
           \A o \in DOMAIN heap : IsObject(heap'[o])
    PROVE  ParseInv'
<1>1. HeapInv'
    BY DEF ParseInv, HeapInv, IsObject
<1>2. BlockInv'
    <2>1. KeysAbove(li + 1)' = KeysAbove(li + 1)
        BY DEF KeysAbove, ConfigAbove
    <2>2. ASSUME NEW c \in DOMAIN config
          PROVE  BlockObject(li + 1, c, config[c])'
        <3>1. PICK n, o : n = li + 1 /\ o = config[c]
            OBVIOUS
        <3>2. BlockObject(n, c, o)'
            BY <2>2, <3>1, ObjectsKept DEF ParseInv, BlockInv
        <3> QED
            BY <3>1, <3>2 DEF BlockObject, Says, LastAbove, ConfigAbove
    <2> QED
        BY <2>1, <2>2 DEF ParseInv, BlockInv
<1>3. BsInv'
    <2>1. CASE UNCHANGED <<bs, lines>>
        <3>1. ASSUME NEW j \in DOMAIN bs
              PROVE  ReadInv(bs[j], lines[j])'
            <4>1. PICK b, n : b = bs[j] /\ n = lines[j]
                OBVIOUS
            <4>2. ReadInv(b, n)'
                BY <3>1, <4>1, ReadKept DEF ParseInv, BsInv, HeapInv
            <4> QED
                BY <2>1, <4>1, <4>2
        <3> QED
            BY <2>1, <3>1 DEF ParseInv, BsInv
    <2>2. CASE bs' = <<>> /\ lines' = <<>>
        BY <2>2, EmptyIsSeq DEF BsInv
    <2> QED
        BY <2>1, <2>2
<1> QED
    BY <1>1, <1>2, <1>3 DEF ParseInv

-----------------------------------------------------------------------------
(* The lines. *)

\* Objects that a line makes are new, and leave the others alone.
LEMMA NewObjects ==
    ASSUME HeapInv, li' = li + 1, NEW new,
           \A o \in DOMAIN new : o[1] = li + 1 /\ IsObject(new[o]),
           heap' = Over(new, heap)
    PROVE  /\ HeapKeeps /\ HeapInv'
           /\ \A o \in DOMAIN heap : o \in DOMAIN heap' /\ heap'[o] = heap[o]
           /\ \A o \in DOMAIN new : o \in DOMAIN heap' /\ heap'[o] = new[o]
<1>1. li \in Nat /\ \A o \in DOMAIN heap : o[1] \in 1..li /\ IsObject(heap[o])
    BY DEF HeapInv
<1>2. \A o \in DOMAIN heap : o \notin DOMAIN new
    BY <1>1
<1>3. DOMAIN heap' = DOMAIN new \cup DOMAIN heap
    BY OverMap
<1>4. \A o \in DOMAIN new \cup DOMAIN heap :
        heap'[o] = IF o \in DOMAIN new THEN new[o] ELSE heap[o]
    BY DEF Over
<1>5. \A o \in DOMAIN heap : o \in DOMAIN heap' /\ heap'[o] = heap[o]
    BY <1>2, <1>3, <1>4
<1>6. \A o \in DOMAIN new : o \in DOMAIN heap' /\ heap'[o] = new[o]
    BY <1>3, <1>4
<1>7. HeapInv'
    <2>1. ASSUME NEW o \in DOMAIN heap'
          PROVE  o[1] \in 1..li' /\ IsObject(heap'[o])
        <3>1. CASE o \in DOMAIN new
            BY <1>1, <1>6, <3>1
        <3>2. CASE o \in DOMAIN heap
            BY <1>1, <1>5, <3>2
        <3> QED
            BY <1>3, <2>1, <3>1, <3>2
    <2>2. li' \in Nat
        BY <1>1
    <2> QED
        BY <2>1, <2>2 DEF HeapInv, IsObject
<1> QED
    BY <1>5, <1>6, <1>7 DEF HeapKeeps

\* A line that is no configuration line leaves the block as it is.
LEMMA BlockStays ==
    ASSUME ParseInv, li' = li + 1, text' = text, config' = config, HeapKeeps,
           text[li + 1].kind # "config"
    PROVE  BlockInv'
<1>1. li \in Nat
    BY DEF ParseInv, HeapInv
<1>2. PICK n : n = li + 1
    OBVIOUS
<1>3. KeysAbove(n + 1) = KeysAbove(n) /\ \A c : LastAbove(n + 1, c) = LastAbove(n, c)
    BY <1>1, <1>2, OtherLine
<1>4. KeysAbove(n + 1)' = KeysAbove(n)
    BY <1>3, SameText
<1>5. ASSUME NEW c \in DOMAIN config
      PROVE  BlockObject(n + 1, c, config[c])'
    <2>1. PICK o : o = config[c]
        OBVIOUS
    <2>2. BlockObject(n, c, o)
        BY <1>2, <1>5, <2>1 DEF ParseInv, BlockInv
    <2>3. BlockObject(n + 1, c, o)
        BY <1>3, <2>2 DEF BlockObject
    <2>4. BlockObject(n + 1, c, o)'
        BY <2>3, ObjectsKept
    <2> QED
        BY <2>1, <2>4
<1>6. li' + 1 = n + 1
    BY <1>2
<1> QED
    BY <1>2, <1>4, <1>5, <1>6
       DEF ParseInv, BlockInv, KeysAbove, ConfigAbove, BlockObject, LastAbove, Says

LEMMA SkipLineKeeps ==
    ASSUME ParseInv, SkipLine
    PROVE  ParseInv' /\ UNCHANGED <<heap, bs>>
<1>1. /\ li' = li + 1 /\ li \in Nat /\ text' = text
      /\ UNCHANGED <<config, heap, bs, lines>> /\ text[li + 1].kind # "config"
    BY DEF SkipLine, NextLine, Line, ParseInv, HeapInv
<1>2. HeapKeeps
    BY <1>1 DEF HeapKeeps
<1>3. HeapInv'
    <2>1. \A o \in DOMAIN heap : o[1] \in 1..li'
        BY <1>1 DEF ParseInv, HeapInv
    <2> QED
        BY <1>1, <2>1 DEF ParseInv, HeapInv, IsObject
<1>4. BlockInv'
    BY <1>1, <1>2, BlockStays
<1>5. BsInv'
    <2>1. ASSUME NEW j \in DOMAIN bs
          PROVE  ReadInv(bs[j], lines[j])'
        <3>1. PICK b, n : b = bs[j] /\ n = lines[j]
            OBVIOUS
        <3>2. ReadInv(b, n)'
            BY <1>1, <1>2, <2>1, <3>1, ReadKept DEF ParseInv, BsInv
        <3> QED
            BY <1>1, <3>1, <3>2
    <2> QED
        BY <1>1, <2>1 DEF ParseInv, BsInv
<1> QED
    BY <1>1, <1>3, <1>4, <1>5 DEF ParseInv

\* A configuration line makes its key's object the one in force.
LEMMA ConfigLineKeeps ==
    ASSUME ParseInv, ConfigLineRead
    PROVE  /\ ParseInv' /\ bs' = bs
           /\ \A o \in DOMAIN heap : o \in DOMAIN heap' /\ heap'[o] = heap[o]
<1>1. PICK n : n = li + 1
    OBVIOUS
<1>2. /\ li' = n /\ li \in Nat /\ n \in Nat \ {0} /\ text' = text
      /\ UNCHANGED <<bs, lines>> /\ text[n].kind = "config"
    BY <1>1 DEF ConfigLineRead, NextLine, Line, ParseInv, HeapInv
<1> DEFINE new == [o \in {<<n, text[n].key>>} |-> Object(text[n].raw, TRUE)]
           over == [c \in {text[n].key} |-> <<n, c>>]
<1>3. heap' = Over(new, heap) /\ config' = Over(over, config)
    BY <1>1, <1>2 DEF ConfigLineRead, Line
<1>4. ASSUME NEW o \in DOMAIN new
      PROVE  o[1] = li + 1 /\ IsObject(new[o])
    <2>1. o = <<n, text[n].key>> /\ new[o] = Object(text[n].raw, TRUE)
        BY <1>4
    <2> QED
        BY <1>1, <2>1, ObjectParts
<1>5. /\ <<n, text[n].key>> \in DOMAIN new
      /\ new[<<n, text[n].key>>].raw = text[n].raw
      /\ new[<<n, text[n].key>>].inBlock = TRUE
    BY ObjectParts
<1>6. DOMAIN over = {text[n].key} /\ over[text[n].key] = <<n, text[n].key>>
    OBVIOUS
<1> HIDE DEF new, over
<1>7. /\ HeapKeeps /\ HeapInv'
      /\ \A o \in DOMAIN heap : o \in DOMAIN heap' /\ heap'[o] = heap[o]
      /\ \A o \in DOMAIN new : o \in DOMAIN heap' /\ heap'[o] = new[o]
    BY <1>1, <1>2, <1>3, <1>4, NewObjects DEF ParseInv
<1>8. BlockInv'
    <2>1. DOMAIN config' = KeysAbove(n + 1)
        <3>1. DOMAIN config' = DOMAIN over \cup DOMAIN config
            BY <1>3, OverMap
        <3>2. DOMAIN config = KeysAbove(n)
            BY <1>1 DEF ParseInv, BlockInv
        <3> QED
            BY <1>2, <1>6, <3>1, <3>2, ConfigLineLast
    <2>2. KeysAbove(n + 1)' = KeysAbove(n + 1)
        BY <1>2, SameText
    <2>3. ASSUME NEW c \in DOMAIN config', NEW o, o = config'[c]
          PROVE  BlockObject(n + 1, c, o)'
        <3>1. c \in DOMAIN over \cup DOMAIN config
            BY <1>3, <2>3, OverMap
        <3>2. o = IF c \in DOMAIN over THEN over[c] ELSE config[c]
            BY <1>3, <2>3, <3>1 DEF Over
        <3>3. CASE c = text[n].key
            <4>1. o = <<n, c>> /\ o \in DOMAIN new
                BY <1>5, <1>6, <3>2, <3>3
            <4>2. Says(o, text[n].raw, TRUE)'
                BY <1>2, <1>5, <1>7, <3>3, <4>1 DEF Says
            <4>3. LastAbove(n + 1, c)' = n
                BY <1>2, <3>3, ConfigLineLast, SameText
            <4> QED
                BY <1>2, <4>1, <4>2, <4>3 DEF BlockObject
        <3>4. CASE c # text[n].key
            <4>1. c \in DOMAIN config /\ o = config[c]
                BY <1>6, <3>1, <3>2, <3>4
            <4>2. BlockObject(n, c, o)
                BY <1>1, <4>1 DEF ParseInv, BlockInv
            <4>3. BlockObject(n + 1, c, o)
                BY <1>2, <3>4, <4>2, ConfigLineLast DEF BlockObject
            <4> QED
                BY <1>2, <1>7, <4>3, ObjectsKept
        <3> QED
            BY <3>3, <3>4
    <2> QED
        BY <1>2, <2>1, <2>2, <2>3
           DEF BlockInv, KeysAbove, ConfigAbove, BlockObject, LastAbove, Says
<1>9. BsInv'
    <2>1. ASSUME NEW j \in DOMAIN bs
          PROVE  ReadInv(bs[j], lines[j])'
        <3>1. PICK b, m : b = bs[j] /\ m = lines[j]
            OBVIOUS
        <3>2. ReadInv(b, m)'
            BY <1>1, <1>2, <1>7, <2>1, <3>1, ReadKept DEF ParseInv, BsInv
        <3> QED
            BY <1>2, <3>1, <3>2
    <2> QED
        BY <1>2, <2>1 DEF ParseInv, BsInv
<1> QED
    BY <1>2, <1>7, <1>8, <1>9 DEF ParseInv

\* A benchmark is given the block's objects, under the new ones of its line.
LEMMA BenchLineKeeps ==
    ASSUME ParseInv, BenchLineRead
    PROVE  /\ ParseInv'
           /\ \A j \in DOMAIN bs : j \in DOMAIN bs' /\ bs'[j] = bs[j]
           /\ \A o \in DOMAIN heap : o \in DOMAIN heap' /\ heap'[o] = heap[o]
<1>1. PICK n : n = li + 1
    OBVIOUS
<1>2. /\ li' = n /\ li \in Nat /\ n \in Nat \ {0} /\ text' = text /\ config' = config
      /\ text[n].kind # "config" /\ IsSeq(bs) /\ IsSeq(lines) /\ Len(lines) = Len(bs)
    BY <1>1 DEF BenchLineRead, NextLine, Line, IsBenchmark, ParseInv, HeapInv, BsInv
<1> DEFINE own == OwnFull(n)
           new == [o \in {<<n, c>> : c \in DOMAIN own} |-> Object(own[o[2]], FALSE)]
           over == [c \in DOMAIN own |-> <<n, c>>]
<1>3. own = OwnConfig(Own(text[n]))
    BY <1>1 DEF OwnFull, OwnConfig, ParseInv, BlockInv
<1>4. PICK b : /\ b.config = Over(over, config) /\ bs' = Append(bs, b)
               /\ lines' = Append(lines, n) /\ heap' = Over(new, heap)
    BY <1>1, <1>2, <1>3, Zenon DEF BenchLineRead, Line
<1>5. ASSUME NEW o \in DOMAIN new
      PROVE  o[1] = li + 1 /\ IsObject(new[o])
    <2>1. PICK c \in DOMAIN own : o = <<n, c>>
        BY <1>5
    <2>2. new[o] = Object(own[o[2]], FALSE)
        BY <1>5
    <2> QED
        BY <1>1, <2>1, <2>2, ObjectParts
<1>6. ASSUME NEW c \in DOMAIN own
      PROVE  /\ <<n, c>> \in DOMAIN new
             /\ new[<<n, c>>].raw = own[c] /\ new[<<n, c>>].inBlock = FALSE
    BY <1>6, ObjectParts
<1>7. DOMAIN over = DOMAIN own /\ \A c \in DOMAIN own : over[c] = <<n, c>>
    OBVIOUS
<1> HIDE DEF new, over, own
<1>8. /\ HeapKeeps /\ HeapInv'
      /\ \A o \in DOMAIN heap : o \in DOMAIN heap' /\ heap'[o] = heap[o]
      /\ \A o \in DOMAIN new : o \in DOMAIN heap' /\ heap'[o] = new[o]
    BY <1>1, <1>2, <1>4, <1>5, NewObjects DEF ParseInv
<1>9. BlockInv'
    BY <1>1, <1>2, <1>8, BlockStays
<1>10. ReadInv(b, n)'
    <2>1. n \in 1..li'
        BY <1>2
    <2>2. KeysAbove(n)' = KeysAbove(n) /\ OwnFull(n)' = own
        BY <1>2, SameText DEF own
    <2>3. DOMAIN b.config = DOMAIN own \cup KeysAbove(n)
        <3>1. DOMAIN b.config = DOMAIN over \cup DOMAIN config
            BY <1>4, OverMap
        <3>2. DOMAIN config = KeysAbove(n)
            BY <1>1 DEF ParseInv, BlockInv
        <3> QED
            BY <1>7, <3>1, <3>2
    <2>4. ASSUME NEW c \in DOMAIN b.config, NEW o, o = b.config[c]
          PROVE  IF c \in DOMAIN own THEN OwnObject(n, c, o)' ELSE BlockObject(n, c, o)'
        <3>1. o = IF c \in DOMAIN over THEN over[c] ELSE config[c]
            <4>1. c \in DOMAIN Over(over, config) /\ o = Over(over, config)[c]
                BY <1>4, <2>4
            <4> QED
                BY <4>1 DEF Over
        <3>2. CASE c \in DOMAIN own
            <4>1. o = <<n, c>> /\ o \in DOMAIN new
                BY <1>6, <1>7, <3>1, <3>2
            <4>2. new[o].raw = own[c] /\ new[o].inBlock = FALSE
                BY <1>6, <3>2, <4>1
            <4>3. o \in DOMAIN heap' /\ heap'[o] = new[o]
                BY <1>8, <4>1
            <4>4. OwnFull(n)'[c] = own[c]
                BY <2>2
            <4> QED
                BY <3>2, <4>1, <4>2, <4>3, <4>4 DEF OwnObject, Says
        <3>3. CASE c \notin DOMAIN own
            <4>1. c \in DOMAIN config /\ o = config[c]
                BY <1>1, <1>7, <2>3, <2>4, <3>1, <3>3 DEF ParseInv, BlockInv
            <4>2. BlockObject(n, c, o)
                BY <1>1, <4>1 DEF ParseInv, BlockInv
            <4> QED
                BY <1>2, <1>8, <3>3, <4>2, ObjectsKept
        <3> QED
            BY <3>2, <3>3
    <2> QED
        BY <2>1, <2>2, <2>3, <2>4 DEF ReadInv
<1>11. BsInv'
    <2>1. /\ IsSeq(bs') /\ IsSeq(lines') /\ Len(lines') = Len(bs')
          /\ DOMAIN bs = 1..Len(bs) /\ Len(bs) \in Nat
          /\ DOMAIN bs' = 1..(Len(bs) + 1)
          /\ bs'[Len(bs) + 1] = b /\ lines'[Len(bs) + 1] = n
          /\ \A j \in DOMAIN bs : bs'[j] = bs[j] /\ lines'[j] = lines[j]
        BY <1>2, <1>4, AppendIsSeq
    <2>2. ASSUME NEW j \in DOMAIN bs'
          PROVE  ReadInv(bs[j], lines[j])'
        <3>1. CASE j = Len(bs) + 1
            BY <1>10, <2>1, <3>1 DEF ReadInv, OwnObject, BlockObject
        <3>2. CASE j # Len(bs) + 1
            <4>1. PICK x, m : x = bs[j] /\ m = lines[j]
                OBVIOUS
            <4>2. j \in DOMAIN bs
                BY <2>1, <2>2, <3>2
            <4>3. ReadInv(x, m)'
                BY <1>1, <1>2, <1>8, <4>1, <4>2, ReadKept DEF ParseInv, BsInv
            <4> QED
                BY <2>1, <4>1, <4>2, <4>3 DEF ReadInv, OwnObject, BlockObject
        <3> QED
            BY <3>1, <3>2
    <2> QED
        BY <2>1, <2>2 DEF BsInv
<1> QED
    <2>1. \A j \in DOMAIN bs : j \in DOMAIN bs' /\ bs'[j] = bs[j]
        BY <1>2, <1>4, AppendIsSeq
    <2> QED
        BY <1>8, <1>9, <1>11, <2>1 DEF ParseInv

-----------------------------------------------------------------------------
(* The other steps leave what the objects say. *)

\* ParseValues sets values only.
LEMMA SetValuesKeeps ==
    ASSUME ParseInv, UNCHANGED parsing, NEW value, SetValues(value)
    PROVE  ParseInv'
<1>1. /\ DOMAIN heap' = DOMAIN heap
      /\ \A o \in DOMAIN heap :
           heap'[o] = IF o \in DOMAIN value THEN [heap[o] EXCEPT !.value = value[o]] ELSE heap[o]
    BY DEF SetValues
<1>2. ASSUME NEW o \in DOMAIN heap
      PROVE  heap'[o].raw = heap[o].raw /\ heap'[o].inBlock = heap[o].inBlock /\ IsObject(heap'[o])
    <2>1. PICK x : x = heap[o]
        OBVIOUS
    <2>2. x = [raw |-> x.raw, inBlock |-> x.inBlock, value |-> x.value]
        BY <1>2, <2>1 DEF ParseInv, HeapInv, IsObject
    <2>3. CASE o \in DOMAIN value
        <3>1. heap'[o] = [raw |-> x.raw, inBlock |-> x.inBlock, value |-> value[o]]
            BY <1>1, <1>2, <2>1, <2>2, <2>3
        <3> QED
            BY <2>1, <3>1 DEF IsObject
    <2>4. CASE o \notin DOMAIN value
        BY <1>1, <1>2, <2>1, <2>2, <2>4 DEF IsObject
    <2> QED
        BY <2>3, <2>4
<1> QED
    BY <1>1, <1>2, NothingRead DEF HeapKeeps, parsing

LEMMA StutterKeeps ==
    ASSUME ParseInv, UNCHANGED <<text, li, config, heap>>,
           UNCHANGED <<bs, lines>> \/ (bs' = <<>> /\ lines' = <<>>)
    PROVE  ParseInv'
BY NothingRead DEF HeapKeeps, ParseInv, HeapInv

LEMMA ParseInvNext == ParseInv /\ [Next]_vars => ParseInv'
<1> SUFFICES ASSUME ParseInv, [Next]_vars PROVE ParseInv'
    OBVIOUS
<1>1. CASE SkipLine
    BY <1>1, SkipLineKeeps
<1>2. CASE ConfigLineRead
    BY <1>2, ConfigLineKeeps
<1>3. CASE BenchLineRead
    BY <1>3, BenchLineKeeps
<1>4. CASE Parsed
    BY <1>4, StutterKeeps DEF Parsed, parsing
<1>5. CASE ReadFails
    BY <1>5, StutterKeeps DEF ReadFails
<1>6. CASE \E c \in todo : NextKey(c)
    BY <1>6, StutterKeeps DEF NextKey, parsing
<1>7. CASE TryParser
    BY <1>7, SetValuesKeeps DEF TryParser
<1>8. CASE FallBack
    BY <1>8, SetValuesKeeps DEF FallBack
<1>9. CASE ValuesParsed
    BY <1>9, StutterKeeps DEF ValuesParsed, parsing
<1>10. CASE Split
    BY <1>10, StutterKeeps DEF Split, parsing
<1>11. CASE Splitted \/ PrintHeader \/ PrintBenchmark \/ WriteFails
    BY <1>11, StutterKeeps DEF Splitted, PrintHeader, PrintBenchmark, WriteFails, parsing
<1>12. CASE Printed
    BY <1>12, StartsAgain DEF Printed
<1>13. CASE Ended \/ UNCHANGED vars
    BY <1>13, StutterKeeps DEF Ended, vars, parsing
<1> QED
    BY <1>1, <1>2, <1>3, <1>4, <1>5, <1>6, <1>7, <1>8, <1>9, <1>10, <1>11, <1>12, <1>13
       DEF Next, Parse, ParseValues, Fprint

LEMMA ParseInvInit == Init => ParseInv
<1> SUFFICES ASSUME Init PROVE ParseInv
    OBVIOUS
<1>1. li = 0 /\ config = <<>> /\ heap = <<>> /\ bs = <<>> /\ lines = <<>>
    BY DEF Init
<1>2. ConfigAbove(1) = {} /\ KeysAbove(1) = {}
    BY DEF ConfigAbove, KeysAbove
<1>3. HeapInv /\ BlockInv
    BY <1>1, <1>2, EmptyIsSeq DEF HeapInv, BlockInv
<1>4. BsInv
    BY <1>1, EmptyIsSeq DEF BsInv
<1> QED
    BY <1>3, <1>4 DEF ParseInv

LEMMA ParseInvHolds == Spec => []ParseInv
<1> QED
    BY ParseInvInit, ParseInvNext, PTL DEF Spec

\* The configuration a benchmark was given is the one its line means.
ReadsAsMeant ==
    \A j \in DOMAIN bs :
        View(bs[j]) = Over(OwnAt(lines[j]),
                        Over(BlockAt(lines[j]),
                             [c \in {GOMAXPROCS} |-> [raw |-> Num(1000), inBlock |-> FALSE]]))

LEMMA MeaningFollows == ParseInv => ReadsAsMeant
<1> SUFFICES ASSUME ParseInv, NEW j \in DOMAIN bs
             PROVE  View(bs[j]) = Over(OwnAt(lines[j]),
                      Over(BlockAt(lines[j]),
                           [c \in {GOMAXPROCS} |-> [raw |-> Num(1000), inBlock |-> FALSE]]))
    BY DEF ReadsAsMeant
<1> DEFINE n == lines[j]
           b == bs[j]
           own == Own(text[n])
           default == [c \in {GOMAXPROCS} |-> [raw |-> Num(1000), inBlock |-> FALSE]]
           meant == Over(OwnAt(n), Over(BlockAt(n), default))
<1>1. ReadInv(b, n)
    BY DEF ParseInv, BsInv
<1>2. DOMAIN OwnAt(n) = DOMAIN own /\ DOMAIN BlockAt(n) = KeysAbove(n)
    BY DEF OwnAt, BlockAt, KeysAbove
<1>3. DOMAIN OwnFull(n) \cup KeysAbove(n) = DOMAIN own \cup KeysAbove(n) \cup {GOMAXPROCS}
    <2>1. DOMAIN Over(own, Default) = DOMAIN own \cup {GOMAXPROCS}
        BY DEF Over, Default
    <2> HIDE DEF own
    <2>2. CASE GOMAXPROCS \in DOMAIN own \cup KeysAbove(n)
        BY <2>2 DEF OwnFull, own
    <2>3. CASE GOMAXPROCS \notin DOMAIN own \cup KeysAbove(n)
        <3>1. OwnFull(n) = Over(own, Default)
            BY <2>3 DEF OwnFull, own
        <3> QED
            BY <2>1, <3>1
    <2> QED
        BY <2>2, <2>3
<1>4. DOMAIN meant = DOMAIN own \cup KeysAbove(n) \cup {GOMAXPROCS}
    <2>1. DOMAIN Over(BlockAt(n), default) = DOMAIN BlockAt(n) \cup {GOMAXPROCS}
        BY DEF Over
    <2>2. DOMAIN meant = DOMAIN OwnAt(n) \cup DOMAIN Over(BlockAt(n), default)
        BY OverMap, Zenon
    <2> QED
        BY <1>2, <2>1, <2>2
<1>5. DOMAIN View(b) = DOMAIN meant
    BY <1>1, <1>3, <1>4 DEF View, ReadInv
<1>6. ASSUME NEW c \in DOMAIN View(b)
      PROVE  View(b)[c] = meant[c]
    <2>1. /\ c \in DOMAIN b.config
          /\ View(b)[c] = [raw |-> heap[b.config[c]].raw, inBlock |-> heap[b.config[c]].inBlock]
        BY <1>6 DEF View, Raw
    <2>2. CASE c \in DOMAIN own
        <3>1. c \in DOMAIN OwnFull(n) /\ OwnFull(n)[c] = own[c]
            BY <2>2 DEF OwnFull, Over
        <3>2. View(b)[c] = [raw |-> own[c], inBlock |-> FALSE]
            BY <1>1, <2>1, <3>1 DEF ReadInv, OwnObject, Says
        <3>3. meant[c] = [raw |-> own[c], inBlock |-> FALSE]
            BY <1>2, <2>2 DEF Over, OwnAt
        <3> QED
            BY <3>2, <3>3
    <2>3. CASE c \notin DOMAIN own /\ c \in KeysAbove(n)
        <3>1. c \notin DOMAIN OwnFull(n)
            BY <2>3 DEF OwnFull, Over, Default
        <3>2. View(b)[c] = [raw |-> text[LastAbove(n, c)].raw, inBlock |-> TRUE]
            BY <1>1, <2>1, <3>1 DEF ReadInv, BlockObject, Says
        <3>3. meant[c] = [raw |-> text[LastAbove(n, c)].raw, inBlock |-> TRUE]
            BY <1>2, <2>3 DEF Over, BlockAt, KeysAbove
        <3> QED
            BY <3>2, <3>3
    <2>4. CASE c \notin DOMAIN own /\ c \notin KeysAbove(n)
        <3>1. c = GOMAXPROCS
            BY <1>4, <1>5, <1>6, <2>4
        <3>2. c \in DOMAIN OwnFull(n) /\ OwnFull(n)[c] = Num(1000)
            <4>1. OwnFull(n) = Over(own, Default)
                BY <2>4, <3>1 DEF OwnFull
            <4>2. DOMAIN Default = {GOMAXPROCS} /\ Default[c] = Num(1000)
                BY <3>1 DEF Default
            <4>3. Over(own, Default)[c] = Default[c] /\ c \in DOMAIN Over(own, Default)
                BY <2>4, <3>1, <4>2 DEF Over
            <4> QED
                BY <4>1, <4>2, <4>3
        <3>3. View(b)[c] = [raw |-> Num(1000), inBlock |-> FALSE]
            <4>1. OwnObject(n, c, b.config[c])
                BY <1>1, <2>1, <3>2 DEF ReadInv
            <4>2. /\ heap[b.config[c]].raw = OwnFull(n)[c]
                  /\ heap[b.config[c]].inBlock = FALSE
                BY <4>1 DEF OwnObject, Says
            <4>3. PICK v : v = Num(1000)
                OBVIOUS
            <4>4. heap[b.config[c]].raw = v
                BY <3>2, <4>2, <4>3
            <4>5. View(b)[c] = [raw |-> v, inBlock |-> FALSE]
                BY <2>1, <4>2, <4>4
            <4> QED
                BY <4>3, <4>5
        <3>4. meant[c] = [raw |-> Num(1000), inBlock |-> FALSE]
            BY <1>2, <2>4, <3>1 DEF Over
        <3> QED
            BY <3>3, <3>4
    <2> QED
        BY <2>2, <2>3, <2>4
<1>7. View(b) = [c \in DOMAIN View(b) |-> View(b)[c]]
    BY DEF View
<1>8. meant = [c \in DOMAIN meant |-> meant[c]]
    BY DEF Over
<1> HIDE DEF meant
<1>9. View(b) = meant
    BY <1>5, <1>6, <1>7, <1>8
<1> QED
    BY <1>9 DEF meant

\* What was written, over whatever default nobody else gives.
LEMMA WrittenOver ==
    ASSUME NEW own, NEW block, NEW default
    PROVE  LET written == Over(own, block)
               view == Over(own, Over(block, default))
           IN  /\ DOMAIN written \subseteq DOMAIN view
               /\ DOMAIN view \ DOMAIN written \subseteq DOMAIN default
               /\ \A c \in DOMAIN written : view[c] = written[c]
BY DEF Over

(***************************************************************************)
(* Each benchmark has its own pairs and, for other keys, the value the     *)
(* file gives them last above its line, and nothing else but a gomaxprocs, *)
(* in the printed file read back as well, whatever ParseValues does        *)
(* (parse.go:32-37, 69-101, 127-170).                                      *)
(***************************************************************************)
THEOREM ConfigIsAsWritten == Spec => []ConfigMeaning
<1>1. ReadsAsMeant => ConfigMeaning
    <2> DEFINE default == [c \in {GOMAXPROCS} |-> [raw |-> Num(1000), inBlock |-> FALSE]]
    <2> SUFFICES ASSUME ReadsAsMeant, NEW j \in DOMAIN bs
                 PROVE  LET view == View(bs[j])
                            written == Over(OwnAt(lines[j]), BlockAt(lines[j]))
                        IN  /\ DOMAIN written \subseteq DOMAIN view
                            /\ DOMAIN view \ DOMAIN written \subseteq {GOMAXPROCS}
                            /\ \A c \in DOMAIN written : view[c] = written[c]
        BY DEF ConfigMeaning
    <2>1. View(bs[j]) = Over(OwnAt(lines[j]), Over(BlockAt(lines[j]), default))
        BY DEF ReadsAsMeant
    <2>2. DOMAIN default = {GOMAXPROCS}
        OBVIOUS
    <2> HIDE DEF default
    <2> QED
        BY <2>1, <2>2, WrittenOver
<1> QED
    BY <1>1, MeaningFollows, ParseInvHolds, PTL

(***************************************************************************)
(* While a file is parsed no benchmark and no Config object handed to one  *)
(* changes, although later lines set the same keys (parse.go:84, 141-144). *)
(***************************************************************************)
THEOREM ParsedObjectsStay == Spec => ParsedStays
<1> DEFINE Stays == (pc = "parse" /\ pc' \in {"parse", "values"} /\ round' = round) =>
                      /\ \A j \in DOMAIN bs : j \in DOMAIN bs' /\ bs'[j] = bs[j]
                      /\ \A o \in DOMAIN heap : o \in DOMAIN heap' /\ heap'[o] = heap[o]
<1>1. ParseInv /\ [Next]_vars => [Stays]_vars
    <2> SUFFICES ASSUME ParseInv, Next, pc = "parse", pc' \in {"parse", "values"}
                 PROVE  /\ \A j \in DOMAIN bs : j \in DOMAIN bs' /\ bs'[j] = bs[j]
                        /\ \A o \in DOMAIN heap : o \in DOMAIN heap' /\ heap'[o] = heap[o]
        OBVIOUS
    <2>1. CASE SkipLine
        BY <2>1, SkipLineKeeps
    <2>2. CASE ConfigLineRead
        BY <2>2, ConfigLineKeeps
    <2>3. CASE BenchLineRead
        BY <2>3, BenchLineKeeps
    <2>4. CASE Parsed
        BY <2>4 DEF Parsed, parsing
    <2> QED
        BY <2>1, <2>2, <2>3, <2>4
           DEF Next, Parse, ReadFails, ParseValues, NextKey, TryParser, FallBack, ValuesParsed,
               Fprint, Split, Splitted, PrintHeader, PrintBenchmark, Printed, WriteFails, Ended
<1> HIDE DEF Stays
<1>2. Spec => [][Stays]_vars
    BY <1>1, ParseInvHolds, PTL DEF Spec
<1> QED
    BY <1>2 DEF ParsedStays, Stays

-----------------------------------------------------------------------------
(***************************************************************************)
(* ParseValues.  Every key is still to be looked at, or the current one,   *)
(* or settled; and every parser before the current one refused some value  *)
(* of the current key.  Objects of different keys are different, so the    *)
(* keys do not disturb each other.                                         *)
(***************************************************************************)
Refused(p, c) == \E o \in Objects(c) : Raw(o) \notin ValueParsers[p]

Settling ==
    /\ vp \in 1..(Len(ValueParsers) + 1)
    /\ key # "" => \A p \in 1..(vp - 1) : Refused(p, key)
    /\ \A c : c \in todo \/ c = key \/ Uniform(c)

ValuesInv ==
    /\ vp \in 1..(Len(ValueParsers) + 1)
    /\ round = 1 => text \in Files /\ li <= Len(text)
    /\ (pc = "parse" /\ round = 1) => key = ""
    /\ pc = "values" => round = 1 /\ Settling
    /\ (pc \in {"split", "print", "loops"} /\ round = 1) => \A c : Uniform(c)

\* Every object belongs to one key.
LEMMA ObjectsOfKey ==
    ASSUME ParseInv, NEW c, NEW o \in Objects(c)
    PROVE  o[2] = c /\ o \in DOMAIN heap /\ IsObject(heap[o])
<1>1. PICK j \in DOMAIN bs : c \in DOMAIN bs[j].config /\ o = bs[j].config[c]
    BY DEF Objects, Having
<1>2. OwnObject(lines[j], c, o) \/ BlockObject(lines[j], c, o)
    BY <1>1 DEF ParseInv, BsInv, ReadInv
<1>3. o \in DOMAIN heap
    BY <1>2 DEF OwnObject, BlockObject, Says
<1>4. o[2] = c
    <2>1. \E n : o = <<n, c>>
        BY <1>2, Zenon DEF OwnObject, BlockObject
    <2> QED
        BY <2>1
<1> QED
    BY <1>3, <1>4 DEF ParseInv, HeapInv

LEMMA LinesAbove ==
    ASSUME NEW l \in Nat, NEW len \in Nat, l <= len, NEW n \in 1..l, NEW i \in 1..(n - 1)
    PROVE  i \in 1..len
OBVIOUS

\* No configuration has an empty key.
LEMMA KeysHaveNames ==
    ASSUME ParseInv, text \in Files, li <= Len(text)
    PROVE  Objects("") = {}
<1> SUFFICES ASSUME NEW j \in DOMAIN bs, "" \in DOMAIN bs[j].config PROVE FALSE
    BY DEF Objects, Having
<1>1. PICK n : n = lines[j]
    OBVIOUS
<1>2. n \in 1..li /\ li \in Nat /\ DOMAIN bs[j].config = DOMAIN OwnFull(n) \cup KeysAbove(n)
    BY <1>1 DEF ParseInv, BsInv, ReadInv, HeapInv
<1>3. "" \notin KeysAbove(n)
    <2>1. Len(text) \in Nat /\ DOMAIN text = 1..Len(text)
          /\ \A i \in DOMAIN text : text[i].kind = "config" => text[i].key # ""
        BY FilesAssumption
    <2>2. \A i \in 1..(n - 1) : i \in DOMAIN text
        <3>1. PICK len \in Nat : len = Len(text) /\ DOMAIN text = 1..len
            BY <2>1
        <3> QED
            BY <1>2, <3>1, LinesAbove
    <2> QED
        BY <2>1, <2>2 DEF KeysAbove, ConfigAbove
<1>4. "" \notin DOMAIN Own(text[n])
    <2>1. PICK line : line = text[n]
        OBVIOUS
    <2>2. CASE ShortForm(line)
        BY <2>1, <2>2 DEF Own, GOMAXPROCS
    <2>3. CASE ~ShortForm(line)
        <3>1. DOMAIN Own(line) = {p.key : p \in ToSet(line.parts)} \ {""}
            BY <2>3 DEF Own
        <3> QED
            BY <2>1, <3>1
    <2> QED
        BY <2>2, <2>3
<1>5. "" \notin DOMAIN OwnFull(n)
    <2>1. "" \notin DOMAIN Default
        BY DEF Default, GOMAXPROCS
    <2>2. "" \notin DOMAIN Over(Own(text[n]), Default)
        BY <1>4, <2>1, OverMap
    <2> QED
        BY <1>4, <2>2 DEF OwnFull
<1> QED
    BY <1>2, <1>3, <1>5

\* The first parser that takes all values of a key is the chosen one.
LEMMA ChosenParser ==
    ASSUME NEW c, NEW q \in 1..(Len(ValueParsers) + 1),
           \A p \in 1..(q - 1) : Refused(p, c),
           q <= Len(ValueParsers) => ~Refused(q, c)
    PROVE  Chosen(c) = q
<1> DEFINE good == {p \in DOMAIN ValueParsers : \A o \in Objects(c) : Raw(o) \in ValueParsers[p]}
<1>1. Len(ValueParsers) \in Nat /\ DOMAIN ValueParsers = 1..Len(ValueParsers)
    BY FilesAssumption
<1>2. \A p \in good : p \in Nat /\ p <= Len(ValueParsers) /\ ~(p \in 1..(q - 1))
    BY <1>1 DEF Refused
<1>3. \A p \in good : p >= q
    BY <1>1, <1>2
<1>4. q <= Len(ValueParsers) => q \in good
    BY <1>1 DEF Refused
<1>5. Chosen(c) = IF good = {} THEN Len(ValueParsers) + 1 ELSE Min(good)
    BY DEF Chosen
<1> HIDE DEF good
<1>6. CASE q <= Len(ValueParsers)
    <2>1. \A m : (m \in good /\ (\A p \in good : m <= p)) => m = q
        <3> SUFFICES ASSUME NEW m \in good, \A p \in good : m <= p PROVE m = q
            OBVIOUS
        <3>1. m <= q /\ m >= q /\ m \in Nat
            BY <1>2, <1>3, <1>4, <1>6
        <3> QED
            BY <1>1, <3>1
    <2>2. q \in good /\ \A p \in good : q <= p
        BY <1>1, <1>2, <1>3, <1>4, <1>6
    <2>3. Min(good) = q
        BY <2>1, <2>2 DEF Min
    <2> QED
        BY <1>5, <2>2, <2>3
<1>7. CASE ~(q <= Len(ValueParsers))
    <2>1. q = Len(ValueParsers) + 1
        BY <1>1, <1>7
    <2>2. good = {}
        BY <1>1, <1>2, <1>3, <2>1
    <2> QED
        BY <1>5, <2>1, <2>2
<1> QED
    BY <1>6, <1>7

\* What trying a parser leaves: all values, or a refused one.
LEMMA ConvertedValues ==
    ASSUME NEW p \in Nat \ {0}, NEW c
    PROVE  /\ DOMAIN Converted(p, c).value = Objects(c)
           /\ Converted(p, c).good =>
                /\ ~Refused(p, c)
                /\ \A o \in Objects(c) : Converted(p, c).value[o] = <<p, Raw(o)>>
           /\ ~Converted(p, c).good => Refused(p, c)
<1> DEFINE start == Cleared(Objects(c))
           Fails(j) == /\ start[bs[j].config[c]] = NoValue
                       /\ Raw(bs[j].config[c]) \notin ValueParsers[p]
           tried == {j \in Having(c) : \A i \in Having(c) : Fails(i) => j < i}
           value == [o \in Objects(c) |->
                       IF start[o] = NoValue /\ (\E j \in tried : bs[j].config[c] = o)
                       THEN <<p, Raw(o)>> ELSE start[o]]
           good == \A j \in Having(c) : ~Fails(j)
<1>1. Converted(p, c).good = good /\ Converted(p, c).value = value
    BY DEF Converted
<1>2. \A o \in Objects(c) : start[o] = NoValue
    BY DEF Cleared
<1>3. \A j \in Having(c) : bs[j].config[c] \in Objects(c)
    BY DEF Objects
<1>4. \A o \in Objects(c) : \E j \in Having(c) : o = bs[j].config[c]
    BY DEF Objects
<1>5. ASSUME NEW j \in Having(c)
      PROVE  Fails(j) <=> Raw(bs[j].config[c]) \notin ValueParsers[p]
    BY <1>2, <1>3
<1> HIDE DEF start
<1>6. good <=> ~Refused(p, c)
    BY <1>3, <1>4, <1>5 DEF Refused
<1>7. ASSUME good, NEW o \in Objects(c)
      PROVE  value[o] = <<p, Raw(o)>>
    <2>1. PICK j \in Having(c) : o = bs[j].config[c]
        BY <1>4
    <2>2. j \in tried
        BY <1>7
    <2> QED
        BY <1>2, <2>1, <2>2
<1>8. DOMAIN value = Objects(c)
    OBVIOUS
<1> HIDE DEF value, good
<1> QED
    BY <1>1, <1>6, <1>7, <1>8

\* Nothing about a key changes while objects and benchmarks stay.
LEMMA SameObjects ==
    ASSUME UNCHANGED bs, DOMAIN heap' = DOMAIN heap, NEW c,
           \A o \in Objects(c) : heap'[o].raw = heap[o].raw
    PROVE  /\ Objects(c)' = Objects(c)
           /\ \A o \in Objects(c) : Raw(o)' = Raw(o)
           /\ \A p : Refused(p, c)' = Refused(p, c)
           /\ Chosen(c)' = Chosen(c)
<1>1. Objects(c)' = Objects(c)
    BY DEF Objects, Having
<1>2. \A o \in Objects(c) : Raw(o)' = Raw(o)
    BY DEF Raw
<1>3. \A p : Refused(p, c)' = Refused(p, c)
    BY <1>1, <1>2 DEF Refused
<1>4. Chosen(c)' = Chosen(c)
    <2>1. {p \in DOMAIN ValueParsers : \A o \in Objects(c) : Raw(o) \in ValueParsers[p]}'
            = {p \in DOMAIN ValueParsers : \A o \in Objects(c) : Raw(o) \in ValueParsers[p]}
        BY <1>1, <1>2
    <2> QED
        BY <2>1 DEF Chosen
<1> QED
    BY <1>1, <1>2, <1>3, <1>4

LEMMA SameUniform ==
    ASSUME UNCHANGED <<bs, heap>>, NEW c
    PROVE  /\ Uniform(c)' = Uniform(c)
           /\ \A p : Refused(p, c)' = Refused(p, c)
<1>1. /\ Objects(c)' = Objects(c) /\ \A o \in Objects(c) : Raw(o)' = Raw(o)
      /\ Chosen(c)' = Chosen(c) /\ \A p : Refused(p, c)' = Refused(p, c)
    BY SameObjects
<1> QED
    BY <1>1 DEF Uniform

\* Setting the values of one key leaves the others as they are.
LEMMA OneKeySet ==
    ASSUME ParseInv, UNCHANGED bs, NEW value, SetValues(value), NEW d, DOMAIN value = Objects(d)
    PROVE  /\ \A c, p : Refused(p, c)' = Refused(p, c)
           /\ \A c : c # d => (Uniform(c) => Uniform(c)')
           /\ \A q : (q = Chosen(d) /\ \A o \in Objects(d) : value[o] = <<q, Raw(o)>>)
                       => Uniform(d)'
<1>1. DOMAIN heap' = DOMAIN heap
    BY DEF SetValues
<1>2. \A o \in DOMAIN heap \ DOMAIN value : heap'[o] = heap[o]
    BY DEF SetValues
<1>3. ASSUME NEW o \in DOMAIN heap, o \in DOMAIN value
      PROVE  heap'[o].value = value[o] /\ heap'[o].raw = heap[o].raw
    <2>1. heap'[o] = [heap[o] EXCEPT !.value = value[o]]
        BY <1>3 DEF SetValues
    <2>2. PICK x : x = heap[o]
        OBVIOUS
    <2>3. x = [raw |-> x.raw, inBlock |-> x.inBlock, value |-> x.value]
        BY <2>2 DEF ParseInv, HeapInv, IsObject
    <2>4. heap'[o] = [raw |-> x.raw, inBlock |-> x.inBlock, value |-> value[o]]
        BY <2>1, <2>2, <2>3
    <2> QED
        BY <2>2, <2>4
<1>4. \A c : \A o \in Objects(c) : o \in DOMAIN heap /\ o[2] = c
    BY ObjectsOfKey
<1>5. \A c : \A o \in Objects(c) : heap'[o].raw = heap[o].raw
    BY <1>2, <1>3, <1>4
<1>6. ASSUME NEW c
      PROVE  /\ Objects(c)' = Objects(c) /\ Chosen(c)' = Chosen(c)
             /\ \A o \in Objects(c) : Raw(o)' = Raw(o)
             /\ \A p : Refused(p, c)' = Refused(p, c)
    BY <1>1, <1>5, SameObjects
<1>7. ASSUME NEW c, c # d, Uniform(c)
      PROVE  Uniform(c)'
    <2>1. \A o \in Objects(c) : heap'[o] = heap[o]
        BY <1>2, <1>4, <1>7
    <2> QED
        BY <1>6, <1>7, <2>1 DEF Uniform
<1>8. ASSUME NEW q, q = Chosen(d), \A o \in Objects(d) : value[o] = <<q, Raw(o)>>
      PROVE  Uniform(d)'
    <2>1. \A o \in Objects(d) : heap'[o].value = <<q, Raw(o)>>
        BY <1>3, <1>4, <1>8
    <2>2. Objects(d)' = Objects(d) /\ Chosen(d)' = Chosen(d)
          /\ \A o \in Objects(d) : Raw(o)' = Raw(o)
        BY <1>6
    <2> QED
        BY <1>8, <2>1, <2>2 DEF Uniform
<1> QED
    BY <1>6, <1>7, <1>8

LEMMA TryParserSettles ==
    ASSUME ParseInv, ValuesInv, TryParser
    PROVE  ValuesInv'
<1>1. /\ pc = "values" /\ key # "" /\ vp <= Len(ValueParsers) /\ round = 1
      /\ pc' = pc /\ round' = round /\ text' = text /\ li' = li /\ bs' = bs /\ todo' = todo
      /\ text \in Files /\ li <= Len(text) /\ Settling
    BY DEF TryParser, parsing, ValuesInv
<1>2. Len(ValueParsers) \in Nat /\ vp \in 1..(Len(ValueParsers) + 1)
    BY FilesAssumption DEF ValuesInv
<1>3. PICK d, q, s : d = key /\ q = vp /\ s = Converted(vp, key)
    OBVIOUS
<1>4. q \in Nat \ {0} /\ q \in 1..(Len(ValueParsers) + 1) /\ q <= Len(ValueParsers)
    <2>1. q = vp /\ vp <= Len(ValueParsers)
        BY <1>1, <1>3
    <2>2. PICK max \in Nat : max = Len(ValueParsers)
        BY <1>2
    <2>3. q \in 1..(max + 1) /\ q <= max
        BY <1>2, <2>1, <2>2
    <2> QED
        BY <2>2, <2>3
<1>5. /\ DOMAIN s.value = Objects(d)
      /\ s.good => ~Refused(q, d) /\ \A o \in Objects(d) : s.value[o] = <<q, Raw(o)>>
      /\ ~s.good => Refused(q, d)
    BY <1>3, <1>4, ConvertedValues
<1>6. /\ SetValues(s.value)
      /\ IF s.good THEN key' = "" /\ vp' = vp ELSE vp' = vp + 1 /\ key' = key
    BY <1>3 DEF TryParser
<1>7. /\ \A c, p : Refused(p, c)' = Refused(p, c)
      /\ \A c : c # d => (Uniform(c) => Uniform(c)')
      /\ (q = Chosen(d) /\ \A o \in Objects(d) : s.value[o] = <<q, Raw(o)>>) => Uniform(d)'
    BY <1>1, <1>5, <1>6, OneKeySet
<1>8. \A p \in 1..(q - 1) : Refused(p, d)
    BY <1>1, <1>3 DEF Settling
<1>9. \A c : c \in todo \/ c = d \/ Uniform(c)'
    BY <1>1, <1>3, <1>7 DEF Settling
<1>10. CASE s.good
    <2>1. Chosen(d) = q
        BY <1>4, <1>5, <1>8, <1>10, ChosenParser
    <2>2. Uniform(d)'
        BY <1>5, <1>7, <1>10, <2>1
    <2>3. \A c : c \in todo \/ Uniform(c)'
        BY <1>9, <2>2
    <2>4. Settling'
        BY <1>1, <1>2, <1>6, <1>10, <2>3 DEF Settling
    <2> QED
        BY <1>1, <1>2, <1>6, <1>10, <2>4 DEF ValuesInv
<1>11. CASE ~s.good
    <2>1. key' = d /\ vp' = q + 1
        BY <1>3, <1>6, <1>11
    <2>2. \A p \in 1..q : Refused(p, d)'
        <3>1. \A p \in 1..q : p \in 1..(q - 1) \/ p = q
            BY <1>4
        <3> QED
            BY <1>5, <1>7, <1>8, <1>11, <3>1
    <2>3. vp' \in 1..(Len(ValueParsers) + 1)
        BY <1>2, <1>4, <2>1
    <2>4. (vp - 1)' = q
        BY <1>4, <2>1
    <2>5. Settling'
        BY <1>1, <1>9, <2>1, <2>2, <2>3, <2>4 DEF Settling
    <2> QED
        BY <1>1, <2>3, <2>5 DEF ValuesInv
<1> QED
    BY <1>10, <1>11

LEMMA FallBackSettles ==
    ASSUME ParseInv, ValuesInv, FallBack
    PROVE  ValuesInv'
<1>1. /\ pc = "values" /\ key # "" /\ vp > Len(ValueParsers) /\ round = 1
      /\ pc' = pc /\ round' = round /\ text' = text /\ li' = li /\ bs' = bs /\ todo' = todo
      /\ text \in Files /\ li <= Len(text) /\ Settling /\ vp' = vp /\ key' = ""
    BY DEF FallBack, parsing, ValuesInv
<1>2. Len(ValueParsers) \in Nat /\ vp \in 1..(Len(ValueParsers) + 1)
    BY FilesAssumption DEF ValuesInv
<1>3. PICK d, q, v : d = key /\ q = vp /\ v = [o \in Objects(key) |-> <<vp, Raw(o)>>]
    OBVIOUS
<1>4. q \in 1..(Len(ValueParsers) + 1) /\ ~(q <= Len(ValueParsers))
    <2>1. q = vp /\ vp > Len(ValueParsers)
        BY <1>1, <1>3
    <2>2. PICK max \in Nat : max = Len(ValueParsers)
        BY <1>2
    <2>3. q \in 1..(max + 1) /\ q > max
        BY <1>2, <2>1, <2>2
    <2> QED
        BY <2>2, <2>3
<1>5. /\ SetValues(v) /\ DOMAIN v = Objects(d)
      /\ \A o \in Objects(d) : v[o] = <<q, Raw(o)>>
    BY <1>3 DEF FallBack
<1>6. \A p \in 1..(q - 1) : Refused(p, d)
    BY <1>1, <1>3 DEF Settling
<1>7. Chosen(d) = q
    BY <1>4, <1>6, ChosenParser
<1>8. /\ \A c : c # d => (Uniform(c) => Uniform(c)')
      /\ Uniform(d)'
    BY <1>1, <1>5, <1>7, OneKeySet
<1>9. \A c : c \in todo \/ Uniform(c)'
    BY <1>1, <1>3, <1>8 DEF Settling
<1>10. Settling'
    BY <1>1, <1>2, <1>9 DEF Settling
<1> QED
    BY <1>1, <1>2, <1>10 DEF ValuesInv

\* The lines read stay within the file, and no key is looked at meanwhile.
LEMMA ReadingSettles ==
    ASSUME ParseInv, ValuesInv, NextLine
    PROVE  ValuesInv'
<1>1. /\ pc = "parse" /\ pc' = pc /\ li' = li + 1 /\ li < Len(text) /\ text' = text
      /\ round' = round /\ key' = key /\ vp' = vp
    BY DEF NextLine, values
<1>2. round = 1 => li' <= Len(text)
    <2> SUFFICES ASSUME round = 1 PROVE li + 1 <= Len(text)
        BY <1>1
    <2>1. text \in Files
        BY DEF ValuesInv
    <2>2. PICK len \in Nat : len = Len(text)
        BY <2>1, FilesAssumption
    <2>3. li \in Nat /\ li < len
        BY <1>1, <2>2 DEF ParseInv, HeapInv
    <2>4. li + 1 <= len
        BY <2>3
    <2> QED
        BY <2>2, <2>4
<1> QED
    BY <1>1, <1>2 DEF ValuesInv

\* Every key with objects is looked at.
LEMMA ParsedSettles ==
    ASSUME ParseInv, ValuesInv, Parsed
    PROVE  ValuesInv'
<1>1. /\ pc = "parse" /\ text' = text /\ li' = li /\ round' = round /\ bs' = bs
      /\ heap' = heap /\ key' = key /\ vp' = vp
    BY DEF Parsed, parsing
<1>2. CASE round = 1
    <2>1. pc' = "values" /\ todo' = UNION {DOMAIN bs[j].config : j \in DOMAIN bs}
        BY <1>2 DEF Parsed
    <2>2. ASSUME NEW c, c \notin todo'
          PROVE  Uniform(c)'
        <3>1. Having(c) = {} /\ Objects(c) = {}
            BY <2>1, <2>2 DEF Having, Objects
        <3>2. Uniform(c)
            BY <3>1 DEF Uniform
        <3> QED
            BY <1>1, <3>2, SameUniform
    <2>3. key = "" /\ vp \in 1..(Len(ValueParsers) + 1)
        BY <1>1, <1>2 DEF ValuesInv
    <2>4. Settling'
        BY <1>1, <2>2, <2>3 DEF Settling
    <2> QED
        BY <1>1, <1>2, <2>1, <2>4 DEF ValuesInv
<1>3. CASE round # 1
    <2>1. pc' = "done"
        BY <1>3 DEF Parsed
    <2> QED
        BY <1>1, <1>3, <2>1 DEF ValuesInv
<1> QED
    BY <1>2, <1>3

LEMMA FirstParser == 1 \in 1..(Len(ValueParsers) + 1)
<1>1. PICK max \in Nat : max = Len(ValueParsers)
    BY FilesAssumption
<1>2. 1 \in 1..(max + 1)
    BY <1>1
<1> QED
    BY <1>1, <1>2

LEMMA NextKeySettles ==
    ASSUME ParseInv, ValuesInv, NEW d \in todo, NextKey(d)
    PROVE  ValuesInv'
<1>1. /\ pc = "values" /\ key = "" /\ todo' = todo \ {d} /\ key' = d /\ vp' = 1 /\ pc' = pc
      /\ text' = text /\ li' = li /\ round' = round /\ bs' = bs /\ heap' = heap
      /\ round = 1 /\ text \in Files /\ li <= Len(text) /\ Settling
    BY DEF NextKey, parsing, ValuesInv
<1>2. vp' \in 1..(Len(ValueParsers) + 1)
    BY <1>1, FirstParser
<1>3. Uniform("")
    BY <1>1, KeysHaveNames DEF Uniform
<1>4. ASSUME NEW c
      PROVE  c \in todo' \/ c = key' \/ Uniform(c)'
    BY <1>1, <1>3, SameUniform DEF Settling
<1>5. \A p : ~(p \in 1..(vp' - 1))
    <2>1. \A p : ~(p \in 1..(1 - 1))
        OBVIOUS
    <2> QED
        BY <1>1, <2>1
<1>6. Settling'
    BY <1>2, <1>4, <1>5 DEF Settling
<1> QED
    BY <1>1, <1>2, <1>6 DEF ValuesInv

\* All keys are settled, and the printer leaves them so.
LEMMA ValuesParsedSettles ==
    ASSUME ParseInv, ValuesInv, ValuesParsed
    PROVE  ValuesInv'
<1>1. /\ pc = "values" /\ key = "" /\ todo = {} /\ pc' = "split" /\ vp' = vp
      /\ text' = text /\ li' = li /\ round' = round /\ bs' = bs /\ heap' = heap
      /\ round = 1 /\ text \in Files /\ li <= Len(text) /\ Settling
    BY DEF ValuesParsed, parsing, values, ValuesInv
<1>2. Uniform("")
    BY <1>1, KeysHaveNames DEF Uniform
<1>3. \A c : Uniform(c)'
    BY <1>1, <1>2, SameUniform DEF Settling
<1> QED
    BY <1>1, <1>3 DEF ValuesInv

LEMMA PrintingSettles ==
    ASSUME ValuesInv, UNCHANGED <<text, li, round, bs, heap, vp, key>>,
           pc \in {"split", "print"}, pc' \in {"split", "print", "loops", "failed"}
    PROVE  ValuesInv'
<1>1. (round = 1) => \A c : Uniform(c)'
    BY SameUniform DEF ValuesInv
<1> QED
    BY <1>1 DEF ValuesInv

LEMMA ValuesInvNext == ParseInv /\ ValuesInv /\ [Next]_vars => ValuesInv'
<1> SUFFICES ASSUME ParseInv, ValuesInv, [Next]_vars PROVE ValuesInv'
    OBVIOUS
<1>1. CASE SkipLine \/ ConfigLineRead \/ BenchLineRead
    BY <1>1, ReadingSettles DEF SkipLine, ConfigLineRead, BenchLineRead
<1>2. CASE Parsed
    BY <1>2, ParsedSettles
<1>3. CASE ReadFails
    <2>1. pc' = "failed" /\ text' = text /\ li' = li /\ round' = round /\ vp' = vp
        BY <1>3 DEF ReadFails, values
    <2> QED
        BY <2>1 DEF ValuesInv
<1>4. CASE \E c \in todo : NextKey(c)
    BY <1>4, NextKeySettles
<1>5. CASE TryParser
    BY <1>5, TryParserSettles
<1>6. CASE FallBack
    BY <1>6, FallBackSettles
<1>7. CASE ValuesParsed
    BY <1>7, ValuesParsedSettles
<1>8. CASE Split \/ Splitted \/ PrintHeader \/ PrintBenchmark \/ WriteFails
    <2>1. /\ UNCHANGED <<text, li, round, bs, heap, vp, key>>
          /\ pc \in {"split", "print"} /\ pc' \in {"split", "print", "loops", "failed"}
        BY <1>8 DEF Split, Splitted, PrintHeader, PrintBenchmark, WriteFails, parsing, values
    <2> QED
        BY <2>1, PrintingSettles
<1>9. CASE Printed
    <2>1. pc' = "parse" /\ round' = 2 /\ vp' = vp
        BY <1>9 DEF Printed, values
    <2>2. round' # 1 /\ pc' # "values"
        BY <2>1
    <2>3. vp' \in 1..(Len(ValueParsers) + 1)
        BY <2>1 DEF ValuesInv
    <2> QED
        BY <2>2, <2>3 DEF ValuesInv
<1>10. CASE Ended \/ UNCHANGED vars
    <2>1. UNCHANGED <<pc, text, li, round, bs, heap, vp, key, todo>>
        BY <1>10 DEF Ended, vars, parsing, values
    <2>2. \A c : Uniform(c)' = Uniform(c) /\ \A p : Refused(p, c)' = Refused(p, c)
        BY <2>1, SameUniform
    <2>3. Settling => Settling'
        BY <2>1, <2>2 DEF Settling
    <2> QED
        BY <2>1, <2>2, <2>3 DEF ValuesInv
<1> QED
    BY <1>1, <1>2, <1>3, <1>4, <1>5, <1>6, <1>7, <1>8, <1>9, <1>10
       DEF Next, Parse, ParseValues, Fprint

\* It holds at the start.
LEMMA ValuesInvInit == Init => ValuesInv
<1> SUFFICES ASSUME Init PROVE ValuesInv
    OBVIOUS
<1>1. text \in Files /\ li = 0 /\ pc = "parse" /\ round = 1 /\ key = "" /\ vp = 1
    BY DEF Init
<1>2. vp \in 1..(Len(ValueParsers) + 1)
    BY <1>1, FirstParser
<1>3. PICK len \in Nat : len = Len(text)
    BY <1>1, FilesAssumption
<1>4. li <= Len(text)
    <2>1. 0 <= len
        BY <1>3
    <2> QED
        BY <1>1, <1>3, <2>1, Zenon
<1> QED
    BY <1>1, <1>2, <1>4 DEF ValuesInv

(***************************************************************************)
(* When ParseValues returns, the values of each key are all the results    *)
(* of the earliest parser that takes every one of them, or all strings     *)
(* (parse.go:222-297), in whatever order the keys were looked at.          *)
(***************************************************************************)
THEOREM ValuesAreUniform == Spec => []ValuesUniform
<1>1. Init => ValuesInv
    BY ValuesInvInit
<1>2. ValuesInv => ValuesUniform
    BY DEF ValuesInv, ValuesUniform
<1> QED
    BY <1>1, <1>2, ParseInvHolds, ValuesInvNext, PTL DEF Spec

-----------------------------------------------------------------------------
(***************************************************************************)
(* The round trip.  First what Parse reads: one benchmark of every line    *)
(* that is one, in order.                                                  *)
(***************************************************************************)
ReadAt(b, line) ==
    /\ IsBenchmark(line)
    /\ b.name = Name(line) /\ b.iterations = Head(line.fields)
    /\ b.result \in Results(Tail(line.fields))
    /\ b = [name |-> b.name, iterations |-> b.iterations, config |-> b.config, result |-> b.result]

LinesInv ==
    /\ \A j \in DOMAIN bs : ReadAt(bs[j], text[lines[j]])
    /\ \A i, j \in DOMAIN bs : i < j => lines[i] < lines[j]
    /\ pc # "failed" => \A n \in 1..li : IsBenchmark(text[n]) => \E j \in DOMAIN bs : lines[j] = n

\* Each benchmark has a line among those read.
LEMMA LineOfEach ==
    ASSUME ParseInv
    PROVE  \A j \in DOMAIN bs : lines[j] \in 1..li
BY DEF ParseInv, BsInv, ReadInv

\* A benchmark line is read into one more benchmark, the last.
LEMMA BenchLineReads ==
    ASSUME ParseInv, LinesInv, BenchLineRead
    PROVE  LinesInv'
<1>1. PICK n : n = li + 1
    OBVIOUS
<1>2. /\ li' = n /\ li \in Nat /\ n \in Nat \ {0} /\ text' = text /\ pc = "parse" /\ pc' = pc
      /\ IsSeq(bs) /\ IsSeq(lines) /\ Len(lines) = Len(bs)
    BY <1>1 DEF BenchLineRead, NextLine, ParseInv, HeapInv, BsInv
<1>3. PICK line : line = text[n]
    OBVIOUS
<1>4. IsBenchmark(line)
    BY <1>1, <1>3 DEF BenchLineRead, Line
<1>5. PICK r : r = CHOOSE x \in Results(Tail(line.fields)) : TRUE
    OBVIOUS
<1>6. r \in Results(Tail(line.fields))
    BY <1>4, <1>5 DEF IsBenchmark
<1>7. PICK cfg : bs' = Append(bs, [name |-> Name(line), iterations |-> Head(line.fields),
                                   config |-> cfg, result |-> r])
    BY <1>1, <1>3, <1>5, Zenon DEF BenchLineRead, Line
<1>8. lines' = Append(lines, n)
    BY <1>1, <1>2 DEF BenchLineRead
<1>9. PICK b : b = [name |-> Name(line), iterations |-> Head(line.fields), config |-> cfg, result |-> r]
    OBVIOUS
<1>10. ReadAt(b, line)
    BY <1>4, <1>6, <1>9 DEF ReadAt
<1>11. bs' = Append(bs, b)
    BY <1>7, <1>9
<1>12. PICK l \in Nat : l = Len(bs)
    BY <1>2, AppendIsSeq
<1>13. /\ DOMAIN bs = 1..l /\ DOMAIN bs' = 1..(l + 1)
       /\ bs'[l + 1] = b /\ lines'[l + 1] = n
       /\ \A j \in 1..l : bs'[j] = bs[j] /\ lines'[j] = lines[j]
    BY <1>2, <1>8, <1>11, <1>12, AppendIsSeq
<1>14. \A j \in 1..(l + 1) : j \in 1..l \/ j = l + 1
    OBVIOUS
<1>15. \A j \in 1..l : lines[j] \in 1..li
    BY <1>13, LineOfEach
<1>16. ASSUME NEW j \in DOMAIN bs'
       PROVE  ReadAt(bs'[j], text'[lines'[j]])
    <2>1. CASE j = l + 1
        BY <1>2, <1>3, <1>10, <1>13, <2>1
    <2>2. CASE j \in 1..l
        BY <1>2, <1>13, <2>2 DEF LinesInv
    <2> QED
        BY <1>13, <1>14, <1>16, <2>1, <2>2
<1>17. ASSUME NEW i \in DOMAIN bs', NEW j \in DOMAIN bs', i < j
       PROVE  lines'[i] < lines'[j]
    <2>1. i \in 1..l
        BY <1>13, <1>17
    <2>2. lines'[i] = lines[i] /\ lines[i] \in 1..li
        BY <1>13, <1>15, <2>1
    <2>3. CASE j = l + 1
        <3>1. lines'[j] = n
            BY <1>13, <2>3
        <3> QED
            BY <1>1, <1>2, <2>2, <3>1
    <2>4. CASE j \in 1..l
        BY <1>13, <1>17, <2>1, <2>4 DEF LinesInv
    <2> QED
        BY <1>13, <1>14, <2>3, <2>4
<1>18. ASSUME NEW m \in 1..li', IsBenchmark(text'[m])
       PROVE  \E j \in DOMAIN bs' : lines'[j] = m
    <2>1. CASE m = n
        <3>1. l + 1 \in DOMAIN bs' /\ lines'[l + 1] = m
            BY <1>13, <2>1
        <3> QED
            BY <3>1
    <2>2. CASE m # n
        <3>1. m \in 1..li
            BY <1>1, <1>2, <2>2
        <3>2. PICK j \in 1..l : lines[j] = m
            BY <1>2, <1>13, <1>18, <3>1 DEF LinesInv
        <3>3. j \in DOMAIN bs' /\ lines'[j] = m
            BY <1>13, <3>2
        <3> QED
            BY <3>3
    <2> QED
        BY <2>1, <2>2
<1> QED
    BY <1>16, <1>17, <1>18 DEF LinesInv

\* A line that is no benchmark.
LEMMA OtherLineReads ==
    ASSUME ParseInv, LinesInv, SkipLine \/ ConfigLineRead
    PROVE  LinesInv'
<1>1. PICK n : n = li + 1
    OBVIOUS
<1>2. /\ li' = n /\ li \in Nat /\ text' = text /\ pc = "parse" /\ bs' = bs /\ lines' = lines
    BY <1>1 DEF SkipLine, ConfigLineRead, NextLine, ParseInv, HeapInv
<1>3. ~IsBenchmark(text[n])
    BY <1>1 DEF SkipLine, ConfigLineRead, Line, IsBenchmark
<1>4. ASSUME NEW m \in 1..li', IsBenchmark(text[m])
      PROVE  \E j \in DOMAIN bs : lines[j] = m
    <2>1. m \in 1..li
        BY <1>1, <1>2, <1>3, <1>4
    <2> QED
        BY <1>2, <1>4, <2>1 DEF LinesInv
<1>5. \A j \in DOMAIN bs : ReadAt(bs[j], text[lines[j]])
    BY DEF LinesInv
<1>6. \A i, j \in DOMAIN bs : i < j => lines[i] < lines[j]
    BY DEF LinesInv
<1> QED
    BY <1>2, <1>4, <1>5, <1>6 DEF LinesInv

LEMMA NoLineReads ==
    ASSUME LinesInv, UNCHANGED <<text, li, bs, lines>>, pc = "failed" => pc' = "failed"
    PROVE  LinesInv'
BY DEF LinesInv

LEMMA NoBenchmarks ==
    ASSUME bs' = <<>>, pc' = "failed" \/ li' = 0
    PROVE  LinesInv'
<1>1. DOMAIN <<>> = {} /\ 1..0 = {}
    BY EmptyIsSeq
<1> QED
    BY <1>1 DEF LinesInv

\* Every step keeps it.
LEMMA LinesInvNext == ParseInv /\ LinesInv /\ [Next]_vars => LinesInv'
<1> SUFFICES ASSUME ParseInv, LinesInv, [Next]_vars PROVE LinesInv'
    OBVIOUS
<1>1. CASE SkipLine \/ ConfigLineRead
    BY <1>1, OtherLineReads
<1>2. CASE BenchLineRead
    BY <1>2, BenchLineReads
<1>3. CASE ReadFails
    BY <1>3, NoBenchmarks DEF ReadFails
<1>4. CASE Printed
    BY <1>4, NoBenchmarks DEF Printed
<1>5. CASE Parsed \/ (\E c \in todo : NextKey(c)) \/ TryParser \/ FallBack \/ ValuesParsed
    BY <1>5, NoLineReads DEF Parsed, NextKey, TryParser, FallBack, ValuesParsed, parsing
<1>6. CASE Split \/ Splitted \/ PrintHeader \/ PrintBenchmark \/ WriteFails
    BY <1>6, NoLineReads DEF Split, Splitted, PrintHeader, PrintBenchmark, WriteFails, parsing
<1>7. CASE Ended \/ UNCHANGED vars
    BY <1>7, NoLineReads DEF Ended, vars, parsing
<1> QED
    BY <1>1, <1>2, <1>3, <1>4, <1>5, <1>6, <1>7 DEF Next, Parse, ParseValues, Fprint

-----------------------------------------------------------------------------
(* What the first parse can have read. *)

\* Results are numbers by unit.
IsResult(r) ==
    /\ DOMAIN r \subseteq ToSet(Units) /\ \A u \in DOMAIN r : r[u] \in Int
    /\ DOMAIN r = {} => r = <<>>

\* No result yet, or one more unit: numbers by unit all the same.
LEMMA OneResult ==
    ASSUME NEW r, IsResult(r), NEW unit \in ToSet(Units), NEW n \in Int
    PROVE  IsResult(Over(r, [u \in {unit} |-> n]))
<1>1. PICK one : one = [u \in {unit} |-> n]
    OBVIOUS
<1>2. DOMAIN one = {unit} /\ one[unit] = n
    BY <1>1
<1>3. DOMAIN Over(r, one) = DOMAIN r \cup {unit}
    BY <1>2 DEF Over
<1>4. \A u \in DOMAIN r \cup {unit} : Over(r, one)[u] = IF u \in DOMAIN r THEN r[u] ELSE one[u]
    BY <1>2 DEF Over
<1>5. \A u \in DOMAIN r \cup {unit} : Over(r, one)[u] \in Int
    BY <1>2, <1>4 DEF IsResult
<1> QED
    BY <1>1, <1>3, <1>5 DEF IsResult

\* What the fields of a line can give are numbers by unit.
LEMMA ResultsAreNumbers ==
    ASSUME NEW fields, Len(fields) \in Nat, \A i \in 1..Len(fields) : fields[i][2] \in Int,
           \A i \in 2..Len(fields) : IsFloat(fields[i - 1]) => fields[i] \in ToSet(Units)
    PROVE  \A r \in Results(fields) : IsResult(r)
<1>1. PICK n \in Nat : n = Len(fields)
    OBVIOUS
<1>2. PICK R : /\ \A i \in 1..(Len(fields) + 2) : R[i] = ReadFrom(fields, R, i)
               /\ Results(fields) = IF fields = <<>> THEN {} ELSE R[1]
    BY ResultsRead
<1> DEFINE T == {d \in Nat : d <= n + 1 /\ \E r \in R[n + 2 - d] : ~IsResult(r)}
<1>3. T = {}
    <2> SUFFICES ASSUME T # {} PROVE FALSE
        OBVIOUS
    <2>1. PICK d \in T : \A y \in T : d <= y
        BY LeastNumber
    <2>2. d \in Nat /\ d <= n + 1 /\ \E r \in R[n + 2 - d] : ~IsResult(r)
        OBVIOUS
    <2>3. PICK i \in 1..(n + 2) : i = n + 2 - d
        BY <2>2
    <2>4. PICK r \in R[i] : ~IsResult(r)
        BY <2>2, <2>3
    <2>5. R[i] = ReadFrom(fields, R, i)
        BY <1>1, <1>2, <2>3
    <2>6. \A e \in Nat : e < d => \A x \in R[n + 2 - e] : IsResult(x)
        <3> SUFFICES ASSUME NEW e \in Nat, e < d, NEW x \in R[n + 2 - e], ~IsResult(x) PROVE FALSE
            OBVIOUS
        <3>1. e <= n + 1
            BY <2>2
        <3>2. e \in T
            BY <3>1
        <3>3. d <= e
            BY <2>1, <3>2, Zenon
        <3> QED
            BY <2>2, <3>3
    <2>7. CASE i > n
        <3>1. R[i] = {<<>>}
            BY <1>1, <2>5, <2>7, Zenon DEF ReadFrom
        <3>2. IsResult(<<>>)
            BY EmptyIsSeq DEF IsResult
        <3> QED
            BY <2>4, <3>1, <3>2
    <2>8. CASE ~(i > n) /\ ~IsFloat(fields[i])
        <3>1. R[i] = R[i + 1]
            BY <1>1, <2>5, <2>8, Zenon DEF ReadFrom
        <3>2. PICK e \in Nat : e = d - 1
            BY <2>2, <2>3, <2>8
        <3>3. e < d /\ n + 2 - e = i + 1
            BY <2>2, <2>3, <3>2
        <3> QED
            BY <2>4, <2>6, <3>1, <3>3
    <2>9. CASE i = n /\ IsFloat(fields[i])
        <3>1. R[i] = {}
            <4>1. ~(i > n)
                BY <2>9
            <4> QED
                BY <1>1, <2>5, <2>9, <4>1, Zenon DEF ReadFrom
        <3> QED
            BY <2>4, <3>1
    <2>10. CASE ~(i > n) /\ i # n /\ IsFloat(fields[i])
        <3>1. R[i] = {Over(x, [u \in {fields[i + 1]} |-> fields[i][2]]) : x \in R[i + 2]}
            BY <1>1, <2>5, <2>10, Zenon DEF ReadFrom
        <3>2. PICK e \in Nat : e = d - 2
            BY <2>2, <2>3, <2>10
        <3>3. e < d /\ n + 2 - e = i + 2
            BY <2>2, <2>3, <3>2
        <3>4. PICK x \in R[i + 2] : r = Over(x, [u \in {fields[i + 1]} |-> fields[i][2]])
            BY <2>4, <3>1
        <3>5. IsResult(x)
            BY <2>6, <3>3, <3>4
        <3>6. i + 1 \in 2..n /\ i \in 1..n /\ (i + 1) - 1 = i
            BY <2>3, <2>10
        <3>7. fields[i + 1] \in ToSet(Units) /\ fields[i][2] \in Int
            <4>1. PICK q \in 2..n : q = i + 1 /\ q - 1 = i
                BY <3>6
            <4>2. IsFloat(fields[q - 1]) => fields[q] \in ToSet(Units)
                BY <1>1, <4>1
            <4> QED
                BY <1>1, <2>10, <3>6, <4>1, <4>2
        <3> QED
            BY <2>4, <3>4, <3>5, <3>7, OneResult
    <2> QED
        BY <2>7, <2>8, <2>9, <2>10
<1>4. \A r \in R[1] : IsResult(r)
    <2>1. PICK d \in Nat : d = n + 1
        OBVIOUS
    <2>2. n + 2 - d = 1
        BY <2>1
    <2>3. d \notin T
        BY <1>3
    <2> QED
        BY <2>1, <2>2, <2>3
<1> QED
    BY <1>2, <1>4

\* A name that is read is not empty, and keeps its first piece.
LEMMA NameRead ==
    ASSUME NEW line, NEW K, line.name \in Seq(K), line.name # <<>>
    PROVE  /\ \E N : Name(line) \in Seq(N)
           /\ Name(line) # <<>> /\ Name(line)[1] = line.name[1]
<1>1. PICK name : name = line.name
    OBVIOUS
<1>2. PICK n \in Nat : n = Len(name) /\ n > 0
    <2>1. Len(name) \in Nat /\ Len(name) # 0
        BY <1>1
    <2> QED
        BY <2>1
<1>3. CASE ShortForm(line)
    <2>1. Name(line) = Front(name) /\ n > 1
        BY <1>1, <1>2, <1>3 DEF Name, ShortForm
    <2>2. PICK m \in Nat : m = n - 1 /\ m > 0
        BY <1>2, <2>1
    <2>3. Front(name) = [i \in 1..m |-> name[i]]
        <3>1. Front(name) = SubSeq(name, 1, m)
            BY <1>2, <2>2 DEF Front
        <3> QED
            BY <1>1, <1>2, <2>2, <3>1
    <2>4. \A i \in 1..m : name[i] \in K
        BY <1>1, <1>2, <2>2
    <2>5. Front(name) \in Seq(K) /\ Len(Front(name)) = m /\ Front(name)[1] = name[1]
        BY <2>2, <2>3, <2>4
    <2>6. Front(name) # <<>>
        BY <2>2, <2>5
    <2> QED
        BY <1>1, <2>1, <2>5, <2>6
<1>4. CASE ~ShortForm(line)
    <2>1. Name(line) = name
        BY <1>1, <1>4 DEF Name
    <2> QED
        BY <1>1, <2>1
<1> QED
    BY <1>3, <1>4

\* What Config promises at a line.
Meant(n) ==
    Over(OwnAt(n), Over(BlockAt(n), [c \in {GOMAXPROCS} |-> [raw |-> Num(1000), inBlock |-> FALSE]]))

\* What the line itself says, and what a configuration line above it says.
InLine(raw) == [raw |-> raw, inBlock |-> FALSE]
InAbove(raw) == [raw |-> raw, inBlock |-> TRUE]

\* The same, key by key.
IsMeant(view, n) ==
    /\ DOMAIN view = DOMAIN Own(text[n]) \cup KeysAbove(n) \cup {GOMAXPROCS}
    /\ \A c \in DOMAIN Own(text[n]) : view[c] = InLine(Own(text[n])[c])
    /\ \A c \in KeysAbove(n) \ DOMAIN Own(text[n]) :
         view[c] = InAbove(text[LastAbove(n, c)].raw)
    /\ GOMAXPROCS \notin DOMAIN Own(text[n]) \cup KeysAbove(n) =>
         view[GOMAXPROCS] = InLine(Num(1000))

\* A view is a function and nothing else.
IsMap(f) == f = [x \in DOMAIN f |-> f[x]]

\* Their fields.
LEMMA SaidParts ==
    ASSUME NEW raw
    PROVE  /\ InLine(raw).raw = raw /\ InLine(raw).inBlock = FALSE
           /\ InAbove(raw).raw = raw /\ InAbove(raw).inBlock = TRUE
BY DEF InLine, InAbove

\* Meant is what IsMeant says of it.
LEMMA MeantIs ==
    ASSUME NEW n
    PROVE  IsMeant(Meant(n), n) /\ IsMap(Meant(n))
<1>1. PICK own : own = OwnAt(n)
    OBVIOUS
<1>2. PICK block : block = BlockAt(n)
    OBVIOUS
<1>3. PICK default : default = [c \in {GOMAXPROCS} |-> [raw |-> Num(1000), inBlock |-> FALSE]]
    OBVIOUS
<1>4. PICK under : under = Over(block, default)
    OBVIOUS
<1>5. Meant(n) = Over(own, under)
    BY <1>1, <1>2, <1>3, <1>4 DEF Meant
<1>6. /\ DOMAIN own = DOMAIN Own(text[n])
      /\ \A c \in DOMAIN Own(text[n]) : own[c] = InLine(Own(text[n])[c])
    BY <1>1 DEF OwnAt, InLine, InAbove
<1>7. /\ DOMAIN block = KeysAbove(n)
      /\ \A c \in KeysAbove(n) : block[c] = InAbove(text[LastAbove(n, c)].raw)
    BY <1>2 DEF BlockAt, KeysAbove, InLine, InAbove
<1>8. DOMAIN default = {GOMAXPROCS} /\ default[GOMAXPROCS] = InLine(Num(1000))
    BY <1>3 DEF InLine, InAbove
<1>9. /\ DOMAIN under = KeysAbove(n) \cup {GOMAXPROCS}
      /\ \A c \in KeysAbove(n) : under[c] = block[c]
      /\ GOMAXPROCS \notin KeysAbove(n) => under[GOMAXPROCS] = default[GOMAXPROCS]
    <2>1. DOMAIN block = KeysAbove(n) /\ DOMAIN default = {GOMAXPROCS}
        BY <1>7, <1>8, Zenon
    <2> QED
        BY <1>4, <2>1 DEF Over
<1>10. /\ DOMAIN Meant(n) = DOMAIN own \cup DOMAIN under
       /\ \A c \in DOMAIN own : Meant(n)[c] = own[c]
       /\ \A c \in DOMAIN under \ DOMAIN own : Meant(n)[c] = under[c]
       /\ Meant(n) = [c \in DOMAIN Meant(n) |-> Meant(n)[c]]
    BY <1>5 DEF Over
<1>11. DOMAIN Meant(n) = DOMAIN Own(text[n]) \cup KeysAbove(n) \cup {GOMAXPROCS}
    BY <1>6, <1>9, <1>10
<1>12. \A c \in DOMAIN Own(text[n]) : Meant(n)[c] = InLine(Own(text[n])[c])
    BY <1>6, <1>10, Zenon
<1>13. ASSUME NEW c \in KeysAbove(n) \ DOMAIN Own(text[n])
       PROVE  Meant(n)[c] = InAbove(text[LastAbove(n, c)].raw)
    <2>1. Meant(n)[c] = under[c]
        BY <1>6, <1>9, <1>10
    <2>2. under[c] = block[c]
        BY <1>9
    <2> QED
        BY <1>7, <2>1, <2>2, Zenon
<1>14. ASSUME GOMAXPROCS \notin DOMAIN Own(text[n]) \cup KeysAbove(n)
       PROVE  Meant(n)[GOMAXPROCS] = InLine(Num(1000))
    <2>1. Meant(n)[GOMAXPROCS] = under[GOMAXPROCS]
        BY <1>6, <1>9, <1>10, <1>14
    <2>2. under[GOMAXPROCS] = default[GOMAXPROCS]
        BY <1>9, <1>14
    <2> QED
        BY <1>8, <2>1, <2>2, Zenon
<1> QED
    BY <1>10, <1>11, <1>12, <1>13, <1>14, Zenon DEF IsMeant, IsMap

\* Its cases.
LEMMA MeantCases ==
    ASSUME NEW view, NEW n, IsMeant(view, n), NEW c
    PROVE  /\ (c \in DOMAIN view <=> (c \in DOMAIN Own(text[n]) \/ c \in KeysAbove(n) \/ c = GOMAXPROCS))
           /\ c \in DOMAIN Own(text[n]) => view[c] = InLine(Own(text[n])[c])
           /\ c \notin DOMAIN Own(text[n]) /\ c \in KeysAbove(n) =>
                view[c] = InAbove(text[LastAbove(n, c)].raw)
           /\ c \notin DOMAIN Own(text[n]) /\ c \notin KeysAbove(n) /\ c = GOMAXPROCS =>
                view[c] = InLine(Num(1000))
<1>1. PICK own : own = DOMAIN Own(text[n])
    OBVIOUS
<1>2. DOMAIN view = own \cup KeysAbove(n) \cup {GOMAXPROCS}
    BY <1>1 DEF IsMeant
<1>3. \A d \in own : view[d] = InLine(Own(text[n])[d])
    BY <1>1 DEF IsMeant
<1>4. \A d \in KeysAbove(n) \ own : view[d] = InAbove(text[LastAbove(n, d)].raw)
    BY <1>1 DEF IsMeant
<1>5. GOMAXPROCS \notin own \cup KeysAbove(n) => view[GOMAXPROCS] = InLine(Num(1000))
    BY <1>1 DEF IsMeant
<1>6. (c \in DOMAIN view <=> (c \in own \/ c \in KeysAbove(n) \/ c = GOMAXPROCS))
    BY <1>2
<1>7. ASSUME c \in own
      PROVE  view[c] = InLine(Own(text[n])[c])
    BY <1>3, <1>7
<1>8. ASSUME c \notin own, c \in KeysAbove(n)
      PROVE  view[c] = InAbove(text[LastAbove(n, c)].raw)
    <2>1. c \in KeysAbove(n) \ own
        BY <1>8
    <2> QED
        BY <1>4, <2>1
<1>9. ASSUME c \notin own, c \notin KeysAbove(n), c = GOMAXPROCS
      PROVE  view[c] = InLine(Num(1000))
    <2>1. GOMAXPROCS \notin own \cup KeysAbove(n)
        BY <1>9
    <2> QED
        BY <1>5, <1>9, <2>1
<1> QED
    BY <1>1, <1>6, <1>7, <1>8, <1>9

\* What a benchmark read shows is what its line means.
LEMMA ViewIsMeant ==
    ASSUME ParseInv, NEW j \in DOMAIN bs
    PROVE  View(bs[j]) = Meant(lines[j])
BY MeaningFollows DEF ReadsAsMeant, Meant

\* A line of the file.
LEMMA LineOfFile ==
    ASSUME ParseInv, text \in Files, li <= Len(text), NEW n \in 1..li
    PROVE  /\ text[n].kind = "bench" => BenchLineTypes(text[n])
           /\ text[n].kind = "config" => text[n].key \in ToSet(Keys) \ {""}
<1>1. PICK len \in Nat : len = Len(text) /\ DOMAIN text = 1..len
    BY FilesAssumption
<1>2. li \in Nat /\ li <= len
    BY <1>1 DEF ParseInv, HeapInv
<1>3. n \in DOMAIN text
    BY <1>1, <1>2
<1> QED
    BY <1>3, FilesAssumption

\* What a line of the file says itself is about keys.
LEMMA OwnKeys ==
    ASSUME NEW line, BenchLineTypes(line)
    PROVE  /\ DOMAIN Own(line) \subseteq ToSet(Keys) \ {""}
           /\ line.name = <<None>> /\ line.parts = <<>> => DOMAIN Own(line) = {}
<1>1. CASE ShortForm(line)
    <2>1. DOMAIN Own(line) = {GOMAXPROCS}
        BY <1>1 DEF Own
    <2>2. line.name # <<None>>
        <3> SUFFICES ASSUME line.name = <<None>> PROVE FALSE
            OBVIOUS
        <3>1. Len(<<None>>) = 1
            OBVIOUS
        <3>2. Len(line.name) > 1
            BY <1>1 DEF ShortForm
        <3> QED
            BY <3>1, <3>2
    <2>3. GOMAXPROCS \in ToSet(Keys) \ {""}
        BY KeysAssumption DEF GOMAXPROCS
    <2> QED
        BY <2>1, <2>2, <2>3
<1>2. CASE ~ShortForm(line)
    <2>1. PICK parts : parts = line.parts
        OBVIOUS
    <2>2. PICK keys : keys = {p.key : p \in ToSet(parts)} \ {""}
        OBVIOUS
    <2>3. DOMAIN Own(line) = keys
        BY <1>2, <2>1, <2>2 DEF Own
    <2>4. parts \in Seq([key : ToSet(Keys) \cup {""}, raw : STRING \X Int])
        BY <2>1 DEF BenchLineTypes
    <2>5. ASSUME NEW i \in DOMAIN parts PROVE parts[i].key \in ToSet(Keys) \cup {""}
        <3>1. PICK p : p = parts[i]
            OBVIOUS
        <3>2. p \in [key : ToSet(Keys) \cup {""}, raw : STRING \X Int]
            <4>1. PICK T : T = [key : ToSet(Keys) \cup {""}, raw : STRING \X Int]
                OBVIOUS
            <4>2. parts \in Seq(T)
                BY <2>4, <4>1
            <4>3. p \in T
                BY <3>1, <4>2
            <4> QED
                BY <4>1, <4>3
        <3> QED
            BY <3>1, <3>2
    <2>6. \A p \in ToSet(parts) : p.key \in ToSet(Keys) \cup {""}
        BY <2>5 DEF ToSet
    <2>7. keys \subseteq ToSet(Keys) \ {""}
        BY <2>2, <2>6
    <2>8. parts = <<>> => keys = {}
        BY <2>2, EmptyIsSeq DEF ToSet
    <2> QED
        BY <2>1, <2>3, <2>7, <2>8
<1> QED
    BY <1>1, <1>2

\* Without own pairs only the default is printed in the name, that is nothing.
LEMMA NothingShown ==
    ASSUME NEW n, DOMAIN Own(text[n]) = {}
    PROVE  Shown(Meant(n)) = {}
<1> SUFFICES ASSUME NEW c \in Shown(Meant(n)) PROVE FALSE
    OBVIOUS
<1>1. PICK view : view = Meant(n)
    OBVIOUS
<1>2. c \in DOMAIN view /\ ~view[c].inBlock /\ (c = GOMAXPROCS => view[c].raw # Num(1000))
    BY <1>1 DEF Shown, Named
<1>3. IsMeant(view, n)
    BY <1>1, MeantIs
<1>4. c \notin KeysAbove(n)
    <2> SUFFICES ASSUME c \in KeysAbove(n) PROVE FALSE
        OBVIOUS
    <2>1. c \notin DOMAIN Own(text[n])
        OBVIOUS
    <2>2. view[c] = InAbove(text[LastAbove(n, c)].raw)
        BY <1>3, <2>1, MeantCases
    <2>3. view[c].inBlock = TRUE
        BY <2>2, SaidParts
    <2> QED
        BY <1>2, <2>3
<1>5. c = GOMAXPROCS /\ c \notin DOMAIN Own(text[n])
    BY <1>2, <1>3, <1>4, MeantCases
<1>6. view[c] = InLine(Num(1000))
    BY <1>3, <1>4, <1>5, MeantCases
<1>7. view[c].raw = Num(1000)
    <2>1. PICK v : v = Num(1000)
        OBVIOUS
    <2>2. view[c] = InLine(v)
        BY <1>6, <2>1
    <2>3. view[c].raw = v
        BY <2>2, SaidParts
    <2> QED
        BY <2>1, <2>3
<1> QED
    BY <1>2, <1>5, <1>7

\* The fields after the iterations.
LEMMA TailResults ==
    ASSUME NEW line, BenchLineTypes(line), line.fields # <<>>
    PROVE  \A r \in Results(Tail(line.fields)) : IsResult(r)
<1>1. PICK s : s = line.fields
    OBVIOUS
<1>2. s \in Seq(STRING \X Int) /\ s # <<>>
    BY <1>1 DEF BenchLineTypes
<1>3. \A i \in 3..Len(s) : IsFloat(s[i - 1]) => s[i] \in ToSet(Units)
    BY <1>1 DEF BenchLineTypes
<1>4. PICK n \in Nat : Len(s) = n + 1
    <2>1. Len(s) \in Nat /\ Len(s) # 0
        BY <1>2
    <2>2. Len(s) - 1 \in Nat /\ Len(s) = (Len(s) - 1) + 1
        BY <2>1
    <2> QED
        BY <2>2
<1>5. PICK t : t = Tail(s)
    OBVIOUS
<1>6. Len(t) = n /\ \A i \in 1..n : t[i] = s[i + 1]
    BY <1>2, <1>4, <1>5
<1>7. ASSUME NEW i \in 1..n PROVE t[i][2] \in Int
    <2>1. s[i + 1] \in STRING \X Int
        BY <1>2, <1>4
    <2> QED
        BY <1>6, <2>1
<1>8. ASSUME NEW i \in 2..n, IsFloat(t[i - 1]) PROVE t[i] \in ToSet(Units)
    <2>1. i - 1 \in 1..n /\ i \in 1..n /\ (i - 1) + 1 = i
        OBVIOUS
    <2>2. t[i - 1] = s[i] /\ t[i] = s[i + 1]
        BY <1>6, <2>1
    <2>3. PICK q \in 3..(n + 1) : q = i + 1 /\ q - 1 = i
        OBVIOUS
    <2>4. IsFloat(s[q - 1]) => s[q] \in ToSet(Units)
        BY <1>3, <1>4
    <2> QED
        BY <1>8, <2>2, <2>3, <2>4
<1>9. \A r \in Results(t) : IsResult(r)
    BY <1>6, <1>7, <1>8, ResultsAreNumbers
<1> QED
    BY <1>1, <1>5, <1>9

\* The pairs of a configuration.
Entries(view) ==
    /\ IsMap(view)
    /\ \A c \in DOMAIN view : view[c] = InLine(view[c].raw) \/ view[c] = InAbove(view[c].raw)

\* Each key of a line is said in the line or above it.
LEMMA MeantEntries == ASSUME NEW n PROVE Entries(Meant(n))
<1>1. PICK view : view = Meant(n)
    OBVIOUS
<1>2. IsMeant(view, n) /\ IsMap(view)
    BY <1>1, MeantIs
<1>3. ASSUME NEW c \in DOMAIN view
      PROVE  view[c] = InLine(view[c].raw) \/ view[c] = InAbove(view[c].raw)
    <2>1. PICK own : own = Own(text[n])[c]
        OBVIOUS
    <2>2. PICK above : above = text[LastAbove(n, c)].raw
        OBVIOUS
    <2>3. PICK one : one = Num(1000)
        OBVIOUS
    <2>4. view[c] = InLine(own) \/ view[c] = InAbove(above) \/ view[c] = InLine(one)
        BY <1>2, <1>3, <2>1, <2>2, <2>3, MeantCases
    <2> QED
        BY <2>4, SaidParts
<1> QED
    BY <1>1, <1>2, <1>3 DEF Entries

\* A benchmark that the first parse can have read.
GoodRead(b) ==
    /\ Entries(b.config)
    /\ OfKeys(b.config) /\ GOMAXPROCS \in DOMAIN b.config
    /\ IsInt(b.iterations) /\ b.iterations[2] > 0
    /\ \E N : b.name \in Seq(N)
    /\ b.name # <<>>
    /\ b.name[1] \notin {None, Word("x")} \/ (b.name = <<None>> /\ Shown(b.config) = {})
    /\ IsResult(b.result)
    /\ b = [name |-> b.name, iterations |-> b.iterations, config |-> b.config, result |-> b.result]

\* A benchmark line of a file is read into a benchmark that can be printed and read again.
LEMMA FirstReads ==
    ASSUME ParseInv, LinesInv, text \in Files, li <= Len(text), NEW j \in DOMAIN bs
    PROVE  GoodRead(Read(bs[j]))
<1>1. PICK n \in 1..li : n = lines[j]
    BY LineOfEach
<1>2. PICK line : line = text[n]
    OBVIOUS
<1>3. PICK b : b = bs[j]
    OBVIOUS
<1>4. ReadAt(b, line)
    BY <1>1, <1>2, <1>3 DEF LinesInv
<1>5. line.kind = "bench" /\ IsName(line) /\ line.fields # <<>>
      /\ IsInt(Head(line.fields)) /\ Head(line.fields)[2] > 0
    BY <1>4 DEF ReadAt, IsBenchmark
<1>6. BenchLineTypes(line)
    BY <1>2, <1>5, LineOfFile
<1>7. PICK r : r = Read(b)
    OBVIOUS
<1>8. /\ r = [name |-> r.name, iterations |-> r.iterations, config |-> r.config, result |-> r.result]
      /\ r.name = b.name /\ r.iterations = b.iterations /\ r.config = View(b) /\ r.result = b.result
    BY <1>7 DEF Read
<1>9. r.config = Meant(n)
    BY <1>1, <1>3, <1>8, ViewIsMeant
<1>10. IsInt(r.iterations) /\ r.iterations[2] > 0
    BY <1>4, <1>5, <1>8 DEF ReadAt
<1>11. IsResult(r.result)
    <2>1. PICK x : x = r.result
        OBVIOUS
    <2>2. x \in Results(Tail(line.fields))
        BY <1>4, <1>8, <2>1 DEF ReadAt
    <2>3. PICK R : R = Results(Tail(line.fields))
        OBVIOUS
    <2>4. \A y \in R : IsResult(y)
        BY <1>5, <1>6, <2>3, TailResults, Zenon
    <2> QED
        BY <2>1, <2>2, <2>3, <2>4
<1>12. GOMAXPROCS \in DOMAIN r.config
    BY <1>9, MeantIs, MeantCases
<1>13. OfKeys(r.config)
    <2>1. DOMAIN r.config = DOMAIN Own(line) \cup KeysAbove(n) \cup {GOMAXPROCS}
        BY <1>2, <1>9, MeantIs DEF IsMeant
    <2>2. DOMAIN Own(line) \subseteq ToSet(Keys) \ {""}
        BY <1>6, OwnKeys
    <2>3. GOMAXPROCS \in ToSet(Keys) \ {""}
        BY KeysAssumption DEF GOMAXPROCS
    <2>4. KeysAbove(n) \subseteq ToSet(Keys) \ {""}
        <3> SUFFICES ASSUME NEW c \in KeysAbove(n) PROVE c \in ToSet(Keys) \ {""}
            OBVIOUS
        <3>1. PICK i \in ConfigAbove(n) : c = text[i].key
            BY DEF KeysAbove
        <3>2. i \in 1..(n - 1) /\ text[i].kind = "config"
            BY <3>1 DEF ConfigAbove
        <3>3. i \in 1..li
            <4>1. li \in Nat
                BY DEF ParseInv, HeapInv
            <4> QED
                BY <3>2, <4>1
        <3> QED
            BY <3>1, <3>2, <3>3, LineOfFile
    <2> QED
        BY <2>1, <2>2, <2>3, <2>4 DEF OfKeys
<1>14. line.name \in Seq(STRING \X Int) /\ line.name # <<>>
    BY <1>6 DEF BenchLineTypes
<1>15. r.name = Name(line)
    BY <1>4, <1>8 DEF ReadAt
<1>16. (\E N : r.name \in Seq(N)) /\ r.name # <<>> /\ r.name[1] = line.name[1]
    BY <1>14, <1>15, NameRead
<1>17. r.name[1] \notin {None, Word("x")} \/ (r.name = <<None>> /\ Shown(r.config) = {})
    <2>1. CASE line.name[1] \notin {None, Word("x")}
        BY <1>16, <2>1
    <2>2. CASE line.name = <<None>> /\ line.parts = <<>>
        <3>1. DOMAIN Own(line) = {}
            BY <1>6, <2>2, OwnKeys
        <3>2. Shown(r.config) = {}
            BY <1>2, <1>9, <3>1, NothingShown
        <3>3. ~ShortForm(line)
            <4>1. Len(<<None>>) = 1
                OBVIOUS
            <4> QED
                BY <2>2, <4>1 DEF ShortForm
        <3>4. r.name = <<None>>
            BY <1>15, <2>2, <3>3 DEF Name
        <3> QED
            BY <3>2, <3>4
    <2> QED
        BY <1>5, <2>1, <2>2 DEF IsName
<1>18. Entries(r.config)
    BY <1>9, MeantEntries
<1>19. GoodRead(r)
    BY <1>8, <1>10, <1>11, <1>12, <1>13, <1>16, <1>17, <1>18 DEF GoodRead
<1> QED
    BY <1>3, <1>7, <1>19

\* What a block sets stays in the configuration.
LEMMA BlockKeysStay ==
    ASSUME ParseInv, LinesInv, NEW i \in DOMAIN bs, NEW j \in DOMAIN bs, i < j,
           NEW c \in DOMAIN Meant(lines[i]), Meant(lines[i])[c].inBlock
    PROVE  c \in DOMAIN Meant(lines[j])
<1>1. PICK n \in 1..li : n = lines[i]
    BY LineOfEach
<1>2. PICK m \in 1..li : m = lines[j]
    BY LineOfEach
<1>3. n < m /\ n \in Int /\ m \in Int
    BY <1>1, <1>2 DEF LinesInv
<1>4. IsMeant(Meant(n), n) /\ IsMeant(Meant(m), m)
    BY MeantIs
<1>5. c \notin DOMAIN Own(text[n])
    <2> SUFFICES ASSUME c \in DOMAIN Own(text[n]) PROVE FALSE
        OBVIOUS
    <2>1. Meant(n)[c] = InLine(Own(text[n])[c])
        BY <1>4, MeantCases
    <2>2. Meant(n)[c].inBlock = FALSE
        BY <2>1, SaidParts
    <2> QED
        BY <1>1, <2>2
<1>6. c \in KeysAbove(n)
    <2> SUFFICES ASSUME c \notin KeysAbove(n) PROVE FALSE
        OBVIOUS
    <2>1. c = GOMAXPROCS
        BY <1>1, <1>4, <1>5, MeantCases
    <2>2. Meant(n)[c] = InLine(Num(1000))
        BY <1>4, <1>5, <2>1, MeantCases
    <2>3. Meant(n)[c].inBlock = FALSE
        <3>1. PICK v : v = Num(1000)
            OBVIOUS
        <3>2. Meant(n)[c] = InLine(v)
            BY <2>2, <3>1
        <3> QED
            BY <3>2, SaidParts
    <2> QED
        BY <1>1, <2>3
<1>7. c \in KeysAbove(m)
    <2>1. PICK q \in ConfigAbove(n) : c = text[q].key
        BY <1>6 DEF KeysAbove
    <2>2. q \in ConfigAbove(m)
        BY <1>3, <2>1 DEF ConfigAbove
    <2> QED
        BY <2>1, <2>2 DEF KeysAbove
<1> QED
    BY <1>2, <1>4, <1>7, MeantCases

-----------------------------------------------------------------------------
(***************************************************************************)
(* The benchmarks of the first parse.  Printing leaves them and the text   *)
(* they were read from alone; a key that the block of one sets is in the   *)
(* configuration of all that follow.                                       *)
(***************************************************************************)
Keeps(r, b, n) ==
    /\ r.name = b.name /\ r.iterations = b.iterations
    /\ r.config = Meant(n) /\ r.result = b.result

\* The first parse's benchmarks are those still kept.
FirstIs ==
    /\ DOMAIN first = DOMAIN bs
    /\ \A j \in DOMAIN bs : Keeps(first[j], bs[j], lines[j])

\* A key that a block sets.
InBlock(view, c) == c \in DOMAIN view /\ view[c].inBlock

SetsBlock(j, c) == j \in DOMAIN first /\ InBlock(first[j].config, c)

\* What holds of them: once a block sets a key, the later benchmarks all have it.
GoodFirst ==
    /\ \E l \in Nat : DOMAIN first = 1..l
    /\ \A j \in DOMAIN first : GoodRead(first[j])
    /\ \A i, j \in DOMAIN first, c \in ToSet(Keys) :
         i < j /\ SetsBlock(i, c) => c \in DOMAIN first[j].config

\* The first parse leaves such benchmarks.
LEMMA ParsedKeeps ==
    ASSUME ParseInv, LinesInv, text \in Files, li <= Len(text), Parsed, round = 1
    PROVE  FirstIs' /\ GoodFirst'
<1>1. /\ first' = AllRead
      /\ UNCHANGED <<text, li, bs, lines>>
    BY DEF Parsed, parsing
<1>2. DOMAIN first' = DOMAIN bs /\ \A j \in DOMAIN bs : first'[j] = Read(bs[j])
    BY <1>1 DEF AllRead
<1>3. ASSUME NEW j \in DOMAIN bs
      PROVE  Keeps(first'[j], bs[j], lines[j])
    <2>1. first'[j] = Read(bs[j])
        BY <1>2
    <2>2. View(bs[j]) = Meant(lines[j])
        BY ViewIsMeant
    <2> QED
        BY <2>1, <2>2 DEF Keeps, Read
<1>4. \A j \in DOMAIN bs : Meant(lines[j])' = Meant(lines[j])
    <2>1. ASSUME NEW n PROVE OwnAt(n)' = OwnAt(n) /\ BlockAt(n)' = BlockAt(n)
        BY <1>1, SameText
    <2>2. \A n : Meant(n)' = Meant(n)
        BY <2>1 DEF Meant
    <2> QED
        BY <1>1, <2>2
<1>5. FirstIs'
    BY <1>1, <1>2, <1>3, <1>4 DEF FirstIs, Keeps
<1>6. PICK l \in Nat : DOMAIN bs = 1..l
    <2>1. IsSeq(bs)
        BY DEF ParseInv, BsInv
    <2> QED
        BY <2>1, AppendIsSeq
<1>7. ASSUME NEW j \in DOMAIN bs
      PROVE  GoodRead(first'[j])
    BY <1>2, FirstReads
<1>8. ASSUME NEW i \in DOMAIN bs, NEW j \in DOMAIN bs, NEW c \in ToSet(Keys),
             i < j, InBlock(first'[i].config, c)
      PROVE  c \in DOMAIN first'[j].config
    <2>1. first'[i].config = Meant(lines[i]) /\ first'[j].config = Meant(lines[j])
        BY <1>3 DEF Keeps
    <2>2. c \in DOMAIN Meant(lines[i]) /\ Meant(lines[i])[c].inBlock
        BY <1>8, <2>1 DEF InBlock
    <2> QED
        BY <1>8, <2>1, <2>2, BlockKeysStay
<1>9. GoodFirst'
    BY <1>2, <1>6, <1>7, <1>8 DEF GoodFirst, SetsBlock
<1> QED
    BY <1>5, <1>9

\* Nothing of this changes in a step that leaves the parse alone.
LEMMA FirstStays ==
    ASSUME UNCHANGED <<text, bs, lines, first>>
    PROVE  /\ FirstIs => FirstIs'
           /\ GoodFirst => GoodFirst'
           /\ \A j, c : SetsBlock(j, c)' <=> SetsBlock(j, c)
           /\ Printable' <=> Printable
<1>1. ASSUME NEW n PROVE Meant(n)' = Meant(n)
    <2>1. OwnAt(n)' = OwnAt(n) /\ BlockAt(n)' = BlockAt(n)
        BY SameText
    <2> QED
        BY <2>1 DEF Meant
<1>2. FirstIs => FirstIs'
    BY <1>1 DEF FirstIs, Keeps
<1>3. \A j, c : (SetsBlock(j, c)' <=> SetsBlock(j, c))
    BY DEF SetsBlock
<1>4. GoodFirst => GoodFirst'
    BY <1>3 DEF GoodFirst
<1>5. Printable' <=> Printable
    BY DEF Printable, HidesBlock
<1> QED
    BY <1>2, <1>3, <1>4, <1>5

-----------------------------------------------------------------------------
(***************************************************************************)
(* The block configuration a printed text has in force at a line.          *)
(***************************************************************************)
SetsKey(t, p, c) == t[p].kind = "config" /\ t[p].key = c

\* The last line above n that sets a key, and what it says.
IsLast(t, n, p, c) ==
    /\ p \in 1..(n - 1) /\ SetsKey(t, p, c)
    /\ \A q \in 1..(n - 1) : SetsKey(t, q, c) => q <= p

LastSays(t, n, c, v) ==
    /\ \E p \in 1..(n - 1) : SetsKey(t, p, c)
    /\ \A p : IsLast(t, n, p, c) => t[p].raw = v

\* g is in force above line n.
Shows(t, n, g) ==
    /\ \A p \in 1..(n - 1) : t[p].kind = "config" => t[p].key \in DOMAIN g
    /\ \A c \in DOMAIN g : LastSays(t, n, c, g[c])

\* The lines new turn g into h.
Puts(new, g, h) ==
    /\ \A i \in DOMAIN new : new[i].kind = "config" =>
         new[i].key \in DOMAIN h /\ h[new[i].key] = new[i].raw
    /\ DOMAIN g \subseteq DOMAIN h
    /\ \A c \in DOMAIN h :
         (\E i \in DOMAIN new : SetsKey(new, i, c)) \/ (c \in DOMAIN g /\ h[c] = g[c])

\* The lines of a text with others added.
LEMMA BothParts ==
    ASSUME NEW s, IsSeq(s), NEW t, IsSeq(t)
    PROVE  /\ IsSeq(s \o t) /\ Len(s) \in Nat /\ Len(t) \in Nat /\ Len(s \o t) = Len(s) + Len(t)
           /\ DOMAIN s = 1..Len(s) /\ DOMAIN t = 1..Len(t) /\ DOMAIN (s \o t) = 1..(Len(s) + Len(t))
           /\ \A i \in 1..Len(s) : (s \o t)[i] = s[i]
           /\ \A i \in 1..Len(t) : (s \o t)[Len(s) + i] = t[i]
<1>1. PICK S : s \in Seq(S)
    BY DEF IsSeq
<1>2. PICK T : t \in Seq(T)
    BY DEF IsSeq
<1>3. PICK U : U = S \cup T
    OBVIOUS
<1>4. s \in Seq(U) /\ t \in Seq(U)
    <2>1. \A i \in 1..Len(s) : s[i] \in U
        BY <1>1, <1>3
    <2>2. \A i \in 1..Len(t) : t[i] \in U
        BY <1>2, <1>3
    <2> QED
        BY <1>1, <1>2, <2>1, <2>2
<1>5. s \o t \in Seq(U)
    BY <1>4
<1>6. IsSeq(s \o t)
    BY <1>5 DEF IsSeq
<1>7. /\ Len(s) \in Nat /\ Len(t) \in Nat /\ Len(s \o t) = Len(s) + Len(t)
      /\ DOMAIN s = 1..Len(s) /\ DOMAIN t = 1..Len(t) /\ DOMAIN (s \o t) = 1..(Len(s) + Len(t))
    BY <1>4, <1>5
<1>8. \A i \in 1..Len(s) : (s \o t)[i] = s[i]
    BY <1>4
<1>9. \A i \in 1..Len(t) : (s \o t)[Len(s) + i] = t[i]
    BY <1>4
<1> QED
    BY <1>6, <1>7, <1>8, <1>9

\* What is above a line stays when lines are added below.
LEMMA AboveStays ==
    ASSUME NEW t, NEW u, NEW n, \A p \in 1..(n - 1) : u[p] = t[p], NEW c, NEW v, LastSays(t, n, c, v)
    PROVE  LastSays(u, n, c, v)
<1>1. \A p \in 1..(n - 1) : (SetsKey(u, p, c) <=> SetsKey(t, p, c))
    BY DEF SetsKey
<1>2. \E p \in 1..(n - 1) : SetsKey(u, p, c)
    BY <1>1 DEF LastSays
<1>3. ASSUME NEW p, IsLast(u, n, p, c) PROVE u[p].raw = v
    <2>1. p \in 1..(n - 1) /\ IsLast(t, n, p, c)
        BY <1>1, <1>3 DEF IsLast
    <2>2. t[p].raw = v
        BY <2>1 DEF LastSays
    <2> QED
        BY <2>1, <2>2
<1> QED
    BY <1>2, <1>3 DEF LastSays

\* The lines of a block put its configuration in force.
LEMMA ShowsAfter ==
    ASSUME NEW t, IsSeq(t), NEW new, IsSeq(new), NEW g, NEW h,
           Shows(t, Len(t) + 1, g), Puts(new, g, h)
    PROVE  Shows(t \o new, Len(t \o new) + 1, h)
<1>1. PICK u : u = t \o new
    OBVIOUS
<1>2. PICK l \in Nat : l = Len(t)
    BY BothParts
<1>3. PICK m \in Nat : m = Len(new)
    BY BothParts
<1>4. /\ Len(u) = l + m /\ DOMAIN new = 1..m
      /\ \A p \in 1..l : u[p] = t[p]
      /\ \A i \in 1..m : u[l + i] = new[i]
    BY <1>1, <1>2, <1>3, BothParts
<1>5. Shows(t, l + 1, g)
    BY <1>2
<1>6. ASSUME NEW p \in 1..(l + m)
      PROVE  p \in 1..l \/ \E i \in 1..m : p = l + i
    <2>1. CASE p > l
        <3>1. p - l \in 1..m /\ p = l + (p - l)
            BY <2>1
        <3> QED
            BY <3>1
    <2>2. CASE ~(p > l)
        BY <2>2
    <2> QED
        BY <2>1, <2>2
<1>7. ASSUME NEW p \in 1..(l + m), u[p].kind = "config"
      PROVE  u[p].key \in DOMAIN h
    <2>1. CASE p \in 1..l
        <3>1. t[p].key \in DOMAIN g
            <4>1. (l + 1) - 1 = l
                OBVIOUS
            <4> QED
                BY <1>4, <1>5, <1>7, <2>1, <4>1 DEF Shows
        <3> QED
            BY <1>4, <2>1, <3>1 DEF Puts
    <2>2. ASSUME NEW i \in 1..m, p = l + i
          PROVE  u[p].key \in DOMAIN h
        <3>1. u[p] = new[i] /\ i \in DOMAIN new
            BY <1>4, <2>2
        <3> QED
            BY <1>7, <3>1 DEF Puts
    <2> QED
        BY <1>6, <2>1, <2>2
<1>8. ASSUME NEW c \in DOMAIN h
      PROVE  LastSays(u, l + m + 1, c, h[c])
    <2>1. (l + m + 1) - 1 = l + m /\ (l + 1) - 1 = l
        OBVIOUS
    <2>2. CASE \E i \in DOMAIN new : SetsKey(new, i, c)
        <3>1. PICK i \in 1..m : SetsKey(new, i, c)
            BY <1>4, <2>2
        <3>2. PICK q \in 1..(l + m) : q = l + i /\ SetsKey(u, q, c)
            <4>1. l + i \in 1..(l + m) /\ u[l + i] = new[i]
                BY <1>4
            <4> QED
                BY <3>1, <4>1 DEF SetsKey
        <3>3. ASSUME NEW p, IsLast(u, l + m + 1, p, c) PROVE u[p].raw = h[c]
            <4>1. p \in 1..(l + m) /\ SetsKey(u, p, c) /\ q <= p
                BY <2>1, <3>2, <3>3 DEF IsLast
            <4>2. PICK e \in 1..m : p = l + e
                BY <1>6, <3>2, <4>1
            <4>3. u[p] = new[e] /\ e \in DOMAIN new
                BY <1>4, <4>2
            <4> QED
                BY <4>1, <4>3 DEF Puts, SetsKey
        <3> QED
            BY <2>1, <3>2, <3>3 DEF LastSays
    <2>3. CASE ~\E i \in DOMAIN new : SetsKey(new, i, c)
        <3>1. c \in DOMAIN g /\ h[c] = g[c]
            BY <2>3 DEF Puts
        <3>2. LastSays(t, l + 1, c, h[c])
            BY <1>5, <3>1 DEF Shows
        <3>3. ASSUME NEW p \in 1..(l + m), SetsKey(u, p, c)
              PROVE  p \in 1..l /\ SetsKey(t, p, c)
            <4>1. ~\E i \in 1..m : p = l + i
                <5> SUFFICES ASSUME NEW i \in 1..m, p = l + i PROVE FALSE
                    OBVIOUS
                <5>1. SetsKey(new, i, c) /\ i \in DOMAIN new
                    BY <1>4, <3>3 DEF SetsKey
                <5> QED
                    BY <2>3, <5>1
            <4>2. p \in 1..l
                BY <1>6, <4>1
            <4> QED
                BY <1>4, <3>3, <4>2 DEF SetsKey
        <3>4. ASSUME NEW p \in 1..l, SetsKey(t, p, c)
              PROVE  p \in 1..(l + m) /\ SetsKey(u, p, c)
            BY <1>4, <3>4 DEF SetsKey
        <3>5. \E p \in 1..(l + m) : SetsKey(u, p, c)
            BY <2>1, <3>2, <3>4 DEF LastSays
        <3>6. ASSUME NEW p, IsLast(u, l + m + 1, p, c) PROVE u[p].raw = h[c]
            <4>1. /\ p \in 1..(l + m) /\ SetsKey(u, p, c)
                  /\ \A q \in 1..(l + m) : SetsKey(u, q, c) => q <= p
                BY <2>1, <3>6 DEF IsLast
            <4>2. p \in 1..l /\ SetsKey(t, p, c) /\ \A q \in 1..l : SetsKey(t, q, c) => q <= p
                BY <3>3, <3>4, <4>1
            <4>3. IsLast(t, l + 1, p, c)
                BY <2>1, <4>2 DEF IsLast
            <4>4. t[p].raw = h[c]
                BY <3>2, <4>3 DEF LastSays
            <4> QED
                BY <1>4, <4>2, <4>4
        <3> QED
            BY <2>1, <3>5, <3>6 DEF LastSays
    <2> QED
        BY <2>2, <2>3
<1>9. Shows(u, l + m + 1, h)
    <2>1. (l + m + 1) - 1 = l + m
        OBVIOUS
    <2> QED
        BY <1>7, <1>8, <2>1 DEF Shows
<1> QED
    BY <1>1, <1>4, <1>9

\* Lines that set nothing, before and after.
LEMMA PutsAround ==
    ASSUME NEW cfg, IsSeq(cfg), NEW a, IsSeq(a), NEW g, NEW h, Puts(cfg, g, h),
           \A i \in DOMAIN a : a[i].kind # "config"
    PROVE  Puts(a \o cfg, g, h) /\ Puts(cfg \o a, g, h)
<1>1. ASSUME NEW u, DOMAIN u \subseteq Nat, 
             \A p \in DOMAIN u : (\E i \in DOMAIN cfg : u[p] = cfg[i]) \/ (\E i \in DOMAIN a : u[p] = a[i]),
             \A i \in DOMAIN cfg : \E p \in DOMAIN u : u[p] = cfg[i]
      PROVE  Puts(u, g, h)
    <2>1. ASSUME NEW p \in DOMAIN u, u[p].kind = "config"
          PROVE  u[p].key \in DOMAIN h /\ h[u[p].key] = u[p].raw
        <3>1. PICK i \in DOMAIN cfg : u[p] = cfg[i]
            BY <1>1, <2>1
        <3> QED
            BY <2>1, <3>1 DEF Puts
    <2>2. ASSUME NEW c \in DOMAIN h, NEW i \in DOMAIN cfg, SetsKey(cfg, i, c)
          PROVE  \E p \in DOMAIN u : SetsKey(u, p, c)
        BY <1>1, <2>2 DEF SetsKey
    <2>3. \A c \in DOMAIN h :
            (\E i \in DOMAIN cfg : SetsKey(cfg, i, c)) \/ (c \in DOMAIN g /\ h[c] = g[c])
        BY DEF Puts
    <2>4. DOMAIN g \subseteq DOMAIN h
        BY DEF Puts
    <2> QED
        BY <2>1, <2>2, <2>3, <2>4 DEF Puts
<1>2. PICK l \in Nat : l = Len(a)
    BY BothParts
<1>3. PICK m \in Nat : m = Len(cfg)
    BY BothParts
<1>4. DOMAIN a = 1..l /\ DOMAIN cfg = 1..m
    BY <1>2, <1>3, BothParts
<1>5. Puts(a \o cfg, g, h)
    <2>1. PICK u : u = a \o cfg
        OBVIOUS
    <2>2. /\ DOMAIN u = 1..(l + m) /\ \A i \in 1..l : u[i] = a[i]
          /\ \A i \in 1..m : u[l + i] = cfg[i]
        BY <1>2, <1>3, <2>1, BothParts
    <2>3. ASSUME NEW p \in 1..(l + m) PROVE p \in 1..l \/ \E i \in 1..m : p = l + i
        <3>1. CASE p > l
            <4>1. p - l \in 1..m /\ p = l + (p - l)
                BY <3>1
            <4> QED
                BY <4>1
        <3>2. CASE ~(p > l)
            BY <3>2
        <3> QED
            BY <3>1, <3>2
    <2>4. ASSUME NEW p \in DOMAIN u
          PROVE  (\E i \in DOMAIN cfg : u[p] = cfg[i]) \/ (\E i \in DOMAIN a : u[p] = a[i])
        <3>1. CASE p \in 1..l
            BY <1>4, <2>2, <3>1
        <3>2. ASSUME NEW i \in 1..m, p = l + i
              PROVE  \E e \in DOMAIN cfg : u[p] = cfg[e]
            BY <1>4, <2>2, <3>2
        <3> QED
            BY <2>2, <2>3, <3>1, <3>2
    <2>5. \A i \in DOMAIN cfg : \E p \in DOMAIN u : u[p] = cfg[i]
        <3>1. \A i \in 1..m : l + i \in 1..(l + m)
            OBVIOUS
        <3> QED
            BY <1>4, <2>2, <3>1
    <2>6. DOMAIN u \subseteq Nat
        BY <2>2
    <2> QED
        BY <1>1, <2>1, <2>4, <2>5, <2>6
<1>6. Puts(cfg \o a, g, h)
    <2>1. PICK u : u = cfg \o a
        OBVIOUS
    <2>2. /\ DOMAIN u = 1..(m + l) /\ \A i \in 1..m : u[i] = cfg[i]
          /\ \A i \in 1..l : u[m + i] = a[i]
        BY <1>2, <1>3, <2>1, BothParts
    <2>3. ASSUME NEW p \in 1..(m + l) PROVE p \in 1..m \/ \E i \in 1..l : p = m + i
        <3>1. CASE p > m
            <4>1. p - m \in 1..l /\ p = m + (p - m)
                BY <3>1
            <4> QED
                BY <4>1
        <3>2. CASE ~(p > m)
            BY <3>2
        <3> QED
            BY <3>1, <3>2
    <2>4. ASSUME NEW p \in DOMAIN u
          PROVE  (\E i \in DOMAIN cfg : u[p] = cfg[i]) \/ (\E i \in DOMAIN a : u[p] = a[i])
        <3>1. CASE p \in 1..m
            BY <1>4, <2>2, <3>1
        <3>2. ASSUME NEW i \in 1..l, p = m + i
              PROVE  \E e \in DOMAIN a : u[p] = a[e]
            BY <1>4, <2>2, <3>2
        <3> QED
            BY <2>2, <2>3, <3>1, <3>2
    <2>5. \A i \in DOMAIN cfg : \E p \in DOMAIN u : u[p] = cfg[i]
        <3>1. \A i \in 1..m : i \in 1..(m + l)
            OBVIOUS
        <3> QED
            BY <1>4, <2>2, <3>1
    <2>6. DOMAIN u \subseteq Nat
        BY <2>2
    <2> QED
        BY <1>1, <2>1, <2>4, <2>5, <2>6
<1> QED
    BY <1>5, <1>6

-----------------------------------------------------------------------------
(***************************************************************************)
(* The blocks: G gives for each the block configuration that is in force   *)
(* once its lines are printed, which is what its benchmarks need.          *)
(***************************************************************************)
SameMap(f, g) == DOMAIN f = DOMAIN g /\ \A c \in DOMAIN f : f[c] = g[c]

\* A block's lines; what its benchmarks need; the block that turns g into h.
OnlyConfig(cfg) == IsSeq(cfg) /\ \A i \in DOMAIN cfg : cfg[i].kind = "config"

Serves(g, j) ==
    /\ j \in DOMAIN first
    /\ \A c : SetsBlock(j, c) => c \in DOMAIN g /\ g[c] = first[j].config[c].raw
    /\ \A c \in DOMAIN g : \E i \in 1..j : SetsBlock(i, c)

BlockIs(block, g, h) ==
    /\ OnlyConfig(block.config) /\ Puts(block.config, g, h)
    /\ IsSeq(block.bs)
    /\ \A j \in ToSet(block.bs) : Serves(h, j)

Forces(G) ==
    /\ IsSeq(blocks) /\ DOMAIN G[0] = {}
    /\ \A m \in DOMAIN blocks : BlockIs(blocks[m], G[m - 1], G[m])

\* While the blocks are made, the last one's configuration is lastConfig.
SplitInv ==
    /\ k \in Nat /\ k <= Len(bs)
    /\ \A c \in DOMAIN lastConfig : \E i \in 1..k : SetsBlock(i, c)
    /\ \E G : Forces(G) /\ SameMap(lastConfig, G[Len(blocks)])

\* The fields of a configuration line.
LEMMA ConfigLineParts ==
    ASSUME NEW c, NEW raw
    PROVE  /\ ConfigLine(c, raw).kind = "config" /\ ConfigLine(c, raw).key = c
           /\ ConfigLine(c, raw).raw = raw
BY DEF ConfigLine, Blank

\* The configuration after a block, and the lines of the block.
IsForced(h, changed, view) == h = Over([c \in ToSet(changed) |-> view[c].raw], lastConfig)
IsHeader(cfg, changed, view) ==
    cfg = [n \in DOMAIN changed |-> ConfigLine(changed[n], view[changed[n]].raw)]

\* The lines that split makes for what changed lead to the new configuration.
LEMMA Changes ==
    ASSUME NEW view, DOMAIN view \subseteq ToSet(Keys), NEW g, SameMap(lastConfig, g),
           NEW changed, changed = Changed(view),
           NEW h, IsForced(h, changed, view), NEW cfg, IsHeader(cfg, changed, view)
    PROVE  /\ OnlyConfig(cfg) /\ Puts(cfg, g, h)
           /\ \A c : InBlock(view, c) => c \in DOMAIN h /\ h[c] = view[c].raw
           /\ \A c \in DOMAIN h : c \in DOMAIN g \/ InBlock(view, c)
           /\ changed = <<>> => SameMap(h, g)
<1>1. PICK C : C = {c \in DOMAIN view : /\ view[c].inBlock
                                        /\ c \in DOMAIN lastConfig => lastConfig[c] # view[c].raw}
    OBVIOUS
<1>2. ASSUME NEW c
      PROVE  c \in C <=> /\ InBlock(view, c)
                         /\ c \in DOMAIN g => g[c] # view[c].raw
    BY <1>1 DEF InBlock, SameMap
<1>3. PICK n \in Nat :
        /\ DOMAIN changed = 1..n
        /\ \A i \in 1..n : changed[i] \in C
        /\ \A c \in C : \E i \in 1..n : changed[i] = c
    <2>1. changed = Listed(Keys, C)
        BY <1>1 DEF Changed
    <2>2. C \subseteq ToSet(Keys)
        BY <1>1
    <2>3. Keys \in Seq(STRING)
        BY KeysAssumption
    <2>4. \E n \in Nat :
             /\ DOMAIN Listed(Keys, C) = 1..n /\ Listed(Keys, C) = [i \in 1..n |-> Listed(Keys, C)[i]]
             /\ \A i \in 1..n : Listed(Keys, C)[i] \in C /\ Listed(Keys, C)[i] \in ToSet(Keys)
             /\ \A x \in ToSet(Keys) : x \in C => \E i \in 1..n : Listed(Keys, C)[i] = x
             /\ Distinct(Keys) => Distinct(Listed(Keys, C))
        BY <2>3, ListedIs
    <2>5. PICK n \in Nat :
             /\ DOMAIN changed = 1..n
             /\ \A i \in 1..n : changed[i] \in C
             /\ \A x \in ToSet(Keys) : x \in C => \E i \in 1..n : changed[i] = x
        BY <2>1, <2>4, Zenon
    <2> QED
        BY <2>2, <2>5
<1>4. ToSet(changed) = C
    BY <1>3 DEF ToSet
<1>5. /\ DOMAIN h = C \cup DOMAIN g
      /\ \A c \in C : h[c] = view[c].raw
      /\ \A c \in DOMAIN g : c \notin C => h[c] = g[c]
    <2>1. PICK f : f = [c \in C |-> view[c].raw]
        OBVIOUS
    <2>2. h = Over(f, lastConfig)
        BY <1>4, <2>1 DEF IsForced
    <2>3. DOMAIN f = C /\ \A c \in C : f[c] = view[c].raw
        BY <2>1
    <2>4. /\ DOMAIN h = DOMAIN f \cup DOMAIN lastConfig
          /\ \A c \in DOMAIN h : h[c] = IF c \in DOMAIN f THEN f[c] ELSE lastConfig[c]
        BY <2>2 DEF Over
    <2> QED
        BY <2>3, <2>4 DEF SameMap
<1>6. ASSUME NEW i \in 1..n
      PROVE  /\ cfg[i].kind = "config" /\ cfg[i].key = changed[i]
             /\ cfg[i].raw = view[changed[i]].raw /\ changed[i] \in C
    <2>1. i \in DOMAIN changed /\ changed[i] \in C
        BY <1>3
    <2>2. cfg[i] = ConfigLine(changed[i], view[changed[i]].raw)
        BY <2>1, Zenon DEF IsHeader
    <2>3. PICK c : c = changed[i]
        OBVIOUS
    <2>4. PICK raw : raw = view[c].raw
        OBVIOUS
    <2>5. cfg[i] = ConfigLine(c, raw)
        BY <2>2, <2>3, <2>4
    <2>6. cfg[i].kind = "config" /\ cfg[i].key = c /\ cfg[i].raw = raw
        BY <2>5, ConfigLineParts
    <2> QED
        BY <2>1, <2>3, <2>4, <2>6
<1>7. DOMAIN cfg = 1..n /\ cfg = [i \in 1..n |-> cfg[i]]
    BY <1>3 DEF IsHeader
<1>8. IsSeq(cfg)
    BY <1>7, FunctionIsSeq DEF IsSeq
<1>9. OnlyConfig(cfg)
    BY <1>6, <1>7, <1>8 DEF OnlyConfig
<1>10. Puts(cfg, g, h)
    <2>1. ASSUME NEW i \in DOMAIN cfg
          PROVE  cfg[i].key \in DOMAIN h /\ h[cfg[i].key] = cfg[i].raw
        BY <1>5, <1>6, <1>7
    <2>2. ASSUME NEW c \in DOMAIN h
          PROVE  (\E i \in DOMAIN cfg : SetsKey(cfg, i, c)) \/ (c \in DOMAIN g /\ h[c] = g[c])
        <3>1. CASE c \in C
            <4>1. PICK i \in 1..n : changed[i] = c
                BY <1>3, <3>1
            <4>2. SetsKey(cfg, i, c) /\ i \in DOMAIN cfg
                BY <1>6, <1>7, <4>1 DEF SetsKey
            <4> QED
                BY <4>2
        <3>2. CASE c \notin C
            BY <1>5, <3>2
        <3> QED
            BY <3>1, <3>2
    <2>3. DOMAIN g \subseteq DOMAIN h
        BY <1>5
    <2> QED
        BY <2>1, <2>2, <2>3 DEF Puts
<1>11. ASSUME NEW c, InBlock(view, c)
       PROVE  c \in DOMAIN h /\ h[c] = view[c].raw
    <2>1. CASE c \in C
        BY <1>5, <2>1
    <2>2. CASE c \notin C
        <3>1. c \in DOMAIN g /\ g[c] = view[c].raw
            BY <1>2, <1>11, <2>2
        <3> QED
            BY <1>5, <2>2, <3>1
    <2> QED
        BY <2>1, <2>2
<1>12. \A c \in DOMAIN h : c \in DOMAIN g \/ InBlock(view, c)
    BY <1>2, <1>5
<1>13. ASSUME changed = <<>>
       PROVE  SameMap(h, g)
    <2>1. C = {}
        <3>1. DOMAIN changed = {}
            BY <1>13, EmptyIsSeq
        <3> QED
            BY <1>3, <3>1
    <2> QED
        BY <1>5, <2>1 DEF SameMap
<1> QED
    BY <1>9, <1>10, <1>11, <1>12, <1>13

\* A block that is made, or a benchmark added to one.
LEMMA SplitForces ==
    ASSUME ParseInv, FirstIs, GoodFirst, SplitInv, Split
    PROVE  SplitInv'
<1>1. PICK j : j = k + 1
    OBVIOUS
<1>2. k \in Nat /\ k < Len(bs) /\ k' = j /\ UNCHANGED <<text, bs, lines, heap, first>>
    BY <1>1 DEF SplitInv, Split, parsing
<1>3. PICK len \in Nat : len = Len(bs) /\ DOMAIN bs = 1..len
    <2>1. IsSeq(bs)
        BY DEF ParseInv, BsInv
    <2> QED
        BY <2>1, AppendIsSeq
<1>4. j \in DOMAIN bs /\ j \in DOMAIN first /\ j \in Nat /\ j <= len /\ k \in 0..(j - 1)
    <2>1. j \in 1..len
        BY <1>1, <1>2, <1>3
    <2> QED
        BY <1>1, <1>2, <1>3, <2>1 DEF FirstIs
<1>5. PICK view : view = View(bs[j])
    OBVIOUS
<1>6. view = first[j].config
    BY <1>4, <1>5, ViewIsMeant DEF FirstIs, Keeps
<1>7. DOMAIN view \subseteq ToSet(Keys)
    BY <1>4, <1>6 DEF GoodFirst, GoodRead, OfKeys
<1>8. PICK changed : changed = Changed(view)
    OBVIOUS
<1>9. PICK h : IsForced(h, changed, view)
    BY DEF IsForced
<1>10. PICK cfg : IsHeader(cfg, changed, view)
    BY DEF IsHeader
<1>11. /\ lastConfig' = h
       /\ IF blocks = <<>> \/ changed # <<>>
          THEN blocks' = Append(blocks, [config |-> cfg, bs |-> <<j>>])
          ELSE blocks' = [blocks EXCEPT ![Len(blocks)].bs = Append(@, j)]
    BY <1>1, <1>5, <1>8, <1>9, <1>10, Zenon DEF Split, IsForced, IsHeader
<1>12. PICK G : Forces(G) /\ SameMap(lastConfig, G[Len(blocks)])
    BY DEF SplitInv
<1>13. PICK l \in Nat : l = Len(blocks) /\ DOMAIN blocks = 1..l
    <2>1. IsSeq(blocks)
        BY <1>12 DEF Forces
    <2> QED
        BY <2>1, AppendIsSeq
<1>14. PICK g : g = G[l]
    OBVIOUS
<1>15. SameMap(lastConfig, g)
    BY <1>12, <1>13, <1>14
<1>16. /\ OnlyConfig(cfg) /\ Puts(cfg, g, h)
       /\ \A c : InBlock(view, c) => c \in DOMAIN h /\ h[c] = view[c].raw
       /\ \A c \in DOMAIN h : c \in DOMAIN g \/ InBlock(view, c)
       /\ changed = <<>> => SameMap(h, g)
    BY <1>7, <1>8, <1>9, <1>10, <1>15, Changes
<1>17. ASSUME NEW c \in DOMAIN h
       PROVE  \E i \in 1..j : SetsBlock(i, c)
    <2>1. CASE c \in DOMAIN g
        <3>1. PICK i \in 1..k : SetsBlock(i, c)
            BY <1>15, <2>1 DEF SplitInv, SameMap
        <3>2. i \in 1..j
            BY <1>1, <1>2
        <3> QED
            BY <3>1, <3>2
    <2>2. CASE InBlock(view, c)
        <3>1. j \in 1..j /\ SetsBlock(j, c)
            BY <1>4, <1>6, <2>2 DEF SetsBlock
        <3> QED
            BY <3>1
    <2> QED
        BY <1>16, <2>1, <2>2
<1>18. Serves(h, j)
    <2>1. \A c : SetsBlock(j, c) => c \in DOMAIN h /\ h[c] = first[j].config[c].raw
        BY <1>6, <1>16 DEF SetsBlock
    <2> QED
        BY <1>4, <1>17, <2>1 DEF Serves
<1>19. \A f, i : Serves(f, i)' <=> Serves(f, i)
    BY <1>2 DEF Serves, SetsBlock
<1>20. \A block, f, e : BlockIs(block, f, e)' <=> BlockIs(block, f, e)
    BY <1>19 DEF BlockIs
<1>21. CASE blocks = <<>> \/ changed # <<>>
    <2>1. PICK block : block = [config |-> cfg, bs |-> <<j>>]
        OBVIOUS
    <2>2. blocks' = Append(blocks, block)
        BY <1>11, <1>21, <2>1
    <2>3. BlockIs(block, g, h)
        <3>1. block.config = cfg /\ block.bs = <<j>>
            BY <2>1
        <3>2. IsSeq(<<j>>) /\ ToSet(<<j>>) = {j}
            <4>1. <<j>> \in Seq({j})
                OBVIOUS
            <4>2. DOMAIN <<j>> = {1} /\ <<j>>[1] = j
                OBVIOUS
            <4> QED
                BY <4>1, <4>2 DEF IsSeq, ToSet
        <3> QED
            BY <1>16, <1>18, <3>1, <3>2 DEF BlockIs
    <2>4. PICK H : H = [i \in 0..(l + 1) |-> IF i = l + 1 THEN h ELSE G[i]]
        OBVIOUS
    <2>5. H[l + 1] = h /\ \A i \in 0..l : H[i] = G[i]
        <3>1. l + 1 \in 0..(l + 1) /\ \A i \in 0..l : i \in 0..(l + 1) /\ i # l + 1
            OBVIOUS
        <3> QED
            BY <2>4, <3>1
    <2>6. /\ IsSeq(blocks') /\ Len(blocks') = l + 1 /\ DOMAIN blocks' = 1..(l + 1)
          /\ \A m \in 1..l : blocks'[m] = blocks[m]
          /\ blocks'[l + 1] = block
        <3>1. IsSeq(blocks)
            BY <1>12 DEF Forces
        <3> QED
            BY <1>13, <2>2, <3>1, AppendIsSeq
    <2>7. ASSUME NEW m \in 1..(l + 1)
          PROVE  BlockIs(blocks'[m], H[m - 1], H[m])
        <3>1. CASE m = l + 1
            <4>1. m - 1 = l /\ l \in 0..l
                BY <3>1
            <4> QED
                BY <1>14, <2>3, <2>5, <2>6, <3>1, <4>1
        <3>2. CASE m # l + 1
            <4>1. m \in 1..l /\ m \in 0..l /\ m - 1 \in 0..l
                BY <3>2
            <4>2. BlockIs(blocks[m], G[m - 1], G[m])
                BY <1>12, <1>13, <4>1 DEF Forces
            <4> QED
                BY <2>5, <2>6, <4>1, <4>2
        <3> QED
            BY <3>1, <3>2
    <2>8. DOMAIN H[0] = {}
        <3>1. 0 \in 0..l /\ DOMAIN G[0] = {}
            BY <1>12 DEF Forces
        <3> QED
            BY <2>5, <3>1
    <2>9. Forces(H)'
        BY <1>20, <2>6, <2>7, <2>8 DEF Forces
    <2>10. SameMap(lastConfig', H[Len(blocks')])
        BY <1>11, <2>5, <2>6 DEF SameMap
    <2>11. \A c \in DOMAIN lastConfig' : \E i \in 1..k' : SetsBlock(i, c)'
        BY <1>2, <1>11, <1>17 DEF SetsBlock
    <2> QED
        BY <1>2, <1>3, <1>4, <2>9, <2>10, <2>11 DEF SplitInv
<1>22. CASE ~(blocks = <<>> \/ changed # <<>>)
    <2>1. SameMap(h, g)
        BY <1>16, <1>22
    <2>2. l \in DOMAIN blocks
        <3>1. IsSeq(blocks) /\ blocks # <<>>
            BY <1>12, <1>22 DEF Forces
        <3>2. l # 0
            BY <1>13, <3>1, SeqIs DEF IsSeq
        <3> QED
            BY <1>13, <3>2
    <2>3. BlockIs(blocks[l], G[l - 1], g)
        BY <1>12, <1>14, <2>2 DEF Forces
    <2>4. PICK block : block = [blocks[l] EXCEPT !.bs = Append(blocks[l].bs, j)]
        OBVIOUS
    <2>5. block.config = blocks[l].config /\ block.bs = Append(blocks[l].bs, j)
        BY <2>4
    <2>6. blocks' = [blocks EXCEPT ![l] = block]
        <3>1. blocks' = [blocks EXCEPT ![l].bs = Append(@, j)]
            BY <1>11, <1>13, <1>22, Zenon
        <3> QED
            BY <2>4, <3>1, Zenon
    <2>7. BlockIs(block, G[l - 1], g)
        <3>1. Serves(g, j)
            BY <1>18, <2>1, Zenon DEF Serves, SameMap
        <3>2. IsSeq(blocks[l].bs) /\ \A i \in ToSet(blocks[l].bs) : Serves(g, i)
            BY <2>3 DEF BlockIs
        <3>3. PICK s : s = blocks[l].bs
            OBVIOUS
        <3>4. IsSeq(Append(s, j)) /\ \A i \in ToSet(Append(s, j)) : i \in ToSet(s) \/ i = j
            <4>1. IsSeq(s)
                BY <3>2, <3>3
            <4>2. ASSUME NEW p \in DOMAIN Append(s, j)
                  PROVE  Append(s, j)[p] = j \/ \E q \in DOMAIN s : Append(s, j)[p] = s[q]
                <5>1. PICK n \in Nat : n = Len(s)
                    BY <4>1, AppendIsSeq
                <5>2. p \in 1..n \/ p = n + 1
                    BY <4>1, <5>1, AppendIsSeq
                <5> QED
                    BY <4>1, <5>1, <5>2, AppendIsSeq
            <4> QED
                BY <4>1, <4>2, AppendIsSeq DEF ToSet
        <3>5. IsSeq(block.bs) /\ \A i \in ToSet(block.bs) : Serves(g, i)
            BY <2>5, <3>1, <3>2, <3>3, <3>4
        <3>6. OnlyConfig(block.config) /\ Puts(block.config, G[l - 1], g)
            BY <2>3, <2>5 DEF BlockIs
        <3> QED
            BY <3>5, <3>6 DEF BlockIs
    <2>8. DOMAIN blocks' = 1..l /\ blocks'[l] = block /\ \A m \in 1..l : m # l => blocks'[m] = blocks[m]
        BY <1>13, <2>2, <2>6
    <2>9. IsSeq(blocks') /\ Len(blocks') = l
        <3>1. PICK S : blocks \in Seq(S)
            BY <1>12 DEF Forces, IsSeq
        <3>2. PICK T : T = S \cup {block}
            OBVIOUS
        <3>3. ASSUME NEW m \in 1..l PROVE blocks'[m] \in T
            BY <1>13, <2>8, <3>1, <3>2
        <3>4. blocks' = [m \in 1..l |-> blocks'[m]]
            BY <1>13, <2>6
        <3>5. blocks' \in Seq(T)
            BY <3>3, <3>4
        <3> QED
            BY <1>13, <2>8, <3>5 DEF IsSeq
    <2>10. ASSUME NEW m \in 1..l
           PROVE  BlockIs(blocks'[m], G[m - 1], G[m])
        BY <1>12, <1>13, <1>14, <2>7, <2>8 DEF Forces
    <2>11. Forces(G)'
        BY <1>12, <1>20, <2>8, <2>9, <2>10 DEF Forces
    <2>12. SameMap(lastConfig', G[Len(blocks')])
        BY <1>11, <1>14, <2>1, <2>9
    <2>13. \A c \in DOMAIN lastConfig' : \E i \in 1..k' : SetsBlock(i, c)'
        BY <1>2, <1>11, <1>17 DEF SetsBlock
    <2> QED
        BY <1>2, <1>3, <1>4, <2>11, <2>12, <2>13 DEF SplitInv
<1> QED
    BY <1>21, <1>22

-----------------------------------------------------------------------------
(***************************************************************************)
(* The text: each benchmark printed is on a line of its own, in order, and *)
(* above it its block configuration is in force.                           *)
(***************************************************************************)
ForBench(t, n, j) ==
    /\ \A p \in 1..(n - 1) : t[p].kind = "config" => \E i \in 1..j : SetsBlock(i, t[p].key)
    /\ \A c : SetsBlock(j, c) => LastSays(t, n, c, first[j].config[c].raw)

\* The line printed for the j-th benchmark.
IsPrinted(t, n, j) ==
    /\ n \in 1..Len(t) /\ j \in DOMAIN first
    /\ t[n] = PrintedLine(first[j], first[j].config)
    /\ PrettyReturns(first[j].result)
    /\ ForBench(t, n, j)

\* The benchmarks 1..m are printed, at the lines at, and no other benchmark line is there.
PrintedText(t, at, m) ==
    /\ IsSeq(t)
    /\ \A j \in 1..m : IsPrinted(t, at[j], j)
    /\ \A i, j \in 1..m : i < j => at[i] < at[j]
    /\ \A p \in 1..Len(t) : t[p].kind = "bench" => \E j \in 1..m : at[j] = p

\* How far Fprint is: k benchmarks printed, the last bi blocks' lines in force.
Progress(G) ==
    /\ open = FALSE
    /\ Shows(out, Len(out) + 1, G[bi])
    /\ bi > 0 => \A j \in ToSet(blocks[bi].bs) : PrettyReturns(first[j].result)
    /\ \E at : PrintedText(out, at, k)

\* The invariant while it prints.
PrintInv ==
    /\ k \in Nat /\ bi \in Nat /\ bi <= Len(blocks)
    /\ \E G : Forces(G) /\ (Printable => Progress(G))

\* Lines added below change nothing for those above.
LEMMA PrintedStays ==
    ASSUME NEW t, NEW new, IsSeq(new), NEW at, NEW m \in Nat, PrintedText(t, at, m)
    PROVE  /\ IsSeq(t \o new)
           /\ \A j \in 1..m : IsPrinted(t \o new, at[j], j)
           /\ \A i, j \in 1..m : i < j => at[i] < at[j]
           /\ \A p \in 1..Len(t) : (t \o new)[p].kind = "bench" => \E j \in 1..m : at[j] = p
<1>1. PICK u : u = t \o new
    OBVIOUS
<1>2. IsSeq(t)
    BY DEF PrintedText
<1>3. PICK l \in Nat : l = Len(t)
    BY <1>2, BothParts
<1>4. PICK d \in Nat : d = Len(new)
    BY <1>2, BothParts
<1>5. IsSeq(u) /\ Len(u) = l + d /\ \A p \in 1..l : u[p] = t[p]
    BY <1>1, <1>2, <1>3, <1>4, BothParts
<1>6. ASSUME NEW j \in 1..m
      PROVE  IsPrinted(u, at[j], j)
    <2>1. IsPrinted(t, at[j], j)
        BY DEF PrintedText
    <2>2. PICK n \in 1..l : n = at[j]
        BY <1>3, <2>1 DEF IsPrinted
    <2>3. n \in 1..(l + d) /\ u[n] = t[n] /\ \A p \in 1..(n - 1) : u[p] = t[p]
        <3>1. n \in 1..(l + d) /\ \A p \in 1..(n - 1) : p \in 1..l
            OBVIOUS
        <3> QED
            BY <1>5, <3>1
    <2>4. ForBench(t, n, j)
        BY <2>1, <2>2 DEF IsPrinted
    <2>5. ForBench(u, n, j)
        <3>1. \A p \in 1..(n - 1) : u[p].kind = "config" => \E i \in 1..j : SetsBlock(i, u[p].key)
            BY <2>3, <2>4 DEF ForBench
        <3>2. ASSUME NEW c, SetsBlock(j, c)
              PROVE  LastSays(u, n, c, first[j].config[c].raw)
            <4>1. PICK v : v = first[j].config[c].raw
                OBVIOUS
            <4>2. LastSays(t, n, c, v)
                BY <2>4, <3>2, <4>1 DEF ForBench
            <4>3. LastSays(u, n, c, v)
                BY <2>3, <4>2, AboveStays
            <4> QED
                BY <4>1, <4>3
        <3> QED
            BY <3>1, <3>2 DEF ForBench
    <2>6. IsPrinted(u, n, j)
        BY <1>5, <2>1, <2>2, <2>3, <2>5 DEF IsPrinted
    <2> QED
        BY <2>2, <2>6
<1>7. \A p \in 1..l : u[p].kind = "bench" => \E j \in 1..m : at[j] = p
    BY <1>3, <1>5 DEF PrintedText
<1>8. \A i, j \in 1..m : i < j => at[i] < at[j]
    BY DEF PrintedText
<1> QED
    BY <1>1, <1>3, <1>5, <1>6, <1>7, <1>8

\* Lines that are no benchmarks do not disturb those printed.
LEMMA OtherLinesPrinted ==
    ASSUME NEW t, NEW new, IsSeq(new), NEW at, NEW m \in Nat, PrintedText(t, at, m),
           \A i \in DOMAIN new : new[i].kind # "bench"
    PROVE  PrintedText(t \o new, at, m)
<1>1. PICK u : u = t \o new
    OBVIOUS
<1>2. /\ IsSeq(u)
      /\ \A j \in 1..m : IsPrinted(u, at[j], j)
      /\ \A i, j \in 1..m : i < j => at[i] < at[j]
      /\ \A p \in 1..Len(t) : u[p].kind = "bench" => \E j \in 1..m : at[j] = p
    BY <1>1, PrintedStays
<1>3. IsSeq(t)
    BY DEF PrintedText
<1>4. PICK l \in Nat : l = Len(t)
    BY <1>3, BothParts
<1>5. PICK d \in Nat : d = Len(new)
    BY <1>3, BothParts
<1>6. DOMAIN new = 1..d /\ Len(u) = l + d /\ \A i \in 1..d : u[l + i] = new[i]
    BY <1>1, <1>3, <1>4, <1>5, BothParts
<1>7. ASSUME NEW p \in 1..(l + d), u[p].kind = "bench"
      PROVE  p \in 1..l
    <2> SUFFICES ASSUME p > l PROVE FALSE
        OBVIOUS
    <2>1. PICK i \in 1..d : p = l + i
        <3>1. p - l \in 1..d /\ p = l + (p - l)
            OBVIOUS
        <3> QED
            BY <3>1
    <2>2. u[p] = new[i] /\ i \in DOMAIN new
        BY <1>6, <2>1
    <2> QED
        BY <1>7, <2>2
<1>8. \A p \in 1..Len(u) : u[p].kind = "bench" => \E j \in 1..m : at[j] = p
    BY <1>2, <1>4, <1>6, <1>7
<1> QED
    BY <1>1, <1>2, <1>8 DEF PrintedText

\* A benchmark's line under its block configuration is printed as it should be.
LEMMA BenchLinePrinted ==
    ASSUME NEW t, NEW at, NEW m \in Nat, PrintedText(t, at, m), NEW line,
           NEW j, j = m + 1, IsPrinted(t \o <<line>>, Len(t) + 1, j)
    PROVE  \E to : PrintedText(t \o <<line>>, to, j)
<1>1. IsSeq(<<line>>) /\ Len(<<line>>) = 1
    <2>1. <<line>> \in Seq({line})
        OBVIOUS
    <2> QED
        BY <2>1 DEF IsSeq
<1>2. PICK u : u = t \o <<line>>
    OBVIOUS
<1>3. /\ IsSeq(u)
      /\ \A i \in 1..m : IsPrinted(u, at[i], i)
      /\ \A i, e \in 1..m : i < e => at[i] < at[e]
      /\ \A p \in 1..Len(t) : u[p].kind = "bench" => \E i \in 1..m : at[i] = p
    BY <1>1, <1>2, PrintedStays
<1>4. IsSeq(t)
    BY DEF PrintedText
<1>5. PICK l \in Nat : l = Len(t)
    BY <1>4, BothParts
<1>6. Len(u) = l + 1
    BY <1>1, <1>2, <1>4, <1>5, BothParts
<1>7. PICK to : to = [i \in 1..j |-> IF i = j THEN l + 1 ELSE at[i]]
    OBVIOUS
<1>8. j \in 1..j /\ \A i \in 1..m : i \in 1..j /\ i # j
    OBVIOUS
<1>9. to[j] = l + 1 /\ \A i \in 1..m : to[i] = at[i]
    BY <1>7, <1>8
<1>10. \A i \in 1..j : i \in 1..m \/ i = j
    OBVIOUS
<1>11. \A i \in 1..j : IsPrinted(u, to[i], i)
    BY <1>2, <1>3, <1>5, <1>9, <1>10
<1>12. ASSUME NEW i \in 1..j, NEW e \in 1..j, i < e
       PROVE  to[i] < to[e]
    <2>1. i \in 1..m /\ to[i] = at[i]
        BY <1>9, <1>12
    <2>2. at[i] \in 1..l
        BY <1>5, <2>1 DEF PrintedText, IsPrinted
    <2>3. CASE e = j
        BY <1>9, <2>1, <2>2, <2>3
    <2>4. CASE e \in 1..m
        BY <1>3, <1>9, <1>12, <2>1, <2>4
    <2> QED
        BY <1>10, <2>3, <2>4
<1>13. ASSUME NEW p \in 1..(l + 1), u[p].kind = "bench"
       PROVE  \E i \in 1..j : to[i] = p
    <2>1. CASE p = l + 1
        BY <1>8, <1>9, <2>1
    <2>2. CASE p # l + 1
        <3>1. p \in 1..l
            BY <2>2
        <3>2. PICK i \in 1..m : at[i] = p
            BY <1>3, <1>5, <1>13, <3>1
        <3> QED
            BY <1>8, <1>9, <3>2
    <2> QED
        BY <2>1, <2>2
<1>14. PrintedText(u, to, j)
    BY <1>3, <1>6, <1>11, <1>12, <1>13 DEF PrintedText
<1> QED
    BY <1>2, <1>14

-----------------------------------------------------------------------------
(* The printing, step by step. *)

\* None of this changes while the benchmarks, the text and the blocks stay.
LEMMA PrintKept ==
    ASSUME UNCHANGED <<text, bs, lines, first, blocks>>
    PROVE  /\ \A G : Forces(G)' <=> Forces(G)
           /\ \A t, at, m : PrintedText(t, at, m)' <=> PrintedText(t, at, m)
<1>1. \A j, c : SetsBlock(j, c)' <=> SetsBlock(j, c)
    BY FirstStays
<1>2. \A f, i : Serves(f, i)' <=> Serves(f, i)
    BY <1>1 DEF Serves
<1>3. \A block, f, e : BlockIs(block, f, e)' <=> BlockIs(block, f, e)
    BY <1>2 DEF BlockIs
<1>4. \A G : Forces(G)' <=> Forces(G)
    BY <1>3 DEF Forces
<1>5. \A t, n, j : ForBench(t, n, j)' <=> ForBench(t, n, j)
    BY <1>1 DEF ForBench
<1>6. \A t, n, j : IsPrinted(t, n, j)' <=> IsPrinted(t, n, j)
    BY <1>5 DEF IsPrinted
<1>7. \A t, at, m : PrintedText(t, at, m)' <=> PrintedText(t, at, m)
    BY <1>6 DEF PrintedText
<1> QED
    BY <1>4, <1>7

\* Nor when the text and the number printed stay.
LEMMA SamePrintedText ==
    ASSUME first' = first, NEW at, PrintedText(out', at, k')
    PROVE  PrintedText(out, at, k)'
BY Zenon DEF PrintedText, IsPrinted, ForBench, SetsBlock

Unprinted == bi = 0 /\ out = <<>> /\ open = FALSE

\* Nothing is printed when the blocks are made.
LEMMA PrintingStarts ==
    ASSUME SplitInv, Unprinted, Splitted
    PROVE  PrintInv'
<1>1. /\ UNCHANGED <<text, bs, lines, first, blocks, bi, out, open>> /\ k' = 0
    BY DEF Splitted, parsing
<1>2. PICK G : Forces(G)
    BY DEF SplitInv
<1>3. Forces(G)'
    BY <1>1, <1>2, PrintKept
<1>4. PICK g : g = G[0] /\ DOMAIN g = {}
    BY <1>2 DEF Forces
<1>5. Len(out) + 1 = 1 /\ 1..0 = {} /\ 1 - 1 = 0 /\ IsSeq(out) /\ Len(out) = 0
    BY EmptyIsSeq DEF Unprinted
<1>6. Shows(out, Len(out) + 1, g)
    BY <1>4, <1>5 DEF Shows
<1>7. PrintedText(out, <<>>, 0)
    BY <1>5 DEF PrintedText
<1>8. PrintedText(out, <<>>, k)'
    BY <1>1, <1>7, SamePrintedText DEF Unprinted
<1>9. Progress(G)'
    <2>1. Shows(out', Len(out') + 1, G[bi'])
        BY <1>1, <1>4, <1>6 DEF Unprinted
    <2> QED
        BY <1>1, <1>8, <2>1 DEF Progress, Unprinted
<1>10. k' \in Nat /\ bi' \in Nat /\ bi' <= Len(blocks')
    <2>1. Len(blocks) \in Nat
        BY <1>2, AppendIsSeq DEF Forces
    <2> QED
        BY <1>1, <2>1 DEF Unprinted
<1> QED
    BY <1>3, <1>9, <1>10 DEF PrintInv

\* A blank line is no configuration and no benchmark.
LEMMA BlankLine ==
    ASSUME NEW s, s = <<>> \/ s = <<Blank>>
    PROVE  IsSeq(s) /\ \A i \in DOMAIN s : s[i].kind # "config" /\ s[i].kind # "bench"
<1>1. CASE s = <<>>
    BY <1>1, EmptyIsSeq
<1>2. CASE s = <<Blank>>
    <2>1. PICK b : b = Blank
        OBVIOUS
    <2>2. b.kind = "blank"
        BY <2>1 DEF Blank
    <2>3. s \in Seq({b}) /\ DOMAIN s = {1} /\ s[1] = b
        BY <1>2, <2>1
    <2> QED
        BY <2>2, <2>3 DEF IsSeq
<1> QED
    BY <1>1, <1>2

\* Nor are the lines of two texts that have no benchmark.
LEMMA NoneBoth ==
    ASSUME NEW s, IsSeq(s), NEW t, IsSeq(t),
           \A i \in DOMAIN s : s[i].kind # "bench", \A i \in DOMAIN t : t[i].kind # "bench"
    PROVE  \A i \in DOMAIN (s \o t) : (s \o t)[i].kind # "bench"
<1>1. PICK u : u = s \o t
    OBVIOUS
<1>2. PICK l \in Nat : l = Len(s)
    BY BothParts
<1>3. PICK m \in Nat : m = Len(t)
    BY BothParts
<1>4. /\ DOMAIN s = 1..l /\ DOMAIN t = 1..m /\ DOMAIN u = 1..(l + m)
      /\ \A i \in 1..l : u[i] = s[i]
      /\ \A i \in 1..m : u[l + i] = t[i]
    BY <1>1, <1>2, <1>3, BothParts
<1>5. ASSUME NEW p \in 1..(l + m) PROVE u[p].kind # "bench"
    <2>1. CASE p > l
        <3>1. PICK i \in 1..m : p = l + i
            <4>1. p - l \in 1..m /\ p = l + (p - l)
                BY <2>1
            <4> QED
                BY <4>1
        <3> QED
            BY <1>4, <3>1
    <2>2. CASE ~(p > l)
        <3>1. p \in 1..l
            BY <2>2
        <3> QED
            BY <1>4, <3>1
    <2> QED
        BY <2>1, <2>2
<1> QED
    BY <1>1, <1>4, <1>5

\* A block's lines put its configuration in force.
LEMMA HeaderPrints ==
    ASSUME FirstIs, PrintInv, PrintHeader, pc' = "print"
    PROVE  PrintInv'
<1>1. /\ UNCHANGED <<text, bs, lines, first, blocks, k>> /\ bi' = bi + 1 /\ open' = FALSE
      /\ bi < Len(blocks)
    BY DEF PrintHeader, parsing
<1>2. PICK G : Forces(G) /\ (Printable => Progress(G))
    BY DEF PrintInv
<1>3. PICK n : n = bi + 1
    OBVIOUS
<1>4. PICK l \in Nat : l = Len(blocks) /\ DOMAIN blocks = 1..l
    <2>1. IsSeq(blocks)
        BY <1>2 DEF Forces
    <2> QED
        BY <2>1, AppendIsSeq
<1>5. bi \in Nat /\ n \in 1..l /\ n - 1 = bi /\ bi' = n
    BY <1>1, <1>3, <1>4 DEF PrintInv
<1>6. PICK block : block = blocks[n]
    OBVIOUS
<1>7. PICK g : g = G[bi]
    OBVIOUS
<1>8. PICK h : h = G[n]
    OBVIOUS
<1>9. BlockIs(block, g, h)
    BY <1>2, <1>4, <1>5, <1>6, <1>7, <1>8 DEF Forces
<1>10. PICK cfg : cfg = block.config
    OBVIOUS
<1>11. IsSeq(cfg) /\ (\A i \in DOMAIN cfg : cfg[i].kind = "config") /\ Puts(cfg, g, h)
    BY <1>9, <1>10 DEF BlockIs, OnlyConfig
<1>12. PICK a : a = IF bi > 0 THEN <<Blank>> ELSE <<>>
    OBVIOUS
<1>13. PICK z : z = IF cfg # <<>> THEN <<Blank>> ELSE <<>>
    OBVIOUS
<1>14. PICK new : new = a \o cfg \o z
    OBVIOUS
<1>15. Emit(new) /\ pc' = IF \A j \in ToSet(block.bs) : PrettyReturns(bs[j].result) THEN "print" ELSE "loops"
    BY <1>3, <1>6, <1>10, <1>12, <1>13, <1>14, Zenon DEF PrintHeader
<1>16. /\ IsSeq(a) /\ \A i \in DOMAIN a : a[i].kind # "config" /\ a[i].kind # "bench"
       /\ IsSeq(z) /\ \A i \in DOMAIN z : z[i].kind # "config" /\ z[i].kind # "bench"
    <2>1. a = <<>> \/ a = <<Blank>>
        BY <1>12
    <2>2. z = <<>> \/ z = <<Blank>>
        BY <1>13
    <2> QED
        BY <2>1, <2>2, BlankLine
<1>17. PICK ac : ac = a \o cfg
    OBVIOUS
<1>18. IsSeq(ac) /\ Puts(ac, g, h)
    BY <1>11, <1>16, <1>17, BothParts, PutsAround
<1>19. IsSeq(new) /\ Puts(new, g, h)
    BY <1>14, <1>16, <1>17, <1>18, BothParts, PutsAround
<1>20. \A i \in DOMAIN ac : ac[i].kind # "bench"
    BY <1>11, <1>16, <1>17, NoneBoth
<1>21. \A i \in DOMAIN new : new[i].kind # "bench"
    BY <1>14, <1>16, <1>17, <1>18, <1>20, NoneBoth
<1>22. Forces(G)'
    BY <1>1, <1>2, PrintKept
<1>23. ASSUME Printable'
       PROVE  Progress(G)'
    <2>1. Progress(G)
        BY <1>1, <1>2, <1>23, FirstStays
    <2>2. open = FALSE /\ Shows(out, Len(out) + 1, g)
        BY <1>7, <2>1 DEF Progress
    <2>3. out' = out \o new
        BY <1>15, <2>2 DEF Emit
    <2>4. PICK at : PrintedText(out, at, k)
        BY <2>1 DEF Progress
    <2>5. IsSeq(out)
        BY <2>4 DEF PrintedText
    <2>6. Shows(out', Len(out') + 1, h)
        BY <1>19, <2>2, <2>3, <2>5, ShowsAfter
    <2>7. PrintedText(out', at, k)
        BY <1>19, <1>21, <2>3, <2>4, OtherLinesPrinted DEF PrintInv
    <2>8. ASSUME NEW j \in ToSet(block.bs)
          PROVE  PrettyReturns(first[j].result)
        <3>1. \A i \in ToSet(block.bs) : PrettyReturns(bs[i].result)
            BY <1>15
        <3>2. j \in DOMAIN bs
            BY <1>9 DEF BlockIs, Serves, FirstIs
        <3>3. first[j].result = bs[j].result
            BY <3>2 DEF FirstIs, Keeps
        <3> QED
            BY <3>1, <3>3
    <2>9. PrintedText(out, at, k)'
        BY <1>1, <2>7, SamePrintedText
    <2>10. Shows(out', Len(out') + 1, G[bi'])
        BY <1>5, <1>8, <2>6
    <2>11. \A j \in ToSet(blocks'[bi'].bs) : PrettyReturns(first'[j].result)
        BY <1>1, <1>5, <1>6, <2>8
    <2> QED
        BY <1>1, <2>9, <2>10, <2>11 DEF Progress
<1>24. k' \in Nat /\ bi' \in Nat /\ bi' <= Len(blocks')
    BY <1>1, <1>4, <1>5 DEF PrintInv
<1> QED
    BY <1>22, <1>23, <1>24 DEF PrintInv

\* What is printed of a benchmark does not depend on where it is kept.
LEMMA SamePrinted ==
    ASSUME NEW b, NEW r, r.name = b.name, r.iterations = b.iterations, r.result = b.result, NEW view
    PROVE  PrintedLine(b, view) = PrintedLine(r, view)
<1>1. /\ PrintedLine(b, view) = BenchLine(PrintedName(b.name, view), AllParts(view), AllFields(b))
      /\ PrintedLine(r, view) = BenchLine(PrintedName(r.name, view), AllParts(view), AllFields(r))
    BY DEF PrintedLine, PrintedName, AllParts, AllFields, Columns, PrintedParts, PrintedMax, Named
<1>2. AllFields(b) = AllFields(r)
    BY Zenon DEF AllFields
<1> QED
    BY <1>1, <1>2, Zenon

\* A benchmark's line, under the configuration it needs.
LEMMA BenchmarkPrints ==
    ASSUME ParseInv, FirstIs, PrintInv, PrintBenchmark
    PROVE  PrintInv'
<1>1. PICK j : j = k + 1
    OBVIOUS
<1>2. /\ UNCHANGED <<text, bs, lines, first, blocks, bi>> /\ k' = j
      /\ bi > 0 /\ j \in ToSet(blocks[bi].bs)
    BY <1>1 DEF PrintBenchmark, parsing
<1>3. PICK line : line = PrintedLine(bs[j], View(bs[j]))
    OBVIOUS
<1>4. Emit(<<line>>)
    BY <1>1, <1>3 DEF PrintBenchmark
<1>5. PICK G : Forces(G) /\ (Printable => Progress(G))
    BY DEF PrintInv
<1>6. PICK g : g = G[bi]
    OBVIOUS
<1>7. Serves(g, j)
    <2>1. IsSeq(blocks)
        BY <1>5 DEF Forces
    <2>2. bi \in DOMAIN blocks
        BY <1>2, <2>1, AppendIsSeq DEF PrintInv
    <2> QED
        BY <1>2, <1>5, <1>6, <2>2 DEF Forces, BlockIs
<1>8. j \in DOMAIN first /\ j \in DOMAIN bs
    BY <1>7 DEF Serves, FirstIs
<1>9. line = PrintedLine(first[j], first[j].config)
    <2>1. Keeps(first[j], bs[j], lines[j])
        BY <1>8 DEF FirstIs
    <2>2. View(bs[j]) = first[j].config
        BY <1>8, <2>1, ViewIsMeant DEF Keeps
    <2>3. PICK view : view = first[j].config
        OBVIOUS
    <2>4. PICK b : b = bs[j]
        OBVIOUS
    <2>5. PICK r : r = first[j]
        OBVIOUS
    <2>6. r.name = b.name /\ r.iterations = b.iterations /\ r.result = b.result
        BY <2>1, <2>4, <2>5 DEF Keeps
    <2>7. PrintedLine(b, view) = PrintedLine(r, view)
        BY <2>6, SamePrinted
    <2> QED
        BY <1>3, <2>2, <2>3, <2>4, <2>5, <2>7, Zenon
<1>10. line.kind = "bench"
    BY <1>9, PrintedPieces DEF NameIsPrinted
<1>11. Forces(G)'
    BY <1>2, <1>5, PrintKept
<1>12. ASSUME Printable'
       PROVE  Progress(G)'
    <2>1. Printable /\ Progress(G)
        BY <1>2, <1>5, <1>12, FirstStays
    <2>2. open = FALSE /\ Shows(out, Len(out) + 1, g)
          /\ \A i \in ToSet(blocks[bi].bs) : PrettyReturns(first[i].result)
        BY <1>2, <1>6, <2>1 DEF Progress
    <2>3. out' = out \o <<line>>
        BY <1>4, <2>2 DEF Emit
    <2>4. PICK at : PrintedText(out, at, k)
        BY <2>1 DEF Progress
    <2>5. IsSeq(out)
        BY <2>4 DEF PrintedText
    <2>6. IsSeq(<<line>>) /\ Len(<<line>>) = 1 /\ <<line>>[1] = line /\ DOMAIN <<line>> = {1}
        <3>1. <<line>> \in Seq({line}) /\ Len(<<line>>) = 1 /\ <<line>>[1] = line /\ DOMAIN <<line>> = {1}
            OBVIOUS
        <3> QED
            BY <3>1 DEF IsSeq
    <2>7. Puts(<<line>>, g, g)
        BY <1>10, <2>6 DEF Puts
    <2>8. Shows(out', Len(out') + 1, g)
        BY <2>2, <2>3, <2>5, <2>6, <2>7, ShowsAfter
    <2>9. PICK l \in Nat : l = Len(out)
        BY <2>5, BothParts
    <2>10. PICK u : u = out'
        OBVIOUS
    <2>11. Len(u) = l + 1 /\ u[l + 1] = line /\ \A p \in 1..l : u[p] = out[p]
        BY <2>3, <2>5, <2>6, <2>9, <2>10, BothParts
    <2>12. ForBench(u, l + 1, j)
        <3>1. (l + 1) - 1 = l
            OBVIOUS
        <3>2. Shows(out, l + 1, g)
            BY <2>2, <2>9
        <3>3. \A p \in 1..l : u[p].kind = "config" => \E i \in 1..j : SetsBlock(i, u[p].key)
            BY <1>7, <2>11, <3>1, <3>2 DEF Shows, Serves
        <3>4. ASSUME NEW c, SetsBlock(j, c)
              PROVE  LastSays(u, l + 1, c, first[j].config[c].raw)
            <4>1. PICK v : v = first[j].config[c].raw
                OBVIOUS
            <4>2. c \in DOMAIN g /\ g[c] = v
                BY <1>7, <3>4, <4>1 DEF Serves
            <4>3. LastSays(out, l + 1, c, v)
                BY <3>2, <4>2 DEF Shows
            <4>4. LastSays(u, l + 1, c, v)
                BY <2>11, <3>1, <4>3, AboveStays
            <4> QED
                BY <4>1, <4>4
        <3> QED
            BY <3>1, <3>3, <3>4 DEF ForBench
    <2>13. IsPrinted(u, l + 1, j)
        <3>1. l + 1 \in 1..Len(u)
            BY <2>11
        <3>2. PrettyReturns(first[j].result)
            BY <1>2, <2>2
        <3> QED
            BY <1>8, <1>9, <2>11, <2>12, <3>1, <3>2 DEF IsPrinted
    <2>14. \E to : PrintedText(u, to, j)
        BY <1>1, <2>3, <2>4, <2>9, <2>10, <2>13, BenchLinePrinted DEF PrintInv
    <2>15. open' = FALSE
        <3>1. first[j].result # <<>>
            BY <1>8, <2>1 DEF Printable
        <3>2. bs[j].result = first[j].result
            BY <1>8 DEF FirstIs, Keeps
        <3>3. open' = (bs[j].result = <<>>)
            BY <1>1 DEF PrintBenchmark
        <3> QED
            BY <3>1, <3>2, <3>3
    <2>16. PICK to : PrintedText(out, to, k)'
        BY <1>2, <2>10, <2>14, SamePrintedText
    <2>17. Shows(out', Len(out') + 1, G[bi'])
        BY <1>2, <1>6, <2>8
    <2>18. \A i \in ToSet(blocks'[bi'].bs) : PrettyReturns(first'[i].result)
        BY <1>2, <2>2
    <2> QED
        BY <2>15, <2>16, <2>17, <2>18 DEF Progress
<1>13. k' \in Nat /\ bi' \in Nat /\ bi' <= Len(blocks')
    BY <1>1, <1>2 DEF PrintInv
<1> QED
    BY <1>11, <1>12, <1>13 DEF PrintInv

-----------------------------------------------------------------------------
(* Reading what was printed. *)

\* Two ascending sequences of the same numbers are the same.
Ascends(f, n) ==
    /\ \A i \in 1..n : f[i] \in Nat
    /\ \A i, e \in 1..n : i < e => f[i] < f[e]

Within(f, n, g, m) == \A i \in 1..n : \E e \in 1..m : g[e] = f[i]

\* Two ascending enumerations of the same lines are one.
LEMMA SameEnumeration ==
    ASSUME NEW n \in Nat, NEW m \in Nat, NEW f, NEW g,
           Ascends(f, n), Ascends(g, m), Within(f, n, g, m), Within(g, m, f, n)
    PROVE  n = m /\ \A i \in 1..n : f[i] = g[i]
<1> USE DEF Ascends, Within
<1> DEFINE T == {i \in 1..n : ~(i <= m /\ f[i] = g[i])}
<1>1. T = {}
    <2> SUFFICES ASSUME T # {} PROVE FALSE
        OBVIOUS
    <2>1. PICK i \in T : \A y \in T : i <= y
        <3>1. T \in SUBSET Nat
            OBVIOUS
        <3> QED
            BY <3>1, LeastNumber
    <2>2. i \in 1..n /\ ~(i <= m /\ f[i] = g[i])
        OBVIOUS
    <2>3. ASSUME NEW e \in 1..n, e < i PROVE e \in 1..m /\ f[e] = g[e]
        <3>1. e \notin T
            BY <2>1, <2>2, <2>3
        <3> QED
            BY <3>1
    <2>4. PICK e \in 1..m : g[e] = f[i]
        BY <2>2
    <2>5. i <= e
        <3> SUFFICES ASSUME e < i PROVE FALSE
            BY <2>2
        <3>1. e \in 1..n
            BY <2>2
        <3>2. f[e] = g[e]
            BY <2>3, <3>1
        <3>3. f[e] < f[i]
            BY <2>2, <3>1
        <3>4. f[i] \in Nat
            BY <2>2
        <3> QED
            BY <2>4, <3>2, <3>3, <3>4
    <2>6. i \in 1..m
        BY <2>2, <2>5
    <2>7. PICK d \in 1..n : f[d] = g[i]
        BY <2>6
    <2>8. i <= d
        <3> SUFFICES ASSUME d < i PROVE FALSE
            BY <2>2
        <3>1. d \in 1..m /\ f[d] = g[d]
            BY <2>3
        <3>2. g[d] < g[i]
            BY <2>6, <3>1
        <3>3. g[i] \in Nat
            BY <2>6
        <3> QED
            BY <2>7, <3>1, <3>2, <3>3
    <2>9. g[i] <= g[e]
        <3>1. i = e \/ i < e
            BY <2>2, <2>5
        <3>2. g[i] \in Nat /\ g[e] \in Nat
            BY <2>6
        <3> QED
            BY <2>6, <3>1, <3>2
    <2>10. f[i] <= f[d]
        <3>1. i = d \/ i < d
            BY <2>2, <2>8
        <3>2. f[i] \in Nat /\ f[d] \in Nat
            BY <2>2
        <3> QED
            BY <2>2, <3>1, <3>2
    <2>11. f[i] \in Nat /\ g[i] \in Nat
        BY <2>2, <2>6
    <2> QED
        BY <2>2, <2>4, <2>6, <2>7, <2>9, <2>10, <2>11
<1>2. \A i \in 1..n : i <= m /\ f[i] = g[i]
    BY <1>1
<1>3. n <= m
    <2>1. n = 0 \/ n \in 1..n
        OBVIOUS
    <2> QED
        BY <1>2, <2>1
<1>4. m <= n
    <2> SUFFICES ASSUME n < m PROVE FALSE
        OBVIOUS
    <2>1. m \in 1..m
        OBVIOUS
    <2>2. PICK i \in 1..n : f[i] = g[m]
        BY <2>1
    <2>3. i \in 1..m /\ i < m /\ f[i] = g[i]
        BY <1>2
    <2>4. g[i] < g[m] /\ g[m] \in Nat
        BY <2>1, <2>3
    <2> QED
        BY <2>2, <2>3, <2>4
<1> QED
    BY <1>2, <1>3, <1>4

\* The last line of a key is there if any is.
LEMMA LastAboveIs ==
    ASSUME NEW n \in Nat, NEW c, NEW p \in 1..(n - 1), SetsKey(text, p, c)
    PROVE  IsLast(text, n, LastAbove(n, c), c)
<1> DEFINE S == {j \in ConfigAbove(n) : text[j].key = c}
<1>1. \A q : q \in S <=> q \in 1..(n - 1) /\ SetsKey(text, q, c)
    BY DEF ConfigAbove, SetsKey
<1> HIDE DEF S
<1>2. \E x \in S : \A y \in S : x >= y
    <2> DEFINE T == {d \in Nat : d <= n /\ n - d \in S}
    <2>1. n - p \in T
        BY <1>1
    <2>2. PICK d \in T : \A y \in T : d <= y
        <3>1. T \in SUBSET Nat /\ T # {}
            BY <2>1
        <3> QED
            BY <3>1, LeastNumber
    <2>3. n - d \in S
        OBVIOUS
    <2>4. ASSUME NEW y \in S PROVE n - d >= y
        <3>1. n - y \in T
            BY <1>1
        <3>2. d <= n - y
            BY <2>2, <3>1
        <3>3. y \in Nat /\ d \in Nat
            BY <1>1
        <3> QED
            BY <3>2, <3>3
    <2> QED
        BY <2>3, <2>4
<1>3. LastAbove(n, c) = Max(S)
    BY DEF LastAbove, S
<1>4. Max(S) \in S /\ \A y \in S : Max(S) >= y
    BY <1>2 DEF Max
<1>5. PICK x \in S : x = LastAbove(n, c) /\ \A y \in S : x >= y
    BY <1>3, <1>4
<1>6. x \in 1..(n - 1) /\ SetsKey(text, x, c)
    BY <1>1
<1>7. ASSUME NEW q \in 1..(n - 1), SetsKey(text, q, c) PROVE q <= x
    BY <1>1, <1>5, <1>6, <1>7
<1> QED
    BY <1>5, <1>6, <1>7 DEF IsLast

\* The line of a benchmark reads as the benchmark.
LEMMA PrintedReads ==
    ASSUME NEW j \in DOMAIN first, GoodRead(first[j]), Printable,
           NEW line, line = PrintedLine(first[j], first[j].config)
    PROVE  /\ IsBenchmark(line) /\ ReadsAs(line, first[j].name, first[j].config)
           /\ Head(line.fields) = first[j].iterations
           /\ \A r \in Results(Tail(line.fields)) :
                r = Rounded(first[j].result)
<1>1. PICK b : b = first[j]
    OBVIOUS
<1>2. PICK view : view = b.config
    OBVIOUS
<1>3. PICK name : name = b.name
    OBVIOUS
<1>4. PICK result : result = b.result
    OBVIOUS
<1>5. /\ OfKeys(view) /\ IsInt(b.iterations) /\ b.iterations[2] > 0
      /\ \E N : name \in Seq(N)
      /\ name # <<>>
      /\ name[1] \notin {None, Word("x")} \/ (name = <<None>> /\ Shown(view) = {})
      /\ IsResult(result)
    BY <1>1, <1>2, <1>3, <1>4 DEF GoodRead
<1>6. result # <<>> /\ ~LooksShort(b) /\ ~LooksNamed(b)
    BY <1>1, <1>4 DEF Printable
<1>7. ASSUME Shown(view) \subseteq {GOMAXPROCS}
      PROVE  NoParts(b)
    BY <1>2, <1>7 DEF NoParts, InName, Shown, Named
<1>8. Shown(view) = {} => ~(Len(name) > 1 /\ IsInt(Last(name)))
    <2> SUFFICES ASSUME Shown(view) = {}, Len(name) > 1, IsInt(Last(name)) PROVE FALSE
        OBVIOUS
    <2>1. NoParts(b)
        BY <1>7
    <2>2. InName(b, GOMAXPROCS) => view[GOMAXPROCS].raw = Num(1000)
        BY <1>2 DEF InName, Shown, Named
    <2> QED
        BY <1>2, <1>3, <1>6, <2>1, <2>2 DEF LooksShort
<1>9. Shown(view) = {GOMAXPROCS} => IsInt(view[GOMAXPROCS].raw)
    <2> SUFFICES ASSUME Shown(view) = {GOMAXPROCS}, ~IsInt(view[GOMAXPROCS].raw) PROVE FALSE
        OBVIOUS
    <2>1. NoParts(b)
        BY <1>7
    <2>2. InName(b, GOMAXPROCS)
        BY <1>2 DEF InName, Shown, Named
    <2> QED
        BY <1>2, <1>6, <2>1, <2>2 DEF LooksNamed
<1>10. Readable(name, view)
    BY <1>5, <1>8, <1>9 DEF Readable
<1>11. line = PrintedLine(b, view)
    BY <1>1, <1>2
<1>12. NameIsPrinted(line, name, view)
    BY <1>3, <1>11, PrintedPieces
<1>13. line.kind = "bench" /\ ReadsAs(line, name, view)
    BY <1>5, <1>10, <1>12, PrintedNameReads
<1>14. DOMAIN result \subseteq ToSet(Units) /\ DOMAIN result # {}
    BY <1>5, <1>6 DEF IsResult
<1>15. PICK U : Units \in Seq(U)
    BY FilesAssumption
<1>16. /\ line.fields # <<>> /\ Head(line.fields) = b.iterations
       /\ Results(Tail(line.fields)) = {Rounded(result)}
    BY <1>4, <1>11, <1>14, <1>15, PrintedFieldsRead, Zenon
<1>17. Results(Tail(line.fields)) # {}
    BY <1>16
<1>18. IsBenchmark(line)
    BY <1>5, <1>13, <1>16, <1>17 DEF IsBenchmark, ReadsAs
<1>19. \A r \in Results(Tail(line.fields)) : r = Rounded(result)
    BY <1>16, Zenon
<1> QED
    BY <1>1, <1>2, <1>3, <1>4, <1>13, <1>16, <1>18, <1>19, Zenon

\* The text gives a benchmark the configuration it had.
LEMMA MeantAgain ==
    ASSUME GoodFirst, Printable, NEW j \in DOMAIN first, NEW n \in Nat, ForBench(text, n, j),
           Own(text[n]) = Raws(first[j].config, Shown(first[j].config))
    PROVE  Meant(n) = first[j].config
<1>1. PICK view : view = first[j].config
    OBVIOUS
<1>2. PICK meant : meant = Meant(n)
    OBVIOUS
<1>3. PICK own : own = Own(text[n])
    OBVIOUS
<1>4. IsMeant(meant, n) /\ IsMap(meant)
    BY <1>2, MeantIs
<1>5. Entries(view) /\ OfKeys(view) /\ GOMAXPROCS \in DOMAIN view /\ j \in Nat
    BY <1>1 DEF GoodFirst, GoodRead
<1>6. DOMAIN own = Shown(view) /\ \A c \in Shown(view) : own[c] = view[c].raw
    <2>1. own = Raws(view, Shown(view))
        BY <1>1, <1>3
    <2>2. PICK S : S = Shown(view)
        OBVIOUS
    <2>3. own = [c \in S |-> view[c].raw]
        BY <2>1, <2>2 DEF Raws
    <2> QED
        BY <2>2, <2>3
<1>7. ASSUME NEW c \in DOMAIN view
      PROVE  c \in Shown(view) <=> ~view[c].inBlock /\ (c = GOMAXPROCS => view[c].raw # Num(1000))
    BY DEF Shown, Named
<1>8. ASSUME NEW c \in KeysAbove(n)
      PROVE  /\ c \in DOMAIN view
             /\ \E i \in 1..j : SetsBlock(i, c)
    <2>1. PICK p \in 1..(n - 1) : text[p].kind = "config" /\ c = text[p].key
        BY DEF KeysAbove, ConfigAbove
    <2>2. PICK i \in 1..j : SetsBlock(i, c)
        BY <2>1 DEF ForBench
    <2>3. CASE i = j
        BY <1>1, <2>2, <2>3 DEF SetsBlock, InBlock
    <2>4. CASE i # j
        <3>1. i < j /\ i \in DOMAIN first
            BY <1>5, <2>2, <2>4 DEF SetsBlock
        <3>2. c \in ToSet(Keys)
            BY <2>2, <3>1 DEF GoodFirst, GoodRead, OfKeys, SetsBlock, InBlock
        <3> QED
            BY <1>1, <2>2, <3>1, <3>2 DEF GoodFirst
    <2> QED
        BY <2>2, <2>3, <2>4
<1>9. ASSUME NEW c \in DOMAIN view, view[c].inBlock
      PROVE  c \in KeysAbove(n) /\ text[LastAbove(n, c)].raw = view[c].raw
    <2>1. SetsBlock(j, c)
        BY <1>1, <1>9 DEF SetsBlock, InBlock
    <2>2. PICK v : v = view[c].raw
        OBVIOUS
    <2>3. LastSays(text, n, c, v)
        BY <1>1, <2>1, <2>2 DEF ForBench
    <2>4. PICK p \in 1..(n - 1) : SetsKey(text, p, c)
        BY <2>3 DEF LastSays
    <2>5. IsLast(text, n, LastAbove(n, c), c)
        BY <2>4, LastAboveIs
    <2>6. text[LastAbove(n, c)].raw = v
        BY <2>3, <2>5 DEF LastSays
    <2>7. c \in KeysAbove(n)
        BY <2>4 DEF KeysAbove, ConfigAbove, SetsKey
    <2> QED
        BY <2>2, <2>6, <2>7
<1>10. ASSUME NEW c \in KeysAbove(n), ~view[c].inBlock
       PROVE  c \in Shown(view)
    <2> SUFFICES ASSUME c \notin Shown(view) PROVE FALSE
        OBVIOUS
    <2>1. c \in DOMAIN view /\ c = GOMAXPROCS /\ view[c].raw = Num(1000)
        BY <1>7, <1>8, <1>10
    <2>2. PICK i \in 1..j : SetsBlock(i, c)
        BY <1>8
    <2>3. i # j
        BY <1>1, <1>10, <2>2 DEF SetsBlock, InBlock
    <2>4. i \in 1..(j - 1)
        BY <1>5, <2>3
    <2>5. first[i].config[GOMAXPROCS].inBlock
        BY <2>1, <2>2 DEF SetsBlock, InBlock
    <2>6. HidesBlock(j)
        BY <1>1, <1>10, <2>1, <2>4, <2>5 DEF HidesBlock, InName
    <2> QED
        BY <2>6 DEF Printable
<1>11. DOMAIN meant = DOMAIN view
    <2>1. ASSUME NEW c \in DOMAIN meant PROVE c \in DOMAIN view
        <3>1. c \in DOMAIN own \/ c \in KeysAbove(n) \/ c = GOMAXPROCS
            BY <1>3, <1>4, <2>1, MeantCases
        <3>2. c \in Shown(view) => c \in DOMAIN view
            BY DEF Shown, Named
        <3> QED
            BY <1>5, <1>6, <1>8, <3>1, <3>2
    <2>2. ASSUME NEW c \in DOMAIN view PROVE c \in DOMAIN meant
        <3>1. c \in Shown(view) \/ c \in KeysAbove(n) \/ c = GOMAXPROCS
            BY <1>7, <1>9, <2>2
        <3>2. c \in DOMAIN own \/ c \in KeysAbove(n) \/ c = GOMAXPROCS
            BY <1>6, <3>1
        <3> QED
            BY <1>3, <1>4, <3>2, MeantCases
    <2> QED
        BY <2>1, <2>2
<1>12. ASSUME NEW c \in DOMAIN view
       PROVE  meant[c] = view[c]
    <2>1. PICK raw : raw = view[c].raw
        OBVIOUS
    <2>2. view[c] = InLine(raw) \/ view[c] = InAbove(raw)
        BY <1>5, <2>1 DEF Entries
    <2>3. view[c] = InLine(raw) => ~view[c].inBlock
        BY SaidParts
    <2>4. view[c] = InAbove(raw) => view[c].inBlock
        BY SaidParts
    <2>5. CASE c \in Shown(view)
        <3>1. view[c] = InLine(raw)
            BY <1>7, <2>2, <2>4, <2>5
        <3>2. PICK mine : mine = own[c]
            OBVIOUS
        <3>3. c \in DOMAIN own /\ mine = raw
            <4>1. \A d \in Shown(view) : own[d] = view[d].raw
                BY <1>6, Zenon
            <4>2. own[c] = view[c].raw
                BY <2>5, <4>1, Zenon
            <4>3. DOMAIN own = Shown(view)
                BY <1>6, Zenon
            <4>4. c \in DOMAIN own
                BY <2>5, <4>3
            <4> QED
                BY <2>1, <3>2, <4>2, <4>4, Zenon
        <3>4. meant[c] = InLine(mine)
            <4>1. c \in DOMAIN Own(text[n]) /\ mine = Own(text[n])[c]
                BY <1>3, <3>2, <3>3
            <4>2. meant[c] = InLine(Own(text[n])[c])
                BY <1>4, <4>1, MeantCases
            <4> QED
                BY <4>1, <4>2
        <3> QED
            BY <3>1, <3>3, <3>4
    <2>6. CASE c \notin Shown(view) /\ c \in KeysAbove(n)
        <3>1. view[c].inBlock
            BY <1>10, <2>6
        <3>2. view[c] = InAbove(raw)
            BY <2>2, <2>3, <3>1
        <3>3. PICK above : above = text[LastAbove(n, c)].raw
            OBVIOUS
        <3>4. above = raw
            BY <1>9, <2>1, <3>1, <3>3
        <3>5. c \notin DOMAIN Own(text[n])
            BY <1>3, <1>6, <2>6
        <3>6. meant[c] = InAbove(above)
            BY <1>4, <2>6, <3>3, <3>5, MeantCases
        <3> QED
            BY <3>2, <3>4, <3>6
    <2>7. CASE c \notin Shown(view) /\ c \notin KeysAbove(n)
        <3>1. ~view[c].inBlock
            BY <1>9, <2>7
        <3>2. c = GOMAXPROCS /\ raw = Num(1000)
            BY <1>7, <2>1, <2>7, <3>1
        <3>3. view[c] = InLine(raw)
            BY <2>2, <2>4, <3>1
        <3>4. c \notin DOMAIN Own(text[n])
            BY <1>3, <1>6, <2>7
        <3>5. meant[c] = InLine(Num(1000))
            BY <1>4, <2>7, <3>2, <3>4, MeantCases
        <3> QED
            BY <3>2, <3>3, <3>5
    <2> QED
        BY <2>5, <2>6, <2>7
<1>13. IsMap(view)
    BY <1>5 DEF Entries
<1>14. meant = view
    BY <1>4, <1>11, <1>12, <1>13 DEF IsMap
<1> QED
    BY <1>1, <1>2, <1>14

-----------------------------------------------------------------------------
(***************************************************************************)
(* The invariant: nothing is printed before the first parse ends, then the *)
(* blocks are made, then printed, and the second parse reads that text.    *)
(***************************************************************************)
Unsplit == k = 0 /\ lastConfig = <<>> /\ blocks = <<>>

RoundInv ==
    /\ (pc = "parse" /\ round = 1) => Unsplit /\ Unprinted
    /\ pc = "values" => round = 1 /\ FirstIs /\ GoodFirst /\ Unsplit /\ Unprinted
    /\ pc = "split" => round = 1 /\ FirstIs /\ GoodFirst /\ SplitInv /\ Unprinted
    /\ pc = "print" => round = 1 /\ FirstIs /\ GoodFirst /\ PrintInv
    /\ round = 2 =>
         /\ pc \in {"parse", "failed", "done"} /\ GoodFirst
         /\ Printable => \E at, m : DOMAIN first = 1..m /\ PrintedText(text, at, m)
    /\ pc = "done" => round = 2 /\ li = Len(text)

\* At the end of the second parse.
LEMMA TripEnds == ParseInv /\ LinesInv /\ RoundInv => RoundTrip
<1> SUFFICES ASSUME ParseInv, LinesInv, RoundInv, pc = "done", Printable
    PROVE  /\ DOMAIN bs = DOMAIN first
           /\ \A j \in DOMAIN bs :
                /\ [Read(bs[j]) EXCEPT !.result = <<>>] = [first[j] EXCEPT !.result = <<>>]
                /\ Rounds(Read(bs[j]).result, first[j].result)
    BY DEF RoundTrip
<1>1. GoodFirst /\ li = Len(text) /\ \E at, m : DOMAIN first = 1..m /\ PrintedText(text, at, m)
    BY DEF RoundInv
<1>2. PICK at : \E m : DOMAIN first = 1..m /\ PrintedText(text, at, m)
    BY <1>1
<1>3. PICK m \in Nat : DOMAIN first = 1..m /\ PrintedText(text, at, m)
    <2>1. PICK l \in Nat : DOMAIN first = 1..l
        BY <1>1 DEF GoodFirst
    <2>2. PICK m : DOMAIN first = 1..m /\ PrintedText(text, at, m)
        BY <1>2
    <2>3. PrintedText(text, at, l)
        <3>1. \A i : i \in 1..l <=> i \in 1..m
            BY <2>1, <2>2
        <3> QED
            BY <2>2, <3>1 DEF PrintedText
    <2> QED
        BY <2>1, <2>3
<1>4. PICK n \in Nat : DOMAIN bs = 1..n
    <2>1. IsSeq(bs)
        BY DEF ParseInv, BsInv
    <2> QED
        BY <2>1, AppendIsSeq
<1>5. PICK len \in Nat : len = Len(text)
    BY <1>3, AppendIsSeq DEF PrintedText
<1>6. ASSUME NEW j \in 1..m
      PROVE  /\ at[j] \in 1..len /\ text[at[j]] = PrintedLine(first[j], first[j].config)
             /\ PrettyReturns(first[j].result) /\ ForBench(text, at[j], j)
    BY <1>3, <1>5 DEF PrintedText, IsPrinted
<1>7. ASSUME NEW j \in 1..m
      PROVE  /\ IsBenchmark(text[at[j]]) /\ ReadsAs(text[at[j]], first[j].name, first[j].config)
             /\ Head(text[at[j]].fields) = first[j].iterations
             /\ \A r \in Results(Tail(text[at[j]].fields)) : r = Rounded(first[j].result)
    <2>1. GoodRead(first[j]) /\ j \in DOMAIN first
        BY <1>1, <1>3 DEF GoodFirst
    <2>2. PICK line : line = text[at[j]]
        OBVIOUS
    <2>3. line = PrintedLine(first[j], first[j].config)
        BY <1>6, <2>2
    <2> QED
        BY <2>1, <2>2, <2>3, PrintedReads
<1>8. \A j \in 1..n : lines[j] \in 1..len
    BY <1>1, <1>4, <1>5, LineOfEach
<1>9. n = m /\ \A j \in 1..n : lines[j] = at[j]
    <2>1. \A j \in 1..n : lines[j] \in Nat
        BY <1>8
    <2>2. \A j \in 1..m : at[j] \in Nat
        BY <1>6
    <2>3. \A i, e \in 1..n : i < e => lines[i] < lines[e]
        BY <1>4 DEF LinesInv
    <2>4. \A i, e \in 1..m : i < e => at[i] < at[e]
        BY <1>3 DEF PrintedText
    <2>5. ASSUME NEW i \in 1..n PROVE \E e \in 1..m : at[e] = lines[i]
        <3>1. text[lines[i]].kind = "bench"
            BY <1>4 DEF LinesInv, ReadAt, IsBenchmark
        <3> QED
            BY <1>3, <1>5, <1>8, <3>1 DEF PrintedText
    <2>6. ASSUME NEW e \in 1..m PROVE \E i \in 1..n : lines[i] = at[e]
        <3>1. PICK p \in 1..len : p = at[e]
            BY <1>6
        <3>2. IsBenchmark(text[p])
            BY <1>7, <3>1
        <3>3. \A q \in 1..li : IsBenchmark(text[q]) => \E i \in DOMAIN bs : lines[i] = q
            BY DEF LinesInv
        <3>4. p \in 1..li
            BY <1>1, <1>5
        <3>5. PICK i \in DOMAIN bs : lines[i] = p
            BY <3>2, <3>3, <3>4
        <3> QED
            BY <1>4, <3>1, <3>5
    <2> QED
        <3>1. Ascends(lines, n)
            BY <2>1, <2>3 DEF Ascends
        <3>2. Ascends(at, m)
            BY <2>2, <2>4 DEF Ascends
        <3>3. Within(lines, n, at, m) /\ Within(at, m, lines, n)
            BY <2>5, <2>6 DEF Within
        <3> QED
            BY <3>1, <3>2, <3>3, SameEnumeration
<1>10. ASSUME NEW j \in DOMAIN bs
       PROVE  /\ [Read(bs[j]) EXCEPT !.result = <<>>] = [first[j] EXCEPT !.result = <<>>]
              /\ Rounds(Read(bs[j]).result, first[j].result)
    <2>1. j \in 1..m /\ j \in DOMAIN first /\ lines[j] = at[j]
        BY <1>3, <1>4, <1>9
    <2>2. PICK p \in 1..len : p = at[j]
        BY <1>6, <2>1
    <2>3. PICK line : line = text[p]
        OBVIOUS
    <2>4. PICK b : b = bs[j]
        OBVIOUS
    <2>5. PICK was : was = first[j]
        OBVIOUS
    <2>6. ReadAt(b, line)
        BY <2>1, <2>2, <2>3, <2>4 DEF LinesInv
    <2>7. /\ Name(line) = was.name /\ Own(line) = Raws(was.config, Shown(was.config))
          /\ Head(line.fields) = was.iterations
          /\ \A r \in Results(Tail(line.fields)) : r = Rounded(was.result)
        BY <1>7, <2>1, <2>2, <2>3, <2>5 DEF ReadsAs
    <2>8. b.name = was.name /\ b.iterations = was.iterations /\ b.result = Rounded(was.result)
        BY <2>6, <2>7 DEF ReadAt
    <2>9. View(b) = was.config
        <3>1. View(b) = Meant(p)
            BY <2>1, <2>2, <2>4, ViewIsMeant
        <3>2. ForBench(text, p, j) /\ Own(text[p]) = Raws(first[j].config, Shown(first[j].config))
            BY <1>6, <2>1, <2>2, <2>3, <2>5, <2>7
        <3>3. Meant(p) = first[j].config
            BY <1>1, <2>1, <3>2, MeantAgain
        <3> QED
            BY <2>5, <3>1, <3>3
    <2>10. GoodRead(was)
        BY <1>1, <2>1, <2>5 DEF GoodFirst
    <2>11. was = [name |-> was.name, iterations |-> was.iterations,
                  config |-> was.config, result |-> was.result]
        BY <2>10 DEF GoodRead
    <2>12. PICK r : r = Read(b)
        OBVIOUS
    <2>13. r = [name |-> was.name, iterations |-> was.iterations,
                config |-> was.config, result |-> Rounded(was.result)]
        BY <2>8, <2>9, <2>12 DEF Read
    <2>14. [r EXCEPT !.result = <<>>] = [was EXCEPT !.result = <<>>]
        BY <2>11, <2>13
    <2>15. r.result = Rounded(was.result)
        BY <2>13
    <2>16. Rounds(r.result, was.result)
        <3>1. PICK result : result = was.result
            OBVIOUS
        <3>2. PICK read : read = Rounded(result)
            OBVIOUS
        <3>3. DOMAIN read = DOMAIN result /\ \A u \in DOMAIN result : read[u] = Pretty(result[u])
            BY <3>2 DEF Rounded
        <3>4. (\A u \in DOMAIN result : result[u] \in Int) /\ PrettyReturns(result)
            BY <1>6, <2>1, <2>5, <2>10, <3>1 DEF GoodRead, IsResult
        <3>5. ASSUME NEW u \in DOMAIN result
              PROVE  200 * (read[u] - result[u]) \in -result[u]..result[u]
            <4>1. PICK q \in Int : q = result[u]
                BY <3>4
            <4>2. Precisions(q) # {}
                BY <3>4, <4>1 DEF PrettyReturns
            <4>3. Pretty(q) \in Int /\ 200 * (Pretty(q) - q) \in (-q)..q
                BY <4>2, PrettyIs
            <4>4. read[u] = Pretty(q)
                BY <3>3, <4>1
            <4> QED
                BY <4>1, <4>3, <4>4
        <3>6. Rounds(read, result)
            BY <3>3, <3>5 DEF Rounds
        <3> QED
            BY <2>15, <3>1, <3>2, <3>6
    <2> QED
        BY <2>4, <2>5, <2>12, <2>14, <2>16
<1>11. DOMAIN bs = DOMAIN first
    BY <1>3, <1>4, <1>9
<1> QED
    BY <1>10, <1>11

\* What the second parse is to find does not change.
LEMMA SecondStays ==
    ASSUME first' = first
    PROVE  (GoodFirst => GoodFirst') /\ (Printable' <=> Printable)
<1>1. \A j, c : SetsBlock(j, c)' <=> SetsBlock(j, c)
    BY DEF SetsBlock
<1>2. GoodFirst => GoodFirst'
    BY <1>1 DEF GoodFirst
<1>3. Printable' <=> Printable
    BY DEF Printable, HidesBlock
<1> QED
    BY <1>2, <1>3

\* Nor does the text it reads.
LEMMA SecondText ==
    ASSUME first' = first, text' = text, NEW at, NEW m,
           DOMAIN first = 1..m, PrintedText(text, at, m)
    PROVE  (DOMAIN first = 1..m /\ PrintedText(text, at, m))'
BY Zenon DEF PrintedText, IsPrinted, ForBench, SetsBlock

\* Nothing is split or printed as long as those variables stay.
LEMMA SameUnprinted ==
    ASSUME UNCHANGED printing
    PROVE  (Unsplit => Unsplit') /\ (Unprinted => Unprinted')
BY DEF printing, Unsplit, Unprinted

\* What the second parse starts from.
Second ==
    /\ GoodFirst
    /\ Printable => \E at, m : DOMAIN first = 1..m /\ PrintedText(text, at, m)

\* It stays.
LEMMA SecondKept ==
    ASSUME Second, first' = first, text' = text
    PROVE  Second'
<1>1. GoodFirst' /\ (Printable' <=> Printable)
    BY SecondStays DEF Second
<1>2. ASSUME Printable'
      PROVE  \E at, m : (DOMAIN first = 1..m /\ PrintedText(text, at, m))'
    <2>1. PICK at, m : DOMAIN first = 1..m /\ PrintedText(text, at, m)
        BY <1>1, <1>2 DEF Second
    <2>2. (DOMAIN first = 1..m /\ PrintedText(text, at, m))'
        BY <2>1, SecondText
    <2> QED
        BY <2>2
<1> QED
    BY <1>1, <1>2 DEF Second

\* A line is read, or the parse fails.
LEMMA ReadingRounds ==
    ASSUME RoundInv, pc = "parse", UNCHANGED <<text, round, printing, first>>,
           pc' = "parse" \/ pc' = "failed"
    PROVE  RoundInv'
<1>1. round = 1 => Unsplit' /\ Unprinted'
    BY SameUnprinted DEF RoundInv
<1>2. round = 2 => Second
    BY DEF RoundInv, Second
<1>3. round = 2 => Second'
    BY <1>2, SecondKept
<1> QED
    BY <1>1, <1>3 DEF RoundInv, Second

\* A parse ends: the first leaves its benchmarks, the second the round trip.
LEMMA ParsedRounds ==
    ASSUME ParseInv, ValuesInv, LinesInv, RoundInv, round \in {1, 2}, Parsed
    PROVE  RoundInv'
<1>1. pc = "parse" /\ li = Len(text) /\ UNCHANGED <<text, round, li, printing>>
    BY DEF Parsed, parsing
<1>2. CASE round = 1
    <2>1. text \in Files /\ li <= Len(text) /\ pc' = "values"
        BY <1>2 DEF ValuesInv, Parsed
    <2>2. FirstIs' /\ GoodFirst'
        BY <1>2, <2>1, ParsedKeeps
    <2>3. Unsplit' /\ Unprinted'
        BY <1>1, <1>2, SameUnprinted DEF RoundInv
    <2> QED
        BY <1>1, <1>2, <2>1, <2>2, <2>3 DEF RoundInv
<1>3. CASE round = 2
    <2>1. first' = first /\ pc' = "done"
        BY <1>3 DEF Parsed
    <2>2. Second
        BY <1>3 DEF RoundInv, Second
    <2>3. Second'
        BY <1>1, <2>1, <2>2, SecondKept
    <2> QED
        BY <1>1, <1>3, <2>1, <2>3 DEF RoundInv, Second
<1> QED
    BY <1>2, <1>3

\* ParseValues changes no benchmark, only the values of its configuration.
LEMMA ValuesRound ==
    ASSUME RoundInv, pc = "values", pc' = "values", UNCHANGED <<parsing, printing, first>>
    PROVE  RoundInv'
<1>1. UNCHANGED <<text, round, bs, lines, first>>
    BY DEF parsing
<1>2. FirstIs' /\ GoodFirst' /\ Unsplit' /\ Unprinted' /\ round = 1
    BY <1>1, FirstStays, SameUnprinted DEF RoundInv
<1> QED
    BY <1>1, <1>2 DEF RoundInv

\* Before the first benchmark is split no block is there and nothing is in force.
LEMMA SplitStarts ==
    ASSUME Unsplit, IsSeq(bs)
    PROVE  SplitInv
<1>1. PICK G : G = [i \in {0} |-> <<>>]
    OBVIOUS
<1>2. G[0] = <<>> /\ IsSeq(<<>>) /\ Len(<<>>) = 0 /\ DOMAIN <<>> = {}
    BY <1>1, EmptyIsSeq
<1>3. Forces(G) /\ SameMap(lastConfig, G[Len(blocks)])
    BY <1>2 DEF Forces, SameMap, Unsplit
<1>4. k \in Nat /\ k <= Len(bs)
    <2>1. Len(bs) \in Nat
        BY AppendIsSeq
    <2> QED
        BY <2>1 DEF Unsplit
<1> QED
    BY <1>2, <1>3, <1>4 DEF SplitInv, Unsplit

\* The blocks stay.
LEMMA SplitStays ==
    ASSUME UNCHANGED <<text, bs, lines, first, blocks, k, lastConfig>>
    PROVE  SplitInv => SplitInv'
<1>1. \A G : Forces(G)' <=> Forces(G)
    BY PrintKept
<1> QED
    BY <1>1 DEF SplitInv, SetsBlock

\* ParseValues returns.
LEMMA ValuesParsedRounds ==
    ASSUME ParseInv, RoundInv, ValuesParsed
    PROVE  RoundInv'
<1>1. pc = "values" /\ pc' = "split" /\ UNCHANGED <<text, round, bs, lines, first, printing>>
    BY DEF ValuesParsed, parsing
<1>2. FirstIs' /\ GoodFirst' /\ Unprinted' /\ round = 1 /\ Unsplit
    BY <1>1, FirstStays, SameUnprinted DEF RoundInv
<1>3. SplitInv
    BY <1>2, SplitStarts DEF ParseInv, BsInv
<1>4. SplitInv'
    BY <1>1, <1>3, SplitStays DEF printing
<1> QED
    BY <1>1, <1>2, <1>4 DEF RoundInv

\* A benchmark is split, or all are.
LEMMA SplitRounds ==
    ASSUME ParseInv, RoundInv, Split \/ Splitted
    PROVE  RoundInv'
<1>1. /\ pc = "split" /\ UNCHANGED <<text, round, bs, lines, first, bi, out, open>>
      /\ (Split /\ pc' = "split") \/ (Splitted /\ pc' = "print")
    BY DEF Split, Splitted, parsing
<1>2. FirstIs /\ GoodFirst /\ SplitInv /\ Unprinted /\ round = 1
    BY <1>1 DEF RoundInv
<1>3. FirstIs' /\ GoodFirst' /\ Unprinted' /\ round' = 1
    BY <1>1, <1>2, FirstStays DEF Unprinted
<1>4. CASE Split /\ pc' = "split"
    BY <1>2, <1>3, <1>4, SplitForces DEF RoundInv
<1>5. CASE Splitted /\ pc' = "print"
    BY <1>2, <1>3, <1>5, PrintingStarts DEF RoundInv
<1> QED
    BY <1>1, <1>4, <1>5

\* A block or a benchmark is printed, or it fails.
LEMMA PrintRounds ==
    ASSUME ParseInv, RoundInv, PrintHeader \/ PrintBenchmark \/ WriteFails
    PROVE  RoundInv'
<1>1. pc = "print" /\ UNCHANGED <<text, round, bs, lines, first>>
    BY DEF PrintHeader, PrintBenchmark, WriteFails, parsing
<1>2. FirstIs /\ GoodFirst /\ PrintInv /\ round = 1
    BY <1>1 DEF RoundInv
<1>3. FirstIs' /\ GoodFirst' /\ round' = 1
    BY <1>1, <1>2, FirstStays
<1>4. CASE WriteFails \/ (PrintHeader /\ pc' # "print")
    <2>1. pc' = "failed" \/ pc' = "loops"
        BY <1>4 DEF WriteFails, PrintHeader
    <2> QED
        BY <1>3, <2>1 DEF RoundInv
<1>5. CASE PrintHeader /\ pc' = "print"
    BY <1>2, <1>3, <1>5, HeaderPrints DEF RoundInv
<1>6. CASE PrintBenchmark
    <2>1. pc' = "print"
        BY <1>1, <1>6 DEF PrintBenchmark
    <2> QED
        BY <1>2, <1>3, <1>6, <2>1, BenchmarkPrints DEF RoundInv
<1> QED
    BY <1>4, <1>5, <1>6

\* All is printed, and parsed again.
LEMMA PrintedRounds ==
    ASSUME ParseInv, RoundInv, Printed
    PROVE  RoundInv'
<1>1. /\ pc = "print" /\ k = Len(bs) /\ pc' = "parse" /\ round' = 2
      /\ text' = out /\ first' = first
    BY DEF Printed
<1>2. FirstIs /\ GoodFirst /\ PrintInv
    BY <1>1 DEF RoundInv
<1>3. DOMAIN first = 1..k
    <2>1. IsSeq(bs)
        BY DEF ParseInv, BsInv
    <2> QED
        BY <1>1, <1>2, <2>1, AppendIsSeq DEF FirstIs
<1>4. ASSUME Printable'
      PROVE  \E at, m : (DOMAIN first = 1..m /\ PrintedText(text, at, m))'
    <2>1. Printable
        BY <1>1, <1>4, SecondStays
    <2>2. PICK at : PrintedText(out, at, k)
        BY <1>2, <2>1 DEF PrintInv, Progress
    <2>3. PICK m : m = k
        OBVIOUS
    <2>4. PrintedText(text', at, m)
        BY <1>1, <2>2, <2>3
    <2>5. PrintedText(text, at, m)'
        BY <1>1, <2>4, Zenon DEF PrintedText, IsPrinted, ForBench, SetsBlock
    <2> QED
        BY <1>1, <1>3, <2>3, <2>5
<1>5. GoodFirst'
    BY <1>1, <1>2, SecondStays
<1> QED
    BY <1>1, <1>4, <1>5 DEF RoundInv

\* Nothing happens.
LEMMA StutterRounds ==
    ASSUME RoundInv, UNCHANGED vars
    PROVE  RoundInv'
<1>1. UNCHANGED <<text, bs, lines, first, blocks, printing, pc, round, li, k, bi, lastConfig, out, open>>
    BY DEF vars, parsing, printing
<1>2. (FirstIs => FirstIs') /\ (GoodFirst => GoodFirst')
    BY <1>1, FirstStays
<1>3. (Unsplit => Unsplit') /\ (Unprinted => Unprinted')
    BY <1>1, SameUnprinted
<1>4. SplitInv => SplitInv'
    BY <1>1, SplitStays
<1>5. PrintInv => PrintInv'
    <2>1. \A G : Forces(G)' <=> Forces(G)
        BY <1>1, PrintKept
    <2>2. \A G : Progress(G) => Progress(G)'
        BY <1>1, SamePrintedText DEF Progress
    <2>3. Printable' <=> Printable
        BY <1>1, FirstStays
    <2> QED
        BY <1>1, <2>1, <2>2, <2>3 DEF PrintInv
<1>6. Second => Second'
    BY <1>1, SecondKept
<1> QED
    BY <1>1, <1>2, <1>3, <1>4, <1>5, <1>6 DEF RoundInv, Second

\* The invariant, whole.
TripInv == ParseInv /\ ValuesInv /\ LinesInv /\ RoundInv /\ round \in {1, 2}

\* Every step keeps it.
LEMMA RoundInvNext == TripInv /\ [Next]_vars => RoundInv' /\ round' \in {1, 2}
<1> SUFFICES ASSUME TripInv, [Next]_vars PROVE RoundInv' /\ round' \in {1, 2}
    OBVIOUS
<1> USE DEF TripInv
<1>1. CASE SkipLine \/ ConfigLineRead \/ BenchLineRead \/ ReadFails
    <2>1. pc = "parse" /\ UNCHANGED <<text, round, printing, first>> /\ (pc' = "parse" \/ pc' = "failed")
        BY <1>1 DEF SkipLine, ConfigLineRead, BenchLineRead, NextLine, ReadFails
    <2> QED
        BY <2>1, ReadingRounds
<1>2. CASE Parsed
    BY <1>2, ParsedRounds DEF Parsed, parsing
<1>3. CASE (\E c \in todo : NextKey(c)) \/ TryParser \/ FallBack
    <2>1. pc = "values" /\ pc' = "values" /\ UNCHANGED <<parsing, printing, first>>
        BY <1>3 DEF NextKey, TryParser, FallBack
    <2> QED
        BY <2>1, ValuesRound DEF parsing
<1>4. CASE ValuesParsed
    BY <1>4, ValuesParsedRounds DEF ValuesParsed, parsing
<1>5. CASE Split \/ Splitted
    BY <1>5, SplitRounds DEF Split, Splitted, parsing
<1>6. CASE PrintHeader \/ PrintBenchmark \/ WriteFails
    BY <1>6, PrintRounds DEF PrintHeader, PrintBenchmark, WriteFails, parsing
<1>7. CASE Printed
    BY <1>7, PrintedRounds DEF Printed
<1>8. CASE Ended \/ UNCHANGED vars
    BY <1>8, StutterRounds DEF Ended, vars, parsing
<1> QED
    BY <1>1, <1>2, <1>3, <1>4, <1>5, <1>6, <1>7, <1>8 DEF Next, Parse, ParseValues, Fprint

\* It holds at the start.
LEMMA TripInvInit == Init => TripInv
<1> SUFFICES ASSUME Init PROVE TripInv
    OBVIOUS
<1>1. ParseInv
    BY ParseInvInit
<1>2. ValuesInv
    BY ValuesInvInit
<1>3. LinesInv
    <2>1. DOMAIN <<>> = {} /\ 1..0 = {}
        BY EmptyIsSeq
    <2> QED
        BY <2>1 DEF Init, LinesInv
<1>4. RoundInv /\ round \in {1, 2}
    <2>1. Unsplit /\ Unprinted
        BY Zenon DEF Init, Unsplit, Unprinted
    <2>2. pc = "parse" /\ round = 1
        BY DEF Init
    <2> QED
        BY <2>1, <2>2 DEF RoundInv
<1> QED
    BY <1>1, <1>2, <1>3, <1>4 DEF TripInv

(***************************************************************************)
(* What Fprint prints, Parse reads back (print.go, parse.go): whatever the *)
(* files, the keys and the order of the units, the second parse has the    *)
(* benchmarks of the first, in order, with their configuration and their   *)
(* results rounded by pretty, unless one of the four exceptions occurs.    *)
(***************************************************************************)
THEOREM RoundTrips == Spec => []RoundTrip
<1>1. Init => TripInv
    BY TripInvInit
<1>2. TripInv /\ [Next]_vars => TripInv'
    BY ParseInvNext, ValuesInvNext, LinesInvNext, RoundInvNext DEF TripInv
<1>3. TripInv => RoundTrip
    BY TripEnds DEF TripInv
<1> QED
    BY <1>1, <1>2, <1>3, PTL DEF Spec
=============================================================================
