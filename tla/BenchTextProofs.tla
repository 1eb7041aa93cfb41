-------------------------- MODULE BenchTextProofs --------------------------
(***************************************************************************)
(* Lemmas about the text of benchmark results: sets in order, sequences    *)
(* and pairs, maps put over others, and what the recursion of Results      *)
(* reads.  The theorems about the runner, the parser and the printer rest  *)
(* on them.                                                                *)
(***************************************************************************)
EXTENDS BenchText, FiniteSetTheorems, TLAPS

IsSeq(s) == \E S : s \in Seq(S)

LEMMA EmptyIsSeq == IsSeq(<<>>) /\ Len(<<>>) = 0 /\ DOMAIN <<>> = {}
<1>1. <<>> \in Seq({})
    OBVIOUS
<1> QED
    BY <1>1 DEF IsSeq

LEMMA AppendIsSeq ==
    ASSUME NEW s, IsSeq(s), NEW e
    PROVE  /\ IsSeq(Append(s, e)) /\ Len(s) \in Nat /\ Len(Append(s, e)) = Len(s) + 1
           /\ DOMAIN s = 1..Len(s) /\ DOMAIN Append(s, e) = 1..(Len(s) + 1)
           /\ \A j \in DOMAIN s : Append(s, e)[j] = s[j]
           /\ Append(s, e)[Len(s) + 1] = e
<1>1. PICK S : s \in Seq(S)
    BY DEF IsSeq
<1> DEFINE T == S \cup {e}
<1>2. s \in Seq(T) /\ e \in T
    <2>1. \A j \in 1..Len(s) : s[j] \in T
        BY <1>1
    <2> QED
        BY <1>1, <2>1
<1> HIDE DEF T
<1> QED
    BY <1>2 DEF IsSeq

\* What the type of a sequence says of it.
LEMMA SeqIs ==
    ASSUME NEW K, NEW s \in Seq(K)
    PROVE  Len(s) \in Nat /\ DOMAIN s = 1..Len(s) /\ (\A p \in DOMAIN s : s[p] \in K)
           /\ (s # <<>> => Len(s) \in DOMAIN s)
<1>1. Len(s) \in Nat /\ DOMAIN s = 1..Len(s) /\ (\A p \in DOMAIN s : s[p] \in K)
    OBVIOUS
<1>2. s # <<>> => Len(s) # 0
    OBVIOUS
<1> QED
    BY <1>1, <1>2

LEMMA LastIs ==
    ASSUME NEW K, NEW s \in Seq(K), s # <<>>
    PROVE  Len(s) \in Nat \ {0} /\ Last(s) = s[Len(s)] /\ s[Len(s)] \in K
BY DEF Last

\* A set of numbers has a least one.
LEMMA LeastNumber ==
    ASSUME NEW T \in SUBSET Nat, T # {}
    PROVE  \E x \in T : \A y \in T : x <= y
<1> DEFINE R == {ss \in Nat \X Nat : ss[1] < ss[2]}
<1>1. IsWellFoundedOn(R, Nat)
    BY NatLessThanWellFounded DEF OpToRel
<1>2. PICK x \in T : \A y \in T : <<y, x>> \notin R
    BY <1>1, WFMin
<1>3. ASSUME NEW y \in T PROVE x <= y
    <2>1. x \in Nat /\ y \in Nat /\ <<y, x>> \notin R
        BY <1>2
    <2> QED
        BY <2>1
<1> QED
    BY <1>3

\* InOrder lists a finite set of numbers, each once, in ascending order.
LEMMA InOrderIs ==
    ASSUME NEW S \in SUBSET Int, IsFiniteSet(S)
    PROVE  \E n \in Nat :
             /\ n = Cardinality(S)
             /\ InOrder(S) \in [1..n -> S]
             /\ \A i, j \in 1..n : i < j => InOrder(S)[i] < InOrder(S)[j]
             /\ \A x \in S : \E i \in 1..n : InOrder(S)[i] = x
<1> DEFINE Upto(x) == {y \in S : y <= x}
           rank == [x \in S |-> Cardinality(Upto(x))]
<1>1. PICK n \in Nat : n = Cardinality(S)
    BY FS_CardinalityType
<1>2. ASSUME NEW x \in S
      PROVE  /\ Upto(x) \in SUBSET S /\ IsFiniteSet(Upto(x)) /\ x \in Upto(x)
             /\ rank[x] = Cardinality(Upto(x)) /\ rank[x] \in 1..n
    <2>1. Upto(x) \in SUBSET S /\ x \in Upto(x)
        OBVIOUS
    <2>2. IsFiniteSet(Upto(x)) /\ Cardinality(Upto(x)) <= n
        BY <1>1, <2>1, FS_Subset
    <2>3. Cardinality(Upto(x)) \in Nat /\ Cardinality(Upto(x)) # 0
        BY <2>1, <2>2, FS_CardinalityType, FS_EmptySet
    <2>4. rank[x] = Cardinality(Upto(x))
        OBVIOUS
    <2> HIDE DEF Upto, rank
    <2> QED
        BY <2>1, <2>2, <2>3, <2>4
<1>3. ASSUME NEW x \in S, NEW z \in S, x < z
      PROVE  rank[x] < rank[z]
    <2>0. ~(z <= x) /\ \A y \in S : y <= x => y <= z
        BY <1>3
    <2>1. Upto(x) \in SUBSET Upto(z) /\ z \notin Upto(x)
        BY <2>0, Zenon
    <2>2. IsFiniteSet(Upto(z)) /\ z \in Upto(z)
        BY <1>2
    <2>3. Cardinality(Upto(x)) <= Cardinality(Upto(z)) /\ Cardinality(Upto(z)) # Cardinality(Upto(x))
        BY <2>1, <2>2, FS_Subset
    <2>4. rank[x] = Cardinality(Upto(x)) /\ rank[z] = Cardinality(Upto(z))
          /\ rank[x] \in 1..n /\ rank[z] \in 1..n
        BY <1>2
    <2> HIDE DEF Upto, rank
    <2> QED
        BY <2>3, <2>4
<1>4. rank \in [S -> 1..n]
    BY <1>2
<1> HIDE DEF Upto, rank
<1>5. \A x, z \in S : rank[x] = rank[z] => x = z
    <2> SUFFICES ASSUME NEW x \in S, NEW z \in S, rank[x] = rank[z], x # z PROVE FALSE
        OBVIOUS
    <2>1. x < z \/ z < x
        OBVIOUS
    <2>2. rank[x] \in 1..n /\ rank[z] \in 1..n
        BY <1>4
    <2> QED
        BY <1>3, <2>1, <2>2
<1>6. rank \in Surjection(S, 1..n)
    <2>1. rank \in Injection(S, 1..n)
        BY <1>4, <1>5 DEF Injection, IsInjective
    <2>2. IsFiniteSet(1..n) /\ Cardinality(1..n) = n
        BY FS_Interval
    <2> QED
        BY <1>1, <2>1, <2>2, FS_Injection
<1>7. \A i \in 1..n : \E x \in S : rank[x] = i
    BY <1>6 DEF Surjection
<1>8. InOrder(S) = [i \in 1..n |-> CHOOSE x \in S : rank[x] = i]
    <2>1. InOrder(S) = [i \in 1..n |-> CHOOSE x \in S : Cardinality(Upto(x)) = i]
        BY <1>1 DEF InOrder, Upto
    <2>2. \A i : (CHOOSE x \in S : Cardinality(Upto(x)) = i) = (CHOOSE x \in S : rank[x] = i)
        BY <1>2
    <2> QED
        BY <2>1, <2>2
<1>9. \A i \in 1..n : InOrder(S)[i] \in S /\ rank[InOrder(S)[i]] = i
    BY <1>7, <1>8
<1>10. InOrder(S) \in [1..n -> S]
    BY <1>8, <1>9
<1>11. ASSUME NEW i \in 1..n, NEW j \in 1..n, i < j
       PROVE  InOrder(S)[i] < InOrder(S)[j]
    <2>1. PICK x \in S, z \in S : x = InOrder(S)[i] /\ z = InOrder(S)[j] /\ rank[x] = i /\ rank[z] = j
        BY <1>9
    <2>2. x # z /\ ~(z < x)
        BY <1>3, <1>11, <2>1
    <2> QED
        BY <2>1, <2>2
<1>12. ASSUME NEW x \in S PROVE \E i \in 1..n : InOrder(S)[i] = x
    <2>1. PICK i \in 1..n : i = rank[x]
        BY <1>4
    <2>2. InOrder(S)[i] \in S /\ rank[InOrder(S)[i]] = rank[x]
        BY <1>9, <2>1
    <2> QED
        BY <1>5, <2>2
<1> QED
    BY <1>1, <1>10, <1>11, <1>12

\* The elements of the pairs, two by two.
LEMMA PairsAre ==
    ASSUME NEW n \in Nat, NEW s, DOMAIN s = 1..n, Len(s) = n
    PROVE  /\ DOMAIN Pairs(s) = 1..(2 * n) /\ Len(Pairs(s)) = 2 * n
           /\ \A j \in 1..n : /\ 2 * j - 1 \in 1..(2 * n) /\ 2 * j \in 1..(2 * n)
                              /\ Pairs(s)[2 * j - 1] = s[j][1] /\ Pairs(s)[2 * j] = s[j][2]
           /\ Pairs(s) = [i \in 1..(2 * n) |-> Pairs(s)[i]]
<1>1. Pairs(s) = [i \in 1..(2 * n) |-> s[(i + 1) \div 2][2 - (i % 2)]]
    BY DEF Pairs
<1>2. ASSUME NEW j \in 1..n
      PROVE  /\ 2 * j - 1 \in 1..(2 * n) /\ 2 * j \in 1..(2 * n)
             /\ ((2 * j - 1) + 1) \div 2 = j /\ (2 * j + 1) \div 2 = j
             /\ 2 - ((2 * j - 1) % 2) = 1 /\ 2 - ((2 * j) % 2) = 2
    OBVIOUS
<1>3. DOMAIN Pairs(s) = 1..(2 * n) /\ Pairs(s) = [i \in 1..(2 * n) |-> Pairs(s)[i]]
    BY <1>1
<1>4. Len(Pairs(s)) = 2 * n
    <2>1. 2 * n \in Nat
        OBVIOUS
    <2> QED
        BY <1>1, <2>1
<1>5. ASSUME NEW j \in 1..n
      PROVE  Pairs(s)[2 * j - 1] = s[j][1] /\ Pairs(s)[2 * j] = s[j][2]
    <2>1. Pairs(s)[2 * j - 1] = s[((2 * j - 1) + 1) \div 2][2 - ((2 * j - 1) % 2)]
        BY <1>1, <1>2, Zenon
    <2>2. Pairs(s)[2 * j] = s[(2 * j + 1) \div 2][2 - ((2 * j) % 2)]
        BY <1>1, <1>2, Zenon
    <2> QED
        BY <1>2, <2>1, <2>2, Zenon
<1> QED
    BY <1>2, <1>3, <1>4, <1>5, Zenon

\* One sequence after another.
IsConcat(u, s, n, t, m) ==
    /\ DOMAIN u = 1..(n + m)
    /\ \A i \in 1..n : u[i] = s[i]
    /\ \A i \in 1..m : u[n + i] = t[i]

LEMMA ConcatIs ==
    ASSUME NEW K, NEW s \in Seq(K), NEW t \in Seq(K)
    PROVE  /\ s \o t \in Seq(K) /\ Len(s \o t) = Len(s) + Len(t)
           /\ IsConcat(s \o t, s, Len(s), t, Len(t))
<1>1. PICK n \in Nat : n = Len(s)
    OBVIOUS
<1>2. PICK m \in Nat : m = Len(t)
    OBVIOUS
<1>3. s \o t \in Seq(K) /\ Len(s \o t) = n + m /\ DOMAIN (s \o t) = 1..(n + m)
    BY <1>1, <1>2
<1>4. \A i \in 1..n : (s \o t)[i] = s[i]
    BY <1>1, <1>2
<1>5. ASSUME NEW i \in 1..m PROVE (s \o t)[n + i] = t[i]
    <2>1. n + i \in 1..(n + m) /\ n + i > n /\ (n + i) - n = i
        OBVIOUS
    <2> QED
        BY <1>1, <1>2, <2>1
<1> QED
    BY <1>1, <1>2, <1>3, <1>4, <1>5 DEF IsConcat

LEMMA FunctionIsSeq ==
    ASSUME NEW h, NEW n \in Nat, h = [i \in 1..n |-> h[i]]
    PROVE  h \in Seq({h[i] : i \in 1..n})
<1>1. PICK K : K = {h[i] : i \in 1..n}
    OBVIOUS
<1>2. \A i \in 1..n : h[i] \in K
    BY <1>1
<1>3. PICK g : g = [i \in 1..n |-> h[i]]
    OBVIOUS
<1>4. g \in [1..n -> K]
    BY <1>2, <1>3
<1>5. g \in Seq(K)
    BY <1>4
<1> QED
    BY <1>1, <1>3, <1>5

-----------------------------------------------------------------------------
(* Results. *)

\* One step of the reading of results, from the back.
ReadFrom(fields, g, i) ==
    IF i > Len(fields) THEN {<<>>}
    ELSE IF ~IsFloat(fields[i]) THEN g[i + 1]
    ELSE IF i = Len(fields) THEN {}
    ELSE {Over(r, [u \in {fields[i + 1]} |-> fields[i][2]]) : r \in g[i + 2]}

\* g reads the last k fields, and is a function.
ReadsLast(fields, g, k) ==
    \A i \in 1..(Len(fields) + 2) : Len(fields) + 2 - i < k => g[i] = ReadFrom(fields, g, i)

IsReading(fields, g) == g = [i \in 1..(Len(fields) + 2) |-> g[i]]

LEMMA ReadsSame ==
    ASSUME NEW fields, Len(fields) \in Nat, NEW g, NEW h, NEW i \in Nat,
           \A j \in 1..(Len(fields) + 2) : j > i => h[j] = g[j]
    PROVE  ReadFrom(fields, h, i) = ReadFrom(fields, g, i)
<1>1. PICK n \in Nat : n = Len(fields)
    OBVIOUS
<1>2. CASE i > n
    BY <1>1, <1>2 DEF ReadFrom
<1>3. CASE ~(i > n)
    <2>1. i + 1 \in 1..(n + 2) /\ i + 2 \in 1..(n + 2) /\ i + 1 > i /\ i + 2 > i
        BY <1>3
    <2>2. h[i + 1] = g[i + 1] /\ h[i + 2] = g[i + 2]
        BY <1>1, <2>1
    <2> QED
        BY <2>2, Zenon DEF ReadFrom
<1> QED
    BY <1>2, <1>3

\* The recursion of Results is well founded, so what it defines satisfies it.
LEMMA ResultsRead ==
    ASSUME NEW fields, Len(fields) \in Nat
    PROVE  \E R : /\ \A i \in 1..(Len(fields) + 2) : R[i] = ReadFrom(fields, R, i)
                  /\ Results(fields) = IF fields = <<>> THEN {} ELSE R[1]
<1>1. PICK n \in Nat : n = Len(fields) + 2
    OBVIOUS
<1> DEFINE ReadsUpto(k) == \E g : IsReading(fields, g) /\ ReadsLast(fields, g, k)
           T == {k \in Nat : ~ReadsUpto(k)}
<1>2. ReadsUpto(0)
    <2>1. PICK g : g = [i \in 1..(Len(fields) + 2) |-> {}]
        OBVIOUS
    <2>2. IsReading(fields, g)
        BY <2>1 DEF IsReading
    <2>3. ReadsLast(fields, g, 0)
        BY DEF ReadsLast
    <2> QED
        BY <2>2, <2>3
<1>3. ASSUME NEW k \in Nat, ReadsUpto(k) PROVE ReadsUpto(k + 1)
    <2>1. PICK g : IsReading(fields, g) /\ ReadsLast(fields, g, k)
        BY <1>3
    <2>2. PICK i \in Int : i = n - k
        BY <1>1
    <2>3. PICK h : h = [j \in 1..(Len(fields) + 2) |-> IF j = i THEN ReadFrom(fields, g, i) ELSE g[j]]
        OBVIOUS
    <2>4. IsReading(fields, h)
        BY <2>3 DEF IsReading
    <2>5. ASSUME NEW j \in 1..(Len(fields) + 2), Len(fields) + 2 - j < k + 1
          PROVE  h[j] = ReadFrom(fields, h, j)
        <3>1. j >= i
            BY <1>1, <2>2, <2>5
        <3>2. \A l \in 1..(Len(fields) + 2) : l > j => h[l] = g[l]
            BY <2>2, <2>3, <3>1
        <3>3. ReadFrom(fields, h, j) = ReadFrom(fields, g, j)
            BY <3>2, ReadsSame
        <3>4. CASE j = i
            BY <2>3, <3>3, <3>4
        <3>5. CASE j # i
            <4>1. Len(fields) + 2 - j < k
                BY <1>1, <2>2, <3>1, <3>5
            <4>2. g[j] = ReadFrom(fields, g, j)
                BY <2>1, <4>1 DEF ReadsLast
            <4>3. h[j] = g[j]
                BY <2>3, <3>5
            <4> QED
                BY <3>3, <4>2, <4>3
        <3> QED
            BY <3>4, <3>5
    <2>6. ReadsLast(fields, h, k + 1)
        BY <2>5 DEF ReadsLast
    <2> QED
        BY <2>4, <2>6
<1>4. \A k \in Nat : ReadsUpto(k)
    <2> HIDE DEF ReadsUpto
    <2> SUFFICES ASSUME T # {} PROVE FALSE
        OBVIOUS
    <2>1. PICK k \in T : \A y \in T : k <= y
        BY LeastNumber
    <2>2. k # 0
        BY <1>2
    <2>3. PICK l \in Nat : k = l + 1
        BY <2>2
    <2>4. l \notin T
        BY <2>1, <2>3
    <2>5. ReadsUpto(l)
        BY <2>4
    <2>6. ReadsUpto(k)
        BY <1>3, <2>3, <2>5
    <2> QED
        BY <2>6
<1>5. PICK g : IsReading(fields, g) /\ ReadsLast(fields, g, n)
    BY <1>4
<1>6. \A i \in 1..(Len(fields) + 2) : g[i] = ReadFrom(fields, g, i)
    BY <1>1, <1>5 DEF ReadsLast
<1>7. g = [i \in 1..(Len(fields) + 2) |-> ReadFrom(fields, g, i)]
    <2>1. [i \in 1..(Len(fields) + 2) |-> g[i]] = [i \in 1..(Len(fields) + 2) |-> ReadFrom(fields, g, i)]
        BY <1>6, Zenon
    <2> QED
        BY <1>5, <2>1, Zenon DEF IsReading
<1>8. PICK R : R = CHOOSE r : r = [i \in 1..(Len(fields) + 2) |-> ReadFrom(fields, r, i)]
    OBVIOUS
<1>9. R = [i \in 1..(Len(fields) + 2) |-> ReadFrom(fields, R, i)]
    BY <1>7, <1>8, Zenon
<1>10. \A i \in 1..(Len(fields) + 2) : R[i] = ReadFrom(fields, R, i)
    BY <1>9, Zenon
<1>11. Results(fields) = IF fields = <<>> THEN {} ELSE R[1]
    <2>1. fields = <<>> => Results(fields) = {}
        BY Zenon DEF Results
    <2>2. fields # <<>> => Results(fields) = R[1]
        BY <1>8, Zenon DEF Results, ReadFrom
    <2> QED
        BY <2>1, <2>2, Zenon
<1> QED
    BY <1>10, <1>11

\* Numbers and units that alternate are results.
LEMMA ResultsInFields ==
    ASSUME NEW fields, NEW n \in Nat \ {0}, Len(fields) = 2 * n, fields # <<>>,
           \A j \in 1..n : IsFloat(fields[2 * j - 1])
    PROVE  Results(fields) # {}
<1>1. PICK R : /\ \A i \in 1..(Len(fields) + 2) : R[i] = ReadFrom(fields, R, i)
               /\ Results(fields) = IF fields = <<>> THEN {} ELSE R[1]
    BY ResultsRead
<1> DEFINE T == {d \in Nat : d <= n /\ R[2 * (n - d) + 1] = {}}
<1>2. T = {}
    <2> SUFFICES ASSUME T # {} PROVE FALSE
        OBVIOUS
    <2>1. PICK d \in T : \A y \in T : d <= y
        BY LeastNumber
    <2>2. d \in Nat /\ d <= n /\ R[2 * (n - d) + 1] = {}
        OBVIOUS
    <2>3. PICK i \in 1..(Len(fields) + 2) : i = 2 * (n - d) + 1
        BY <2>2
    <2>4. R[i] = ReadFrom(fields, R, i) /\ R[i] = {}
        BY <1>1, <2>2, <2>3
    <2>5. CASE d = 0
        <3>1. i > Len(fields)
            BY <2>3, <2>5
        <3>2. R[i] = {<<>>}
            BY <2>4, <3>1, Zenon DEF ReadFrom
        <3> QED
            BY <2>4, <3>2, Zenon
    <2>6. CASE d # 0
        <3>1. PICK j \in 1..n : j = n - d + 1
            BY <2>2, <2>6
        <3>2. i = 2 * j - 1 /\ ~(i > Len(fields)) /\ i # Len(fields)
            BY <2>3, <3>1
        <3>3. IsFloat(fields[i])
            BY <3>2
        <3>4. R[i] = {Over(r, [u \in {fields[i + 1]} |-> fields[i][2]]) : r \in R[i + 2]}
            BY <2>4, <3>2, <3>3, Zenon DEF ReadFrom
        <3>5. R[i + 2] = {}
            BY <2>4, <3>4, Zenon
        <3>6. PICK c \in Nat : c = d - 1 /\ c <= n
            BY <2>2, <2>6
        <3>7. i + 2 = 2 * (n - c) + 1
            BY <2>2, <2>3, <3>6
        <3>8. c \in T
            BY <3>5, <3>6, <3>7
        <3>9. d <= c
            BY <2>1, <3>8, Zenon
        <3> QED
            BY <2>2, <3>6, <3>9
    <2> QED
        BY <2>5, <2>6
<1>3. R[1] # {}
    <2>1. n \notin T
        BY <1>2
    <2>2. 2 * (n - n) + 1 = 1
        OBVIOUS
    <2> QED
        BY <2>1, <2>2
<1> QED
    BY <1>1, <1>3

-----------------------------------------------------------------------------
(* Maps. *)

LEMMA OverMap ==
    ASSUME NEW f, NEW g
    PROVE  DOMAIN Over(f, g) = DOMAIN f \cup DOMAIN g
BY DEF Over

\* Two maps put over others are the same if they agree everywhere.
LEMMA OverSame ==
    ASSUME NEW f, NEW g, NEW a, NEW b, NEW D,
           DOMAIN f \cup DOMAIN g = D, DOMAIN a \cup DOMAIN b = D,
           \A x \in D : (IF x \in DOMAIN f THEN f[x] ELSE g[x]) = IF x \in DOMAIN a THEN a[x] ELSE b[x]
    PROVE  Over(f, g) = Over(a, b)
BY Zenon DEF Over

\* Parts with a key each, and none twice.
DistinctKeys(parts, n) ==
    /\ DOMAIN parts = 1..n
    /\ \A i \in 1..n : parts[i].key # ""
    /\ \A i, j \in 1..n : parts[i].key = parts[j].key => i = j

\* The map from keys to values that the parts spell out.
Maps(own, parts, n) ==
    /\ DOMAIN own = {parts[i].key : i \in 1..n}
    /\ \A i \in 1..n : own[parts[i].key] = parts[i].raw

\* The configuration in a name is that of its parts.
LEMMA OwnOfParts ==
    ASSUME NEW line, ~ShortForm(line), NEW n \in Nat, NEW parts, parts = line.parts,
           DistinctKeys(parts, n)
    PROVE  Maps(Own(line), parts, n)
<1>1. /\ DOMAIN parts = 1..n
      /\ \A i \in 1..n : parts[i].key # ""
      /\ \A i, j \in 1..n : parts[i].key = parts[j].key => i = j
    BY DEF DistinctKeys
<1> DEFINE at(k) == {i \in DOMAIN parts : parts[i].key = k}
<1>2. Own(line) = [k \in {p.key : p \in ToSet(parts)} \ {""} |-> parts[Max(at(k))].raw]
    BY Zenon DEF Own
<1>3. {p.key : p \in ToSet(parts)} \ {""} = {parts[i].key : i \in 1..n}
    BY <1>1 DEF ToSet
<1>4. ASSUME NEW i \in 1..n PROVE Max(at(parts[i].key)) = i
    <2>1. at(parts[i].key) = {i}
        BY <1>1
    <2>2. Max({i}) = i
        BY DEF Max
    <2> QED
        BY <2>1, <2>2
<1>5. Own(line) = [k \in {parts[i].key : i \in 1..n} |-> parts[Max(at(k))].raw]
    BY <1>2, <1>3, Zenon
<1> HIDE DEF at
<1>6. ASSUME NEW i \in 1..n PROVE Own(line)[parts[i].key] = parts[i].raw
    BY <1>4, <1>5
<1> QED
    BY <1>5, <1>6 DEF Maps

-----------------------------------------------------------------------------
(* What Fprint writes. *)

Distinct(s) == \A i, j \in DOMAIN s : s[i] = s[j] => i = j

\* Listed picks the members of a set out of a sequence, and keeps them apart.
LEMMA ListedIs ==
    ASSUME NEW K, NEW s \in Seq(K), NEW S
    PROVE  \E n \in Nat :
             /\ DOMAIN Listed(s, S) = 1..n /\ Listed(s, S) = [i \in 1..n |-> Listed(s, S)[i]]
             /\ \A i \in 1..n : Listed(s, S)[i] \in S /\ Listed(s, S)[i] \in ToSet(s)
             /\ \A x \in ToSet(s) : x \in S => \E i \in 1..n : Listed(s, S)[i] = x
             /\ Distinct(s) => Distinct(Listed(s, S))
<1>1. PICK P : P = {i \in DOMAIN s : s[i] \in S}
    OBVIOUS
<1>2. Len(s) \in Nat /\ DOMAIN s = 1..Len(s)
    OBVIOUS
<1>3. P \in SUBSET Int /\ IsFiniteSet(P)
    <2>1. PICK l \in Nat : l = Len(s)
        BY <1>2
    <2>2. P \in SUBSET (1..l)
        BY <1>1, <1>2, <2>1
    <2>3. IsFiniteSet(1..l)
        BY FS_Interval
    <2>4. IsFiniteSet(P)
        BY <2>2, <2>3, FS_Subset
    <2> QED
        BY <2>2, <2>4
<1>4. PICK n \in Nat :
        /\ InOrder(P) \in [1..n -> P]
        /\ \A i, j \in 1..n : i < j => InOrder(P)[i] < InOrder(P)[j]
        /\ \A x \in P : \E i \in 1..n : InOrder(P)[i] = x
    BY <1>3, InOrderIs
<1>5. PICK p : p = InOrder(P)
    OBVIOUS
<1>6. Listed(s, S) = [i \in 1..n |-> s[p[i]]]
    BY <1>1, <1>4, <1>5 DEF Listed
<1>7. ASSUME NEW i \in 1..n
      PROVE  p[i] \in DOMAIN s /\ s[p[i]] \in S /\ s[p[i]] \in ToSet(s)
    BY <1>1, <1>4, <1>5 DEF ToSet
<1>8. ASSUME NEW x \in ToSet(s), x \in S
      PROVE  \E i \in 1..n : Listed(s, S)[i] = x
    <2>1. PICK q \in P : s[q] = x
        BY <1>1, <1>8 DEF ToSet
    <2>2. PICK i \in 1..n : p[i] = q
        BY <1>4, <1>5
    <2> QED
        BY <1>6, <2>1, <2>2
<1>9. ASSUME Distinct(s),
             NEW i \in 1..n, NEW j \in 1..n, Listed(s, S)[i] = Listed(s, S)[j]
      PROVE  i = j
    <2>1. p[i] = p[j]
        BY <1>6, <1>7, <1>9 DEF Distinct
    <2>2. p[i] \in Int /\ p[j] \in Int
        BY <1>2, <1>7
    <2>3. (i < j => p[i] < p[j]) /\ (j < i => p[j] < p[i])
        BY <1>4, <1>5
    <2> QED
        BY <2>1, <2>2, <2>3
<1>10. Distinct(s) => Distinct(Listed(s, S))
    BY <1>6, <1>9 DEF Distinct
<1> QED
    BY <1>6, <1>7, <1>8, <1>10

\* pretty rounds by at most half a percent, whenever it returns.
LEMMA PrettyIs ==
    ASSUME NEW n \in Int, Precisions(n) # {}
    PROVE  Pretty(n) \in Int /\ 200 * (Pretty(n) - n) \in (-n)..n
<1>1. PICK p \in Precisions(n) : \A q \in Precisions(n) : p <= q
    <2>1. Precisions(n) \in SUBSET Nat
        BY DEF Precisions
    <2> QED
        BY <2>1, LeastNumber
<1>2. Min(Precisions(n)) = p
    <2>1. \A q \in Precisions(n) : q \in Int
        BY DEF Precisions
    <2>2. \A m \in Precisions(n) : (\A q \in Precisions(n) : m <= q) => m = p
        BY <1>1, <2>1
    <2> QED
        BY <1>1, <2>2 DEF Min
<1>3. PICK unit : unit = IF p >= 3 THEN 1 ELSE Tens[4 - p]
    OBVIOUS
<1>4. Pretty(n) = ((n + unit \div 2) \div unit) * unit
    BY <1>2, <1>3 DEF Pretty
<1>5. p \in 0..5 /\ n > 99949 \div Tens[p + 1]
    BY DEF Precisions
<1>6. CASE p >= 3
    <2>1. unit = 1 /\ 1 \div 2 = 0
        BY <1>3, <1>6
    <2>2. Pretty(n) = n
        BY <1>4, <2>1
    <2>3. Tens[p + 1] \in {1000, 10000, 100000}
        BY <1>5, <1>6 DEF Tens
    <2>4. n > 0
        BY <1>5, <2>3
    <2> QED
        BY <2>2, <2>4
<1>7. CASE p = 2
    <2>1. unit = 10 /\ Tens[p + 1] = 100
        BY <1>3, <1>7 DEF Tens
    <2> QED
        BY <1>4, <1>5, <2>1
<1>8. CASE p = 1
    <2>1. unit = 100 /\ Tens[p + 1] = 10
        BY <1>3, <1>8 DEF Tens
    <2> QED
        BY <1>4, <1>5, <2>1
<1>9. CASE p = 0
    <2>1. unit = 1000 /\ Tens[p + 1] = 1
        BY <1>3, <1>9 DEF Tens
    <2> QED
        BY <1>4, <1>5, <2>1
<1> QED
    BY <1>5, <1>6, <1>7, <1>8, <1>9

\* n columns of values and units, and the map from these units to the values.
TheColumns(units, n, val) == [i \in 1..n |-> <<Num(val[units[i]]), units[i]>>]
TheValues(units, n, val) == [u \in {units[i] : i \in 1..n} |-> val[u]]

LEMMA ColumnsRead ==
    ASSUME NEW n \in Nat \ {0}, NEW units, NEW val, NEW columns,
           columns = TheColumns(units, n, val)
    PROVE  Results(Pairs(columns)) = {TheValues(units, n, val)}
<1>0. columns = [i \in 1..n |-> <<Num(val[units[i]]), units[i]>>]
    BY DEF TheColumns
<1>1. PICK fields : fields = Pairs(columns)
    OBVIOUS
<1>2. /\ Len(fields) = 2 * n
      /\ \A j \in 1..n : fields[2 * j - 1] = columns[j][1] /\ fields[2 * j] = columns[j][2]
    <2>1. PICK m \in Nat : m = n
        OBVIOUS
    <2>2. DOMAIN columns = 1..m /\ Len(columns) = m
        BY <1>0, <2>1
    <2>3. /\ Len(Pairs(columns)) = 2 * m
          /\ \A j \in 1..m :
               /\ 2 * j - 1 \in 1..(2 * m) /\ 2 * j \in 1..(2 * m)
               /\ Pairs(columns)[2 * j - 1] = columns[j][1]
               /\ Pairs(columns)[2 * j] = columns[j][2]
        BY <2>2, PairsAre
    <2> QED
        BY <1>1, <2>1, <2>3, Zenon
<1>3. ASSUME NEW j \in 1..n
      PROVE  /\ IsFloat(fields[2 * j - 1]) /\ fields[2 * j - 1][2] = val[units[j]]
             /\ fields[2 * j] = units[j]
    <2>1. columns[j] = <<Num(val[units[j]]), units[j]>>
        BY <1>0
    <2> QED
        BY <1>2, <2>1 DEF Num, IsFloat
<1>4. PICK R : /\ \A i \in 1..(Len(fields) + 2) : R[i] = ReadFrom(fields, R, i)
               /\ Results(fields) = IF fields = <<>> THEN {} ELSE R[1]
    BY <1>2, ResultsRead
<1>5. fields # <<>>
    BY <1>2
<1> DEFINE From(m) == [u \in {units[i] : i \in (m + 1)..n} |-> val[u]]
           T == {d \in Nat : d <= n /\ R[2 * (n - d) + 1] # {From(n - d)}}
<1>6. T = {}
    <2> SUFFICES ASSUME T # {} PROVE FALSE
        OBVIOUS
    <2>1. PICK d \in T : \A y \in T : d <= y
        BY LeastNumber
    <2>2. d \in Nat /\ d <= n /\ R[2 * (n - d) + 1] # {From(n - d)}
        OBVIOUS
    <2>3. PICK i \in 1..(Len(fields) + 2) : i = 2 * (n - d) + 1
        BY <1>2, <2>2
    <2>4. R[i] = ReadFrom(fields, R, i) /\ R[i] # {From(n - d)}
        BY <1>4, <2>2, <2>3
    <2>5. CASE d = 0
        <3>1. i > Len(fields)
            BY <1>2, <2>3, <2>5
        <3>2. R[i] = {<<>>}
            BY <2>4, <3>1, Zenon DEF ReadFrom
        <3>3. (n - d + 1)..n = {}
            BY <2>5
        <3>4. {units[l] : l \in (n - d + 1)..n} = {}
            BY <3>3
        <3>5. [u \in {} |-> val[u]] = <<>>
            OBVIOUS
        <3>6. From(n - d) = <<>>
            BY <3>4, <3>5, Zenon
        <3> QED
            BY <2>4, <3>2, <3>6, Zenon
    <2>6. CASE d # 0
        <3>1. PICK j \in 1..n : j = n - d + 1
            BY <2>2, <2>6
        <3>2. i = 2 * j - 1 /\ i + 1 = 2 * j /\ ~(i > Len(fields)) /\ i # Len(fields)
            BY <1>2, <2>3, <3>1
        <3>3. IsFloat(fields[i]) /\ fields[i][2] = val[units[j]] /\ fields[i + 1] = units[j]
            <4>1. /\ IsFloat(fields[2 * j - 1]) /\ fields[2 * j - 1][2] = val[units[j]]
                  /\ fields[2 * j] = units[j]
                BY <1>3
            <4> QED
                BY <3>2, <4>1, Zenon
        <3>4. R[i] = {Over(r, [u \in {fields[i + 1]} |-> fields[i][2]]) : r \in R[i + 2]}
            BY <2>4, <3>2, <3>3, Zenon DEF ReadFrom
        <3>5. PICK c \in Nat : c = d - 1 /\ c <= n
            BY <2>2, <2>6
        <3>6. i + 2 = 2 * (n - c) + 1 /\ n - c = j /\ n - d = j - 1
            <4>1. n \in Int /\ d \in Int /\ i = 2 * (n - d) + 1
                BY <2>2, <2>3
            <4>2. n - c = j /\ n - d = j - 1
                BY <3>1, <3>5, <4>1
            <4>3. i = 2 * (j - 1) + 1
                BY <4>1, <4>2
            <4>4. i + 2 = 2 * j + 1
                BY <4>3
            <4> QED
                BY <4>2, <4>4, Zenon
        <3>7. c \notin T
            <4> SUFFICES ASSUME c \in T PROVE FALSE
                OBVIOUS
            <4>1. d <= c
                BY <2>1, Zenon
            <4> QED
                BY <2>2, <3>5, <4>1
        <3>8. R[i + 2] = {From(j)}
            BY <3>5, <3>6, <3>7
        <3>9. R[i] = {Over(From(j), [u \in {units[j]} |-> val[units[j]]])}
            <4>1. R[i] = {Over(From(j), [u \in {fields[i + 1]} |-> fields[i][2]])}
                BY <3>4, <3>8, Zenon
            <4> QED
                BY <3>3, <4>1, Zenon
        <3>10. Over(From(j), [u \in {units[j]} |-> val[units[j]]]) = From(j - 1)
            <4>1. (j - 1 + 1)..n = ((j + 1)..n) \cup {j}
                BY <3>1
            <4>2. {units[l] : l \in (j - 1 + 1)..n} = {units[l] : l \in (j + 1)..n} \cup {units[j]}
                BY <4>1, Zenon
            <4> QED
                BY <4>2 DEF Over
        <3> QED
            BY <2>4, <3>6, <3>9, <3>10, Zenon
    <2> QED
        BY <2>5, <2>6
<1>7. R[1] = {From(0)}
    <2>1. n \in Nat /\ n <= n
        OBVIOUS
    <2>2. R[2 * (n - n) + 1] = {From(n - n)}
        BY <1>6, <2>1, Zenon
    <2>3. 2 * (n - n) + 1 = 1 /\ n - n = 0
        OBVIOUS
    <2> QED
        BY <2>2, <2>3, Zenon
<1>8. (0 + 1)..n = 1..n
    OBVIOUS
<1> QED
    BY <1>1, <1>4, <1>5, <1>7, <1>8 DEF TheValues

\* What the printer puts into the name, of the configuration a line itself gives.
Named(view) == {c \in DOMAIN view : ~view[c].inBlock}
Shown(view) == {c \in Named(view) : c = GOMAXPROCS => view[c].raw # Num(1000)}

LEMMA BenchLineParts ==
    ASSUME NEW name, NEW parts, NEW fields, NEW line, line = BenchLine(name, parts, fields)
    PROVE  /\ line.kind = "bench" /\ line.name = name
           /\ line.parts = parts /\ line.fields = fields
BY DEF BenchLine, Blank

\* Own is a map, and in the long form that of its parts.
LEMMA OwnIsMap ==
    ASSUME NEW line
    PROVE  Own(line) = [c \in DOMAIN Own(line) |-> Own(line)[c]]
<1>1. CASE ShortForm(line)
    <2>1. Own(line) = [k \in {GOMAXPROCS} |-> Last(line.name)]
        BY <1>1, Zenon DEF Own
    <2> QED
        BY <2>1
<1>2. CASE ~ShortForm(line)
    <2> DEFINE at(k) == {i \in DOMAIN line.parts : line.parts[i].key = k}
    <2>1. Own(line) = [k \in {p.key : p \in ToSet(line.parts)} \ {""} |-> line.parts[Max(at(k))].raw]
        BY <1>2, Zenon DEF Own
    <2> HIDE DEF at
    <2> QED
        BY <2>1
<1> QED
    BY <1>1, <1>2

LEMMA AppendLast ==
    ASSUME NEW K, NEW s \in Seq(K), s # <<>>, NEW e
    PROVE  LET t == Append(s, e) IN
             Len(t) > 1 /\ t[1] = s[1] /\ Last(t) = e /\ Front(t) = s
<1> DEFINE T == K \cup {e}
           t == Append(s, e)
<1>1. s \in Seq(T) /\ e \in T
    <2>1. Len(s) \in Nat /\ DOMAIN s = 1..Len(s) /\ s = [i \in 1..Len(s) |-> s[i]]
          /\ \A j \in 1..Len(s) : s[j] \in T
        OBVIOUS
    <2> QED
        BY <2>1
<1> HIDE DEF T
<1>2. PICK n \in Nat : n = Len(s) /\ n > 0
    <2>1. Len(s) \in Nat /\ Len(s) # 0
        OBVIOUS
    <2> QED
        BY <2>1
<1>3. /\ t \in Seq(T) /\ Len(t) = n + 1 /\ t[n + 1] = e
      /\ \A i \in 1..n : t[i] = s[i]
    BY <1>1, <1>2
<1>4. Last(t) = e
    BY <1>3 DEF Last
<1>5. Front(t) = [i \in 1..n |-> t[i]]
    <2>1. Front(t) = SubSeq(t, 1, n)
        BY <1>2, <1>3 DEF Front
    <2> HIDE DEF t
    <2> QED
        BY <1>2, <1>3, <2>1
<1>6. s = [i \in 1..n |-> s[i]]
    BY <1>2
<1>7. [i \in 1..n |-> t[i]] = [i \in 1..n |-> s[i]]
    BY <1>3
<1>8. Len(t) > 1 /\ t[1] = s[1]
    BY <1>2, <1>3
<1> QED
    BY <1>4, <1>5, <1>6, <1>7, <1>8

\* The gomaxprocs that a name is given, 1 if the line itself has none.
PrintedMax(view) == IF GOMAXPROCS \in Named(view) THEN view[GOMAXPROCS].raw ELSE Num(1000)

\* The parts that are printed in a name, gomaxprocs apart.
PrintedParts(view) ==
    LET pairs == Listed(Keys, Named(view) \ {GOMAXPROCS})
    IN  [i \in DOMAIN pairs |-> Part(pairs[i], view[pairs[i]].raw)]

LEMMA PartsAre ==
    ASSUME NEW view, DOMAIN view \subseteq ToSet(Keys) \ {""}
    PROVE  \E n \in Nat :
             /\ DistinctKeys(PrintedParts(view), n)
             /\ PrintedParts(view) = [i \in 1..n |-> PrintedParts(view)[i]]
             /\ \A i \in 1..n :
                  /\ PrintedParts(view)[i].key \in Named(view) \ {GOMAXPROCS}
                  /\ PrintedParts(view)[i].raw = view[PrintedParts(view)[i].key].raw
             /\ \A c \in Named(view) \ {GOMAXPROCS} :
                  \E i \in 1..n : PrintedParts(view)[i].key = c
<1>1. PICK S : S = Named(view) \ {GOMAXPROCS}
    OBVIOUS
<1> DEFINE pairs == Listed(Keys, S)
<1>2. PICK K : Keys \in Seq(K) /\ Distinct(Keys)
    BY KeysAssumption DEF Distinct
<1>3. PICK n \in Nat :
        /\ DOMAIN pairs = 1..n /\ pairs = [i \in 1..n |-> pairs[i]]
        /\ \A i \in 1..n : pairs[i] \in S /\ pairs[i] \in ToSet(Keys)
        /\ \A x \in ToSet(Keys) : x \in S => \E i \in 1..n : pairs[i] = x
        /\ Distinct(Keys) => Distinct(pairs)
    BY <1>2, ListedIs
<1>4. PICK parts : parts = PrintedParts(view)
    OBVIOUS
<1>5. parts = [i \in 1..n |-> Part(pairs[i], view[pairs[i]].raw)]
    <2>1. DOMAIN pairs = 1..n
        BY <1>3
    <2> QED
        BY <1>1, <1>4, <2>1, Zenon DEF PrintedParts
<1> HIDE DEF pairs
<1>6. ASSUME NEW i \in 1..n
      PROVE  parts[i].key = pairs[i] /\ parts[i].raw = view[pairs[i]].raw
    BY <1>5 DEF Part
<1>7. S \subseteq ToSet(Keys) \ {""}
    BY <1>1 DEF Named
<1>8. \A i \in 1..n : pairs[i] \in S
    BY <1>3
<1>9. DistinctKeys(parts, n)
    <2>1. DOMAIN parts = 1..n
        BY <1>5
    <2>2. \A i \in 1..n : parts[i].key # ""
        BY <1>6, <1>7, <1>8
    <2>3. \A i, j \in 1..n : pairs[i] = pairs[j] => i = j
        <3>1. Distinct(pairs) /\ DOMAIN pairs = 1..n
            BY <1>2, <1>3
        <3> QED
            BY <3>1 DEF Distinct
    <2>4. \A i, j \in 1..n : parts[i].key = parts[j].key => i = j
        <3> SUFFICES ASSUME NEW i \in 1..n, NEW j \in 1..n, parts[i].key = parts[j].key
                     PROVE  i = j
            OBVIOUS
        <3>1. parts[i].key = pairs[i] /\ parts[j].key = pairs[j]
            BY <1>6
        <3>2. pairs[i] = pairs[j]
            BY <3>1
        <3> QED
            BY <2>3, <3>2, Zenon
    <2> QED
        BY <2>1, <2>2, <2>4 DEF DistinctKeys
<1>10. parts = [i \in 1..n |-> parts[i]]
    <2>1. \A i \in 1..n : parts[i] = Part(pairs[i], view[pairs[i]].raw)
        BY <1>5
    <2>2. [i \in 1..n |-> parts[i]] = [i \in 1..n |-> Part(pairs[i], view[pairs[i]].raw)]
        BY <2>1, Zenon
    <2> QED
        BY <1>5, <2>2, Zenon
<1>11. ASSUME NEW c \in S PROVE \E i \in 1..n : parts[i].key = c
    <2>1. PICK i \in 1..n : pairs[i] = c
        BY <1>3, <1>7
    <2> QED
        BY <1>6, <2>1
<1>12. \A i \in 1..n : parts[i].key \in S /\ parts[i].raw = view[parts[i].key].raw
    BY <1>6, <1>8
<1> QED
    BY <1>1, <1>4, <1>9, <1>10, <1>11, <1>12, Zenon

LEMMA SeqOfDomain ==
    ASSUME NEW s, NEW n \in Nat, \E T : s \in Seq(T), DOMAIN s = 1..n
    PROVE  IsSeq(s) /\ Len(s) = n /\ (s = <<>> <=> n = 0)
<1>1. PICK T : s \in Seq(T)
    OBVIOUS
<1>2. IsSeq(s)
    BY <1>1 DEF IsSeq
<1>3. Len(s) \in Nat /\ DOMAIN s = 1..Len(s)
    BY <1>1
<1>4. PICK l \in Nat : l = Len(s)
    BY <1>3
<1>5. 1..l = 1..n
    BY <1>3, <1>4
<1>6. l = n
    BY <1>5
<1>7. s = <<>> <=> Len(s) = 0
    BY <1>1
<1> QED
    BY <1>2, <1>4, <1>6, <1>7

\* Parts that spell out what a view says of the keys S, each key once.
Spells(parts, n, S, view) ==
    /\ DistinctKeys(parts, n)
    /\ \A i \in 1..n : parts[i].key \in S /\ parts[i].raw = view[parts[i].key].raw
    /\ \A c \in S : \E i \in 1..n : parts[i].key = c

LEMMA PartsSpell ==
    ASSUME NEW view, DOMAIN view \subseteq ToSet(Keys) \ {""}
    PROVE  \E n \in Nat : /\ Spells(PrintedParts(view), n, Named(view) \ {GOMAXPROCS}, view)
                          /\ IsSeq(PrintedParts(view)) /\ Len(PrintedParts(view)) = n
                          /\ (PrintedParts(view) = <<>> <=> n = 0)
<1>1. PICK n \in Nat :
        /\ DistinctKeys(PrintedParts(view), n)
        /\ PrintedParts(view) = [i \in 1..n |-> PrintedParts(view)[i]]
        /\ \A i \in 1..n :
             /\ PrintedParts(view)[i].key \in Named(view) \ {GOMAXPROCS}
             /\ PrintedParts(view)[i].raw = view[PrintedParts(view)[i].key].raw
        /\ \A c \in Named(view) \ {GOMAXPROCS} :
             \E i \in 1..n : PrintedParts(view)[i].key = c
    BY PartsAre
<1>2. PICK parts : parts = PrintedParts(view)
    OBVIOUS
<1>3. PICK S : S = Named(view) \ {GOMAXPROCS}
    OBVIOUS
<1>4. DistinctKeys(parts, n) /\ parts = [i \in 1..n |-> parts[i]]
    BY <1>1, <1>2, Zenon
<1>5. /\ \A i \in 1..n : parts[i].key \in S /\ parts[i].raw = view[parts[i].key].raw
      /\ \A c \in S : \E i \in 1..n : parts[i].key = c
    BY <1>1, <1>2, <1>3, Zenon
<1>6. Spells(parts, n, S, view)
    BY <1>4, <1>5, Zenon DEF Spells
<1>7. \E T : parts \in Seq(T)
    <2>1. parts = [i \in 1..n |-> parts[i]]
        BY <1>4, Zenon
    <2>2. parts \in Seq({parts[i] : i \in 1..n})
        BY <2>1, FunctionIsSeq, Zenon
    <2> QED
        BY <2>2, Zenon
<1>8. DOMAIN parts = 1..n
    <2>1. DistinctKeys(parts, n)
        BY <1>4, Zenon
    <2> QED
        BY <2>1, Zenon DEF DistinctKeys
<1>9. IsSeq(parts) /\ Len(parts) = n /\ (parts = <<>> <=> n = 0)
    BY <1>7, <1>8, SeqOfDomain, Zenon
<1> QED
    BY <1>2, <1>3, <1>6, <1>9, Zenon

LEMMA PartAdded ==
    ASSUME NEW view, NEW n \in Nat, NEW parts, NEW S, GOMAXPROCS \notin S,
           Spells(parts, n, S, view), IsSeq(parts), Len(parts) = n,
           NEW all, all = Append(parts, Part(GOMAXPROCS, view[GOMAXPROCS].raw))
    PROVE  Spells(all, n + 1, S \cup {GOMAXPROCS}, view) /\ all # <<>>
<1>1. PICK last : last = Part(GOMAXPROCS, view[GOMAXPROCS].raw)
    OBVIOUS
<1>2. last.key = GOMAXPROCS /\ last.raw = view[GOMAXPROCS].raw
    BY <1>1 DEF Part
<1>3. /\ DOMAIN all = 1..(n + 1) /\ all[n + 1] = last
      /\ \A i \in 1..n : all[i] = parts[i]
    BY <1>1, AppendIsSeq
<1>4. 1..(n + 1) = (1..n) \cup {n + 1} /\ n + 1 \notin 1..n
    OBVIOUS
<1>5. /\ \A i \in 1..n : parts[i].key # ""
      /\ \A i, j \in 1..n : parts[i].key = parts[j].key => i = j
    BY DEF Spells, DistinctKeys
<1>6. \A i \in 1..n : parts[i].key \in S /\ parts[i].raw = view[parts[i].key].raw
    BY DEF Spells
<1>7. ASSUME NEW i \in 1..n
      PROVE  all[i].key = parts[i].key /\ all[i].raw = view[all[i].key].raw
    <2>1. PICK p : p = parts[i]
        OBVIOUS
    <2>2. PICK q : q = all[i]
        OBVIOUS
    <2>3. q = p
        BY <1>3, <2>1, <2>2
    <2>4. p.raw = view[p.key].raw
        BY <1>6, <2>1
    <2> QED
        BY <2>1, <2>2, <2>3, <2>4, Zenon
<1>8. ASSUME NEW i \in 1..(n + 1) PROVE all[i].key # ""
    <2>1. CASE i \in 1..n
        <3>1. all[i].key = parts[i].key
            BY <1>7, <2>1
        <3>2. parts[i].key # ""
            BY <1>5, <2>1
        <3> QED
            BY <3>1, <3>2, Zenon
    <2>2. CASE i = n + 1
        BY <1>2, <1>3, <2>2 DEF GOMAXPROCS
    <2> QED
        BY <1>4, <2>1, <2>2
<1>9. ASSUME NEW i \in 1..(n + 1), NEW j \in 1..(n + 1), all[i].key = all[j].key
      PROVE  i = j
    <2>1. CASE i \in 1..n /\ j \in 1..n
        <3>1. parts[i].key = parts[j].key
            BY <1>7, <1>9, <2>1
        <3> QED
            BY <1>5, <2>1, <3>1
    <2>2. CASE i = n + 1 /\ j \in 1..n
        BY <1>2, <1>3, <1>6, <1>7, <1>9, <2>2
    <2>3. CASE j = n + 1 /\ i \in 1..n
        BY <1>2, <1>3, <1>6, <1>7, <1>9, <2>3
    <2> QED
        BY <1>4, <2>1, <2>2, <2>3
<1>10. DistinctKeys(all, n + 1)
    BY <1>3, <1>8, <1>9 DEF DistinctKeys
<1>11. ASSUME NEW i \in 1..(n + 1)
       PROVE  all[i].key \in S \cup {GOMAXPROCS} /\ all[i].raw = view[all[i].key].raw
    <2>1. CASE i \in 1..n
        BY <1>6, <1>7, <2>1
    <2>2. CASE i = n + 1
        BY <1>2, <1>3, <2>2
    <2> QED
        BY <1>4, <2>1, <2>2
<1>12. ASSUME NEW c \in S \cup {GOMAXPROCS}
       PROVE  \E i \in 1..(n + 1) : all[i].key = c
    <2>1. CASE c = GOMAXPROCS
        BY <1>2, <1>3, <1>4, <2>1
    <2>2. CASE c \in S
        <3>1. PICK i \in 1..n : parts[i].key = c
            BY <2>2 DEF Spells
        <3>2. all[i].key = c /\ i \in 1..(n + 1)
            BY <1>4, <1>7, <3>1
        <3> QED
            BY <3>2
    <2> QED
        BY <2>1, <2>2
<1>13. all # <<>>
    BY <1>3, EmptyIsSeq
<1> QED
    BY <1>10, <1>11, <1>12, <1>13 DEF Spells

\* The raw values of the keys S.
Raws(view, S) == [c \in S |-> view[c].raw]

\* A line in the long form whose parts spell out S reads as the map of S.
LEMMA SpelledReads ==
    ASSUME NEW line, ~ShortForm(line), NEW n \in Nat, NEW S, NEW view, NEW parts,
           parts = line.parts, Spells(parts, n, S, view)
    PROVE  Own(line) = Raws(view, S)
<1>1. Maps(Own(line), parts, n)
    BY OwnOfParts DEF Spells
<1>2. PICK own : own = Own(line)
    OBVIOUS
<1>3. DOMAIN own = {parts[i].key : i \in 1..n} /\ \A i \in 1..n : own[parts[i].key] = parts[i].raw
    BY <1>1, <1>2 DEF Maps
<1>4. {parts[i].key : i \in 1..n} = S
    BY DEF Spells
<1>5. ASSUME NEW c \in S PROVE own[c] = view[c].raw
    <2>1. PICK i \in 1..n : parts[i].key = c
        BY DEF Spells
    <2>2. PICK p : p = parts[i]
        OBVIOUS
    <2>3. own[p.key] = p.raw
        BY <1>3, <2>2, Zenon
    <2>4. p.raw = view[p.key].raw
        BY <2>2, Zenon DEF Spells
    <2>5. p.key = c
        BY <2>1, <2>2, Zenon
    <2> QED
        BY <2>3, <2>4, <2>5, Zenon
<1>6. own = [c \in S |-> own[c]]
    BY <1>2, <1>3, <1>4, OwnIsMap, Zenon
<1>7. [c \in S |-> own[c]] = [c \in S |-> view[c].raw]
    BY <1>5, Zenon
<1> QED
    BY <1>2, <1>6, <1>7, Zenon DEF Raws

-----------------------------------------------------------------------------
(* What a printed line reads as. *)

\* The pieces of a printed line.
PrintedName(name, view) ==
    IF PrintedParts(view) = <<>> /\ PrintedMax(view) # Num(1000)
    THEN Append(name, PrintedMax(view)) ELSE name

AllParts(view) ==
    IF PrintedParts(view) # <<>> /\ PrintedMax(view) # Num(1000)
    THEN Append(PrintedParts(view), Part(GOMAXPROCS, PrintedMax(view))) ELSE PrintedParts(view)

Columns(result) ==
    LET units == Listed(Units, DOMAIN result)
    IN  [i \in DOMAIN units |-> <<Num(Pretty(result[units[i]])), units[i]>>]

AllFields(b) == <<b.iterations>> \o Pairs(Columns(b.result))

\* A line that has the name and the configuration printed on it.
NameIsPrinted(line, name, view) ==
    line.kind = "bench" /\ line.name = PrintedName(name, view) /\ line.parts = AllParts(view)

LEMMA PrintedPieces ==
    ASSUME NEW b, NEW view, NEW line, line = PrintedLine(b, view)
    PROVE  /\ NameIsPrinted(line, b.name, view)
           /\ line.fields = AllFields(b)
<1>1. line = BenchLine(PrintedName(b.name, view), AllParts(view), AllFields(b))
    BY DEF PrintedLine, PrintedName, AllParts, AllFields, Columns, PrintedParts, PrintedMax, Named
<1>2. /\ line.kind = "bench" /\ line.name = PrintedName(b.name, view)
      /\ line.parts = AllParts(view) /\ line.fields = AllFields(b)
    BY <1>1 DEF BenchLine, Blank
<1> QED
    BY <1>2, Zenon DEF NameIsPrinted

\* A configuration of nothing but keys.
OfKeys(view) == DOMAIN view \subseteq ToSet(Keys) \ {""}

\* A name that can be told from what follows it.
Readable(name, view) ==
    /\ \E N : name \in Seq(N)
    /\ name # <<>>
    /\ name[1] \notin {None, Word("x")} \/ (name = <<None>> /\ Shown(view) = {})
    /\ Shown(view) = {} => ~(Len(name) > 1 /\ IsInt(Last(name)))
    /\ Shown(view) = {GOMAXPROCS} => IsInt(view[GOMAXPROCS].raw)

\* What the line of a benchmark says of its name and of the configuration in it.
ReadsAs(line, name, view) ==
    /\ IsName(line) /\ Name(line) = name
    /\ Own(line) = Raws(view, Shown(view))

\* Nothing but the name is printed.
LEMMA PlainName ==
    ASSUME NEW line, NEW name, NEW view, Readable(name, view), Shown(view) = {},
           line.name = name, line.parts = <<>>, Spells(<<>>, 0, {}, view)
    PROVE  ReadsAs(line, name, view)
<1>1. ~ShortForm(line)
    BY DEF ShortForm, Readable
<1>2. Name(line) = name
    BY <1>1 DEF Name
<1>3. IsName(line)
    BY DEF IsName, Readable
<1>4. Own(line) = Raws(view, {})
    BY <1>1, SpelledReads
<1> QED
    BY <1>2, <1>3, <1>4, Zenon DEF ReadsAs

\* The short form: gomaxprocs after a dash.
LEMMA ShortName ==
    ASSUME NEW line, NEW name, NEW view, Readable(name, view), Shown(view) = {GOMAXPROCS},
           NEW gmp, gmp = view[GOMAXPROCS].raw,
           line.name = Append(name, gmp), line.parts = <<>>
    PROVE  ReadsAs(line, name, view)
<1>1. PICK N : name \in Seq(N) /\ name # <<>>
    BY DEF Readable
<1>2. PICK long : long = Append(name, gmp)
    OBVIOUS
<1>3. Len(long) > 1 /\ long[1] = name[1] /\ Last(long) = gmp /\ Front(long) = name
    BY <1>1, <1>2, AppendLast
<1>4. IsInt(gmp) /\ name[1] \notin {None, Word("x")}
    BY DEF Readable
<1>5. line.name = long
    BY <1>2
<1>6. ShortForm(line)
    BY <1>3, <1>4, <1>5 DEF ShortForm
<1>7. Name(line) = name
    BY <1>3, <1>5, <1>6 DEF Name
<1>8. IsName(line)
    BY <1>3, <1>4, <1>5 DEF IsName
<1>9. Own(line) = [c \in {GOMAXPROCS} |-> gmp]
    BY <1>3, <1>5, <1>6, Zenon DEF Own
<1>10. [c \in {GOMAXPROCS} |-> gmp] = Raws(view, {GOMAXPROCS})
    BY DEF Raws
<1> QED
    BY <1>7, <1>8, <1>9, <1>10, Zenon DEF ReadsAs

\* The long form: parts after slashes.
LEMMA LongName ==
    ASSUME NEW line, NEW name, NEW view, Readable(name, view), Shown(view) # {},
           NEW parts, parts # <<>>, NEW n \in Nat, Spells(parts, n, Shown(view), view),
           line.name = name, line.parts = parts
    PROVE  ReadsAs(line, name, view)
<1>1. ~ShortForm(line)
    BY DEF ShortForm
<1>2. Name(line) = name
    BY <1>1 DEF Name
<1>3. IsName(line)
    BY DEF IsName, Readable
<1>4. Own(line) = Raws(view, Shown(view))
    BY <1>1, SpelledReads
<1> QED
    BY <1>2, <1>3, <1>4, Zenon DEF ReadsAs

\* The name that is printed reads as the name and the configuration.
LEMMA PrintedNameReads ==
    ASSUME NEW view, OfKeys(view), NEW name, Readable(name, view),
           NEW line, NameIsPrinted(line, name, view)
    PROVE  line.kind = "bench" /\ ReadsAs(line, name, view)
<1>1. PICK S : S = Named(view) \ {GOMAXPROCS}
    OBVIOUS
<1>2. PICK parts : parts = PrintedParts(view)
    OBVIOUS
<1>3. PICK gmp : gmp = PrintedMax(view)
    OBVIOUS
<1>4. PICK n \in Nat : /\ Spells(parts, n, S, view) /\ IsSeq(parts) /\ Len(parts) = n
                       /\ (parts = <<>> <=> n = 0)
    <2>1. \E n \in Nat : /\ Spells(PrintedParts(view), n, Named(view) \ {GOMAXPROCS}, view)
                          /\ IsSeq(PrintedParts(view)) /\ Len(PrintedParts(view)) = n
                          /\ (PrintedParts(view) = <<>> <=> n = 0)
        BY PartsSpell, Zenon DEF OfKeys
    <2> QED
        BY <1>1, <1>2, <2>1, Zenon
<1>5. line.kind = "bench"
    BY Zenon DEF NameIsPrinted
<1>6. line.name = IF parts = <<>> /\ gmp # Num(1000) THEN Append(name, gmp) ELSE name
    BY <1>2, <1>3, Zenon DEF NameIsPrinted, PrintedName
<1>7. line.parts = IF parts # <<>> /\ gmp # Num(1000)
                   THEN Append(parts, Part(GOMAXPROCS, gmp)) ELSE parts
    BY <1>2, <1>3, Zenon DEF NameIsPrinted, AllParts
<1>8. GOMAXPROCS \in Named(view) => gmp = view[GOMAXPROCS].raw
    BY <1>3 DEF PrintedMax
<1>9. gmp # Num(1000) => GOMAXPROCS \in Named(view)
    BY <1>3 DEF PrintedMax
<1>10. Shown(view) = IF gmp = Num(1000) THEN S ELSE S \cup {GOMAXPROCS}
    BY <1>1, <1>8, <1>9 DEF Shown
<1>11. parts = <<>> => S = {}
    <2>1. \A c \in S : \E i \in 1..n : parts[i].key = c
        BY <1>4 DEF Spells
    <2>2. parts = <<>> => n = 0
        BY <1>4
    <2> QED
        BY <2>1, <2>2
<1>12. parts # <<>> => S # {}
    <2>1. \A i \in 1..n : parts[i].key \in S
        BY <1>4 DEF Spells
    <2>2. parts # <<>> => 1 \in 1..n
        BY <1>4
    <2> QED
        BY <2>1, <2>2
<1>13. CASE parts = <<>> /\ gmp = Num(1000)
    <2>1. Shown(view) = {} /\ S = {}
        BY <1>10, <1>11, <1>13
    <2>2. line.name = name /\ line.parts = <<>>
        BY <1>6, <1>7, <1>13, Zenon
    <2>3. n = 0
        BY <1>4, <1>13
    <2>4. Spells(<<>>, 0, {}, view)
        BY <1>4, <1>13, <2>1, <2>3, Zenon
    <2> QED
        BY <1>5, <2>1, <2>2, <2>4, PlainName
<1>14. CASE parts = <<>> /\ gmp # Num(1000)
    <2>1. Shown(view) = {GOMAXPROCS}
        BY <1>10, <1>11, <1>14
    <2>2. line.name = Append(name, gmp) /\ line.parts = <<>>
        BY <1>6, <1>7, <1>14, Zenon
    <2>3. gmp = view[GOMAXPROCS].raw
        BY <1>8, <1>9, <1>14
    <2> QED
        BY <1>5, <2>1, <2>2, <2>3, ShortName
<1>15. CASE parts # <<>> /\ gmp = Num(1000)
    <2>1. Shown(view) = S /\ S # {}
        BY <1>10, <1>12, <1>15
    <2>2. line.name = name /\ line.parts = parts
        BY <1>6, <1>7, <1>15, Zenon
    <2>3. Spells(parts, n, Shown(view), view) /\ Shown(view) # {} /\ parts # <<>>
        BY <1>4, <1>15, <2>1, Zenon
    <2> QED
        BY <1>5, <2>2, <2>3, LongName
<1>16. CASE parts # <<>> /\ gmp # Num(1000)
    <2>1. PICK all : all = Append(parts, Part(GOMAXPROCS, gmp))
        OBVIOUS
    <2>2. gmp = view[GOMAXPROCS].raw
        BY <1>8, <1>9, <1>16
    <2>3. all = Append(parts, Part(GOMAXPROCS, view[GOMAXPROCS].raw))
        BY <2>1, <2>2, Zenon
    <2>4. GOMAXPROCS \notin S
        BY <1>1
    <2>5. Spells(all, n + 1, S \cup {GOMAXPROCS}, view) /\ all # <<>>
        BY <1>4, <2>3, <2>4, PartAdded
    <2>6. Shown(view) = S \cup {GOMAXPROCS}
        BY <1>10, <1>16
    <2>7. PICK m \in Nat : m = n + 1
        OBVIOUS
    <2>8. Spells(all, m, Shown(view), view) /\ Shown(view) # {}
        BY <2>5, <2>6, <2>7
    <2>9. line.name = name /\ line.parts = all
        BY <1>6, <1>7, <1>16, <2>1, Zenon
    <2> QED
        BY <1>5, <2>5, <2>8, <2>9, LongName
<1> QED
    BY <1>13, <1>14, <1>15, <1>16

\* The fields that are printed read as the iterations and the rounded results.
Rounded(result) == [u \in DOMAIN result |-> Pretty(result[u])]

LEMMA PrintedFieldsRead ==
    ASSUME NEW b, NEW view, NEW line, line = PrintedLine(b, view),
           NEW result, result = b.result, NEW U, Units \in Seq(U),
           DOMAIN result \subseteq ToSet(Units), DOMAIN result # {}
    PROVE  /\ line.fields # <<>> /\ Head(line.fields) = b.iterations
           /\ Results(Tail(line.fields)) = {Rounded(result)}
<1>1. PICK S : S = DOMAIN result
    OBVIOUS
<1>2. PICK units : units = Listed(Units, S)
    OBVIOUS
<1>3. PICK n \in Nat :
        /\ DOMAIN units = 1..n
        /\ \A i \in 1..n : units[i] \in S
        /\ \A x \in S : \E i \in 1..n : units[i] = x
    <2>1. \E n \in Nat :
            /\ DOMAIN Listed(Units, S) = 1..n /\ Listed(Units, S) = [i \in 1..n |-> Listed(Units, S)[i]]
            /\ \A i \in 1..n : Listed(Units, S)[i] \in S /\ Listed(Units, S)[i] \in ToSet(Units)
            /\ \A x \in ToSet(Units) : x \in S => \E i \in 1..n : Listed(Units, S)[i] = x
            /\ Distinct(Units) => Distinct(Listed(Units, S))
        BY ListedIs, Zenon
    <2>2. \A x \in S : x \in ToSet(Units)
        BY <1>1
    <2>3. \E n \in Nat :
            /\ DOMAIN Listed(Units, S) = 1..n
            /\ \A i \in 1..n : Listed(Units, S)[i] \in S
            /\ \A x \in S : \E i \in 1..n : Listed(Units, S)[i] = x
        BY <2>1, <2>2, Zenon
    <2> QED
        BY <1>2, <2>3, Zenon
<1>4. {units[i] : i \in 1..n} = S
    BY <1>3
<1>5. n # 0
    BY <1>1, <1>3
<1>6. PICK m \in Nat \ {0} : m = n
    BY <1>5
<1>7. PICK columns : columns = Columns(result)
    OBVIOUS
<1>8. PICK val : val = [u \in S |-> Pretty(result[u])]
    OBVIOUS
<1>9. DOMAIN units = 1..m /\ \A i \in 1..m : units[i] \in S
    BY <1>3, <1>6
<1>10. columns = [i \in 1..m |-> <<Num(val[units[i]]), units[i]>>]
    <2>1. columns = [i \in DOMAIN units |-> <<Num(Pretty(result[units[i]])), units[i]>>]
        BY <1>1, <1>2, <1>7, Zenon DEF Columns
    <2>2. columns = [i \in 1..m |-> <<Num(Pretty(result[units[i]])), units[i]>>]
        BY <1>9, <2>1, Zenon
    <2>3. ASSUME NEW i \in 1..m PROVE Pretty(result[units[i]]) = val[units[i]]
        BY <1>8, <1>9
    <2>4. [i \in 1..m |-> <<Num(Pretty(result[units[i]])), units[i]>>]
            = [i \in 1..m |-> <<Num(val[units[i]]), units[i]>>]
        BY <2>3, Zenon
    <2> QED
        BY <2>2, <2>4, Zenon
<1>11. PICK s : s = Pairs(columns)
    OBVIOUS
<1>12. Results(s) = {TheValues(units, m, val)}
    <2>1. columns = TheColumns(units, m, val)
        BY <1>10, Zenon DEF TheColumns
    <2>2. Results(Pairs(columns)) = {TheValues(units, m, val)}
        BY <2>1, ColumnsRead, Zenon
    <2> QED
        BY <1>11, <2>2, Zenon
<1>13. Results(s) = {[u \in S |-> Pretty(result[u])]}
    <2>1. [u \in S |-> val[u]] = [u \in S |-> Pretty(result[u])]
        BY <1>8
    <2>2. {units[i] : i \in 1..m} = S
        BY <1>4, <1>6, Zenon
    <2>3. TheValues(units, m, val) = [u \in S |-> Pretty(result[u])]
        BY <2>1, <2>2, Zenon DEF TheValues
    <2> QED
        BY <1>12, <2>3, Zenon
<1>14. \E T : s \in Seq(T)
    <2>1. PICK l \in Nat : l = m
        OBVIOUS
    <2>2. DOMAIN columns = 1..l /\ Len(columns) = l
        BY <1>10, <2>1
    <2>3. /\ DOMAIN Pairs(columns) = 1..(2 * l) /\ Len(Pairs(columns)) = 2 * l
          /\ \A j \in 1..l :
               /\ 2 * j - 1 \in 1..(2 * l) /\ 2 * j \in 1..(2 * l)
               /\ Pairs(columns)[2 * j - 1] = columns[j][1]
               /\ Pairs(columns)[2 * j] = columns[j][2]
          /\ Pairs(columns) = [i \in 1..(2 * l) |-> Pairs(columns)[i]]
        BY <2>2, PairsAre
    <2>4. PICK h \in Nat : h = 2 * l
        OBVIOUS
    <2>5. s = [i \in 1..h |-> s[i]]
        BY <1>11, <2>3, <2>4, Zenon
    <2>6. s \in Seq({s[i] : i \in 1..h})
        BY <2>5, FunctionIsSeq, Zenon
    <2> QED
        BY <2>6, Zenon
<1>15. PICK T : s \in Seq(T)
    BY <1>14
<1>16. PICK t : t = <<b.iterations>> \o s
    OBVIOUS
<1>17. t # <<>> /\ Head(t) = b.iterations /\ Tail(t) = s
    <2>1. PICK V : V = T \cup {b.iterations}
        OBVIOUS
    <2>2. s \in Seq(V) /\ <<b.iterations>> \in Seq(V)
        <3>1. \A i \in 1..Len(s) : s[i] \in V
            BY <1>15, <2>1
        <3> QED
            BY <1>15, <2>1, <3>1
    <2> QED
        BY <1>16, <2>2
<1>18. line.fields = t
    BY <1>7, <1>11, <1>16, PrintedPieces DEF AllFields
<1> QED
    BY <1>1, <1>13, <1>17, <1>18, Zenon DEF Rounded
=============================================================================
