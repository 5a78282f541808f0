--------------------------- MODULE Session_proofs ---------------------------
(***************************************************************************)
(* Proofs about Session for any listings, launches and modes, any exchange *)
(* of fields in the pin file and any failures of the audit file.           *)
(*                                                                         *)
(* `says` and `meaning` are labels that LabelAssumption ties to what the   *)
(* code looks at, the payload of a tool and the fingerprint of a launch.   *)
(***************************************************************************)
EXTENDS Session, Catalog_proofs, SequenceTheorems

(***************************************************************************)
(* The environment of a launch.                                            *)
(***************************************************************************)

\* A set of positions that is not empty has a last one.
LEMMA LastPosition ==
  ASSUME NEW n \in Nat, NEW S \in SUBSET (1 .. n), S # {}
  PROVE  \E i \in S : \A j \in S : j <= i
<1> DEFINE T == {m \in Nat : n - m \in S}
<1>1. T # {}
  <2>1. PICK i \in S : TRUE
    OBVIOUS
  <2>2. n - i \in Nat /\ n - (n - i) = i
    OBVIOUS
  <2> QED
    BY <2>1, <2>2
<1>2. PICK m \in T : \A l \in T : m <= l
  <2> HIDE DEF T
  <2>1. T \in SUBSET Nat
    BY DEF T
  <2> QED
    BY <1>1, <2>1, LeastNumber
<1>3. ASSUME NEW j \in S PROVE j <= n - m
  <2>1. n - j \in T
    <3>1. n - j \in Nat /\ n - (n - j) = j
      OBVIOUS
    <3> QED
      BY <3>1
  <2>2. m <= n - j
    BY <1>2, <2>1
  <2> QED
    BY <2>2
<1> QED
  BY <1>2, <1>3

\* A variable off the allowlist, a credential among them, and a setting that a
\* later one of the same variable overrides do not count, wherever in the
\* environment they stand (fingerprint.go:64).
THEOREM OthersDoNotCount ==
  ASSUME NEW E, NEW before \in Seq(E), NEW after \in Seq(E), NEW e \in E,
         e.key \notin InventoryEnvKeys \/ \E i \in 1 .. Len(after) : after[i].key = e.key
  PROVE  \A argv : Fingerprint(argv, (before \o <<e>>) \o after) = Fingerprint(argv, before \o after)
<1> DEFINE long == (before \o <<e>>) \o after
           short == before \o after
           n == Len(before)
           lift(i) == IF i <= n THEN i ELSE i + 1
           set(s, k) == {i \in DOMAIN s : s[i].key = k}
           last(s, k) == CHOOSE i \in set(s, k) : \A j \in set(s, k) : j <= i
<1>1. /\ n \in Nat /\ Len(after) \in Nat
      /\ short \in Seq(E) /\ DOMAIN short = 1 .. n + Len(after)
      /\ \A i \in 1 .. n : short[i] = before[i]
      /\ \A i \in 1 .. Len(after) : short[n + i] = after[i]
  BY ConcatProperties
<1>2. /\ long \in Seq(E) /\ DOMAIN long = 1 .. n + Len(after) + 1
      /\ \A i \in 1 .. n : long[i] = before[i]
      /\ long[n + 1] = e
      /\ \A i \in 1 .. Len(after) : long[n + 1 + i] = after[i]
  <2>1. <<e>> \in Seq(E) /\ Len(<<e>>) = 1 /\ <<e>>[1] = e
    OBVIOUS
  <2>2. /\ before \o <<e>> \in Seq(E) /\ Len(before \o <<e>>) = n + 1
        /\ \A i \in 1 .. n : (before \o <<e>>)[i] = before[i]
        /\ (before \o <<e>>)[n + 1] = e
    BY <2>1, ConcatProperties
  <2> QED
    BY <1>1, <2>2, ConcatProperties
<1> HIDE DEF long, short, n
<1>3. \A i \in DOMAIN short : lift(i) \in DOMAIN long /\ long[lift(i)] = short[i]
  <2> TAKE i \in DOMAIN short
  <2>1. CASE i <= n
    BY <1>1, <1>2, <2>1
  <2>2. CASE ~(i <= n)
    <3>1. i - n \in 1 .. Len(after) /\ n + (i - n) = i /\ (n + 1) + (i - n) = i + 1
      BY <1>1, <2>2
    <3>2. short[i] = after[i - n]
      BY <1>1, <3>1
    <3>3. long[i + 1] = after[i - n]
      BY <1>2, <3>1
    <3>4. i + 1 \in DOMAIN long
      BY <1>1, <1>2, <2>2
    <3> QED
      BY <2>2, <3>2, <3>3, <3>4
  <2> QED
    BY <2>1, <2>2
<1>4. \A j \in DOMAIN long : j = n + 1 \/ \E i \in DOMAIN short : j = lift(i)
  <2> TAKE j \in DOMAIN long
  <2>1. CASE j <= n
    BY <1>1, <1>2, <2>1
  <2>2. CASE j > n + 1
    <3> DEFINE i == j - 1
    <3>1. j \in Nat /\ j <= n + Len(after) + 1 /\ n \in Nat /\ Len(after) \in Nat
      BY <1>1, <1>2
    <3>2. i \in 1 .. n + Len(after) /\ ~(i <= n) /\ j = i + 1
      BY <2>2, <3>1
    <3> HIDE DEF i
    <3>3. i \in DOMAIN short /\ j = lift(i)
      BY <1>1, <3>2
    <3> QED
      BY <3>3
  <2> QED
    BY <1>1, <1>2, <2>1, <2>2
<1>5. \A i, j \in DOMAIN short : i <= j => lift(i) <= lift(j)
  BY <1>1
<1>6. ASSUME NEW k \in InventoryEnvKeys, set(long, k) # {}
      PROVE  set(short, k) # {} /\ long[last(long, k)].value = short[last(short, k)].value
  <2>1. ASSUME n + 1 \in set(long, k) PROVE \E i \in set(short, k) : i > n
    <3>1. e.key = k
      BY <1>2, <2>1
    <3>2. PICK i \in 1 .. Len(after) : after[i].key = k
      BY <3>1
    <3>3. n + i \in DOMAIN short /\ short[n + i].key = k /\ n + i > n
      BY <1>1, <3>2
    <3> QED
      BY <3>3
  <2>2. set(short, k) # {}
    <3>1. PICK j \in set(long, k) : TRUE
      BY <1>6
    <3>2. CASE j = n + 1
      BY <2>1, <3>1, <3>2
    <3>3. CASE j # n + 1
      <4>1. PICK i \in DOMAIN short : j = lift(i)
        BY <1>4, <3>1, <3>3
      <4>2. short[i].key = k
        BY <1>3, <3>1, <4>1
      <4> QED
        BY <4>2
    <3> QED
      BY <3>2, <3>3
  <2> DEFINE p == last(short, k)
  <2>3. p \in set(short, k) /\ \A i \in set(short, k) : i <= p
    <3>1. set(short, k) \in SUBSET (1 .. n + Len(after)) /\ n + Len(after) \in Nat
      BY <1>1
    <3>2. \E i \in set(short, k) : \A j \in set(short, k) : j <= i
      BY <2>2, <3>1, LastPosition
    <3> QED
      BY <3>2
  <2> HIDE DEF p
  <2>4. lift(p) \in set(long, k)
    BY <1>3, <2>3
  <2>5. ASSUME NEW j \in set(long, k) PROVE j <= lift(p)
    <3>1. CASE j = n + 1
      <4>1. PICK i \in set(short, k) : i > n
        BY <2>1, <3>1
      <4>2. p > n
        BY <1>1, <2>3, <4>1
      <4> QED
        BY <1>1, <2>3, <3>1, <4>2
    <3>2. CASE j # n + 1
      <4>1. PICK i \in DOMAIN short : j = lift(i)
        BY <1>4, <3>2
      <4>2. i \in set(short, k)
        BY <1>3, <4>1
      <4> QED
        BY <1>5, <2>3, <4>1, <4>2
    <3> QED
      BY <3>1, <3>2
  <2>6. last(long, k) = lift(p)
    <3>1. \A q \in set(long, k) : (\A j \in set(long, k) : j <= q) => q = lift(p)
      <4>1. \A q \in set(long, k) : q \in Nat
        BY <1>1, <1>2
      <4> QED
        BY <2>4, <2>5, <4>1
    <3> QED
      BY <2>4, <2>5, <3>1
  <2>7. long[lift(p)] = short[p]
    BY <1>3, <2>3
  <2> QED
    BY <2>2, <2>6, <2>7 DEF p
<1>7. ASSUME NEW k, set(short, k) # {} PROVE set(long, k) # {}
  BY <1>3, <1>7
<1>8. SubsetEnv(long) = SubsetEnv(short)
  <2> DEFINE value(s, k) == s[last(s, k)].value
             keys(s) == {k \in InventoryEnvKeys : set(s, k) # {}}
             subset(s) == [k \in keys(s) |-> IF k \in InventoryCSVEnv THEN SortCSV(value(s, k)) ELSE value(s, k)]
  <2>1. SubsetEnv(long) = subset(long) /\ SubsetEnv(short) = subset(short)
    BY DEF SubsetEnv
  <2>2. keys(long) = keys(short)
    BY <1>6, <1>7
  <2>3. \A k \in keys(long) : value(long, k) = value(short, k)
    BY <1>6
  <2> HIDE DEF keys, value
  <2>4. subset(long) = subset(short)
    BY <2>2, <2>3
  <2> QED
    BY <2>1, <2>4
<1> QED
  BY <1>8 DEF Fingerprint, long, short

(***************************************************************************)
(* The argv of a launch.                                                   *)
(***************************************************************************)

\* Induction from the end of a sequence of n words, for a set of positions.
LEMMA FromTheEnd ==
  ASSUME NEW n \in Nat, NEW A,
         \A m \in 1 .. n + 1 : (\A k \in m + 1 .. n + 1 : k \in A) => m \in A
  PROVE  \A m \in 1 .. n + 1 : m \in A
<1> DEFINE Bad == {k \in Nat : k <= n /\ n + 1 - k \notin A}
<1>1. Bad = {}
  <2> SUFFICES ASSUME Bad # {} PROVE FALSE
    OBVIOUS
  <2>1. PICK k \in Bad : \A j \in Bad : k <= j
    <3> HIDE DEF Bad
    <3>1. Bad \in SUBSET Nat
      BY DEF Bad
    <3> QED
      BY <3>1, LeastNumber
  <2>2. k \in Nat /\ k <= n /\ n + 1 - k \in 1 .. n + 1
    OBVIOUS
  <2>3. ASSUME NEW i \in (n + 1 - k) + 1 .. n + 1 PROVE i \in A
    <3>1. PICK j \in Nat : j <= n /\ n + 1 - j = i /\ ~(k <= j)
      <4>1. n + 1 - i \in Nat /\ n + 1 - i <= n /\ n + 1 - (n + 1 - i) = i /\ ~(k <= n + 1 - i)
        BY <2>2
      <4> QED
        BY <4>1
    <3>2. j \notin Bad
      BY <2>1, <3>1
    <3> QED
      BY <3>1, <3>2
  <2> QED
    BY <2>1, <2>2, <2>3
<1>2. ASSUME NEW m \in 1 .. n + 1 PROVE m \in A
  <2>1. PICK k \in Nat : k <= n /\ n + 1 - k = m
    <3>1. n + 1 - m \in Nat /\ n + 1 - m <= n /\ n + 1 - (n + 1 - m) = m
      OBVIOUS
    <3> QED
      BY <3>1
  <2>2. k \notin Bad
    BY <1>1
  <2> QED
    BY <2>1, <2>2
<1> QED
  BY <1>2

\* What StableFrom says of itself, for the positions from m on.
Unfolds(argv, f, m) ==
  f = [i \in m .. Len(argv) + 1 |->
         IF i > Len(argv) THEN <<>>
         ELSE <<StableWord(argv, i)>> \o f[IF Takes(argv, i) THEN i + 2 ELSE i + 1]]

\* The recursion of StableFrom has a solution, built from the end of argv.
LEMMA StableUnfolds ==
  ASSUME NEW W, NEW argv \in Seq(W)
  PROVE  Unfolds(argv, StableFrom(argv), 1)
<1> DEFINE n == Len(argv)
           next(i) == IF Takes(argv, i) THEN i + 2 ELSE i + 1
           Solved(m) == \E f : Unfolds(argv, f, m)
<1>0. n \in Nat /\ \A i \in 1 .. n : next(i) \in i + 1 .. n + 1
  <2>1. \A i : Takes(argv, i) => i < n
    BY DEF Takes
  <2> QED
    BY <2>1
<1>1. Solved(n + 1)
  <2> DEFINE f == [i \in n + 1 .. n + 1 |-> <<>>]
  <2>1. \A i \in n + 1 .. n + 1 : i > n
    BY <1>0
  <2>2. Unfolds(argv, f, n + 1)
    BY <2>1 DEF Unfolds
  <2> QED
    BY <2>2
<1>2. ASSUME NEW m \in 1 .. n, Solved(m + 1) PROVE Solved(m)
  <2>1. PICK f : Unfolds(argv, f, m + 1)
    BY <1>2
  <2> DEFINE g == [i \in m .. n + 1 |-> IF i = m THEN <<StableWord(argv, m)>> \o f[next(m)] ELSE f[i]]
             rhs == [i \in m .. n + 1 |-> IF i > n THEN <<>> ELSE <<StableWord(argv, i)>> \o g[next(i)]]
  <2>2. ASSUME NEW i \in m + 1 .. n + 1
        PROVE  /\ f[i] = IF i > n THEN <<>> ELSE <<StableWord(argv, i)>> \o f[next(i)]
               /\ g[i] = f[i]
    <3>1. i \in m .. n + 1 /\ i # m
      BY <1>0
    <3> QED
      BY <2>1, <3>1 DEF Unfolds
  <2>3. m \in m .. n + 1 /\ ~(m > n) /\ next(m) \in m + 1 .. n + 1
    BY <1>0
  <2> HIDE DEF next
  <2>4. g[m] = <<StableWord(argv, m)>> \o f[next(m)]
    BY <2>3
  <2>5. g[m] = rhs[m]
    BY <2>2, <2>3, <2>4
  <2>6. ASSUME NEW i \in m + 1 .. n + 1 PROVE g[i] = rhs[i]
    <3>1. i \in m .. n + 1
      BY <1>0
    <3>2. ~(i > n) => next(i) \in m + 1 .. n + 1
      BY <1>0
    <3>3. ~(i > n) => g[next(i)] = f[next(i)]
      BY <2>2, <3>2
    <3> QED
      BY <2>2, <3>1, <3>3
  <2>7. \A i \in m .. n + 1 : i = m \/ i \in m + 1 .. n + 1
    BY <1>0
  <2>8. g = rhs
    <3>1. \A i \in m .. n + 1 : g[i] = rhs[i]
      BY <2>5, <2>6, <2>7
    <3> QED
      BY <3>1
  <2> QED
    BY <2>8 DEF Unfolds, next
<1> HIDE DEF Solved
<1>3. Solved(1)
  <2> DEFINE A == {m \in 1 .. n + 1 : Solved(m)}
  <2>1. n + 1 \in A
    BY <1>0, <1>1
  <2>2. ASSUME NEW m \in 1 .. n + 1, \A k \in m + 1 .. n + 1 : k \in A PROVE m \in A
    <3>1. CASE m = n + 1
      BY <2>1, <3>1
    <3>2. CASE m # n + 1
      <4>1. m \in 1 .. n /\ m + 1 \in m + 1 .. n + 1
        BY <1>0, <3>2
      <4>2. m + 1 \in A
        BY <2>2, <4>1
      <4> QED
        BY <1>2, <4>1, <4>2
    <3> QED
      BY <3>1, <3>2
  <2> HIDE DEF A
  <2>3. 1 \in A
    <3>1. \A m \in 1 .. n + 1 : m \in A
      <4> HIDE DEF n
      <4> QED
        BY <1>0, <2>2, FromTheEnd
    <3> QED
      BY <1>0, <3>1
  <2> QED
    BY <2>3 DEF A
<1>4. \E f : Unfolds(argv, f, 1)
  BY <1>3 DEF Solved
<1>5. StableFrom(argv) = CHOOSE f : Unfolds(argv, f, 1)
  BY DEF StableFrom, Unfolds
<1> QED
  BY <1>4, <1>5

\* The words at a position, and where the next one is.
LEMMA StableAt ==
  ASSUME NEW W, NEW argv \in Seq(W)
  PROVE  /\ StableFrom(argv)[Len(argv) + 1] = <<>>
         /\ \A i \in 1 .. Len(argv) :
              /\ Takes(argv, i) => i + 2 \in 1 .. Len(argv) + 1
              /\ StableFrom(argv)[i] =
                   <<StableWord(argv, i)>> \o StableFrom(argv)[IF Takes(argv, i) THEN i + 2 ELSE i + 1]
<1> DEFINE f == StableFrom(argv)
           n == Len(argv)
<1>1. f = [i \in 1 .. n + 1 |-> IF i > n THEN <<>>
                                ELSE <<StableWord(argv, i)>> \o f[IF Takes(argv, i) THEN i + 2 ELSE i + 1]]
  BY StableUnfolds DEF Unfolds
<1>2. n \in Nat
  OBVIOUS
<1> HIDE DEF f
<1>3. f[n + 1] = <<>>
  <2>1. n + 1 \in 1 .. n + 1 /\ n + 1 > n
    BY <1>2
  <2> QED
    BY <1>1, <2>1
<1>4. ASSUME NEW i \in 1 .. n
      PROVE  f[i] = <<StableWord(argv, i)>> \o f[IF Takes(argv, i) THEN i + 2 ELSE i + 1]
  <2>1. i \in 1 .. n + 1 /\ ~(i > n)
    BY <1>2
  <2> QED
    BY <1>1, <2>1
<1>5. ASSUME NEW i \in 1 .. n, Takes(argv, i) PROVE i + 2 \in 1 .. n + 1
  <2>1. i < n
    BY <1>5 DEF Takes
  <2> QED
    BY <1>2, <2>1
<1> QED
  BY <1>3, <1>4, <1>5 DEF f

\* An argv without inventory flags is kept word by word, so that any change of
\* it is a change of the fingerprint (fingerprint.go:140).
THEOREM OtherWordsAreKept ==
  ASSUME NEW W, NEW argv \in Seq(W), \A i \in 1 .. Len(argv) : argv[i].flag \notin InventoryCSVFlags
  PROVE  StableArgv(argv) = argv
<1> DEFINE n == Len(argv)
           f == StableFrom(argv)
           A == {m \in 1 .. n + 1 : f[m] = SubSeq(argv, m, n)}
<1>0. n \in Nat
  OBVIOUS
<1>1. n + 1 \in A
  <2>1. SubSeq(argv, n + 1, n) = <<>>
    BY <1>0, SubSeqEmpty
  <2>2. f[n + 1] = <<>>
    BY StableAt
  <2>3. n + 1 \in 1 .. n + 1
    BY <1>0
  <2> HIDE DEF f, n
  <2> QED
    BY <2>1, <2>2, <2>3
<1>2. ASSUME NEW m \in 1 .. n, m + 1 \in A PROVE m \in A
  <2>1. ~Takes(argv, m)
    BY Zenon DEF Takes
  <2>2. StableWord(argv, m) = argv[m]
    BY <2>1, Zenon DEF StableWord
  <2>3. f[m] = <<argv[m]>> \o f[m + 1]
    BY <2>1, <2>2, StableAt
  <2>4. n \in m .. n
    BY <1>0
  <2>5. SubSeq(argv, m, n) = <<argv[m]>> \o SubSeq(argv, m + 1, n)
    BY <2>4, SubSeqRecursiveFirst
  <2>6. m \in 1 .. n + 1
    BY <1>0
  <2> QED
    BY <1>2, <2>3, <2>5, <2>6
<1> HIDE DEF A
<1>3. 1 \in A
  <2>1. ASSUME NEW m \in 1 .. n + 1, \A k \in m + 1 .. n + 1 : k \in A PROVE m \in A
    <3>1. CASE m = n + 1
      BY <1>1, <3>1
    <3>2. CASE m # n + 1
      <4>1. m \in 1 .. n /\ m + 1 \in m + 1 .. n + 1
        BY <1>0, <3>2
      <4>2. m + 1 \in A
        BY <2>1, <4>1
      <4> QED
        BY <1>2, <4>1, <4>2
    <3> QED
      BY <3>1, <3>2
  <2>2. \A m \in 1 .. n + 1 : m \in A
    <3> HIDE DEF n
    <3> QED
      BY <1>0, <2>1, FromTheEnd
  <2> QED
    BY <1>0, <2>2
<1>4. f[1] = SubSeq(argv, 1, n)
  BY <1>3 DEF A
<1> QED
  BY <1>4, SubSeqFull DEF StableArgv

\* From p on one argv reads as the other does from q on.
SameFrom(a, p, b, q) ==
  /\ Len(a) - p = Len(b) - q
  /\ \A i \in 0 .. Len(a) - p : a[p + i] = b[q + i]

\* What follows a position decides the stable words from it on.
LEMMA SuffixDecides ==
  ASSUME NEW W, NEW a \in Seq(W), NEW b \in Seq(W),
         NEW p \in 1 .. Len(a) + 1, NEW q \in 1 .. Len(b) + 1,
         SameFrom(a, p, b, q)
  PROVE  StableFrom(a)[p] = StableFrom(b)[q]
<1> DEFINE n == Len(a)
           d == q - p
           f == StableFrom(a)
           g == StableFrom(b)
           A == {m \in 1 .. n + 1 : m >= p => f[m] = g[m + d]}
<1>0. n \in Nat /\ Len(b) = n + d /\ d \in Int /\ p + d = q
  BY DEF SameFrom
<1> HIDE DEF d
<1>1. ASSUME NEW m \in 1 .. n + 1, \A k \in m + 1 .. n + 1 : k \in A, m >= p PROVE f[m] = g[m + d]
  <2>1. CASE m = n + 1
    <3>1. f[n + 1] = <<>> /\ g[Len(b) + 1] = <<>>
      BY StableAt
    <3>2. Len(b) + 1 = m + d /\ n + 1 = m
      BY <1>0, <2>1
    <3> QED
      BY <3>1, <3>2
  <2>2. CASE m # n + 1
    <3>1. m \in p .. n /\ m \in 1 .. n /\ m + d \in 1 .. Len(b)
      BY <1>0, <1>1, <2>2
    <3>2. a[m] = b[m + d] /\ (m < n => a[m + 1] = b[m + d + 1])
      <4>1. ASSUME NEW i \in p .. n PROVE a[i] = b[i + d]
        <5>1. i - p \in 0 .. n - p /\ p + (i - p) = i /\ q + (i - p) = i + d
          BY <1>0
        <5> QED
          BY <5>1 DEF SameFrom
      <4>2. m < n => m + 1 \in p .. n /\ (m + 1) + d = m + d + 1
        BY <1>0, <3>1
      <4> QED
        BY <3>1, <4>1, <4>2
    <3>3. m < n <=> m + d < Len(b)
      BY <1>0, <3>1
    <3>4. /\ Takes(a, m) <=> Takes(b, m + d)
          /\ Takes(a, m) => m < n
      BY <3>2, <3>3, Zenon DEF Takes
    <3>5. StableWord(a, m) = StableWord(b, m + d)
      BY <3>2, <3>4, Zenon DEF StableWord
    <3> DEFINE x == IF Takes(a, m) THEN m + 2 ELSE m + 1
               y == IF Takes(b, m + d) THEN (m + d) + 2 ELSE (m + d) + 1
    <3>6. f[m] = <<StableWord(a, m)>> \o f[x] /\ g[m + d] = <<StableWord(b, m + d)>> \o g[y]
      BY <3>1, StableAt
    <3>7. x \in m + 1 .. n + 1 /\ x >= p /\ x + d = y
      BY <1>0, <3>1, <3>4
    <3>8. f[x] = g[x + d]
      BY <1>1, <3>7
    <3>9. f[x] = g[y]
      BY <3>7, <3>8
    <3> HIDE DEF x, y, f, g
    <3> QED
      BY <3>5, <3>6, <3>9, Zenon
  <2> QED
    BY <2>1, <2>2
<1>2. ASSUME NEW m \in 1 .. n + 1, \A k \in m + 1 .. n + 1 : k \in A PROVE m \in A
  BY <1>1, <1>2
<1>3. \A m \in 1 .. n + 1 : m \in A
  <2> HIDE DEF n, A
  <2> QED
    BY <1>0, <1>2, FromTheEnd
<1>4. p \in A /\ p >= p
  BY <1>3
<1> QED
  BY <1>0, <1>4

\* If the word before a position takes nothing from it, two argvs that agree
\* before it are as stable as they are from it on.
LEMMA PrefixKept ==
  ASSUME NEW W, NEW a \in Seq(W), NEW b \in Seq(W), NEW n \in Nat, n < Len(a), n < Len(b),
         \A i \in 1 .. n : a[i] = b[i], ~Takes(a, n), ~Takes(b, n),
         StableFrom(a)[n + 1] = StableFrom(b)[n + 1]
  PROVE  StableArgv(a) = StableArgv(b)
<1> DEFINE f == StableFrom(a)
           g == StableFrom(b)
           A == {m \in 1 .. n + 1 : f[m] = g[m]}
<1>1. ASSUME NEW m \in 1 .. n + 1, \A k \in m + 1 .. n + 1 : k \in A PROVE f[m] = g[m]
  <2>1. CASE m = n + 1
    BY <2>1
  <2>2. CASE m # n + 1
    <3>1. m \in 1 .. n /\ m \in 1 .. Len(a) /\ m \in 1 .. Len(b) /\ m < Len(a) /\ m < Len(b)
      BY <2>2
    <3>2. a[m] = b[m] /\ (m < n => a[m + 1] = b[m + 1]) /\ (~(m < n) => m + 1 = n + 1)
      <4>1. (m < n => m + 1 \in 1 .. n) /\ (~(m < n) => m + 1 = n + 1)
        BY <3>1
      <4> QED
        BY <3>1, <4>1
    <3>3. /\ Takes(a, m) <=> Takes(b, m)
          /\ Takes(a, m) => m < n
      <4>1. CASE m = n
        BY <4>1
      <4>2. CASE m # n
        <5>1. m < n
          BY <3>1, <4>2
        <5> QED
          BY <3>1, <3>2, <5>1, Zenon DEF Takes
      <4> QED
        BY <4>1, <4>2
    <3>4. StableWord(a, m) = StableWord(b, m)
      BY <3>2, <3>3, Zenon DEF StableWord
    <3> DEFINE x == IF Takes(a, m) THEN m + 2 ELSE m + 1
    <3>5. f[m] = <<StableWord(a, m)>> \o f[x] /\ g[m] = <<StableWord(b, m)>> \o g[x]
      BY <3>1, <3>3, StableAt
    <3>6. x \in m + 1 .. n + 1
      BY <3>1, <3>3
    <3> QED
      BY <1>1, <3>4, <3>5, <3>6
  <2> QED
    BY <2>1, <2>2
<1>2. ASSUME NEW m \in 1 .. n + 1, \A k \in m + 1 .. n + 1 : k \in A PROVE m \in A
  BY <1>1, <1>2
<1>3. \A m \in 1 .. n + 1 : m \in A
  <2> HIDE DEF A
  <2> QED
    BY <1>2, FromTheEnd
<1>4. 1 \in A
  BY <1>3
<1> QED
  BY <1>4 DEF StableArgv

\* The words of a concatenation, those of the second part counted from l on.
LEMMA Joined ==
  ASSUME NEW W, NEW s \in Seq(W), NEW t \in Seq(W)
  PROVE  /\ s \o t \in Seq(W) /\ Len(s \o t) = Len(s) + Len(t)
         /\ \A i \in 1 .. Len(s) : (s \o t)[i] = s[i]
         /\ \A l : \A i \in 1 .. Len(t) : l = Len(s) => (s \o t)[l + i] = t[i]
<1> DEFINE m == Len(s)
           k == Len(t)
<1>1. /\ s \o t \in Seq(W) /\ Len(s \o t) = m + k
      /\ \A i \in 1 .. m + k : (s \o t)[i] = IF i <= m THEN s[i] ELSE t[i - m]
  BY ConcatProperties
<1>2. m \in Nat /\ k \in Nat
  BY LenProperties
<1> DEFINE u == s \o t
<1> HIDE DEF u, m, k
<1>3. \A i \in 1 .. m + k : u[i] = IF i <= m THEN s[i] ELSE t[i - m]
  BY <1>1 DEF u
<1>4. ASSUME NEW i \in 1 .. m PROVE u[i] = s[i]
  <2>1. i \in 1 .. m + k /\ i <= m
    BY <1>2
  <2> QED
    BY <1>3, <2>1
<1>5. ASSUME NEW i \in 1 .. k PROVE u[m + i] = t[i]
  <2>1. m + i \in 1 .. m + k /\ ~(m + i <= m) /\ (m + i) - m = i
    BY <1>2
  <2> QED
    BY <1>3, <2>1
<1> QED
  BY <1>1, <1>4, <1>5 DEF u, m, k

\* `--toolsets b,a` and `--toolsets=a,b` are one configuration wherever they
\* stand in argv: a flag of its own with the next word, or with an inline value,
\* if the two values sort to the same list (fingerprint.go:140).
THEOREM SpellingsAreOne ==
  ASSUME NEW W, NEW before \in Seq(W), NEW after \in Seq(W),
         NEW f \in InventoryCSVFlags, NEW v, NEW w, SortCSV(v) = SortCSV(w),
         Flag(f) \in W, Word(v) \in W, Inline(f, w) \in W
  PROVE  StableArgv((before \o <<Flag(f), Word(v)>>) \o after)
           = StableArgv((before \o <<Inline(f, w)>>) \o after)
<1> DEFINE n == Len(before)
           k == Len(after)
           two == <<Flag(f), Word(v)>>
           one == <<Inline(f, w)>>
           a == (before \o two) \o after
           b == (before \o one) \o after
<1>1. /\ f # "" /\ Flag(f).flag = f /\ ~Flag(f).inline
      /\ Word(v).flag = "" /\ Word(v).value = v
      /\ Inline(f, w).flag = f /\ Inline(f, w).inline /\ Inline(f, w).value = w
  BY Zenon DEF Flag, Word, Inline, InventoryCSVFlags
<1>2. /\ n \in Nat /\ k \in Nat /\ n = Len(before) /\ k = Len(after)
      /\ two \in Seq(W) /\ Len(two) = 2 /\ two[1] = Flag(f) /\ two[2] = Word(v)
      /\ one \in Seq(W) /\ Len(one) = 1 /\ one[1] = Inline(f, w)
  OBVIOUS
<1>2a. two \in Seq(W) /\ one \in Seq(W)
  BY <1>2
<1> HIDE DEF two, one, n, k
<1>3. /\ a \in Seq(W) /\ Len(a) = n + 2 + k
      /\ \A i \in 1 .. n : a[i] = before[i]
      /\ a[n + 1] = Flag(f) /\ a[n + 2] = Word(v)
      /\ \A i \in 1 .. k : a[n + 2 + i] = after[i]
  <2> DEFINE c == before \o two
             e == c \o after
  <2>0. /\ c \in Seq(W) /\ Len(c) = n + Len(two)
        /\ \A i \in 1 .. n : c[i] = before[i]
        /\ \A i \in 1 .. Len(two) : c[n + i] = two[i]
    <3>1. c \in Seq(W)
      BY <1>2, Joined
    <3>2. Len(c) = n + Len(two)
      BY <1>2, Joined
    <3>3. \A i \in 1 .. n : c[i] = before[i]
      BY <1>2, Joined
    <3>4. \A i \in 1 .. Len(two) : c[n + i] = two[i]
      <4>1. ASSUME NEW i \in 1 .. Len(two) PROVE (before \o two)[Len(before) + i] = two[i]
        BY <1>2a, Joined
      <4> QED
        BY <4>1 DEF n
    <3> QED
      BY <3>1, <3>2, <3>3, <3>4
  <2>1. c \in Seq(W) /\ Len(c) = n + 2 /\ \A i \in 1 .. n : c[i] = before[i]
    BY <1>2, <2>0
  <2>2. c[n + 1] = Flag(f) /\ c[n + 2] = Word(v)
    <3>1. 1 \in 1 .. Len(two) /\ 2 \in 1 .. Len(two)
      BY <1>2
    <3> QED
      BY <1>2, <2>0, <3>1
  <2> HIDE DEF c
  <2>3. /\ e \in Seq(W) /\ Len(e) = n + 2 + k
        /\ \A i \in 1 .. n + 2 : e[i] = c[i]
        /\ \A i \in 1 .. k : e[n + 2 + i] = after[i]
    <3>0. c \in Seq(W)
      BY <2>1
    <3>1. e \in Seq(W)
      BY <2>1, Joined
    <3>2. Len(e) = Len(c) + k
      BY <1>2, <2>1, Joined
    <3>3. \A i \in 1 .. Len(c) : e[i] = c[i]
      BY <2>1, Joined
    <3>4. \A i \in 1 .. k : e[Len(c) + i] = after[i]
      <4>1. ASSUME NEW i \in 1 .. Len(after) PROVE (c \o after)[Len(c) + i] = after[i]
        BY <3>0, Joined
      <4> QED
        BY <4>1 DEF k
    <3> QED
      BY <2>1, <3>1, <3>2, <3>3, <3>4
  <2> HIDE DEF e
  <2>4. (\A i \in 1 .. n : i \in 1 .. n + 2) /\ n + 1 \in 1 .. n + 2 /\ n + 2 \in 1 .. n + 2
    BY <1>2
  <2>5. e[n + 1] = Flag(f) /\ e[n + 2] = Word(v)
    BY <1>2, <2>2, <2>3, <2>4
  <2> QED
    BY <2>1, <2>3, <2>4, <2>5 DEF c, e
<1>4. /\ b \in Seq(W) /\ Len(b) = n + 1 + k
      /\ \A i \in 1 .. n : b[i] = before[i]
      /\ b[n + 1] = Inline(f, w)
      /\ \A i \in 1 .. k : b[n + 1 + i] = after[i]
  <2> DEFINE c == before \o one
             e == c \o after
  <2>0. /\ c \in Seq(W) /\ Len(c) = n + Len(one)
        /\ \A i \in 1 .. n : c[i] = before[i]
        /\ \A i \in 1 .. Len(one) : c[n + i] = one[i]
    <3>1. c \in Seq(W)
      BY <1>2, Joined
    <3>2. Len(c) = n + Len(one)
      BY <1>2, Joined
    <3>3. \A i \in 1 .. n : c[i] = before[i]
      BY <1>2, Joined
    <3>4. \A i \in 1 .. Len(one) : c[n + i] = one[i]
      <4>1. ASSUME NEW i \in 1 .. Len(one) PROVE (before \o one)[Len(before) + i] = one[i]
        BY <1>2a, Joined
      <4> QED
        BY <4>1 DEF n
    <3> QED
      BY <3>1, <3>2, <3>3, <3>4
  <2>1. c \in Seq(W) /\ Len(c) = n + 1 /\ \A i \in 1 .. n : c[i] = before[i]
    BY <1>2, <2>0
  <2>2. c[n + 1] = Inline(f, w)
    <3>1. 1 \in 1 .. Len(one)
      BY <1>2
    <3> QED
      BY <1>2, <2>0, <3>1
  <2> HIDE DEF c
  <2>3. /\ e \in Seq(W) /\ Len(e) = n + 1 + k
        /\ \A i \in 1 .. n + 1 : e[i] = c[i]
        /\ \A i \in 1 .. k : e[n + 1 + i] = after[i]
    <3>0. c \in Seq(W)
      BY <2>1
    <3>1. e \in Seq(W)
      BY <2>1, Joined
    <3>2. Len(e) = Len(c) + k
      BY <1>2, <2>1, Joined
    <3>3. \A i \in 1 .. Len(c) : e[i] = c[i]
      BY <2>1, Joined
    <3>4. \A i \in 1 .. k : e[Len(c) + i] = after[i]
      <4>1. ASSUME NEW i \in 1 .. Len(after) PROVE (c \o after)[Len(c) + i] = after[i]
        BY <3>0, Joined
      <4> QED
        BY <4>1 DEF k
    <3> QED
      BY <2>1, <3>1, <3>2, <3>3, <3>4
  <2> HIDE DEF e
  <2>4. (\A i \in 1 .. n : i \in 1 .. n + 1) /\ n + 1 \in 1 .. n + 1
    BY <1>2
  <2>5. e[n + 1] = Inline(f, w)
    BY <1>2, <2>2, <2>3, <2>4
  <2> QED
    BY <2>1, <2>3, <2>4, <2>5 DEF c, e
<1> HIDE DEF a, b
<1>5. StableFrom(a)[n + 3] = StableFrom(b)[n + 2]
  <2>0. n + 3 \in 1 .. Len(a) + 1 /\ n + 2 \in 1 .. Len(b) + 1
    BY <1>2, <1>3, <1>4
  <2>1. PICK p \in 1 .. Len(a) + 1 : p = n + 3
    BY <2>0
  <2>2. PICK q \in 1 .. Len(b) + 1 : q = n + 2
    BY <2>0
  <2>3. Len(a) - p = Len(b) - q /\ Len(a) - p = k - 1
    BY <1>2, <1>3, <1>4, <2>1, <2>2
  <2>4. ASSUME NEW i \in 0 .. Len(a) - p PROVE a[p + i] = b[q + i]
    <3>1. PICK j \in 1 .. k : n + 2 + j = p + i /\ n + 1 + j = q + i
      <4>1. 1 + i \in 1 .. k /\ n + 2 + (1 + i) = p + i /\ n + 1 + (1 + i) = q + i
        BY <1>2, <2>1, <2>2, <2>3
      <4> QED
        BY <4>1
    <3> QED
      BY <1>3, <1>4, <3>1
  <2>5. a \in Seq(W) /\ b \in Seq(W)
    BY <1>3, <1>4
  <2>6. SameFrom(a, p, b, q)
    BY <2>3, <2>4 DEF SameFrom
  <2>7. StableFrom(a)[p] = StableFrom(b)[q]
    BY <2>1, <2>2, <2>5, <2>6, SuffixDecides
  <2> QED
    BY <2>1, <2>2, <2>7
<1>6. StableFrom(a)[n + 1] = <<Inline(f, SortCSV(v))>> \o StableFrom(a)[n + 3]
  <2>1. n + 1 < Len(a) /\ n + 1 \in 1 .. Len(a) /\ (n + 1) + 1 = n + 2 /\ (n + 1) + 2 = n + 3
    BY <1>2, <1>3
  <2>2. Takes(a, n + 1)
    BY <1>1, <1>3, <2>1, Zenon DEF Takes
  <2>3. StableWord(a, n + 1) = Inline(f, SortCSV(v))
    BY <1>1, <1>3, <2>1, <2>2, Zenon DEF StableWord
  <2>4. \A i \in 1 .. Len(a) :
          StableFrom(a)[i] = <<StableWord(a, i)>> \o StableFrom(a)[IF Takes(a, i) THEN i + 2 ELSE i + 1]
    BY <1>3, StableAt
  <2>5. StableFrom(a)[n + 1] = <<StableWord(a, n + 1)>> \o StableFrom(a)[n + 3]
    BY <2>1, <2>2, <2>4
  <2> QED
    BY <2>3, <2>5
<1>7. StableFrom(b)[n + 1] = <<Inline(f, SortCSV(w))>> \o StableFrom(b)[n + 2]
  <2>1. n + 1 \in 1 .. Len(b) /\ (n + 1) + 1 = n + 2
    BY <1>2, <1>4
  <2>2. ~Takes(b, n + 1)
    BY <1>1, <1>4, Zenon DEF Takes
  <2>3. StableWord(b, n + 1) = Inline(f, SortCSV(w))
    BY <1>1, <1>4, <2>2, Zenon DEF StableWord
  <2>4. \A i \in 1 .. Len(b) :
          StableFrom(b)[i] = <<StableWord(b, i)>> \o StableFrom(b)[IF Takes(b, i) THEN i + 2 ELSE i + 1]
    BY <1>4, StableAt
  <2>5. StableFrom(b)[n + 1] = <<StableWord(b, n + 1)>> \o StableFrom(b)[n + 2]
    BY <2>1, <2>2, <2>4
  <2> QED
    BY <2>3, <2>5
<1>8. StableFrom(a)[n + 1] = StableFrom(b)[n + 1]
  BY <1>5, <1>6, <1>7
<1>9. StableArgv(a) = StableArgv(b)
  <2>1. n < Len(a) /\ n < Len(b) /\ \A i \in 1 .. n : a[i] = b[i]
    BY <1>2, <1>3, <1>4
  <2>2. ~Takes(a, n) /\ ~Takes(b, n)
    BY <1>1, <1>3, <1>4, Zenon DEF Takes
  <2>3. a \in Seq(W) /\ b \in Seq(W) /\ n \in Nat
    BY <1>2, <1>3, <1>4
  <2> QED
    BY <1>8, <2>1, <2>2, <2>3, PrefixKept
<1> QED
  BY <1>9 DEF a, b, two, one

(***************************************************************************)
(* The audit file.                                                         *)
(***************************************************************************)

\* InTurn lists a finite set of positions in ascending order: the ranks of its
\* members are different numbers up to its size, so there is one for each.
LEMMA InTurnAscends ==
  ASSUME NEW S \in SUBSET Nat, IsFiniteSet(S)
  PROVE  /\ InTurn(S) \in [1 .. Cardinality(S) -> S]
         /\ \A k, l \in 1 .. Cardinality(S) : k < l => InTurn(S)[k] < InTurn(S)[l]
<1> DEFINE upTo(i) == {j \in S : j <= i}
           n == Cardinality(S)
           rank == [i \in S |-> Cardinality(upTo(i))]
<1>1. n \in Nat /\ \A i \in S : IsFiniteSet(upTo(i)) /\ Cardinality(upTo(i)) \in Nat
  <2>1. \A i \in S : IsFiniteSet(upTo(i))
    <3> TAKE i \in S
    <3>1. upTo(i) \in SUBSET S
      OBVIOUS
    <3> QED
      BY <3>1, FS_Subset
  <2> QED
    BY <2>1, FS_CardinalityType
<1>2. ASSUME NEW i \in S PROVE rank[i] \in 1 .. n
  <2>1. upTo(i) \in SUBSET S /\ i \in upTo(i)
    OBVIOUS
  <2>2. Cardinality(upTo(i)) <= n
    BY <2>1, FS_Subset
  <2>3. Cardinality(upTo(i)) # 0
    BY <1>1, <2>1, FS_EmptySet
  <2> HIDE DEF upTo, n
  <2> QED
    BY <1>1, <2>2, <2>3
<1>3. ASSUME NEW i \in S, NEW j \in S, i < j PROVE rank[i] < rank[j]
  <2>1. upTo(i) \in SUBSET upTo(j) /\ j \in upTo(j) /\ j \notin upTo(i)
    <3>1. i \in Nat /\ j \in Nat /\ \A k \in S : k \in Nat
      OBVIOUS
    <3>2. \A k \in S : k <= i => k <= j
      BY <1>3, <3>1
    <3>3. j <= j /\ ~(j <= i)
      BY <1>3, <3>1
    <3> QED
      BY <3>2, <3>3
  <2> HIDE DEF upTo
  <2>2. Cardinality(upTo(i)) <= Cardinality(upTo(j)) /\ Cardinality(upTo(i)) # Cardinality(upTo(j))
    BY <1>1, <2>1, FS_Subset
  <2> QED
    BY <1>1, <2>2
<1> HIDE DEF rank
<1>4. rank \in Injection(S, 1 .. n)
  <2>1. rank \in [S -> 1 .. n]
    BY <1>2 DEF rank
  <2>2. \A i, j \in S : rank[i] = rank[j] => i = j
    BY <1>1, <1>2, <1>3
  <2> QED
    BY <2>1, <2>2 DEF Injection, IsInjective
<1>5. rank \in Surjection(S, 1 .. n)
  <2>1. IsFiniteSet(1 .. n) /\ Cardinality(1 .. n) = n
    BY <1>1, FS_Interval
  <2> QED
    BY <1>4, <2>1, FS_Injection
<1>6. \A k \in 1 .. n : InTurn(S)[k] \in S /\ rank[InTurn(S)[k]] = k
  <2> TAKE k \in 1 .. n
  <2>1. \E i \in S : rank[i] = k
    BY <1>5 DEF Surjection
  <2>2. InTurn(S)[k] = CHOOSE i \in S : Cardinality(upTo(i)) = k
    BY DEF InTurn
  <2> HIDE DEF upTo
  <2> QED
    BY <2>1, <2>2 DEF rank
<1>7. InTurn(S) \in [1 .. n -> S]
  BY <1>6 DEF InTurn
<1>8. ASSUME NEW k \in 1 .. n, NEW l \in 1 .. n, k < l PROVE InTurn(S)[k] < InTurn(S)[l]
  <2> DEFINE a == InTurn(S)[k]
             b == InTurn(S)[l]
  <2>1. a \in S /\ b \in S /\ a \in Nat /\ b \in Nat /\ rank[a] = k /\ rank[b] = l
    BY <1>6
  <2> HIDE DEF a, b
  <2>2. a # b /\ ~(b < a)
    BY <1>1, <1>3, <1>8, <2>1
  <2>3. a < b
    BY <2>1, <2>2
  <2> QED
    BY <2>3 DEF a, b
<1> QED
  BY <1>7, <1>8

\* The lines of a file are among its chunks.
LEMMA FiniteLines ==
  ASSUME NEW C, NEW file \in Seq(C), NEW T \in SUBSET Lines(file)
  PROVE  IsFiniteSet(T) /\ T \in SUBSET Nat /\ T \in SUBSET DOMAIN file /\ Cardinality(T) \in Nat
<1>1. Lines(file) \in SUBSET (1 .. Len(file)) /\ Len(file) \in Nat /\ DOMAIN file = 1 .. Len(file)
  BY DEF Lines
<1>2. IsFiniteSet(1 .. Len(file))
  BY <1>1, FS_Interval
<1> QED
  BY <1>1, <1>2, FS_Subset, FS_CardinalityType

\* Whatever is cut off and does not parse, the rest is shown in its order.
LEMMA TailInOrder ==
  ASSUME NEW C, NEW file \in Seq(C), NEW n, NEW D, NEW whole \in Seq(D),
         InOrder([i \in DOMAIN file |-> file[i].record], whole)
  PROVE  InOrder(TailRecords(file, n), whole)
<1> DEFINE kept == {i \in Latest(file, n) : Parses(file, i)}
           turn == InTurn(kept)
           m == Cardinality(kept)
<1>1. kept \in SUBSET Lines(file)
  BY DEF Latest
<1>2. IsFiniteSet(kept) /\ kept \in SUBSET Nat /\ kept \in SUBSET DOMAIN file
  BY <1>1, FiniteLines
<1> HIDE DEF kept
<1>3. turn \in [1 .. m -> kept] /\ \A k, l \in 1 .. m : k < l => turn[k] < turn[l]
  BY <1>2, InTurnAscends
<1>4. PICK where \in [DOMAIN file -> DOMAIN whole] :
        /\ \A i, j \in DOMAIN file : i < j => where[i] < where[j]
        /\ \A i \in DOMAIN file : file[i].record = whole[where[i]]
  BY DEF InOrder
<1>5. TailRecords(file, n) = [k \in 1 .. m |-> file[turn[k]].record]
  BY <1>3 DEF TailRecords, kept
<1> HIDE DEF turn, m
<1> DEFINE there == [k \in 1 .. m |-> where[turn[k]]]
<1>6. there \in [1 .. m -> DOMAIN whole]
  BY <1>2, <1>3, <1>4
<1>7. \A k, l \in 1 .. m : k < l => there[k] < there[l]
  BY <1>2, <1>3, <1>4
<1>8. \A k \in 1 .. m : file[turn[k]].record = whole[there[k]]
  BY <1>2, <1>3, <1>4
<1> HIDE DEF there
<1> DEFINE shown == [k \in 1 .. m |-> file[turn[k]].record]
<1>9. DOMAIN shown = 1 .. m /\ \A k \in 1 .. m : shown[k] = whole[there[k]]
  BY <1>8
<1> HIDE DEF shown
<1>10. InOrder(shown, whole)
  <2>1. there \in [DOMAIN shown -> DOMAIN whole]
    BY <1>6, <1>9
  <2>2. \A k, l \in DOMAIN shown : k < l => there[k] < there[l]
    BY <1>7, <1>9
  <2>3. \A k \in DOMAIN shown : shown[k] = whole[there[k]]
    BY <1>9
  <2> QED
    BY <2>1, <2>2, <2>3, Zenon DEF InOrder
<1> QED
  BY <1>5, <1>10 DEF shown

\* As long as the lines fit in the tail, what parses is shown.
LEMMA TailShowsAll ==
  ASSUME NEW C, NEW file \in Seq(C), NEW n \in Nat, Cardinality(Lines(file)) <= n
  PROVE  Len(TailRecords(file, n)) = Cardinality(Readable(file))
<1>1. Latest(file, n) = Lines(file)
  <2> SUFFICES ASSUME NEW i \in Lines(file)
               PROVE  Cardinality({j \in Lines(file) : j > i}) < n
    BY DEF Latest
  <2> DEFINE later == {j \in Lines(file) : j > i}
  <2>1. i \in Nat
    BY FiniteLines
  <2>2. later \in SUBSET Lines(file) /\ i \notin later
    BY <2>1
  <2> HIDE DEF later
  <2>3. Cardinality(later) <= Cardinality(Lines(file)) /\ Cardinality(later) # Cardinality(Lines(file))
    BY <2>2, FiniteLines, FS_Subset
  <2>4. Cardinality(later) \in Nat /\ Cardinality(Lines(file)) \in Nat
    BY <2>2, FiniteLines
  <2>5. Cardinality(later) < n
    BY <2>3, <2>4
  <2> QED
    BY <2>5 DEF later
<1>2. Readable(file) \in SUBSET Lines(file)
  BY DEF Readable
<1> DEFINE m == Cardinality(Readable(file))
<1>3. InTurn(Readable(file)) \in [1 .. m -> Readable(file)] /\ m \in Nat
  BY <1>2, FiniteLines, InTurnAscends
<1>4. TailRecords(file, n) = [k \in DOMAIN InTurn(Readable(file)) |-> file[InTurn(Readable(file))[k]].record]
  BY <1>1 DEF TailRecords, Readable
<1> HIDE DEF m
<1>5. DOMAIN TailRecords(file, n) = 1 .. m
  BY <1>3, <1>4
<1>6. \E s \in Nat : DOMAIN TailRecords(file, n) = 1 .. s
  BY <1>3, <1>5
<1> DEFINE shown == InTurn(Readable(file))
<1>7. TailRecords(file, n) = [k \in 1 .. m |-> file[shown[k]].record]
  BY <1>3, <1>4
<1> HIDE DEF shown
<1>8. Len([k \in 1 .. m |-> file[shown[k]].record]) = m
  BY <1>3
<1> QED
  BY <1>7, <1>8 DEF m

\* A new chunk begins a line that parses if the file ended with a whole line and
\* the chunk is not torn, and spoils the line before if only its newline was
\* missing.
LEMMA AppendReadable ==
  ASSUME NEW R, NEW file \in Seq([record : R, part : {"whole", "unterminated", "torn"}]),
         NEW chunk \in [record : R, part : {"whole", "unterminated", "torn"}]
  PROVE  /\ Cardinality(Readable(Append(file, chunk))) + AtRisk(file) >=
              Cardinality(Readable(file)) + (IF EndsWhole(file) /\ chunk.part # "torn" THEN 1 ELSE 0)
         /\ AtRisk(Append(file, chunk)) =
              IF EndsWhole(file) /\ chunk.part = "unterminated" THEN 1 ELSE 0
         /\ EndsWhole(Append(file, chunk)) <=> chunk.part = "whole"
         /\ AtRisk(file) \in {0, 1}
<1> DEFINE C == [record : R, part : {"whole", "unterminated", "torn"}]
           longer == Append(file, chunk)
           n == Len(file)
<1>1. /\ n \in Nat /\ longer \in Seq(C) /\ Len(longer) = n + 1 /\ longer[n + 1] = chunk
      /\ \A i \in 1 .. n : longer[i] = file[i] /\ file[i] \in C
      /\ DOMAIN file = 1 .. n /\ DOMAIN longer = 1 .. n + 1 /\ longer # <<>> /\ (file = <<>> <=> n = 0)
  <2>1. file \in Seq(C) /\ chunk \in C /\ n \in Nat /\ DOMAIN file = 1 .. n /\ (file = <<>> <=> n = 0)
    OBVIOUS
  <2> HIDE DEF C
  <2>2. longer \in Seq(C) /\ Len(longer) = n + 1 /\ longer[n + 1] = chunk
    BY <2>1
  <2>3. \A i \in 1 .. n : longer[i] = file[i] /\ file[i] \in C
    BY <2>1
  <2>4. DOMAIN longer = 1 .. n + 1 /\ longer # <<>>
    BY <2>1, <2>2
  <2> QED
    BY <2>1, <2>2, <2>3, <2>4
<1> HIDE DEF longer, n
<1>2. \A c \in C : c.part \in {"whole", "unterminated", "torn"}
  OBVIOUS
<1> HIDE DEF C
<1> DEFINE fresh == n = 0 \/ file[n].part = "whole"
           spoilt == n # 0 /\ file[n].part = "unterminated" /\ n \in Lines(file)
           old == Readable(file)
           new == Readable(longer)
           stays == IF spoilt THEN old \ {n} ELSE old
<1>3. /\ fresh <=> EndsWhole(file)
      /\ AtRisk(file) = IF spoilt THEN 1 ELSE 0
  BY <1>1 DEF EndsWhole, AtRisk, n
<1>4. /\ EndsWhole(longer) <=> chunk.part = "whole"
      /\ n + 1 \in Lines(longer) <=> fresh
  BY <1>1 DEF EndsWhole, Lines
<1>5. AtRisk(longer) = IF fresh /\ chunk.part = "unterminated" THEN 1 ELSE 0
  BY <1>1, <1>4 DEF AtRisk
<1>6. stays \in SUBSET new /\ n + 1 \notin stays
  BY <1>1, <1>2 DEF Readable, Lines, Parses
<1>7. fresh /\ chunk.part # "torn" => n + 1 \in new
  BY <1>1, <1>2 DEF Readable, Lines, Parses
<1>8. /\ IsFiniteSet(old) /\ Cardinality(old) \in Nat
      /\ IsFiniteSet(new) /\ Cardinality(new) \in Nat
  <2>1. old \in SUBSET Lines(file) /\ new \in SUBSET Lines(longer)
    BY DEF Readable
  <2> QED
    BY <1>1, <2>1, FiniteLines
<1>9. IsFiniteSet(stays) /\ Cardinality(stays) \in Nat
      /\ Cardinality(stays) >= Cardinality(old) - (IF spoilt THEN 1 ELSE 0)
  <2>1. CASE spoilt
    <3>1. stays = old \ {n}
      BY <2>1
    <3> HIDE DEF old, stays, spoilt
    <3>2. IsFiniteSet(stays) /\ (Cardinality(stays) = Cardinality(old) - 1 \/ Cardinality(stays) = Cardinality(old))
      BY <1>8, <3>1, FS_RemoveElement
    <3>3. Cardinality(stays) \in Nat
      BY <3>2, FS_CardinalityType
    <3> QED
      BY <1>8, <2>1, <3>2, <3>3
  <2>2. CASE ~spoilt
    BY <1>8, <2>2
  <2> QED
    BY <2>1, <2>2
<1> HIDE DEF old, new, stays
<1>10. Cardinality(new) >= Cardinality(stays)
  BY <1>6, <1>8, FS_Subset
<1>11. fresh /\ chunk.part # "torn" => Cardinality(new) >= Cardinality(stays) + 1
  <2> SUFFICES ASSUME n + 1 \in new PROVE Cardinality(new) >= Cardinality(stays) + 1
    BY <1>7
  <2>1. stays \union {n + 1} \in SUBSET new
    BY <1>6
  <2>2. Cardinality(stays \union {n + 1}) = Cardinality(stays) + 1
    BY <1>6, <1>9, FS_AddElement
  <2> QED
    BY <1>8, <1>9, <2>1, <2>2, FS_Subset
<1>12. Cardinality(new) + AtRisk(file) >= Cardinality(old) + (IF fresh /\ chunk.part # "torn" THEN 1 ELSE 0)
  <2> HIDE DEF fresh, spoilt
  <2>1. CASE fresh /\ chunk.part # "torn"
    BY <1>3, <1>8, <1>9, <1>11, <2>1
  <2>2. CASE ~(fresh /\ chunk.part # "torn")
    BY <1>3, <1>8, <1>9, <1>10, <2>2
  <2> QED
    BY <2>1, <2>2
<1> QED
  BY <1>3, <1>4, <1>5, <1>12 DEF old, new, longer

\* A longer history shows the same in order, and one more at its end.
LEMMA AppendInOrder ==
  ASSUME NEW C, NEW part \in Seq(C), NEW D, NEW whole \in Seq(D), InOrder(part, whole), NEW d \in D
  PROVE  InOrder(part, Append(whole, d)) /\ (d \in C => InOrder(Append(part, d), Append(whole, d)))
<1> DEFINE n == Len(part)
           m == Len(whole)
           longer == Append(whole, d)
<1>1. /\ n \in Nat /\ m \in Nat /\ DOMAIN part = 1 .. n /\ DOMAIN whole = 1 .. m
      /\ DOMAIN longer = 1 .. m + 1 /\ longer[m + 1] = d /\ \A i \in 1 .. m : longer[i] = whole[i]
  OBVIOUS
<1>2. PICK where \in [1 .. n -> 1 .. m] :
        /\ \A i, j \in 1 .. n : i < j => where[i] < where[j]
        /\ \A i \in 1 .. n : part[i] = whole[where[i]]
  BY <1>1, Zenon DEF InOrder
<1> HIDE DEF n, m, longer
<1>3. InOrder(part, longer)
  <2>1. where \in [1 .. n -> 1 .. m + 1]
    BY <1>1, <1>2
  <2>2. \A i \in 1 .. n : part[i] = longer[where[i]]
    BY <1>1, <1>2
  <2> QED
    BY <1>1, <1>2, <2>1, <2>2, Zenon DEF InOrder
<1>4. ASSUME d \in C PROVE InOrder(Append(part, d), longer)
  <2> DEFINE more == Append(part, d)
             there == [i \in 1 .. n + 1 |-> IF i = n + 1 THEN m + 1 ELSE where[i]]
  <2>1. DOMAIN more = 1 .. n + 1 /\ more[n + 1] = d /\ \A i \in 1 .. n : more[i] = part[i]
    BY <1>1 DEF n
  <2>2. there \in [1 .. n + 1 -> 1 .. m + 1]
    BY <1>1, <1>2
  <2>3. \A i, j \in 1 .. n + 1 : i < j => there[i] < there[j]
    BY <1>1, <1>2
  <2>4. \A i \in 1 .. n + 1 : more[i] = longer[there[i]]
    BY <1>1, <1>2, <2>1
  <2> HIDE DEF more, there
  <2>5. InOrder(more, longer)
    BY <1>1, <2>1, <2>2, <2>3, <2>4, Zenon DEF InOrder
  <2> QED
    BY <2>5 DEF more
<1> QED
  BY <1>3, <1>4 DEF longer

\* What a write leaves of the audit file is made of re-approvals in their order,
\* and what it hides is paid for by the faults so far.
LEMMA RecordKeeps ==
  ASSUME AuditInv, faults \in [struck : Nat, latest : BOOLEAN],
         NEW move \in Moves, NEW failed \in BOOLEAN,
         moves' = Append(moves, move), log' \in Recorded(log, move, failed),
         faults' = Struck(failed)
  PROVE  /\ AuditInv' /\ Len(moves') = Len(moves) + 1
         /\ Len(log') \in Nat /\ Len(log') <= Len(log) + 1
<1> DEFINE records(file) == [i \in DOMAIN file |-> file[i].record]
           shown(file) == Cardinality(Readable(file))
           Parts == {"whole", "unterminated", "torn"}
<1>1. /\ log \in Seq(Chunks) /\ moves \in Seq(Moves) /\ InOrder(records(log), moves)
      /\ Len(moves) + AtRisk(log) <= shown(log) + faults.struck
      /\ faults.latest \/ EndsWhole(log)
      /\ Len(log) \in Nat /\ Len(moves) \in Nat
  BY DEF AuditInv, LogIsMoves, LogInOrder, FaultsHide
<1>2. moves' \in Seq(Moves) /\ Len(moves') = Len(moves) + 1
  BY <1>1
<1>3. records(log) \in Seq(Moves)
  <2>1. \A i \in 1 .. Len(log) : log[i] \in Chunks
    BY <1>1
  <2>2. \A i \in 1 .. Len(log) : log[i].record \in Moves
    BY <2>1 DEF Chunks
  <2>3. DOMAIN log = 1 .. Len(log)
    BY <1>1
  <2>4. records(log) \in [1 .. Len(log) -> Moves]
    BY <2>2, <2>3
  <2> QED
    BY <1>1, <2>4
<1>8. /\ faults.struck \in Nat /\ faults.latest \in BOOLEAN /\ faults'.latest = failed
      /\ faults'.struck = IF failed \/ faults.latest THEN faults.struck + 1 ELSE faults.struck
  BY DEF Struck
<1>4. InOrder(records(log), moves') /\ InOrder(Append(records(log), move), moves')
  <2>1. \A part \in Seq(Moves) : InOrder(part, moves) =>
          InOrder(part, Append(moves, move)) /\ InOrder(Append(part, move), Append(moves, move))
    BY <1>1, AppendInOrder
  <2> QED
    BY <1>1, <1>3, <2>1
<1>5. CASE failed /\ log' = log
  <2>1. shown(log) \in Nat /\ AtRisk(log) \in {0, 1}
    <3>1. AtRisk(log) \in {0, 1}
      BY DEF AtRisk
    <3> QED
      BY <1>1, <3>1, FiniteLines DEF Readable
  <2>2. FaultsHide'
    <3>1. shown(log') = shown(log) /\ AtRisk(log') = AtRisk(log) /\ faults'.latest
      BY <1>5, <1>8
    <3>2. faults'.struck = faults.struck + 1
      BY <1>5, <1>8
    <3> HIDE DEF shown
    <3>3. Len(moves') + AtRisk(log') <= shown(log') + faults'.struck
      BY <1>1, <1>2, <1>8, <2>1, <3>1, <3>2
    <3> QED
      BY <3>1, <3>3 DEF FaultsHide, shown
  <2>3. LogInOrder'
    BY <1>4, <1>5 DEF LogInOrder
  <2> QED
    BY <1>1, <1>2, <1>5, <2>2, <2>3 DEF AuditInv, LogIsMoves
<1>6. ASSUME NEW part \in Parts, log' = Append(log, Chunk(move, part)), failed \/ part = "whole"
      PROVE  /\ AuditInv' /\ Len(log') \in Nat /\ Len(log') <= Len(log) + 1
  <2> DEFINE chunk == Chunk(move, part)
  <2>1. chunk \in Chunks /\ chunk.part = part /\ chunk.record = move
    BY DEF Chunk, Chunks
  <2> HIDE DEF chunk
  <2>2. log' \in Seq(Chunks) /\ Len(log') = Len(log) + 1
    BY <1>1, <1>6, <2>1 DEF chunk
  <2>3. /\ shown(log') + AtRisk(log) >= shown(log) + (IF EndsWhole(log) /\ part # "torn" THEN 1 ELSE 0)
        /\ AtRisk(log') = IF EndsWhole(log) /\ part = "unterminated" THEN 1 ELSE 0
        /\ EndsWhole(log') <=> part = "whole"
        /\ AtRisk(log) \in {0, 1}
    BY <1>1, <1>6, <2>1, AppendReadable DEF Chunks, chunk
  <2>4. shown(log) \in Nat /\ shown(log') \in Nat
    BY <1>1, <2>2, FiniteLines DEF Readable
  <2>5. FaultsHide'
    <3>1. Len(moves') + AtRisk(log') <= shown(log') + faults'.struck
      <4> HIDE DEF shown
      <4>1. CASE part = "whole"
        BY <1>1, <1>2, <1>8, <2>3, <2>4, <4>1
      <4>2. CASE part = "torn" /\ failed
        BY <1>1, <1>2, <1>8, <2>3, <2>4, <4>2
      <4>3. CASE part = "unterminated" /\ failed
        BY <1>1, <1>2, <1>8, <2>3, <2>4, <4>3
      <4> QED
        BY <1>6, <4>1, <4>2, <4>3
    <3>2. faults'.latest \/ EndsWhole(log')
      BY <1>6, <1>8, <2>3
    <3> QED
      BY <3>1, <3>2 DEF FaultsHide
  <2>6. LogInOrder'
    <3>1. Append(records(log), move) = records(log')
      <4>1. DOMAIN records(log) = 1 .. Len(log) /\ DOMAIN log' = 1 .. Len(log) + 1
        BY <1>1, <2>2
      <4>2. \A i \in 1 .. Len(log) : log'[i] = log[i]
        BY <1>1, <1>6, <2>1 DEF chunk
      <4>3. log'[Len(log) + 1] = chunk
        BY <1>1, <1>6, <2>1 DEF chunk
      <4>4. \A i \in 1 .. Len(log) + 1 : Append(records(log), move)[i] = log'[i].record
        BY <1>1, <1>3, <2>1, <4>1, <4>2, <4>3
      <4>5. DOMAIN Append(records(log), move) = 1 .. Len(log) + 1
        BY <1>1, <1>3, <4>1
      <4> DEFINE more == Append(records(log), move)
                 now == records(log')
      <4>6. DOMAIN now = 1 .. Len(log) + 1 /\ \A i \in 1 .. Len(log) + 1 : now[i] = log'[i].record
        BY <4>1
      <4>7. more \in Seq(Moves)
        BY <1>3
      <4>8. now = [i \in DOMAIN now |-> now[i]] /\ more = [i \in DOMAIN more |-> more[i]]
        BY <4>7
      <4> HIDE DEF now
      <4>9. DOMAIN more = DOMAIN now /\ \A i \in DOMAIN now : more[i] = now[i]
        BY <4>4, <4>5, <4>6
      <4> HIDE DEF more
      <4>10. more = now
        BY <4>8, <4>9
      <4> QED
        BY <4>10 DEF more, now
    <3> QED
      BY <1>4, <3>1 DEF LogInOrder
  <2> QED
    BY <1>2, <2>2, <2>5, <2>6, <1>1 DEF AuditInv, LogIsMoves
<1>7. (failed /\ log' = log) \/ \E part \in Parts : log' = Append(log, Chunk(move, part)) /\ (failed \/ part = "whole")
  BY DEF Recorded
<1> QED
  BY <1>1, <1>2, <1>5, <1>6, <1>7

USE SessionSwitch, SessionBound, ListingAssumption, AbsentAssumption, LabelAssumption

(***************************************************************************)
(* Pins.                                                                   *)
(***************************************************************************)

\* What a pin remembers of its listing and of its launch.
LEMMA PinFields ==
  ASSUME NEW tools, NEW c
  PROVE  /\ Pinned(tools, c).pin.aggregate = PinTools(tools).aggregate
         /\ Pinned(tools, c).pin.hashes = PinTools(tools).hashes
         /\ Pinned(tools, c).pin.fingerprint = Fingerprint(c.argv, c.environ)
         /\ Pinned(tools, c).tools = tools /\ Pinned(tools, c).meaning = c.meaning
         /\ PinnedPlain(tools).pin.aggregate = PinTools(tools).aggregate
         /\ PinnedPlain(tools).pin.hashes = PinTools(tools).hashes
         /\ PinnedPlain(tools).tools = tools /\ PinnedPlain(tools).meaning = Absent
         /\ PinnedPlain(tools).pin.fingerprint = NoFingerprint
         /\ DOMAIN Pinned(tools, c).pin = {"aggregate", "hashes", "tools", "fingerprint"}
         /\ DOMAIN PinnedPlain(tools).pin = {"aggregate", "hashes", "tools", "fingerprint"}
BY DEF Pinned, PinnedPlain, PlainPin, BindPinIdentity

\* A listing that is not refused has the hashes of HashCatalog, a refused one none.
LEMMA PinHashes ==
  ASSUME NEW tools
  PROVE  /\ Refused(tools) => PinTools(tools).aggregate = NoHash
         /\ ~Refused(tools) => PinTools(tools) = HashCatalog(tools)
         /\ \E v : HashCatalog(tools).aggregate = Sha256(v)
         /\ DOMAIN HashCatalog(tools).hashes = Names(tools)
BY DEF PinTools, HashCatalog, Names

(***************************************************************************)
(* Evaluations.                                                            *)
(***************************************************************************)

LEMMA EvaluateCodes ==
  ASSUME NEW p, NEW now
  PROVE  Evaluate(p, now).code \in Drift \union {"OK", "PIN_MISSING", "INTERNAL_ERROR"}
BY DEF Evaluate, Drift

\* Drift is found by comparing a verified pin with a listing that has a hash.
LEMMA EvaluateDrift ==
  ASSUME NEW p, NEW now, Evaluate(p, now).code \in Drift
  PROVE  /\ p # Absent /\ Verified(p) /\ ~Refused(now.tools)
         /\ Evaluate(p, now).diff = Summary(p, now.pin)
         /\ ~(p.fingerprint = now.pin.fingerprint /\ p.aggregate = now.pin.aggregate)
BY DEF Evaluate, Drift

\* OK is returned for the aggregate in a verified pin only, and for the launch
\* the pin names, if it names one.
LEMMA EvaluateOK ==
  ASSUME NEW p, NEW now, Evaluate(p, now).code = "OK"
  PROVE  /\ p # Absent /\ Verified(p) /\ ~Refused(now.tools)
         /\ p.aggregate = now.pin.aggregate
         /\ p.fingerprint \in {NoFingerprint, now.pin.fingerprint}
BY DEF Evaluate

\* The mock's tools have names of their own.
LEMMA MockListing == ASSUME NEW mode PROVE Listing(MockTools(mode)) /\ ~Refused(MockTools(mode))
<1> DEFINE good(tools) == Listing(tools) /\ ~Refused(tools)
<1>1. Alpha.name = 1 /\ Bravo.name = 2
  BY DEF Alpha, Bravo, Tool
<1>2. \A x, y : x.name \in {1, 2} /\ y.name \in {1, 2} /\ x.name # y.name => good(<<x, y>>)
  BY DEF Listing, Refused, Elements
<1>3. \A x, y, z : x.name = 1 /\ y.name = 2 /\ z.name = 3 => good(<<x, y, z>>)
  BY DEF Listing, Refused, Elements
<1>4. good(<<Alpha>>)
  BY <1>1 DEF Listing, Refused, Elements
<1> HIDE DEF good
<1>5. good(<<Bravo, Alpha>>) /\ good(<<Alpha, Bravo>>)
  BY <1>1, <1>2
<1>6. good(<<Tool(1, "POISONED first tool", MockSchema, "poisoned"), Bravo>>)
  <2>1. PICK x : x = Tool(1, "POISONED first tool", MockSchema, "poisoned")
    OBVIOUS
  <2>2. x.name = 1
    BY <2>1 DEF Tool
  <2>3. good(<<x, Bravo>>)
    BY <1>1, <1>2, <2>2
  <2> QED
    BY <2>1, <2>3, Zenon
<1>7. good(<<Alpha, Bravo, Tool(3, "Added tool", MockSchema, "charlie")>>)
  <2>1. PICK x : x = Tool(3, "Added tool", MockSchema, "charlie")
    OBVIOUS
  <2>2. x.name = 3
    BY <2>1 DEF Tool
  <2>3. good(<<Alpha, Bravo, x>>)
    BY <1>1, <1>3, <2>2
  <2> QED
    BY <2>1, <2>3, Zenon
<1>8. good(MockTools(mode))
  BY <1>4, <1>5, <1>6, <1>7 DEF MockTools
<1> QED
  BY <1>8 DEF good

LEMMA ServedListing == ASSUME NEW tools \in Served PROVE Listing(tools)
BY MockListing DEF Served

\* Listings say the same if and only if they have one aggregate.
LEMMA SameAggregate ==
  ASSUME NEW a \in Served, NEW b \in Served, ~Refused(a), ~Refused(b)
  PROVE  PinTools(a).aggregate = PinTools(b).aggregate <=> Says(a) = Says(b)
<1>1. /\ PinTools(a).aggregate = HashCatalog(a).aggregate
      /\ PinTools(b).aggregate = HashCatalog(b).aggregate
  BY PinHashes
<1>2. HashCatalog(a).aggregate = HashCatalog(b).aggregate <=> Payloads(a) = Payloads(b)
  BY AggregateTells, ServedListing
<1>3. \A t \in Elements(a), u \in Elements(b) : t.says = u.says <=> Payload(t) = Payload(u)
  OBVIOUS
<1>4. ASSUME Payloads(a) = Payloads(b) PROVE Says(a) = Says(b)
  <2>1. \A t \in Elements(a) : \E u \in Elements(b) : Payload(t) = Payload(u)
    BY <1>4 DEF Payloads
  <2>2. \A u \in Elements(b) : \E t \in Elements(a) : Payload(t) = Payload(u)
    BY <1>4 DEF Payloads
  <2> QED
    BY <1>3, <2>1, <2>2 DEF Says
<1>5. ASSUME Says(a) = Says(b) PROVE Payloads(a) = Payloads(b)
  <2>1. \A t \in Elements(a) : \E u \in Elements(b) : t.says = u.says
    BY <1>5 DEF Says
  <2>2. \A u \in Elements(b) : \E t \in Elements(a) : t.says = u.says
    BY <1>5 DEF Says
  <2> QED
    BY <1>3, <2>1, <2>2 DEF Payloads
<1> QED
  BY <1>1, <1>2, <1>4, <1>5

\* The diff of two pins names what a person would name.
LEMMA SummaryNames ==
  ASSUME NEW a \in Served, NEW b \in Served, ~Refused(a), ~Refused(b),
         NEW p, NEW q, p.hashes = PinTools(a).hashes, q.hashes = PinTools(b).hashes
  PROVE  Summary(p, q) =
           [added |-> Names(b) \ Names(a), removed |-> Names(a) \ Names(b),
            changed |-> {n \in Names(b) \intersect Names(a) : Named(b, n) # Named(a, n)}]
<1>1. p.hashes = HashCatalog(a).hashes /\ q.hashes = HashCatalog(b).hashes
  BY PinHashes
<1>2. DOMAIN p.hashes = Names(a) /\ DOMAIN q.hashes = Names(b)
  BY <1>1, PinHashes
<1>3. ASSUME NEW n \in Names(a) \intersect Names(b)
      PROVE  p.hashes[n] # q.hashes[n] <=> Named(b, n) # Named(a, n)
  <2>1. PICK t \in Elements(a) : t.name = n
    BY <1>3 DEF Names
  <2>2. PICK u \in Elements(b) : u.name = n
    BY <1>3 DEF Names
  <2>3. p.hashes[n] = Sha256(Payload(t)) /\ q.hashes[n] = Sha256(Payload(u))
    BY <1>1, <2>1, <2>2, HashOfTool
  <2>4. Named(a, n) = {t.says}
    BY <2>1 DEF Named, Refused, Elements
  <2>5. Named(b, n) = {u.says}
    BY <2>2 DEF Named, Refused, Elements
  <2>6. Payload(t) = Payload(u) <=> t.says = u.says
    OBVIOUS
  <2> QED
    BY <2>3, <2>4, <2>5, <2>6, HashInjective
<1> DEFINE changed == {n \in DOMAIN p.hashes \intersect DOMAIN q.hashes : p.hashes[n] # q.hashes[n]}
<1>4. changed = {n \in Names(b) \intersect Names(a) : Named(b, n) # Named(a, n)}
  BY <1>2, <1>3
<1> HIDE DEF changed
<1> QED
  BY <1>2, <1>4, Zenon DEF Summary, changed

\* What the guard pinned passes as long as it says the same, whatever launch and
\* spelling it comes from: the written pin is verified and has its aggregate.
LEMMA TrustedPasses ==
  ASSUME NEW old \in Served, ~Refused(old), NEW p,
         p \in {PinnedPlain(old).pin} \union {Pinned(old, d).pin : d \in Configs},
         NEW tools \in Served, Says(tools) = Says(old), NEW c \in Configs,
         p.fingerprint \in {NoFingerprint, Fingerprint(c.argv, c.environ)}
  PROVE  Evaluate(p, Pinned(tools, c)).code = "OK"
<1> DEFINE now == Pinned(tools, c)
<1>1. p # Absent
  BY DEF PinnedPlain
<1>2. /\ p.aggregate = PinTools(old).aggregate /\ p.hashes = PinTools(old).hashes
      /\ p.tools = PinTools(old).tools
  BY DEF PinnedPlain, Pinned, PlainPin, BindPinIdentity
<1>3. Verified(p)
  BY <1>2, PinHashes, ServedListing, WrittenPinVerifies
<1>4. ~Refused(tools) /\ p.aggregate = PinTools(tools).aggregate
  BY <1>2, SameAggregate
<1>5. /\ now.tools = tools /\ now.pin.aggregate = PinTools(tools).aggregate
      /\ now.pin.fingerprint = Fingerprint(c.argv, c.environ)
  BY PinFields
<1> HIDE DEF now
<1>6. Evaluate(p, now).code = "OK"
  BY <1>1, <1>3, <1>4, <1>5 DEF Evaluate
<1> QED
  BY <1>6 DEF now

(***************************************************************************)
(* The step that decides.                                                  *)
(***************************************************************************)

\* The tools and hashes of a pin as the guard wrote it leave one aggregate that
\* verifies with them.
LEMMA KeptToolsTell ==
  ASSUME NEW old \in Served, ~Refused(old), NEW q, NEW p, Verified(p),
         q \in {PinnedPlain(old).pin} \union {Pinned(old, d).pin : d \in Configs},
         p.tools = q.tools, p.hashes = q.hashes
  PROVE  p.aggregate = q.aggregate
<1>1. /\ q.aggregate = PinTools(old).aggregate /\ q.hashes = PinTools(old).hashes
      /\ q.tools = PinTools(old).tools
  BY DEF PinnedPlain, Pinned, PlainPin, BindPinIdentity
<1>2. Verified(q) /\ (q.tools # <<>> \/ DOMAIN q.hashes = {})
  BY <1>1, PinHashes, ServedListing, WrittenPinVerifies
<1> QED
  BY <1>2 DEF Verified

\* A listing that passes the pin file says what the last pin says, unless both
\* the aggregate and what it is computed from were exchanged; and so does the
\* launch, unless its fingerprint was.
LEMMA PassesAsTrusted ==
  ASSUME TrustedIsPin, NEW tools \in Served, NEW c \in Configs,
         Evaluate(pin, Pinned(tools, c)).code = "OK"
  PROVE  /\ pin # Absent
         /\ Kept("aggregate") \/ (Kept("tools") /\ Kept("hashes"))
              => Says(tools) = Says(trusted.tools)
         /\ Kept("fingerprint") => trusted.meaning \in {Absent, c.meaning}
<1>1. /\ pin # Absent /\ Verified(pin) /\ ~Refused(tools)
      /\ pin.aggregate = PinTools(tools).aggregate
      /\ pin.fingerprint \in {NoFingerprint, Fingerprint(c.argv, c.environ)}
  BY EvaluateOK, PinFields
<1>2. ASSUME trusted # Absent
      PROVE  \E old \in {l \in Served : ~Refused(l)} :
               trusted \in {PinnedPlain(old)} \union {Pinned(old, d) : d \in Configs}
  BY <1>2 DEF TrustedIsPin
<1>3. ASSUME Kept("aggregate") \/ (Kept("tools") /\ Kept("hashes"))
      PROVE  Says(tools) = Says(trusted.tools)
  <2>1. trusted # Absent
    BY <1>3 DEF Kept
  <2>2. PICK old \in {l \in Served : ~Refused(l)} :
          trusted \in {PinnedPlain(old)} \union {Pinned(old, d) : d \in Configs}
    BY <1>2, <2>1
  <2>3. /\ trusted.tools = old /\ trusted.pin.aggregate = PinTools(old).aggregate
        /\ trusted.pin \in {PinnedPlain(old).pin} \union {Pinned(old, d).pin : d \in Configs}
    BY <2>2, PinFields
  <2>4. pin.aggregate = trusted.pin.aggregate
    <3>1. CASE Kept("aggregate")
      BY <3>1 DEF Kept
    <3>2. CASE Kept("tools") /\ Kept("hashes")
      <4>1. pin.tools = trusted.pin.tools /\ pin.hashes = trusted.pin.hashes
        BY <3>2 DEF Kept
      <4> QED
        BY <1>1, <2>2, <2>3, <4>1, KeptToolsTell
    <3> QED
      BY <1>3, <3>1, <3>2
  <2> QED
    BY <1>1, <2>2, <2>3, <2>4, SameAggregate
<1>4. ASSUME Kept("fingerprint") PROVE trusted.meaning \in {Absent, c.meaning}
  <2>1. trusted # Absent /\ pin.fingerprint = trusted.pin.fingerprint
    BY <1>4 DEF Kept
  <2>2. PICK old \in {l \in Served : ~Refused(l)} :
          trusted \in {PinnedPlain(old)} \union {Pinned(old, d) : d \in Configs}
    BY <1>2, <2>1
  <2>3. CASE trusted = PinnedPlain(old)
    BY <2>3, PinFields
  <2>4. ASSUME NEW d \in Configs, trusted = Pinned(old, d) PROVE trusted.meaning = c.meaning
    <3>1. trusted.pin.fingerprint = Fingerprint(d.argv, d.environ) /\ trusted.meaning = d.meaning
      BY <2>4, PinFields
    <3>2. Len(Fingerprint(d.argv, d.environ)) # Len(NoFingerprint)
      BY DEF Fingerprint, NoFingerprint
    <3>3. Fingerprint(d.argv, d.environ) # NoFingerprint
      BY <3>2, Zenon
    <3>4. Fingerprint(d.argv, d.environ) = Fingerprint(c.argv, c.environ)
      BY <1>1, <2>1, <3>1, <3>3
    <3> QED
      BY <3>1, <3>4
  <2> QED
    BY <2>2, <2>3, <2>4
<1> QED
  BY <1>1, <1>3, <1>4

\* What says what the last pin says passes the pin file as the guard wrote it.
LEMMA PassesUnchanged ==
  ASSUME TrustedIsPin, trusted # Absent, pin = trusted.pin, NEW tools \in Served, NEW c \in Configs,
         Says(tools) = Says(trusted.tools), trusted.meaning \in {Absent, c.meaning}
  PROVE  Evaluate(pin, Pinned(tools, c)).code = "OK"
<1>1. PICK old \in {l \in Served : ~Refused(l)} :
        trusted \in {PinnedPlain(old)} \union {Pinned(old, d) : d \in Configs}
  BY DEF TrustedIsPin
<1>2. CASE trusted = PinnedPlain(old)
  <2>1. pin.fingerprint = NoFingerprint /\ trusted.tools = old
    BY <1>2, PinFields
  <2> QED
    BY <1>2, <2>1, TrustedPasses
<1>3. ASSUME NEW d \in Configs, trusted = Pinned(old, d)
      PROVE  Evaluate(pin, Pinned(tools, c)).code = "OK"
  <2>1. /\ pin.fingerprint = Fingerprint(d.argv, d.environ) /\ trusted.tools = old
        /\ trusted.meaning = d.meaning
    BY <1>3, PinFields
  <2>2. pin.fingerprint = Fingerprint(c.argv, c.environ)
    BY <2>1
  <2>3. pin \in {PinnedPlain(old).pin} \union {Pinned(old, e).pin : e \in Configs}
    BY <1>3
  <2> QED
    BY <2>1, <2>2, <2>3, TrustedPasses
<1> QED
  BY <1>1, <1>2, <1>3

\* The diff that goes with a drift names what changed since the last pin.
LEMMA DriftIsNamed ==
  ASSUME TrustedIsPin, trusted # Absent, NEW tools \in Served, NEW c \in Configs,
         Evaluate(pin, Pinned(tools, c)).code \in Drift, pin.hashes = trusted.pin.hashes
  PROVE  Evaluate(pin, Pinned(tools, c)).diff =
           [added |-> Names(tools) \ Names(trusted.tools),
            removed |-> Names(trusted.tools) \ Names(tools),
            changed |-> {n \in Names(tools) \intersect Names(trusted.tools) :
                           Named(tools, n) # Named(trusted.tools, n)}]
<1>1. /\ pin # Absent /\ Verified(pin) /\ ~Refused(tools)
      /\ Evaluate(pin, Pinned(tools, c)).diff = Summary(pin, Pinned(tools, c).pin)
  BY EvaluateDrift, PinFields
<1>3. PICK old \in {l \in Served : ~Refused(l)} : trusted \in {PinnedPlain(old)} \union {Pinned(old, d) : d \in Configs}
  BY DEF TrustedIsPin
<1>4. trusted.tools = old /\ trusted.pin.hashes = PinTools(old).hashes
  BY <1>3, PinFields
<1>5. ~Refused(old)
  BY <1>3
<1> DEFINE q == Pinned(tools, c).pin
<1>6. q.hashes = PinTools(tools).hashes /\ pin.hashes = PinTools(old).hashes
  BY <1>4, PinFields
<1> HIDE DEF q
<1>7. Summary(pin, q) =
        [added |-> Names(tools) \ Names(old), removed |-> Names(old) \ Names(tools),
         changed |-> {n \in Names(tools) \intersect Names(old) : Named(tools, n) # Named(old, n)}]
  BY <1>1, <1>5, <1>6, SummaryNames
<1> QED
  BY <1>1, <1>4, <1>7, Zenon DEF q

\* What was just written is not drift, and passes only if it has a hash.
LEMMA RepinnedPasses ==
  ASSUME NEW tools, NEW c, NEW code, code = Evaluate(Pinned(tools, c).pin, Pinned(tools, c)).code
  PROVE  code \notin Drift /\ (code = "OK" => ~Refused(tools))
BY EvaluateDrift, EvaluateOK, PinFields

\* The step as one fact: a grant replaces the pin, and the verdict is that of
\* the pin file the step leaves.
LEMMA DecideCases ==
  ASSUME Decide
  PROVE  LET now == Pinned(live, config)
             code == Evaluate(pin, now).code
         IN  /\ IF Grants(code) THEN Repin(code, now)
                ELSE UNCHANGED <<pin, token, trusted, log, moves, faults>>
             /\ verdict'.live = live
             /\ verdict'.code = IF Grants(code) THEN Evaluate(now.pin, now).code ELSE code
             /\ ~Grants(code) => verdict'.diff = Evaluate(pin, now).diff
BY DEF Decide

\* Writing a pin leaves it and its history in agreement, and a re-approval
\* replaces a pin by the pin of a listing.
LEMMA RepinKeeps ==
  ASSUME TypeOK, AuditInv, TrustedIsPin, PinHasAggregate,
         NEW tools \in Served, NEW c \in Configs, NEW code, Repin(code, Pinned(tools, c)),
         code \in Drift => pin # Absent
  PROVE  /\ TrustedIsPin' /\ PinHasAggregate' /\ AuditInv'
         /\ token' \in BOOLEAN
         /\ pin' # Absent => DOMAIN pin' = {"aggregate", "hashes", "tools", "fingerprint"}
         /\ Len(log') <= Len(moves') /\ faults' \in [struck : 0 .. Len(moves'), latest : BOOLEAN]
<1> DEFINE now == Pinned(tools, c)
<1>1. /\ pin' = now.pin /\ token' = FALSE
      /\ trusted' = IF Refused(tools) THEN Absent ELSE now
  BY PinFields DEF Repin
<1>2. now \in {Pinned(tools, d) : d \in Configs} /\ now # Absent
  OBVIOUS
<1>3. /\ now.pin.aggregate = PinTools(tools).aggregate
      /\ DOMAIN now.pin = {"aggregate", "hashes", "tools", "fingerprint"}
  BY PinFields
<1> HIDE DEF now
<1>5. TrustedIsPin'
  BY <1>1, <1>2 DEF TrustedIsPin, now
<1>6. PinHasAggregate'
  BY <1>1, <1>3 DEF PinHasAggregate, Aggregates
<1>7. AuditInv' /\ Len(log') <= Len(moves') /\ faults' \in [struck : 0 .. Len(moves'), latest : BOOLEAN]
  <2>1. CASE code \notin Drift
    BY <2>1 DEF Repin, AuditInv, LogIsMoves, LogInOrder, FaultsHide, TypeOK
  <2>2. CASE code \in Drift
    <3>1. pin.aggregate \in Aggregates
      BY <2>2 DEF PinHasAggregate
    <3>2. now.pin.aggregate \in Aggregates
      BY <1>3 DEF Aggregates
    <3> DEFINE move == Transition(pin, now.pin)
    <3>3. move \in Moves
      BY <3>1, <3>2 DEF Transition, Moves
    <3>4. moves' = Append(moves, move)
      BY <2>2 DEF Repin, now
    <3>5. PICK failed \in {FALSE, Failures} :
            log' \in Recorded(log, move, failed) /\ faults' = Struck(failed)
      BY <2>2 DEF Repin, now
    <3>6. failed \in BOOLEAN /\ Len(moves) \in Nat /\ Len(log) \in Nat
      <4>1. failed \in BOOLEAN
        BY <3>5, SessionSwitch, Zenon
      <4>2. log \in Seq(Chunks) /\ moves \in Seq(Moves)
        BY DEF AuditInv, LogIsMoves
      <4> QED
        BY <4>1, <4>2
    <3>7. /\ Len(log) <= Len(moves) /\ faults \in [struck : 0 .. Len(moves), latest : BOOLEAN]
          /\ faults \in [struck : Nat, latest : BOOLEAN]
      BY <3>6 DEF TypeOK
    <3> HIDE DEF move
    <3>8. /\ AuditInv' /\ Len(moves') = Len(moves) + 1
          /\ Len(log') \in Nat /\ Len(log') <= Len(log) + 1
      BY <3>3, <3>4, <3>5, <3>6, <3>7, RecordKeeps
    <3>9. faults' \in [struck : 0 .. Len(moves'), latest : BOOLEAN]
      <4>1. faults.struck \in 0 .. Len(moves) /\ failed \in BOOLEAN
        BY <3>6, <3>7
      <4>2. faults'.struck \in 0 .. Len(moves')
        BY <3>5, <3>6, <3>8, <4>1 DEF Struck
      <4> QED
        BY <3>5, <4>1, <4>2 DEF Struck
    <3> QED
      BY <3>6, <3>7, <3>8, <3>9
  <2> QED
    BY <2>1, <2>2
<1> QED
  BY <1>1, <1>3, <1>5, <1>6, <1>7

(***************************************************************************)
(* The steps.                                                              *)
(***************************************************************************)

\* The server, the host and the launches change no file.
ServerStep ==
  \/ HostAsks \/ MockAnswers \/ MockHolds \/ HoldEnds \/ OtherAnswers
  \/ WriteFlip \/ HostGivesUp \/ Launch
OperatorStep == LeaveToken \/ WritePin \/ EditPin

LEMMA ServerKeeps ==
  ASSUME TypeOK, LiveIsServed, ServerStep
  PROVE  /\ LiveIsServed' /\ config' \in Configs /\ at' \in {"idle", "asked", "held", "answered"}
         /\ verdict' = Absent /\ UNCHANGED files
<1>1. \A mode \in Modes \union {"benign"} : MockTools(mode) \in Served
  BY DEF Served
<1>2. ReadFlip.mode \in Modes \union {"benign"}
  BY DEF ReadFlip, LiveIsServed
<1>3. CASE HostAsks
  BY <1>3 DEF HostAsks, TypeOK, LiveIsServed
<1>4. CASE MockAnswers
  BY <1>1, <1>2, <1>4 DEF MockAnswers, Answer, TypeOK, LiveIsServed
<1>5. CASE MockHolds
  BY <1>5 DEF MockHolds, TypeOK, LiveIsServed
<1>6. CASE HoldEnds
  BY <1>1, <1>2, <1>6 DEF HoldEnds, Answer, TypeOK, LiveIsServed
<1>7. CASE OtherAnswers
  BY <1>7 DEF OtherAnswers, Answer, Served, TypeOK, LiveIsServed
<1>8. CASE WriteFlip
  BY <1>8 DEF WriteFlip, TypeOK, LiveIsServed
<1>9. CASE HostGivesUp
  BY <1>9 DEF HostGivesUp, TypeOK, LiveIsServed
<1>10. CASE Launch
  BY <1>10 DEF Launch, TypeOK, LiveIsServed
<1> QED
  BY <1>3, <1>4, <1>5, <1>6, <1>7, <1>8, <1>9, <1>10 DEF ServerStep

\* Whatever the operator does to the pin file leaves it the aggregate of some
\* listing, or of none.
LEMMA OperatorKeeps ==
  ASSUME TypeOK, TrustedIsPin, PinHasAggregate, OperatorStep
  PROVE  /\ TrustedIsPin' /\ PinHasAggregate'
         /\ token' \in BOOLEAN /\ acts' \in 0 .. MaxActs
         /\ pin' # Absent => DOMAIN pin' = {"aggregate", "hashes", "tools", "fingerprint"}
         /\ verdict' = Absent /\ UNCHANGED <<server, log, moves, faults>>
<1>1. acts' \in 0 .. MaxActs /\ verdict' = Absent /\ UNCHANGED <<server, log, moves, faults>>
  BY DEF OperatorStep, LeaveToken, WritePin, EditPin, Acts, TypeOK
<1>2. token' \in BOOLEAN
  <2>1. token' = TRUE \/ token' = token
    BY DEF OperatorStep, LeaveToken, WritePin, EditPin
  <2> QED
    BY <2>1 DEF TypeOK
<1>3. CASE LeaveToken
  BY <1>1, <1>2, <1>3 DEF LeaveToken, TypeOK, TrustedIsPin, PinHasAggregate
<1>4. CASE WritePin
  <2>1. PICK mode \in Modes : trusted' = PinnedPlain(MockTools(mode))
    BY <1>4 DEF WritePin
  <2>2. MockTools(mode) \in Served
    BY DEF Served
  <2>3. trusted' # Absent /\ pin' = trusted'.pin
    BY <1>4, <2>1, <2>2 DEF WritePin
  <2>4. TrustedIsPin'
    BY <2>1, <2>2, MockListing DEF TrustedIsPin
  <2>5. PinHasAggregate'
    BY <2>1, <2>2, <2>3, PinFields DEF PinHasAggregate, Aggregates
  <2>6. DOMAIN pin' = {"aggregate", "hashes", "tools", "fingerprint"}
    BY <2>1, <2>3, PinFields
  <2> QED
    BY <1>1, <1>2, <2>4, <2>5, <2>6
<1>5. CASE EditPin
  <2>1. /\ pin # Absent /\ trusted' = trusted
        /\ DOMAIN pin = {"aggregate", "hashes", "tools", "fingerprint"}
    BY <1>5 DEF EditPin, TypeOK
  <2>2. \A p \in Copies \union {Erased} : p.aggregate \in Aggregates
    <3>1. Erased.aggregate \in Aggregates
      BY DEF Erased, Aggregates
    <3>2. ASSUME NEW mode \in Modes, NEW c \in Configs
          PROVE  Pinned(MockTools(mode), c).pin.aggregate \in Aggregates
      BY PinFields DEF Served, Aggregates
    <3> QED
      BY <3>1, <3>2 DEF Copies
  <2>3. CASE pin' = Absent
    BY <1>1, <1>2, <2>1, <2>3 DEF TrustedIsPin, PinHasAggregate
  <2>4. ASSUME NEW field \in DOMAIN Erased, NEW p \in Copies \union {Erased},
               pin' = [pin EXCEPT ![field] = p[field]]
        PROVE  /\ DOMAIN pin' = {"aggregate", "hashes", "tools", "fingerprint"}
               /\ pin'.aggregate \in Aggregates
    <3>1. pin.aggregate \in Aggregates /\ p.aggregate \in Aggregates
      BY <2>1, <2>2 DEF PinHasAggregate
    <3>2. pin'.aggregate \in {pin.aggregate, p.aggregate}
      BY <2>1, <2>4
    <3> QED
      BY <2>1, <2>4, <3>1, <3>2
  <2>5. pin' = Absent \/ \E field \in DOMAIN Erased : \E p \in Copies \union {Erased} :
                            pin' = [pin EXCEPT ![field] = p[field]]
    BY <1>5 DEF EditPin
  <2> QED
    BY <1>1, <1>2, <2>1, <2>3, <2>4, <2>5 DEF TrustedIsPin, PinHasAggregate
<1> QED
  BY <1>3, <1>4, <1>5 DEF OperatorStep

LEMMA DecideKeeps ==
  ASSUME TypeOK, LiveIsServed, TrustedIsPin, PinHasAggregate, AuditInv, Decide
  PROVE  TypeOK' /\ LiveIsServed' /\ TrustedIsPin' /\ PinHasAggregate' /\ AuditInv'
<1> DEFINE now == Pinned(live, config)
           code == Evaluate(pin, now).code
<1>1. live \in Served /\ config \in Configs
  BY DEF Decide, LiveIsServed, TypeOK
<1>2. at' = "idle" /\ live' = <<>> /\ UNCHANGED <<flip, config, acts>>
  BY DEF Decide
<1>3. LiveIsServed'
  BY <1>2 DEF LiveIsServed
<1>4. verdict'.code \in Drift \union {"OK", "PIN_MISSING", "INTERNAL_ERROR"}
  BY DecideCases, EvaluateCodes
<1>5. /\ TrustedIsPin' /\ PinHasAggregate' /\ AuditInv'
      /\ token' \in BOOLEAN
      /\ pin' # Absent => DOMAIN pin' = {"aggregate", "hashes", "tools", "fingerprint"}
      /\ Len(log') <= Len(moves') /\ faults' \in [struck : 0 .. Len(moves'), latest : BOOLEAN]
  <2>1. CASE Grants(code)
    <3>1. Repin(code, now)
      BY <2>1, DecideCases
    <3>2. code \in Drift => pin # Absent
      BY EvaluateDrift
    <3> HIDE DEF code
    <3> QED
      BY <1>1, <3>1, <3>2, RepinKeeps
  <2>2. CASE ~Grants(code)
    <3>1. UNCHANGED <<pin, token, trusted, log, moves, faults>>
      BY <2>2, DecideCases
    <3> QED
      BY <3>1 DEF TypeOK, TrustedIsPin, PinHasAggregate, AuditInv, LogIsMoves, LogInOrder, FaultsHide
  <2> QED
    BY <2>1, <2>2
<1>6. TypeOK'
  BY <1>1, <1>2, <1>4, <1>5 DEF TypeOK
<1> QED
  BY <1>3, <1>5, <1>6

\* A listing that passes is the pinned one, or the one that has just been pinned.
LEMMA DecidePassesPinned ==
  ASSUME TypeOK, LiveIsServed, TrustedIsPin, PinHasAggregate, Decide
  PROVE  OnlyPinnedToolsPass'
<1> DEFINE now == Pinned(live, config)
           code == Evaluate(pin, now).code
<1>1. live \in Served /\ config \in Configs /\ config' = config /\ verdict'.live = live
  BY DecideCases DEF Decide, LiveIsServed, TypeOK
<1>2. SUFFICES ASSUME verdict'.code = "OK"
               PROVE  /\ pin' # Absent
                      /\ Kept("aggregate")' \/ (Kept("tools")' /\ Kept("hashes")')
                           => Says(live) = Says(trusted'.tools)
                      /\ Kept("fingerprint")' => trusted'.meaning \in {Absent, config.meaning}
  BY <1>1 DEF OnlyPinnedToolsPass
<1>3. CASE Grants(code)
  <2>1. Repin(code, now) /\ Evaluate(now.pin, now).code = "OK"
    BY <1>2, <1>3, DecideCases
  <2>2. ~Refused(live)
    BY <2>1, RepinnedPasses
  <2>3. now.tools = live /\ now.meaning = config.meaning /\ now.pin # Absent
    BY <1>1, PinFields
  <2>4. trusted' = now /\ pin' = now.pin
    BY <2>1, <2>2, <2>3 DEF Repin
  <2> QED
    BY <2>3, <2>4
<1>4. CASE ~Grants(code)
  <2>1. code = "OK" /\ trusted' = trusted /\ pin' = pin
    BY <1>2, <1>4, DecideCases
  <2>2. \A field : Kept(field)' <=> Kept(field)
    BY <2>1 DEF Kept
  <2> HIDE DEF now
  <2>3. Evaluate(pin, now).code = "OK"
    BY <2>1
  <2> QED
    BY <1>1, <2>1, <2>2, <2>3, PassesAsTrusted DEF now
<1> QED
  BY <1>3, <1>4

\* A drift that is reported was not approved: the diff is that to the last pin.
LEMMA DecideNames ==
  ASSUME TypeOK, LiveIsServed, TrustedIsPin, PinHasAggregate, Decide
  PROVE  DiffNamesTheChange'
<1> DEFINE now == Pinned(live, config)
           code == Evaluate(pin, now).code
<1>1. live \in Served /\ config \in Configs /\ verdict'.live = live
  BY DecideCases DEF Decide, LiveIsServed, TypeOK
<1>2. SUFFICES ASSUME verdict'.code \in Drift, trusted' # Absent, pin'.hashes = trusted'.pin.hashes
               PROVE  verdict'.diff =
                        [added |-> Names(live) \ Names(trusted'.tools),
                         removed |-> Names(trusted'.tools) \ Names(live),
                         changed |-> {n \in Names(live) \intersect Names(trusted'.tools) :
                                        Named(live, n) # Named(trusted'.tools, n)}]
  BY <1>1, Zenon DEF DiffNamesTheChange, Kept
<1>3. ~Grants(code)
  BY <1>2, DecideCases, RepinnedPasses
<1>4. code \in Drift /\ pin' = pin /\ trusted' = trusted /\ verdict'.diff = Evaluate(pin, now).diff
  BY <1>2, <1>3, DecideCases
<1> QED
  BY <1>1, <1>2, <1>4, DriftIsNamed

\* As long as the pin file is as the guard wrote it, what says the same passes.
LEMMA DecideAlarms ==
  ASSUME TypeOK, LiveIsServed, TrustedIsPin, PinHasAggregate, Decide
  PROVE  NoFalseAlarm'
<1> DEFINE now == Pinned(live, config)
           code == Evaluate(pin, now).code
<1>1. live \in Served /\ config \in Configs /\ config' = config /\ verdict'.live = live
  BY DecideCases DEF Decide, LiveIsServed, TypeOK
<1>2. SUFFICES ASSUME trusted' # Absent, pin' = trusted'.pin, Says(live) = Says(trusted'.tools),
                      trusted'.meaning \in {Absent, config.meaning}
               PROVE  verdict'.code = "OK"
  BY <1>1 DEF NoFalseAlarm, AsTrusted
<1>3. CASE Grants(code)
  <2>1. Repin(code, now) /\ verdict'.code = Evaluate(now.pin, now).code
    BY <1>3, DecideCases
  <2>2. ~Refused(live)
    BY <1>2, <2>1, PinFields DEF Repin
  <2>3. now.pin.fingerprint = Fingerprint(config.argv, config.environ)
    BY PinFields
  <2> QED
    BY <1>1, <2>1, <2>2, <2>3, TrustedPasses
<1>4. CASE ~Grants(code)
  <2>1. verdict'.code = code /\ pin' = pin /\ trusted' = trusted
    BY <1>4, DecideCases
  <2> QED
    BY <1>1, <1>2, <2>1, PassesUnchanged
<1> QED
  BY <1>3, <1>4

(***************************************************************************)
(* The theorems.                                                           *)
(***************************************************************************)

LEMMA SessionInit == Init => Inv
<1> SUFFICES ASSUME Init PROVE Inv
  OBVIOUS
<1>1. config \in Configs /\ MockTools("benign") \in Served
  BY DEF Init, Served
<1>2. TrustedIsPin
  BY <1>1, MockListing DEF Init, TrustedIsPin
<1>3. pin # Absent => trusted # Absent /\ pin = trusted.pin /\ trusted = Pinned(MockTools("benign"), config)
  BY DEF Init
<1>4. PinHasAggregate
  BY <1>1, <1>3, PinFields DEF PinHasAggregate, Aggregates
<1>5. pin # Absent => DOMAIN pin = {"aggregate", "hashes", "tools", "fingerprint"}
  <2>1. DOMAIN Pinned(MockTools("benign"), config).pin = {"aggregate", "hashes", "tools", "fingerprint"}
    BY PinFields
  <2> QED
    BY <1>3, <2>1, Zenon
<1>6. AuditInv /\ Len(log) <= Len(moves) /\ faults \in [struck : 0 .. Len(moves), latest : BOOLEAN]
  <2>1. log = <<>> /\ moves = <<>> /\ faults = [struck |-> 0, latest |-> FALSE]
    BY DEF Init
  <2>2. LogIsMoves
    BY <2>1 DEF LogIsMoves
  <2>3. LogInOrder
    <3>1. InOrder(<<>>, <<>>)
      <4>1. <<>> \in [DOMAIN <<>> -> DOMAIN <<>>] /\ DOMAIN <<>> = {}
        OBVIOUS
      <4> QED
        BY <4>1 DEF InOrder
    <3> DEFINE records == [i \in DOMAIN log |-> log[i].record]
    <3>2. records = <<>>
      BY <2>1
    <3> HIDE DEF records
    <3>3. InOrder(records, moves)
      BY <2>1, <3>1, <3>2
    <3> QED
      BY <3>3 DEF LogInOrder, records
  <2>4. FaultsHide
    <3>1. AtRisk(log) = 0 /\ EndsWhole(log)
      BY <2>1 DEF AtRisk, EndsWhole
    <3>2. Cardinality(Readable(log)) \in Nat
      BY <2>2, FiniteLines DEF LogIsMoves, Readable
    <3> QED
      BY <2>1, <3>1, <3>2 DEF FaultsHide
  <2> QED
    BY <2>1, <2>2, <2>3, <2>4 DEF AuditInv
<1>7. LiveIsServed /\ acts \in 0 .. MaxActs
  BY DEF Init, LiveIsServed
<1>8. TypeOK
  BY <1>5, <1>6, <1>7 DEF Init, TypeOK
<1> QED
  BY <1>2, <1>4, <1>6, <1>7, <1>8 DEF Inv

LEMMA SessionNext == Inv /\ [Next]_vars => Inv'
<1> SUFFICES ASSUME Inv, [Next]_vars PROVE Inv'
  OBVIOUS
<1>1. TypeOK /\ LiveIsServed /\ TrustedIsPin /\ PinHasAggregate /\ AuditInv
  BY DEF Inv
<1>2. CASE ServerStep
  <2>1. /\ LiveIsServed' /\ config' \in Configs /\ at' \in {"idle", "asked", "held", "answered"}
        /\ verdict' = Absent /\ UNCHANGED files
    BY <1>1, <1>2, ServerKeeps
  <2>2. TypeOK'
    BY <1>1, <2>1 DEF files, TypeOK, LiveIsServed
  <2>3. TrustedIsPin' /\ PinHasAggregate' /\ AuditInv'
    BY <1>1, <2>1 DEF files, TrustedIsPin, PinHasAggregate, AuditInv, LogIsMoves, LogInOrder, FaultsHide
  <2> QED
    BY <2>1, <2>2, <2>3 DEF Inv
<1>3. CASE Decide
  BY <1>1, <1>3, DecideKeeps DEF Inv
<1>4. CASE OperatorStep
  <2>1. /\ TrustedIsPin' /\ PinHasAggregate'
        /\ token' \in BOOLEAN /\ acts' \in 0 .. MaxActs
        /\ pin' # Absent => DOMAIN pin' = {"aggregate", "hashes", "tools", "fingerprint"}
        /\ verdict' = Absent /\ UNCHANGED <<server, log, moves, faults>>
    BY <1>1, <1>4, OperatorKeeps
  <2>2. TypeOK' /\ LiveIsServed' /\ AuditInv'
    BY <1>1, <2>1 DEF server, TypeOK, LiveIsServed, AuditInv, LogIsMoves, LogInOrder, FaultsHide
  <2> QED
    BY <2>1, <2>2 DEF Inv
<1>5. CASE UNCHANGED vars
  <2>1. TypeOK'
    BY <1>1, <1>5 DEF vars, TypeOK
  <2>2. LiveIsServed' /\ TrustedIsPin' /\ PinHasAggregate' /\ AuditInv'
    BY <1>1, <1>5 DEF vars, LiveIsServed, TrustedIsPin, PinHasAggregate, AuditInv, LogIsMoves, LogInOrder, FaultsHide
  <2> QED
    BY <2>1, <2>2 DEF Inv
<1> QED
  BY <1>2, <1>3, <1>4, <1>5 DEF Next, ServerStep, OperatorStep

\* Only a step that decides leaves a verdict.
LEMMA VerdictIsDecided ==
  ASSUME Inv, [Next]_vars
  PROVE  Decide \/ verdict' = Absent \/ UNCHANGED vars
<1>1. ServerStep => verdict' = Absent
  BY ServerKeeps DEF Inv
<1>2. OperatorStep => verdict' = Absent
  BY OperatorKeeps DEF Inv
<1> QED
  BY <1>1, <1>2 DEF Next, ServerStep, OperatorStep

\* In every session, whatever the server lists and the operator does to the pin
\* file, the last pin the guard wrote is that of a listing it did not refuse
\* (core/pin.go:95), and the audit file is made of the re-approvals in their
\* order, short of no more lines than failed writes hide (audit/jsonl.go:51).
THEOREM SessionInvariant == Spec => []Inv
BY SessionInit, SessionNext, PTL DEF Spec

\* The files, the request and the verdicts are of their types.
THEOREM SessionTypeCorrect == Spec => []TypeOK
<1>1. Inv => TypeOK
  BY DEF Inv
<1> QED
  BY <1>1, SessionInvariant, PTL

\* Only a listing that says what the last pin the guard wrote says passes, unless
\* both the aggregate and what it is computed from were exchanged in the pin
\* file, and only from a launch of the meaning that was pinned, unless its
\* fingerprint was exchanged or cleared (core/gate.go:168, core/pin.go:147).
THEOREM OnlyPinnedPasses == Spec => []OnlyPinnedToolsPass
<1>1. Init => OnlyPinnedToolsPass
  BY DEF Init, OnlyPinnedToolsPass
<1>2. ASSUME Inv, OnlyPinnedToolsPass, [Next]_vars PROVE OnlyPinnedToolsPass'
  <2>1. CASE Decide
    BY <1>2, <2>1, DecidePassesPinned DEF Inv
  <2>2. CASE verdict' = Absent
    BY <2>2 DEF OnlyPinnedToolsPass
  <2>3. CASE UNCHANGED vars
    BY <1>2, <2>3 DEF vars, OnlyPinnedToolsPass, Kept
  <2> QED
    BY <1>2, <2>1, <2>2, <2>3, VerdictIsDecided
<1> QED
  BY <1>1, <1>2, SessionInvariant, PTL DEF Spec

\* As long as the pin file is as the guard wrote it, only a difference that a
\* person can name is denied: another order of tools, members or CSV items,
\* another spelling of a flag and another secret are none (core/pin.go:11,
\* core/fingerprint.go:70).
THEOREM NoChangeNoAlarm == Spec => []NoFalseAlarm
<1>1. Init => NoFalseAlarm
  BY DEF Init, NoFalseAlarm
<1>2. ASSUME Inv, NoFalseAlarm, [Next]_vars PROVE NoFalseAlarm'
  <2>1. CASE Decide
    BY <1>2, <2>1, DecideAlarms DEF Inv
  <2>2. CASE verdict' = Absent
    BY <2>2 DEF NoFalseAlarm
  <2>3. CASE UNCHANGED vars
    BY <1>2, <2>3 DEF vars, NoFalseAlarm, AsTrusted
  <2> QED
    BY <1>2, <2>1, <2>2, <2>3, VerdictIsDecided
<1> QED
  BY <1>1, <1>2, SessionInvariant, PTL DEF Spec

\* The diff of a refusal names the tools that came, went and changed since the
\* last pin (core/pin.go:113).
THEOREM DiffNamed == Spec => []DiffNamesTheChange
<1>1. Init => DiffNamesTheChange
  BY DEF Init, DiffNamesTheChange
<1>2. ASSUME Inv, DiffNamesTheChange, [Next]_vars PROVE DiffNamesTheChange'
  <2>1. CASE Decide
    BY <1>2, <2>1, DecideNames DEF Inv
  <2>2. CASE verdict' = Absent
    BY <2>2 DEF DiffNamesTheChange
  <2>3. CASE UNCHANGED vars
    BY <1>2, <2>3 DEF vars, DiffNamesTheChange, Kept
  <2> QED
    BY <1>2, <2>1, <2>2, <2>3, VerdictIsDecided
<1> QED
  BY <1>1, <1>2, SessionInvariant, PTL DEF Spec

\* However writes of the audit file fail, what its tail shows took place, in that
\* order, and a failed write hides its own line and the next at most
\* (audit/jsonl.go:59).
THEOREM AuditFaults == Spec => []AuditSurvivesFaults
<1>1. Inv => AuditSurvivesFaults
  <2> SUFFICES ASSUME Inv PROVE AuditSurvivesFaults
    OBVIOUS
  <2>1. /\ log \in Seq(Chunks) /\ moves \in Seq(Moves)
        /\ InOrder([i \in DOMAIN log |-> log[i].record], moves)
        /\ Len(moves) + AtRisk(log) <= Cardinality(Readable(log)) + faults.struck
        /\ faults.struck \in 0 .. Len(moves)
    BY DEF Inv, TypeOK, AuditInv, LogIsMoves, LogInOrder, FaultsHide
  <2> DEFINE shown == TailRecords(log, 10)
  <2>2. InOrder(shown, moves)
    BY <2>1, TailInOrder
  <2>3. ASSUME Cardinality(Lines(log)) <= 10 PROVE Len(moves) - Len(shown) <= faults.struck
    <3>1. Len(shown) = Cardinality(Readable(log))
      BY <2>1, <2>3, TailShowsAll
    <3>2. AtRisk(log) \in {0, 1}
      BY DEF AtRisk
    <3>3. Len(moves) \in Nat /\ Cardinality(Readable(log)) \in Nat
      BY <2>1, FiniteLines DEF Readable
    <3> HIDE DEF shown
    <3> QED
      BY <2>1, <3>1, <3>2, <3>3
  <2> QED
    BY <2>2, <2>3 DEF AuditSurvivesFaults
<1> QED
  BY <1>1, SessionInvariant, PTL
=============================================================================
