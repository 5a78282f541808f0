--------------------------- MODULE Catalog_proofs ---------------------------
(***************************************************************************)
(* What equal hashes say about two catalogs, for all tools and schemas.    *)
(*                                                                         *)
(* The hashes are those of a sorted listing, so the first part proves that *)
(* ByName sorts, and that there is one way to do so.  Both are inductions  *)
(* over the length of the listing, in the form "the least length for which *)
(* it were not so".                                                        *)
(***************************************************************************)
EXTENDS Catalog, FiniteSetTheorems, TLAPS

Lists(n, S) == [1 .. n -> S]
Sorted(tools) == [k \in DOMAIN tools |-> ByName(tools, k)]
Ascending(s) == \A i, j \in DOMAIN s : i < j => s[i].name < s[j].name
Payloads(tools) == {Payload(t) : t \in Elements(tools)}

(***************************************************************************)
(* Sorting.                                                                *)
(***************************************************************************)

\* A set of natural numbers has a least one, as the interval up to it includes
\* no other.
LEMMA LeastNumber ==
  ASSUME NEW S \in SUBSET Nat, S # {}
  PROVE  \E n \in S : \A m \in S : n <= m
<1> DEFINE T == {1 .. n : n \in S}
<1>1. \A n \in Nat : IsFiniteSet(1 .. n)
  BY FS_Interval
<1>2. T \subseteq FiniteSubsetsOf(Nat)
  BY <1>1 DEF FiniteSubsetsOf
<1>3. T # {}
  OBVIOUS
<1> HIDE DEF T
<1>4. \E x \in T : \A y \in T : <<y, x>> \notin StrictSubsetOrdering(Nat)
  BY <1>2, <1>3, FS_StrictSubsetOrderingWellFounded, WFMin
<1>5. PICK n \in S : \A m \in S : <<1 .. m, 1 .. n>> \notin StrictSubsetOrdering(Nat)
  BY <1>4 DEF T
<1>6. ASSUME NEW m \in S, m < n PROVE FALSE
  <2>1. 1 .. m \subseteq 1 .. n /\ n \in 1 .. n /\ n \notin 1 .. m
    BY <1>6
  <2>2. <<1 .. m, 1 .. n>> \in StrictSubsetOrdering(Nat)
    BY <2>1 DEF StrictSubsetOrdering
  <2> QED
    BY <1>5, <2>2
<1> QED
  BY <1>6

\* A tool with a new name has a place in a sorted listing.
LEMMA Insert ==
  ASSUME NEW S, \A t \in S : t.name \in Nat, NEW n \in Nat \ {0},
         NEW r \in Lists(n - 1, S), Ascending(r), NEW x \in S,
         \A i \in 1 .. n - 1 : r[i].name # x.name
  PROVE  \E s \in Lists(n, S) : Ascending(s) /\ Elements(s) = Elements(r) \union {x}
<1> USE DEF Lists
<1> DEFINE above == {i \in 1 .. n : i = n \/ x.name < r[i].name}
<1>1. above \in SUBSET Nat /\ n \in above
  OBVIOUS
<1>2. PICK p \in above : \A m \in above : p <= m
  BY <1>1, LeastNumber
<1>3. p \in 1 .. n /\ (p = n \/ x.name < r[p].name)
  BY <1>2
<1>4. \A i \in 1 .. n - 1 : i < p => r[i].name < x.name
  BY <1>2
<1>5. \A i \in 1 .. n - 1 : p <= i => x.name < r[i].name
  BY <1>3 DEF Ascending
<1> DEFINE s == [i \in 1 .. n |-> IF i < p THEN r[i] ELSE IF i = p THEN x ELSE r[i - 1]]
<1>6. \A i \in 1 .. n : (i < p => i \in 1 .. n - 1) /\ (p < i => i - 1 \in 1 .. n - 1 /\ p <= i - 1)
  BY <1>3
<1>7. s \in [1 .. n -> S]
  BY <1>6
<1>8. /\ \A i \in 1 .. n : i < p => s[i] = r[i]
      /\ s[p] = x
      /\ \A i \in 1 .. n : p < i => s[i] = r[i - 1]
  BY <1>3
<1> HIDE DEF s
<1>9. ASSUME NEW i \in 1 .. n, NEW j \in 1 .. n, i < j PROVE s[i].name < s[j].name
  <2>1. CASE j < p
    <3>1. i < p /\ i \in 1 .. n - 1 /\ j \in 1 .. n - 1
      BY <1>3, <1>6, <1>9, <2>1
    <3>2. s[i] = r[i] /\ s[j] = r[j]
      BY <1>8, <2>1, <3>1
    <3> QED
      BY <1>9, <3>1, <3>2 DEF Ascending
  <2>2. CASE j = p
    BY <1>4, <1>6, <1>8, <1>9, <2>2
  <2>3. CASE p < j /\ i = p
    BY <1>5, <1>6, <1>8, <1>9, <2>3
  <2>4. CASE p < j /\ p < i
    <3>1. i - 1 \in 1 .. n - 1 /\ j - 1 \in 1 .. n - 1 /\ i - 1 < j - 1
      BY <1>6, <1>9, <2>4
    <3>2. s[i] = r[i - 1] /\ s[j] = r[j - 1]
      BY <1>8, <2>4
    <3> QED
      BY <3>1, <3>2 DEF Ascending
  <2>5. CASE p < j /\ i < p
    <3>1. i \in 1 .. n - 1 /\ j - 1 \in 1 .. n - 1 /\ i < j - 1
      BY <1>6, <2>5
    <3>2. s[i] = r[i] /\ s[j] = r[j - 1]
      BY <1>8, <2>5
    <3> QED
      BY <3>1, <3>2 DEF Ascending
  <2> QED
    BY <1>3, <2>1, <2>2, <2>3, <2>4, <2>5
<1>10. Ascending(s)
  BY <1>7, <1>9 DEF Ascending
<1>11. Elements(s) \subseteq Elements(r) \union {x}
  <2> SUFFICES ASSUME NEW i \in 1 .. n PROVE s[i] \in Elements(r) \union {x}
    BY <1>7 DEF Elements
  <2>1. CASE i < p
    BY <1>6, <1>8, <2>1 DEF Elements
  <2>2. CASE p < i
    BY <1>6, <1>8, <2>2 DEF Elements
  <2> QED
    BY <1>3, <1>8, <2>1, <2>2
<1>12. Elements(r) \union {x} \subseteq Elements(s)
  <2>1. x \in Elements(s)
    BY <1>3, <1>7, <1>8 DEF Elements
  <2>2. ASSUME NEW i \in 1 .. n - 1 PROVE r[i] \in Elements(s)
    <3>1. CASE i < p
      BY <1>7, <1>8, <3>1 DEF Elements
    <3>2. CASE p <= i
      <4>1. i + 1 \in 1 .. n /\ p < i + 1 /\ (i + 1) - 1 = i
        BY <1>3, <3>2
      <4>2. s[i + 1] = r[i]
        BY <1>8, <4>1
      <4> QED
        BY <1>7, <4>1, <4>2 DEF Elements
    <3> QED
      BY <1>3, <3>1, <3>2
  <2> QED
    BY <2>1, <2>2 DEF Elements
<1> QED
  BY <1>7, <1>10, <1>11, <1>12

\* Every listing without a repeated name can be sorted.
LEMMA CanBeSorted ==
  ASSUME NEW S, \A t \in S : t.name \in Nat
  PROVE  \A n \in Nat : \A s \in Lists(n, S) :
           (\A i, j \in 1 .. n : i # j => s[i].name # s[j].name) =>
             \E r \in Lists(n, S) : Ascending(r) /\ Elements(r) = Elements(s)
<1> DEFINE Distinct(n, s) == \A i, j \in 1 .. n : i # j => s[i].name # s[j].name
           Sorts(n, s) == \E r \in Lists(n, S) : Ascending(r) /\ Elements(r) = Elements(s)
           unsorted == {n \in Nat : \E s \in Lists(n, S) : Distinct(n, s) /\ ~Sorts(n, s)}
<1>1. SUFFICES ASSUME unsorted # {} PROVE FALSE
  OBVIOUS
<1>2. PICK n \in unsorted : \A m \in unsorted : n <= m
  BY <1>1, LeastNumber
<1>3. n \in Nat /\ \E s \in Lists(n, S) : Distinct(n, s) /\ ~Sorts(n, s)
  BY <1>2
<1>4. PICK s \in Lists(n, S) : Distinct(n, s) /\ ~Sorts(n, s)
  BY <1>3
<1>5. n # 0
  <2> SUFFICES ASSUME n = 0 PROVE FALSE
    OBVIOUS
  <2>1. Ascending(s)
    BY DEF Ascending, Lists
  <2> QED
    BY <1>4, <2>1
<1> DEFINE q == [i \in 1 .. n - 1 |-> s[i]]
<1>6. n - 1 \in Nat /\ 1 .. n - 1 \subseteq 1 .. n /\ n \in 1 .. n /\ n \notin 1 .. n - 1
  BY <1>3, <1>5
<1>7. q \in Lists(n - 1, S) /\ Distinct(n - 1, q)
  BY <1>4, <1>6 DEF Lists
<1>8. n - 1 \notin unsorted
  BY <1>2, <1>3
<1>9. Sorts(n - 1, q)
  BY <1>6, <1>7, <1>8
<1>10. PICK r \in Lists(n - 1, S) : Ascending(r) /\ Elements(r) = Elements(q)
  BY <1>9
<1>11. \A i \in 1 .. n - 1 : r[i].name # s[n].name
  <2> SUFFICES ASSUME NEW i \in 1 .. n - 1 PROVE r[i].name # s[n].name
    OBVIOUS
  <2>1. PICK j \in 1 .. n - 1 : r[i] = q[j]
    BY <1>10 DEF Elements, Lists
  <2> QED
    BY <1>4, <1>6, <2>1 DEF Lists
<1>12. PICK t \in Lists(n, S) : Ascending(t) /\ Elements(t) = Elements(r) \union {s[n]}
  <2>1. n \in Nat \ {0} /\ s[n] \in S
    BY <1>3, <1>5, <1>6 DEF Lists
  <2>2. PICK x \in S : x = s[n]
    BY <2>1
  <2>3. \A i \in 1 .. n - 1 : r[i].name # x.name
    BY <1>11, <2>2
  <2>4. r \in Lists(n - 1, S) /\ Ascending(r)
    BY <1>10 DEF Lists
  <2> HIDE DEF q, unsorted
  <2>5. \E t \in Lists(n, S) : Ascending(t) /\ Elements(t) = Elements(r) \union {x}
    BY <2>1, <2>3, <2>4, Insert
  <2> QED
    BY <2>2, <2>5 DEF Lists
<1>13. Elements(s) = Elements(q) \union {s[n]}
  <2>1. 1 .. n = 1 .. n - 1 \union {n}
    BY <1>3, <1>5
  <2> QED
    BY <2>1 DEF Elements, Lists
<1> QED
  BY <1>4, <1>10, <1>12, <1>13

\* ByName numbers the tools in the order of their names.
LEMMA ByNameSorts ==
  ASSUME NEW tools, Listing(tools), ~Refused(tools)
  PROVE  Ascending(Sorted(tools)) /\ Elements(Sorted(tools)) = Elements(tools)
<1> DEFINE E == Elements(tools)
           upTo(t) == {u \in E : u.name <= t.name}
<1>1. PICK n \in Nat : tools \in Lists(n, E)
  BY DEF Listing, Lists
<1>2. DOMAIN tools = 1 .. n
  BY <1>1 DEF Lists
<1>3. \A i, j \in 1 .. n : i # j => tools[i].name # tools[j].name
  BY <1>2 DEF Refused
<1>4. \A t \in E : t.name \in Nat
  BY DEF Listing
<1> HIDE DEF E
<1>5. PICK r \in Lists(n, E) : Ascending(r) /\ Elements(r) = Elements(tools)
  BY <1>1, <1>3, <1>4, CanBeSorted
<1>6. DOMAIN r = 1 .. n /\ \A i \in 1 .. n : r[i] \in E /\ r[i].name \in Nat
  BY <1>4, <1>5 DEF Lists
<1>7. ASSUME NEW j \in 1 .. n PROVE Cardinality(upTo(r[j])) = j
  <2> DEFINE f == [i \in 1 .. j |-> r[i]]
  <2>1. \A i \in 1 .. n : r[i].name <= r[j].name <=> i <= j
    BY <1>5, <1>6 DEF Ascending
  <2>2. upTo(r[j]) = {r[i] : i \in 1 .. j}
    BY <1>5, <1>6, <2>1 DEF Elements, E
  <2> HIDE DEF upTo
  <2>3. f \in [1 .. j -> upTo(r[j])]
    BY <2>2
  <2>4. \A t \in upTo(r[j]) : \E i \in 1 .. j : f[i] = t
    BY <2>2
  <2>5. \A i, k \in 1 .. j : f[i] = f[k] => i = k
    BY <1>5, <1>6 DEF Ascending
  <2> HIDE DEF f
  <2>6. f \in Bijection(1 .. j, upTo(r[j]))
    BY <2>3, <2>4, <2>5 DEF Bijection, Injection, Surjection, IsInjective
  <2>7. ExistsBijection(1 .. j, upTo(r[j])) /\ j \in Nat
    BY <2>6 DEF ExistsBijection
  <2> QED
    BY <2>7, FS_CountingElements
<1>8. ASSUME NEW k \in 1 .. n PROVE ByName(tools, k) = r[k]
  <2>1. \A t \in E : Cardinality(upTo(t)) = k => t = r[k]
    <3> SUFFICES ASSUME NEW t \in E, Cardinality(upTo(t)) = k PROVE t = r[k]
      OBVIOUS
    <3>1. PICK j \in 1 .. n : t = r[j]
      BY <1>5, <1>6 DEF Elements, E
    <3>2. Cardinality(upTo(t)) = j
      BY <1>7, <3>1
    <3> QED
      BY <3>1, <3>2
  <2>2. r[k] \in E /\ Cardinality(upTo(r[k])) = k
    BY <1>6, <1>7
  <2> DEFINE number(t) == Cardinality(upTo(t))
  <2>3. \A t \in E : number(t) = k <=> t = r[k]
    BY <2>1, <2>2
  <2>4. ByName(tools, k) = CHOOSE t \in E : number(t) = k
    BY Zenon DEF ByName, E
  <2> HIDE DEF number
  <2>5. (CHOOSE t \in E : number(t) = k) = r[k]
    BY <2>2, <2>3
  <2> QED
    BY <2>4, <2>5
<1>9. Sorted(tools) = r
  BY <1>2, <1>5, <1>8 DEF Sorted, Lists
<1> QED
  BY <1>5, <1>9

\* Of two sorted listings of the same tools, neither is ahead of the other.
LEMMA Agree ==
  ASSUME NEW S, \A t \in S : t.name \in Nat, NEW m \in Nat, NEW n \in Nat,
         NEW a \in Lists(m, S), NEW b \in Lists(n, S), Ascending(a), Ascending(b),
         Elements(a) = Elements(b)
  PROVE  \A i \in 1 .. m : i <= n /\ a[i] = b[i]
<1> DEFINE apart == {i \in 1 .. m : ~(i <= n /\ a[i] = b[i])}
<1>1. SUFFICES ASSUME apart # {} PROVE FALSE
  OBVIOUS
<1>2. apart \in SUBSET Nat
  OBVIOUS
<1>3. PICK i \in apart : \A j \in apart : i <= j
  BY <1>1, <1>2, LeastNumber
<1>4. i \in 1 .. m /\ ~(i <= n /\ a[i] = b[i])
  BY <1>3
<1>5. \A j \in 1 .. m : j < i => j <= n /\ a[j] = b[j]
  BY <1>3
<1> HIDE DEF apart
<1>6. /\ DOMAIN a = 1 .. m /\ \A j \in 1 .. m : a[j].name \in Nat
      /\ DOMAIN b = 1 .. n /\ \A j \in 1 .. n : b[j].name \in Nat
  BY DEF Lists
<1>7. PICK j \in 1 .. n : b[j] = a[i]
  BY <1>4, <1>6 DEF Elements
<1>8. i < j
  <2>1. CASE j < i
    <3>1. j \in 1 .. m /\ a[j] = a[i]
      BY <1>4, <1>5, <1>7, <2>1
    <3>2. a[j].name < a[i].name
      BY <1>4, <1>6, <2>1, <3>1 DEF Ascending
    <3> QED
      BY <1>4, <1>6, <3>1, <3>2
  <2>2. CASE j = i
    BY <1>4, <1>7, <2>2
  <2> QED
    BY <1>4, <2>1, <2>2
<1>9. i \in 1 .. n /\ b[i].name < a[i].name
  BY <1>4, <1>6, <1>7, <1>8 DEF Ascending
<1>10. PICK l \in 1 .. m : a[l] = b[i]
  BY <1>6, <1>9 DEF Elements
<1>11. l < i
  <2>1. a[l].name < a[i].name /\ a[l].name \in Nat /\ a[i].name \in Nat
    BY <1>4, <1>6, <1>9, <1>10
  <2>2. l # i
    BY <2>1
  <2>3. ~(i < l)
    <3>1. i < l => a[i].name < a[l].name
      BY <1>4, <1>6, <1>10 DEF Ascending
    <3> QED
      BY <2>1, <3>1
  <2> QED
    BY <1>4, <1>10, <2>2, <2>3
<1>12. b[l] = b[i] /\ l \in 1 .. n
  BY <1>5, <1>10, <1>11
<1>13. b[l].name < b[i].name
  BY <1>6, <1>9, <1>11, <1>12 DEF Ascending
<1>14. b[l].name = b[i].name /\ b[i].name \in Nat
  BY <1>6, <1>9, <1>12
<1> QED
  BY <1>13, <1>14

LEMMA SortedOnce ==
  ASSUME NEW S, \A t \in S : t.name \in Nat, NEW m \in Nat, NEW n \in Nat,
         NEW a \in Lists(m, S), NEW b \in Lists(n, S), Ascending(a), Ascending(b),
         Elements(a) = Elements(b)
  PROVE  a = b
<1>1. \A i \in 1 .. m : i <= n /\ a[i] = b[i]
  BY Agree
<1>2. \A i \in 1 .. n : i <= m /\ b[i] = a[i]
  BY Agree
<1>3. m = n
  BY <1>1, <1>2
<1> QED
  BY <1>1, <1>3 DEF Lists

(***************************************************************************)
(* Hashes.                                                                 *)
(***************************************************************************)

\* A payload remembers its name, and a hash its value.
LEMMA PayloadName == ASSUME NEW t PROVE Payload(t).name = t.name
BY DEF Payload

LEMMA HashInjective == ASSUME NEW v, NEW w, Sha256(v) = Sha256(w) PROVE v = w
BY DEF Sha256

\* Of a listing that is not refused, a name has the hash of its only tool.
LEMMA HashOfTool ==
  ASSUME NEW tools, ~Refused(tools), NEW t \in Elements(tools)
  PROVE  /\ t.name \in DOMAIN HashCatalog(tools).hashes
         /\ HashCatalog(tools).hashes[t.name] = Sha256(Payload(t))
<1>1. \A u \in Elements(tools) : u.name = t.name => u = t
  BY DEF Refused, Elements
<1>2. (CHOOSE u \in Elements(tools) : u.name = t.name) = t
  BY <1>1
<1> QED
  BY <1>2, Zenon DEF HashCatalog

\* The aggregate is the hash of the payloads of the listing, in their one order.
LEMMA AggregateOf ==
  ASSUME NEW tools, Listing(tools), ~Refused(tools)
  PROVE  \E n \in Nat : \E p \in Lists(n, Payloads(tools)) :
           /\ HashCatalog(tools).aggregate = Sha256(p)
           /\ Ascending(p) /\ Elements(p) = Payloads(tools)
<1> DEFINE s == Sorted(tools)
           p == [k \in DOMAIN tools |-> Payload(ByName(tools, k))]
<1>1. PICK n \in Nat : DOMAIN tools = 1 .. n
  BY DEF Listing
<1>2. Ascending(s) /\ Elements(s) = Elements(tools)
  BY ByNameSorts
<1>3. HashCatalog(tools).aggregate = Sha256(p)
  BY Zenon DEF HashCatalog
<1>4. DOMAIN s = DOMAIN tools /\ DOMAIN p = DOMAIN tools /\ \A k \in DOMAIN tools : p[k] = Payload(s[k])
  BY DEF Sorted
<1>5. \A k \in DOMAIN tools : p[k] \in Payloads(tools)
  BY <1>2, <1>4 DEF Elements, Payloads
<1>6. p \in Lists(n, Payloads(tools))
  BY <1>1, <1>5 DEF Lists
<1> HIDE DEF s, p
<1>7. Ascending(p)
  BY <1>2, <1>4, PayloadName DEF Ascending
<1>8. Elements(p) = Payloads(tools)
  <2>1. Elements(p) = {Payload(s[k]) : k \in DOMAIN s}
    BY <1>4 DEF Elements
  <2>2. Payloads(tools) = {Payload(t) : t \in Elements(s)}
    BY <1>2 DEF Payloads
  <2> QED
    BY <2>1, <2>2 DEF Elements
<1> QED
  BY <1>3, <1>6, <1>7, <1>8

\* The aggregate tells exactly what tools are listed: neither their order nor
\* the spelling of their schemas changes it, and everything else does
\* (core/pin.go:33).
THEOREM AggregateTells ==
  ASSUME NEW a, Listing(a), ~Refused(a), NEW b, Listing(b), ~Refused(b)
  PROVE  HashCatalog(a).aggregate = HashCatalog(b).aggregate <=> Payloads(a) = Payloads(b)
<1>1. PICK m \in Nat : \E p \in Lists(m, Payloads(a)) :
        HashCatalog(a).aggregate = Sha256(p) /\ Ascending(p) /\ Elements(p) = Payloads(a)
  BY AggregateOf
<1>2. PICK p \in Lists(m, Payloads(a)) :
        HashCatalog(a).aggregate = Sha256(p) /\ Ascending(p) /\ Elements(p) = Payloads(a)
  BY <1>1
<1>3. PICK n \in Nat : \E q \in Lists(n, Payloads(b)) :
        HashCatalog(b).aggregate = Sha256(q) /\ Ascending(q) /\ Elements(q) = Payloads(b)
  BY AggregateOf
<1>4. PICK q \in Lists(n, Payloads(b)) :
        HashCatalog(b).aggregate = Sha256(q) /\ Ascending(q) /\ Elements(q) = Payloads(b)
  BY <1>3
<1>5. ASSUME HashCatalog(a).aggregate = HashCatalog(b).aggregate PROVE Payloads(a) = Payloads(b)
  BY <1>2, <1>4, <1>5, HashInjective
<1>6. ASSUME Payloads(a) = Payloads(b) PROVE HashCatalog(a).aggregate = HashCatalog(b).aggregate
  <2>1. \A v \in Payloads(a) : v.name \in Nat
    BY PayloadName DEF Payloads, Listing
  <2>2. q \in Lists(n, Payloads(a)) /\ Elements(p) = Elements(q)
    BY <1>2, <1>4, <1>6
  <2>3. p = q
    BY <1>2, <1>4, <2>1, <2>2, SortedOnce
  <2> QED
    BY <1>2, <1>4, <2>3
<1> QED
  BY <1>5, <1>6

\* "Chief D": two listings with one aggregate, whatever their order, have one
\* hash for each name, and the diff a person is shown is empty (core/pin.go:107).
THEOREM EqualAggregateEmptyDiff ==
  ASSUME NEW a, Listing(a), ~Refused(a), NEW b, Listing(b), ~Refused(b),
         HashCatalog(a).aggregate = HashCatalog(b).aggregate
  PROVE  Summary(HashCatalog(a), HashCatalog(b)) = [added |-> {}, removed |-> {}, changed |-> {}]
<1> DEFINE ha == HashCatalog(a).hashes
           hb == HashCatalog(b).hashes
<1>1. /\ DOMAIN ha = {t.name : t \in Elements(a)}
      /\ DOMAIN hb = {t.name : t \in Elements(b)}
  BY DEF HashCatalog
<1>2. Payloads(a) = Payloads(b)
  BY AggregateTells
<1>3. \A n \in DOMAIN ha : n \in DOMAIN hb /\ ha[n] = hb[n]
  <2> SUFFICES ASSUME NEW n \in DOMAIN ha PROVE n \in DOMAIN hb /\ ha[n] = hb[n]
    OBVIOUS
  <2>1. PICK t \in Elements(a) : t.name = n
    BY <1>1
  <2>2. PICK u \in Elements(b) : Payload(u) = Payload(t)
    BY <1>2 DEF Payloads
  <2>3. u.name = n
    BY <2>1, <2>2, PayloadName
  <2> QED
    BY <2>1, <2>2, <2>3, HashOfTool
<1>4. \A n \in DOMAIN hb : n \in DOMAIN ha
  <2> SUFFICES ASSUME NEW n \in DOMAIN hb PROVE n \in DOMAIN ha
    OBVIOUS
  <2>1. PICK t \in Elements(b) : t.name = n
    BY <1>1
  <2>2. PICK u \in Elements(a) : Payload(u) = Payload(t)
    BY <1>2 DEF Payloads
  <2> QED
    BY <2>1, <2>2, PayloadName, HashOfTool
<1> HIDE DEF ha, hb
<1>5. DOMAIN hb \ DOMAIN ha = {} /\ DOMAIN ha \ DOMAIN hb = {}
  BY <1>3, <1>4
<1>6. {n \in DOMAIN ha \intersect DOMAIN hb : ha[n] # hb[n]} = {}
  BY <1>3
<1> QED
  BY <1>5, <1>6, Zenon DEF Summary, ha, hb

\* A pin that is verified through its tools is equal in aggregate only to
\* listings with the tools it holds, whatever was done to the file: neither its
\* aggregate nor its tools can have been exchanged alone (core/pin.go:146).
THEOREM VerifiedPinHoldsItsTools ==
  ASSUME NEW p, Verified(p), p.tools # <<>>, Listing(p.tools),
         NEW live, Listing(live), ~Refused(live), HashCatalog(live).aggregate = p.aggregate
  PROVE  Payloads(p.tools) = Payloads(live)
<1>1. ~Refused(p.tools) /\ HashCatalog(p.tools).aggregate = HashCatalog(live).aggregate
  BY DEF Verified
<1> QED
  BY <1>1, AggregateTells

\* A pin is verified as it was written, from its tools: sorted tools have the hash
\* they had in the order of the server (core/pin.go:146).
THEOREM WrittenPinVerifies ==
  ASSUME NEW tools, Listing(tools), ~Refused(tools), NEW p,
         p.aggregate = HashCatalog(tools).aggregate,
         p.hashes = HashCatalog(tools).hashes,
         p.tools = HashCatalog(tools).tools
  PROVE  Verified(p) /\ (p.tools # <<>> \/ DOMAIN p.hashes = {})
<1> DEFINE s == Sorted(tools)
<1>1. p.tools = s
  BY Zenon DEF HashCatalog, Sorted
<1>2. Ascending(s) /\ Elements(s) = Elements(tools) /\ DOMAIN s = DOMAIN tools
  BY ByNameSorts DEF Sorted
<1>3. \A t \in Elements(tools) : t.name \in Nat /\ t.name # 0
  BY DEF Listing, Refused
<1>4. PICK n \in Nat : DOMAIN tools = 1 .. n
  BY DEF Listing
<1>5. s \in [1 .. n -> Elements(s)]
  BY <1>2, <1>4 DEF Elements, Sorted
<1> HIDE DEF s
<1>6. Listing(s)
  BY <1>2, <1>3, <1>5 DEF Listing
<1>7. ~Refused(s)
  <2>1. ASSUME NEW i \in 1 .. n, NEW j \in 1 .. n, i # j PROVE s[i].name # s[j].name
    <3>1. s[i].name \in Nat /\ s[j].name \in Nat
      BY <1>2, <1>3, <1>4 DEF Elements
    <3>2. i < j \/ j < i
      BY <2>1
    <3> QED
      BY <1>2, <1>4, <3>1, <3>2 DEF Ascending
  <2> QED
    BY <1>2, <1>3, <1>4, <2>1 DEF Refused
<1>8. HashCatalog(s).aggregate = p.aggregate
  BY <1>2, <1>6, <1>7, AggregateTells DEF Payloads
<1>9. p.aggregate # NoHash
  <2>1. PICK v : p.aggregate = Sha256(v)
    BY DEF HashCatalog
  <2>2. Len(p.aggregate) # Len(NoHash)
    BY <2>1 DEF Sha256, NoHash
  <2> QED
    BY <2>2, Zenon
<1>10. s # <<>> \/ DOMAIN p.hashes = {}
  <2> SUFFICES ASSUME s = <<>> PROVE DOMAIN p.hashes = {}
    OBVIOUS
  <2>1. DOMAIN p.hashes = {t.name : t \in Elements(tools)}
    BY DEF HashCatalog
  <2>2. Elements(s) = {}
    BY DEF Elements
  <2> QED
    BY <1>2, <2>1, <2>2
<1> QED
  BY <1>1, <1>7, <1>8, <1>9, <1>10 DEF Verified
=============================================================================
