--------------------------- MODULE XorbCacheProofs ---------------------------
(***************************************************************************)
(* TLAPS proofs about XorbCache, for any xorbs and sizes, any budget and   *)
(* any number of requests, with a disk that fails and one that does not.   *)
(***************************************************************************)
EXTENDS XorbCache, SequenceTheorems, FiniteSetTheorems, WellFoundedInduction, TLAPS

-----------------------------------------------------------------------------
(***************************************************************************)
(* The inductive invariant.                                                *)
(***************************************************************************)

Request ==
    [pc     : {"idle", "lookup", "open", "drop", "join", "wait", "create", "copy",
               "rename", "index", "drain", "serve", "done"},
     hash   : Hashes \cup {NULL},
     stage  : {"fast", "recheck", "reopen"},
     fd     : {"none", "good", "bad"},
     put    : {"none", "ok", "failed"},
     answer : {"none", "bytes", "502", "empty"}]

Tmp == [content : {"none", "partial", "good", "bad"}, by : Requests \cup {NULL}]

\* No file is ever bad.
Types ==
    /\ lru \in Seq(Hashes)
    /\ bytesUsed \in Int
    /\ disk \in [Hashes -> {"none", "good"}]
    /\ tmp \in [Hashes -> Tmp]
    /\ req \in [Requests -> Request]
    /\ writer \in [Requests -> WriterState]
    /\ flight \in [Hashes -> Requests \cup {NULL}]
    /\ gone \subseteq Requests

\* A request that runs the function of a flight.
Leads(q) ==
    /\ q.stage = "recheck"
    /\ q.pc \in {"lookup", "open", "drop", "create", "copy", "rename", "index", "drain"}

\* A request in Put, before it has indexed the xorb.
Puts(q) == q.pc \in {"create", "copy", "rename", "index"}

\* What request r, with record q, may rely on at each point.
Knows(r, q) ==
    /\ q.pc \notin {"idle", "done"} => q.hash \in Hashes
    /\ q.pc \in {"create", "copy", "rename", "index", "drain"} => q.stage = "recheck"
    /\ Leads(q) => flight[q.hash] = r
    /\ q.pc = "wait" => flight[q.hash] # NULL
    /\ Puts(q) => ~Cached(q.hash)
    /\ q.pc = "copy" => tmp[q.hash].by = r
    /\ q.pc = "rename" => tmp[q.hash].content = "good"
    /\ q.pc = "index" => disk[q.hash] = "good"
    /\ q.pc = "serve" => q.fd = "good"

RequestInv == \A r \in Requests : Knows(r, req[r])

\* A flight has a leader that runs its function.
FlightInv ==
    \A h \in Hashes : flight[h] # NULL =>
        req[flight[h]].hash = h /\ Leads(req[flight[h]])

IInv ==
    /\ Types /\ RequestInv /\ FlightInv
    /\ AccountingIsExact /\ IndexedFileIsGood

-----------------------------------------------------------------------------
(***************************************************************************)
(* Lists without repetition.                                               *)
(***************************************************************************)

Distinct(s) == \A m, n \in 1..Len(s) : m # n => s[m] # s[n]

LEMMA ListFacts ==
    ASSUME NEW s \in Seq(Hashes)
    PROVE  /\ Len(s) \in Nat /\ DOMAIN s = 1..Len(s)
           /\ ToSet(s) = {s[i] : i \in 1..Len(s)}
           /\ ToSet(s) \subseteq Hashes
           /\ \A i \in 1..Len(s) : s[i] \in Hashes
  BY LenProperties, ElementOfSeq DEF ToSet

LEMMA RemoveAtFacts ==
    ASSUME NEW s \in Seq(Hashes), Distinct(s), NEW n \in 1..Len(s)
    PROVE  /\ RemoveAt(s, n) \in Seq(Hashes)
           /\ Distinct(RemoveAt(s, n))
           /\ ToSet(RemoveAt(s, n)) = ToSet(s) \ {s[n]}
  <1> DEFINE t == RemoveAt(s, n)
  <1>1. /\ t \in Seq(Hashes) /\ Len(t) = Len(s) - 1 /\ Len(s) \in Nat
        /\ \A i \in 1..Len(t) : t[i] = IF i < n THEN s[i] ELSE s[i+1]
    <2> DEFINE a == SubSeq(s, 1, n - 1)
               b == SubSeq(s, n + 1, Len(s))
    <2>1. Len(s) \in Nat /\ n \in Nat /\ n >= 1 /\ n <= Len(s)
      OBVIOUS
    <2>2. a \in Seq(Hashes) /\ Len(a) = n - 1 /\ \A i \in 1..n - 1 : a[i] = s[i]
      <3>1. 1 \in Int /\ n - 1 \in Int /\ \A i \in 1..n - 1 : s[i] \in Hashes
        BY <2>1
      <3>2. /\ a \in Seq(Hashes) /\ Len(a) = IF 1 <= n - 1 THEN n - 1 - 1 + 1 ELSE 0
            /\ \A i \in 1..n - 1 - 1 + 1 : a[i] = s[1 + i - 1]
        BY <3>1, SubSeqProperties
      <3> HIDE DEF a
      <3>3. n - 1 - 1 + 1 = n - 1 /\ \A i \in 1..n - 1 : 1 + i - 1 = i
        BY <2>1
      <3> QED BY <2>1, <3>2, <3>3
    <2>3. /\ b \in Seq(Hashes) /\ Len(b) = Len(s) - n
          /\ \A i \in 1..Len(s) - n : b[i] = s[n + i]
      <3>1. n + 1 \in Int /\ Len(s) \in Int /\ \A i \in n + 1..Len(s) : s[i] \in Hashes
        BY <2>1
      <3>2. /\ b \in Seq(Hashes) /\ Len(b) = IF n + 1 <= Len(s) THEN Len(s) - (n + 1) + 1 ELSE 0
            /\ \A i \in 1..Len(s) - (n + 1) + 1 : b[i] = s[n + 1 + i - 1]
        BY <3>1, SubSeqProperties
      <3> HIDE DEF b
      <3>3. Len(b) = Len(s) - n
        <4>1. Len(b) = IF n + 1 <= Len(s) THEN Len(s) - (n + 1) + 1 ELSE 0
          BY <3>2
        <4> QED BY <2>1, <4>1
      <3>4. ASSUME NEW i \in 1..Len(s) - n PROVE b[i] = s[n + i]
        <4>1. i \in 1..Len(s) - (n + 1) + 1 /\ n + 1 + i - 1 = n + i
          BY <2>1
        <4> QED BY <3>2, <4>1
      <3> QED BY <3>2, <3>3, <3>4
    <2>4. t = a \o b
      BY DEF RemoveAt
    <2> HIDE DEF a, b, t
    <2>5. /\ t \in Seq(Hashes) /\ Len(t) = Len(s) - 1
          /\ \A i \in 1..Len(s) - 1 : t[i] = IF i <= n - 1 THEN a[i] ELSE b[i - (n - 1)]
      <3>1. /\ t \in Seq(Hashes) /\ Len(t) = Len(a) + Len(b)
            /\ \A i \in 1..Len(a) + Len(b) : t[i] = IF i <= Len(a) THEN a[i] ELSE b[i - Len(a)]
        BY <2>2, <2>3, <2>4, ConcatProperties
      <3>2. Len(a) + Len(b) = Len(s) - 1
        BY <2>1, <2>2, <2>3
      <3> QED BY <2>2, <3>1, <3>2
    <2>6. ASSUME NEW i \in 1..Len(t) PROVE t[i] = IF i < n THEN s[i] ELSE s[i+1]
      <3>1. CASE i < n
        BY <2>1, <2>2, <2>5, <3>1
      <3>2. CASE i >= n
        <4>1. t[i] = b[i - (n - 1)] /\ i - (n - 1) \in 1..Len(s) - n
          <5>1. i \in 1..Len(s) - 1 /\ ~(i <= n - 1)
            BY <2>1, <2>5, <3>2
          <5>2. i - (n - 1) \in 1..Len(s) - n
            BY <2>1, <3>2, <5>1
          <5> QED BY <2>5, <5>1, <5>2
        <4>2. n + (i - (n - 1)) = i + 1
          BY <2>1
        <4> QED BY <2>1, <2>3, <3>2, <4>1, <4>2
      <3> QED BY <2>1, <3>1, <3>2
    <2> QED BY <2>1, <2>5, <2>6
  <1> HIDE DEF t
  <1>2. Distinct(t)
    <2> DEFINE old(i) == IF i < n THEN i ELSE i + 1
    <2>1. ASSUME NEW i \in 1..Len(t)
          PROVE  old(i) \in 1..Len(s) /\ t[i] = s[old(i)]
      BY <1>1
    <2>2. ASSUME NEW i \in 1..Len(t), NEW j \in 1..Len(t), i # j
          PROVE  old(i) # old(j)
      BY <1>1, <2>2
    <2> HIDE DEF old
    <2> QED BY <2>1, <2>2 DEF Distinct
  <1>3. ToSet(t) = {t[i] : i \in 1..Len(t)} /\ ToSet(s) = {s[i] : i \in 1..Len(s)}
    BY <1>1, ListFacts
  <1>4. ASSUME NEW x \in ToSet(t) PROVE x \in ToSet(s) \ {s[n]}
    <2>1. PICK i \in 1..Len(t) : x = t[i]
      BY <1>3
    <2>2. PICK j \in 1..Len(s) : j # n /\ x = s[j]
      BY <1>1, <2>1
    <2> QED BY <1>3, <2>2 DEF Distinct
  <1>5. ASSUME NEW x \in ToSet(s) \ {s[n]} PROVE x \in ToSet(t)
    <2>1. PICK j \in 1..Len(s) : x = s[j] /\ j # n
      BY <1>3
    <2>2. CASE j < n
      <3>1. j \in 1..Len(t) /\ t[j] = x
        BY <1>1, <2>1, <2>2
      <3> QED BY <1>3, <3>1
    <2>3. CASE j > n
      <3>1. j - 1 \in 1..Len(t) /\ t[j - 1] = x
        BY <1>1, <2>1, <2>3
      <3> QED BY <1>3, <3>1
    <2> QED BY <1>1, <2>1, <2>2, <2>3
  <1> QED BY <1>1, <1>2, <1>4, <1>5 DEF t

LEMMA PushFrontFacts ==
    ASSUME NEW s \in Seq(Hashes), Distinct(s), NEW h \in Hashes \ ToSet(s)
    PROVE  /\ <<h>> \o s \in Seq(Hashes)
           /\ Distinct(<<h>> \o s)
           /\ ToSet(<<h>> \o s) = ToSet(s) \cup {h}
  <1> DEFINE t == <<h>> \o s
  <1>1. /\ t \in Seq(Hashes) /\ Len(t) = Len(s) + 1 /\ Len(s) \in Nat
        /\ t[1] = h /\ \A i \in 1..Len(s) : t[i+1] = s[i]
    OBVIOUS
  <1> HIDE DEF t
  <1>2. ToSet(t) = {t[i] : i \in 1..Len(t)} /\ ToSet(s) = {s[i] : i \in 1..Len(s)}
    BY <1>1, ListFacts
  <1>3. \A i \in 1..Len(t) : i = 1 \/ (i - 1 \in 1..Len(s) /\ t[i] = s[i-1])
    BY <1>1
  <1>4. Distinct(t)
    <2> SUFFICES ASSUME NEW m \in 1..Len(t), NEW n \in 1..Len(t), m < n PROVE t[m] # t[n]
      BY <1>1 DEF Distinct
    <2>1. n - 1 \in 1..Len(s) /\ t[n] = s[n-1]
      BY <1>1, <1>3
    <2>2. CASE m = 1
      BY <1>1, <1>2, <2>1, <2>2
    <2>3. CASE m # 1
      BY <1>1, <1>3, <2>1, <2>3 DEF Distinct
    <2> QED BY <2>2, <2>3
  <1>5. ToSet(t) \subseteq ToSet(s) \cup {h}
    BY <1>1, <1>2, <1>3
  <1>6. ToSet(s) \cup {h} \subseteq ToSet(t)
    <2>1. h \in ToSet(t)
      BY <1>1, <1>2
    <2>2. ASSUME NEW i \in 1..Len(s) PROVE s[i] \in ToSet(t)
      <3>1. i + 1 \in 1..Len(t) /\ t[i + 1] = s[i]
        BY <1>1
      <3> QED BY <1>2, <3>1
    <2> QED BY <1>2, <2>1, <2>2
  <1> QED BY <1>1, <1>4, <1>5, <1>6 DEF t

\* A list that is cut in two.
LEMMA CutFacts ==
    ASSUME NEW s \in Seq(Hashes), Distinct(s), NEW m \in 0..Len(s)
    PROVE  LET a == SubSeq(s, 1, m)
               b == SubSeq(s, m + 1, Len(s))
           IN  /\ a \in Seq(Hashes) /\ b \in Seq(Hashes)
               /\ Distinct(a)
               /\ ToSet(a) \cup ToSet(b) = ToSet(s)
               /\ ToSet(a) \cap ToSet(b) = {}
               /\ m = 0 => ToSet(a) = {}
  <1> DEFINE a == SubSeq(s, 1, m)
             b == SubSeq(s, m + 1, Len(s))
  <1>1. Len(s) \in Nat /\ m \in Nat /\ m <= Len(s)
    OBVIOUS
  <1>2. /\ a \in Seq(Hashes) /\ Len(a) = m
        /\ \A i \in 1..m : a[i] = s[i]
    BY <1>1
  <1>3. /\ b \in Seq(Hashes) /\ Len(b) = Len(s) - m
        /\ \A i \in 1..Len(s) - m : b[i] = s[m + i]
    BY <1>1
  <1> HIDE DEF a, b
  <1>4. /\ ToSet(a) = {a[i] : i \in 1..m} /\ ToSet(b) = {b[i] : i \in 1..Len(s) - m}
        /\ ToSet(s) = {s[i] : i \in 1..Len(s)}
    BY <1>2, <1>3, ListFacts
  <1>5. Distinct(a)
    BY <1>1, <1>2 DEF Distinct
  <1>6. \A x \in ToSet(a) : \E i \in 1..m : x = s[i]
    BY <1>2, <1>4
  <1>7. \A x \in ToSet(b) : \E i \in m + 1 .. Len(s) : x = s[i]
    <2> SUFFICES ASSUME NEW x \in ToSet(b) PROVE \E i \in m + 1 .. Len(s) : x = s[i]
      OBVIOUS
    <2>1. PICK i \in 1..Len(s) - m : x = b[i]
      BY <1>4
    <2>2. m + i \in m + 1 .. Len(s) /\ x = s[m + i]
      BY <1>1, <1>3, <2>1
    <2> QED BY <2>2
  <1>8. ToSet(a) \cap ToSet(b) = {}
    <2> SUFFICES ASSUME NEW x \in ToSet(a), x \in ToSet(b) PROVE FALSE
      OBVIOUS
    <2>1. PICK i \in 1..m : x = s[i]
      BY <1>6
    <2>2. PICK j \in m + 1 .. Len(s) : x = s[j]
      BY <1>7
    <2>3. i \in 1..Len(s) /\ j \in 1..Len(s) /\ i # j
      BY <1>1
    <2> QED BY <2>1, <2>2, <2>3 DEF Distinct
  <1>9. ToSet(a) \cup ToSet(b) \subseteq ToSet(s)
    <2>1. 1..m \subseteq 1..Len(s) /\ m + 1 .. Len(s) \subseteq 1..Len(s)
      BY <1>1
    <2> QED BY <1>4, <1>6, <1>7, <2>1
  <1>10. ASSUME NEW x \in ToSet(s) PROVE x \in ToSet(a) \cup ToSet(b)
    <2>1. PICK i \in 1..Len(s) : x = s[i]
      BY <1>4
    <2>2. CASE i <= m
      <3>1. i \in 1..m /\ x = a[i]
        BY <1>1, <1>2, <2>1, <2>2
      <3> QED BY <1>4, <3>1
    <2>3. CASE i > m
      <3>1. i - m \in 1..Len(s) - m /\ x = b[i - m]
        BY <1>1, <1>3, <2>1, <2>3
      <3> QED BY <1>4, <3>1
    <2> QED BY <1>1, <2>1, <2>2, <2>3
  <1>11. m = 0 => ToSet(a) = {}
    BY <1>4
  <1> QED BY <1>2, <1>3, <1>5, <1>8, <1>9, <1>10, <1>11 DEF a, b

-----------------------------------------------------------------------------
(***************************************************************************)
(* Sizes add up.                                                           *)
(***************************************************************************)

Weight(S) == Cardinality(UNION {{h} \X (1..Size[h]) : h \in S})

LEMMA SizeIsWeight == \A list : SizeOf(list) = Weight(ToSet(list))
  BY DEF SizeOf, Weight

LEMMA WeightFacts ==
    /\ \A S \in SUBSET Hashes : Weight(S) \in Nat
    /\ Weight({}) = 0
    /\ \A h \in Hashes : Weight({h}) = Size[h]
    /\ \A S, T \in SUBSET Hashes : S \cap T = {} => Weight(S \cup T) = Weight(S) + Weight(T)
  <1> DEFINE File(h) == {h} \X (1..Size[h])
             Bytes(S) == UNION {File(h) : h \in S}
  <1>1. ASSUME NEW h \in Hashes
        PROVE  IsFiniteSet(File(h)) /\ Cardinality(File(h)) = Size[h]
    <2>1. Size[h] \in Nat
      BY SizeAssumption
    <2>2. IsFiniteSet(1..Size[h]) /\ Cardinality(1..Size[h]) = Size[h]
      <3> DEFINE n == Size[h]
      <3>1. n \in Nat /\ n \in Int /\ 1 \in Int
        BY <2>1
      <3> HIDE DEF n
      <3>2. /\ IsFiniteSet(1..n)
            /\ Cardinality(1..n) = IF 1 > n THEN 0 ELSE n - 1 + 1
        BY <3>1, FS_Interval, Zenon
      <3>3. (IF 1 > n THEN 0 ELSE n - 1 + 1) = n
        BY <3>1
      <3> QED BY <3>2, <3>3 DEF n
    <2>3. IsFiniteSet({h}) /\ Cardinality({h}) = 1
      <3>1. \A x : IsFiniteSet({x}) /\ Cardinality({x}) = 1
        BY FS_Singleton
      <3> QED BY <3>1
    <2>4. IsFiniteSet(File(h)) /\ Cardinality(File(h)) = 1 * Size[h]
      <3>1. \A S, T : IsFiniteSet(S) /\ IsFiniteSet(T) =>
                  IsFiniteSet(S \X T) /\ Cardinality(S \X T) = Cardinality(S) * Cardinality(T)
        BY FS_Product
      <3>2. /\ IsFiniteSet({h} \X (1..Size[h]))
            /\ Cardinality({h} \X (1..Size[h])) = Cardinality({h}) * Cardinality(1..Size[h])
        BY <2>2, <2>3, <3>1
      <3> QED BY <2>2, <2>3, <3>2
    <2>5. 1 * Size[h] = Size[h]
      BY <2>1
    <2> QED BY <2>4, <2>5
  <1>2. \A S : Weight(S) = Cardinality(Bytes(S))
    BY DEF Weight
  <1>3. Bytes({}) = {} /\ \A h : Bytes({h}) = File(h)
    OBVIOUS
  <1>4. \A h, g : \A x : x \in File(h) /\ x \in File(g) => h = g
    OBVIOUS
  <1> HIDE DEF File
  <1>5. \A S, T : Bytes(S \cup T) = Bytes(S) \cup Bytes(T)
    OBVIOUS
  <1>6. \A S, T : S \cap T = {} => Bytes(S) \cap Bytes(T) = {}
    BY <1>4
  <1>7. IsFiniteSet(Bytes(Hashes))
    <2> DEFINE F == {File(h) : h \in Hashes}
               f == [h \in Hashes |-> File(h)]
    <2>1. f \in Surjection(Hashes, F)
      BY DEF Surjection
    <2>2. IsFiniteSet(F)
      BY <2>1, FS_Surjection, SizeAssumption
    <2> QED BY <1>1, <2>2, FS_UNION
  <1>8. \A S \in SUBSET Hashes : Bytes(S) \subseteq Bytes(Hashes)
    OBVIOUS
  <1> HIDE DEF Bytes
  <1>9. \A S \in SUBSET Hashes : IsFiniteSet(Bytes(S)) /\ Cardinality(Bytes(S)) \in Nat
    BY <1>7, <1>8, FS_Subset, FS_CardinalityType
  <1>10. ASSUME NEW S \in SUBSET Hashes, NEW T \in SUBSET Hashes, S \cap T = {}
         PROVE  Weight(S \cup T) = Weight(S) + Weight(T)
    <2>1. Cardinality(Bytes(S) \cup Bytes(T)) =
              Cardinality(Bytes(S)) + Cardinality(Bytes(T)) - Cardinality(Bytes(S) \cap Bytes(T))
      BY <1>9, FS_Union
    <2>2. Cardinality(Bytes(S) \cap Bytes(T)) = 0
      BY <1>6, <1>10, FS_EmptySet
    <2>3. /\ Weight(S \cup T) = Cardinality(Bytes(S) \cup Bytes(T))
          /\ Weight(S) = Cardinality(Bytes(S)) /\ Weight(T) = Cardinality(Bytes(T))
      BY <1>2, <1>5
    <2>4. Cardinality(Bytes(S)) \in Nat /\ Cardinality(Bytes(T)) \in Nat
      BY <1>9
    <2> QED BY <2>1, <2>2, <2>3, <2>4
  <1>11. Weight({}) = 0
    BY <1>2, <1>3, FS_EmptySet
  <1> QED BY <1>1, <1>2, <1>3, <1>9, <1>10, <1>11

-----------------------------------------------------------------------------
(***************************************************************************)
(* The operations on the list.                                             *)
(***************************************************************************)

LEMMA CachedIsListed ==
    ASSUME Types
    PROVE  \A h : Cached(h) <=> h \in ToSet(lru)
  <1>1. ToSet(lru) = {lru[i] : i \in 1..Len(lru)}
    BY ListFacts DEF Types
  <1> QED BY <1>1 DEF Cached

LEMMA WithoutFacts ==
    ASSUME Types, Distinct(lru), NEW h \in Hashes
    PROVE  /\ Without(h) \in Seq(Hashes)
           /\ Distinct(Without(h))
           /\ ToSet(Without(h)) = ToSet(lru) \ {h}
  <1>1. CASE Cached(h)
    <2> DEFINE n == CHOOSE i \in 1..Len(lru) : lru[i] = h
    <2>1. n \in 1..Len(lru) /\ lru[n] = h
      BY <1>1 DEF Cached
    <2>2. Without(h) = RemoveAt(lru, n)
      BY <1>1 DEF Without
    <2> HIDE DEF n
    <2> QED BY <2>1, <2>2, RemoveAtFacts DEF Types
  <1>2. CASE ~Cached(h)
    BY <1>2, CachedIsListed DEF Without, Types
  <1> QED BY <1>1, <1>2

\* Every set of naturals has a least element.
LEMMA LeastNumber ==
    ASSUME NEW T \in SUBSET Nat, T # {}
    PROVE  \E n \in T : \A m \in T : n <= m
  <1> DEFINE D == {0..n : n \in T}
  <1>1. IsWellFoundedOn(StrictSubsetOrdering(Nat), FiniteSubsetsOf(Nat))
    BY FS_StrictSubsetOrderingWellFounded
  <1>2. D \subseteq FiniteSubsetsOf(Nat)
    <2>1. \A n \in Nat : IsFiniteSet(0..n)
      BY FS_Interval
    <2> QED BY <2>1 DEF FiniteSubsetsOf
  <1>3. D # {}
    OBVIOUS
  <1>4. \E x \in D : \A y \in D : ~(<<y, x>> \in StrictSubsetOrdering(Nat))
    <2> HIDE DEF D
    <2> QED BY <1>1, <1>2, <1>3, WFMin
  <1>5. PICK n \in T : \A m \in T : ~(<<0..m, 0..n>> \in StrictSubsetOrdering(Nat))
    BY <1>4
  <1>6. ASSUME NEW m \in T, m < n PROVE FALSE
    <2>1. 0..m \subseteq 0..n /\ 0..m # 0..n /\ 0..m \in SUBSET Nat /\ 0..n \in SUBSET Nat
      <3>1. n \in 0..n /\ n \notin 0..m
        BY <1>6
      <3> QED BY <1>6, <3>1
    <2>2. <<0..m, 0..n>> \in StrictSubsetOrdering(Nat)
      BY <2>1 DEF StrictSubsetOrdering
    <2> QED BY <1>5, <2>2
  <1> QED BY <1>6

\* The loop of evictLocked stops, with the list empty or within the budget.
LEMMA EvictFacts ==
    ASSUME NEW list \in Seq(Hashes), NEW used \in Int
    PROVE  LET k == evictLocked(list, used) IN
           /\ k \in 0..Len(list)
           /\ \/ k = Len(list)
              \/ used - SizeOf(SubSeq(list, Len(list) - k + 1, Len(list))) <= MaxBytes
  <1> DEFINE Left(j) == used - SizeOf(SubSeq(list, Len(list) - j + 1, Len(list)))
             Stop(j) == (j = Len(list) \/ Left(j) <= MaxBytes) /\ \A i \in 0..(j - 1) : Left(i) > MaxBytes
             T == {j \in 0..Len(list) : j = Len(list) \/ Left(j) <= MaxBytes}
  <1>1. evictLocked(list, used) = CHOOSE j \in 0..Len(list) : Stop(j)
    BY DEF evictLocked
  <1>2. Len(list) \in Nat /\ MaxBytes \in Int
    BY MaxBytesAssumption
  <1>3. \A j \in 0..Len(list) : Left(j) \in Int
    <2> SUFFICES ASSUME NEW j \in 0..Len(list) PROVE Left(j) \in Int
      OBVIOUS
    <2> DEFINE b == SubSeq(list, Len(list) - j + 1, Len(list))
    <2>1. b \in Seq(Hashes)
      BY <1>2
    <2>2. ToSet(b) \in SUBSET Hashes
      <3> HIDE DEF b
      <3> QED BY <2>1, ListFacts
    <2> QED BY <2>2, SizeIsWeight, WeightFacts
  <1> HIDE DEF Left
  <1>4. T \in SUBSET Nat /\ Len(list) \in T
    BY <1>2
  <1>5. PICK n \in T : \A m \in T : n <= m
    BY <1>4, LeastNumber
  <1>6. n \in 0..Len(list) /\ (n = Len(list) \/ Left(n) <= MaxBytes)
    BY <1>5
  <1>7. ASSUME NEW i \in 0..(n - 1) PROVE Left(i) > MaxBytes
    <2>1. i \in 0..Len(list) /\ i < n
      BY <1>2, <1>6
    <2>2. i \notin T
      BY <1>2, <1>5, <1>6, <2>1
    <2> QED BY <1>2, <1>3, <2>1, <2>2
  <1>8. Stop(n)
    BY <1>6, <1>7
  <1> HIDE DEF Stop
  <1>9. evictLocked(list, used) \in 0..Len(list) /\ Stop(evictLocked(list, used))
    BY <1>1, <1>6, <1>8
  <1> QED BY <1>9 DEF Stop, Left

-----------------------------------------------------------------------------
(***************************************************************************)
(* What the steps have in common.                                          *)
(***************************************************************************)

\* Two requests never lead flights of the same hash.
LEMMA LeadersDiffer ==
    ASSUME IInv, NEW r \in Requests, NEW s \in Requests, r # s,
           Leads(req[r]), Leads(req[s])
    PROVE  req[r].hash # req[s].hash
  BY DEF IInv, RequestInv, Knows, Puts

LEMMA PutsLeads ==
    ASSUME IInv
    PROVE  \A s \in Requests : Puts(req[s]) => Leads(req[s]) /\ ~Cached(req[s].hash)
  BY DEF IInv, RequestInv, Knows, Puts, Leads

\* A step that leaves the list, the count and the files alone.
LEMMA CacheUntouched ==
    ASSUME IInv, UNCHANGED <<lru, bytesUsed, disk>>
    PROVE  AccountingIsExact' /\ IndexedFileIsGood'
  BY DEF IInv, AccountingIsExact, IndexedFileIsGood, Cached

\* The types of the records a step leaves behind.
LEMMA RecordTypes ==
    /\ IdleRequest \in Request
    /\ \A a \in {"none", "bytes", "502", "empty"} :
          Answered(a) \in Request /\ Answered(a).pc = "done" /\ Answered(a).hash = NULL
    /\ NoTmp \in Tmp
  BY DEF IdleRequest, Answered, NoTmp, Request, Tmp

\* One request moves on, and neither the cache nor the files change: what it
\* has to know, and that it leads no flight after it unless it did before.
LEMMA OneRequestMoves ==
    ASSUME IInv, NEW r \in Requests, NEW q \in Request,
           req' = [req EXCEPT ![r] = q],
           UNCHANGED <<lru, bytesUsed, disk, tmp, flight>>,
           writer' \in [Requests -> WriterState],
           gone' \subseteq Requests,
           Knows(r, q),
           Leads(req[r]) => Leads(q) /\ q.hash = req[r].hash
    PROVE  IInv'
  <1>1. Types'
    BY DEF IInv, Types
  <1>2. req'[r] = q /\ \A s \in Requests : s # r => req'[s] = req[s]
    BY DEF IInv, Types
  <1>3. RequestInv'
    BY <1>2 DEF IInv, RequestInv, Knows, Puts, Cached
  <1>4. FlightInv'
    BY <1>2 DEF IInv, Types, FlightInv
  <1> QED BY <1>1, <1>3, <1>4, CacheUntouched DEF IInv

\* The end of a flight.
LEMMA LandStep ==
    ASSUME IInv, NEW h \in Hashes, NEW result, Land(h, result),
           UNCHANGED <<lru, bytesUsed, disk, tmp, gone>>,
           writer' \in [Requests -> WriterState]
    PROVE  IInv'
  <1> DEFINE Landed(s) == req[s].hash = h /\ (flight[h] = s \/ req[s].pc = "wait")
  <1>1. flight' = [flight EXCEPT ![h] = NULL]
    BY DEF Land
  <1>2. \A s \in Requests : ~Landed(s) => req'[s] = req[s]
    BY DEF Land
  <1>3. \A s \in Requests : Landed(s) =>
           \/ req'[s] = [req[s] EXCEPT !.pc = "lookup", !.stage = "reopen"]
           \/ req'[s] = Answered("empty") \/ req'[s] = Answered("502")
    BY DEF Land
  <1>4. DOMAIN req' = Requests /\ req' = [s \in Requests |-> req'[s]]
    BY DEF Land
  <1>5. ASSUME NEW s \in Requests
        PROVE  req'[s] \in Request /\ (Landed(s) => Knows(s, req[s])')
    <2>1. req[s] \in Request
      BY DEF IInv, Types
    <2>2. CASE ~Landed(s)
      BY <1>2, <2>1, <2>2
    <2>3. CASE Landed(s) /\ req'[s] = [req[s] EXCEPT !.pc = "lookup", !.stage = "reopen"]
      <3>1. /\ req'[s] \in Request /\ req'[s].pc = "lookup" /\ req'[s].stage = "reopen"
            /\ req'[s].hash = h
        BY <2>1, <2>3 DEF Request
      <3> QED BY <3>1 DEF Knows, Puts, Leads
    <2>4. CASE req'[s] = Answered("empty") \/ req'[s] = Answered("502")
      <3>1. req'[s] \in Request /\ req'[s].pc = "done"
        BY <2>4, RecordTypes
      <3> QED BY <3>1 DEF Knows, Puts, Leads
    <2> QED BY <1>3, <2>2, <2>3, <2>4
  <1>6. Types'
    BY <1>1, <1>4, <1>5 DEF IInv, Types
  <1>7. ASSUME NEW s \in Requests, ~Landed(s) PROVE Knows(s, req[s])'
    <2>1. req'[s] = req[s] /\ Knows(s, req[s]) /\ flight \in [Hashes -> Requests \cup {NULL}]
      BY <1>2, <1>7 DEF IInv, RequestInv, Types
    <2>2. CASE req[s].hash # h
      <3>1. req[s].hash \in Hashes => flight'[req[s].hash] = flight[req[s].hash]
        BY <1>1, <2>1, <2>2
      <3> QED BY <2>1, <3>1 DEF Knows, Puts, Leads, Cached
    <2>3. CASE req[s].hash = h
      <3>1. ~Leads(req[s]) /\ req[s].pc # "wait"
        BY <1>7, <2>1, <2>3 DEF Knows, Puts
      <3> QED BY <2>1, <3>1 DEF Knows, Puts, Cached
    <2> QED BY <2>2, <2>3
  <1>8. RequestInv'
    BY <1>5, <1>7 DEF RequestInv
  <1>9. FlightInv'
    <2> SUFFICES ASSUME NEW g \in Hashes, flight'[g] # NULL
                 PROVE  req'[flight'[g]].hash = g /\ Leads(req'[flight'[g]])
      BY DEF FlightInv
    <2>1. g # h /\ flight'[g] = flight[g] /\ flight[g] \in Requests
      BY <1>1 DEF IInv, Types
    <2>2. req[flight[g]].hash = g /\ Leads(req[flight[g]])
      BY <2>1 DEF IInv, FlightInv
    <2>3. req'[flight[g]] = req[flight[g]]
      BY <1>2, <2>1, <2>2
    <2> QED BY <2>1, <2>2, <2>3
  <1> QED BY <1>6, <1>8, <1>9, CacheUntouched DEF IInv

-----------------------------------------------------------------------------
(***************************************************************************)
(* The steps of a request up to the download, and its answer.              *)
(***************************************************************************)

LEMMA StartStep ==
    ASSUME IInv, NEW r \in Requests, NEW h \in Hashes, Start(r, h)
    PROVE  IInv'
  <1> DEFINE q == [IdleRequest EXCEPT !.pc = "lookup", !.hash = h]
  <1>1. q \in Request /\ q.pc = "lookup" /\ q.hash = h /\ q.stage = "fast"
    BY DEF IdleRequest, Request
  <1>2. /\ req' = [req EXCEPT ![r] = q] /\ req[r].pc \in {"idle", "done"}
        /\ UNCHANGED <<lru, bytesUsed, disk, tmp, flight, writer>> /\ gone' = gone \ {r}
    BY DEF Start, cache, files
  <1> HIDE DEF q
  <1>3. Knows(r, q) /\ ~Leads(req[r])
    BY <1>1, <1>2 DEF Knows, Puts, Leads
  <1>4. /\ gone' \subseteq Requests
        /\ writer' \in [Requests -> WriterState]
    BY <1>2 DEF IInv, Types
  <1> QED BY <1>1, <1>2, <1>3, <1>4, OneRequestMoves

LEMMA ServeStep ==
    ASSUME IInv, NEW r \in Requests, Serve(r)
    PROVE  IInv'
  <1>1. /\ req' = [req EXCEPT ![r] = Answered("bytes")] /\ req[r].pc = "serve"
        /\ UNCHANGED <<lru, bytesUsed, disk, tmp, flight, writer, gone>>
    BY DEF Serve, cache, files
  <1>2. Answered("bytes") \in Request /\ Knows(r, Answered("bytes")) /\ ~Leads(req[r])
    BY <1>1, RecordTypes DEF Knows, Puts, Leads
  <1>3. /\ gone' \subseteq Requests
        /\ writer' \in [Requests -> WriterState]
    BY <1>1 DEF IInv, Types
  <1> QED BY <1>1, <1>2, <1>3, OneRequestMoves

LEMMA DisconnectStep ==
    ASSUME IInv, NEW r \in Requests, Disconnect(r)
    PROVE  IInv'
  <1>1. UNCHANGED <<lru, bytesUsed, disk, tmp, flight, writer, req>> /\ gone' = gone \cup {r}
    BY DEF Disconnect, cache, files
  <1>2. Types' /\ RequestInv' /\ FlightInv'
    BY <1>1 DEF IInv, Types, RequestInv, FlightInv, Knows, Puts, Cached
  <1> QED BY <1>1, <1>2, CacheUntouched DEF IInv

LEMMA WriterFailsStep ==
    ASSUME IInv, NEW r \in Requests, WriterFails(r)
    PROVE  IInv'
  <1>1. UNCHANGED <<lru, bytesUsed, disk, tmp, flight, req, gone>>
    BY DEF WriterFails, cache, files
  <1>2. writer' \in [Requests -> WriterState]
    BY DEF WriterFails, DownloadErrors, IInv, Types, WriterState
  <1>3. Types' /\ RequestInv' /\ FlightInv'
    BY <1>1, <1>2 DEF IInv, Types, RequestInv, FlightInv, Knows, Puts, Cached
  <1> QED BY <1>1, <1>3, CacheUntouched DEF IInv

LEMMA DoStep ==
    ASSUME IInv, NEW r \in Requests, Do(r)
    PROVE  IInv'
  <1> DEFINE h == req[r].hash
  <1>1. /\ req[r] \in Request /\ req[r].pc = "join" /\ h \in Hashes /\ ~Leads(req[r])
        /\ UNCHANGED <<lru, bytesUsed, disk, tmp, writer, gone>>
    BY DEF Do, IInv, Types, RequestInv, Knows, Puts, Leads, cache, files
  <1>2. CASE flight[h] = NULL
    <2> DEFINE q == [req[r] EXCEPT !.pc = "lookup", !.stage = "recheck"]
    <2>1. q \in Request /\ q.pc = "lookup" /\ q.hash = h /\ q.stage = "recheck"
      BY <1>1 DEF Request
    <2>2. req' = [req EXCEPT ![r] = q] /\ flight' = [flight EXCEPT ![h] = r]
      BY <1>2 DEF Do, IInv, Types
    <2> HIDE DEF q
    <2>3. Types'
      BY <1>1, <2>1, <2>2 DEF IInv, Types
    <2>4. req'[r] = q /\ \A s \in Requests : s # r => req'[s] = req[s]
      BY <2>2 DEF IInv, Types
    <2>5. flight'[h] = r /\ \A g \in Hashes : g # h => flight'[g] = flight[g]
      BY <1>1, <2>2 DEF IInv, Types
    <2>6. Leads(q)
      BY <2>1 DEF Leads
    <2>7. RequestInv'
      <3> SUFFICES ASSUME NEW s \in Requests PROVE Knows(s, req[s])'
        BY DEF RequestInv
      <3>1. CASE s = r
        BY <2>1, <2>4, <2>5, <1>1, <3>1 DEF Knows, Puts
      <3>2. CASE s # r
        <4>1. req'[s] = req[s] /\ Knows(s, req[s])
          BY <2>4, <3>2 DEF IInv, RequestInv
        <4>2. CASE req[s].hash = h
          <5>1. ~Leads(req[s]) /\ req[s].pc # "wait"
            BY <1>1, <1>2, <4>1, <4>2, NoHashAssumption DEF Knows, Puts
          <5> QED BY <1>1, <4>1, <5>1 DEF Knows, Puts, Cached
        <4>3. CASE req[s].hash # h
          <5>1. req[s].hash \in Hashes => flight'[req[s].hash] = flight[req[s].hash]
            BY <2>5, <4>3
          <5> QED BY <1>1, <4>1, <5>1 DEF Knows, Puts, Leads, Cached
        <4> QED BY <4>2, <4>3
      <3> QED BY <3>1, <3>2
    <2>8. FlightInv'
      <3> SUFFICES ASSUME NEW g \in Hashes, flight'[g] # NULL
                   PROVE  req'[flight'[g]].hash = g /\ Leads(req'[flight'[g]])
        BY DEF FlightInv
      <3>1. CASE g = h
        BY <2>1, <2>4, <2>5, <2>6, <3>1
      <3>2. CASE g # h
        <4>1. flight'[g] = flight[g] /\ flight[g] \in Requests
          BY <2>5, <3>2 DEF IInv, Types
        <4>2. req[flight[g]].hash = g /\ Leads(req[flight[g]])
          BY <4>1 DEF IInv, FlightInv
        <4>3. req'[flight[g]] = req[flight[g]]
          BY <1>1, <2>4, <4>1, <4>2
        <4> QED BY <4>1, <4>2, <4>3
      <3> QED BY <3>1, <3>2
    <2> QED BY <1>1, <2>3, <2>7, <2>8, CacheUntouched DEF IInv
  <1>3. CASE flight[h] # NULL
    <2> DEFINE q == [req[r] EXCEPT !.pc = "wait"]
    <2>1. q \in Request /\ q.pc = "wait" /\ q.hash = h
      BY <1>1 DEF Request
    <2>2. req' = [req EXCEPT ![r] = q] /\ UNCHANGED flight
      BY <1>3 DEF Do, IInv, Types
    <2> HIDE DEF q
    <2>3. Knows(r, q)
      BY <1>1, <1>3, <2>1 DEF Knows, Puts, Leads
    <2>4. /\ gone' \subseteq Requests
          /\ writer' \in [Requests -> WriterState]
      BY <1>1 DEF IInv, Types
    <2> QED BY <1>1, <2>1, <2>2, <2>3, <2>4, OneRequestMoves
  <1> QED BY <1>2, <1>3

LEMMA OpenFileStep ==
    ASSUME IInv, NEW r \in Requests, OpenFile(r)
    PROVE  IInv'
  <1> DEFINE h == req[r].hash
  <1>1. /\ req[r] \in Request /\ req[r].pc = "open" /\ h \in Hashes /\ Knows(r, req[r])
        /\ UNCHANGED <<lru, bytesUsed, disk, tmp, writer, gone>>
    BY DEF OpenFile, IInv, Types, RequestInv, Knows, Puts, cache, files
  <1>2. /\ gone' \subseteq Requests
        /\ writer' \in [Requests -> WriterState]
    BY <1>1 DEF IInv, Types
  <1>3. CASE req' = [req EXCEPT ![r].pc = "drop"] /\ UNCHANGED flight
    <2> DEFINE q == [req[r] EXCEPT !.pc = "drop"]
    <2>1. q \in Request /\ q.pc = "drop" /\ q.hash = h /\ q.stage = req[r].stage
      BY <1>1 DEF Request
    <2>2. req' = [req EXCEPT ![r] = q]
      BY <1>3 DEF IInv, Types
    <2> HIDE DEF q
    <2>3. Knows(r, q) /\ (Leads(req[r]) => Leads(q))
      BY <1>1, <2>1 DEF Knows, Puts, Leads
    <2> QED BY <1>1, <1>2, <1>3, <2>1, <2>2, <2>3, OneRequestMoves
  <1>4. CASE /\ disk[h] # "none" /\ req[r].stage # "recheck"
             /\ req' = [req EXCEPT ![r].pc = "serve", ![r].fd = disk[h]]
             /\ UNCHANGED flight
    <2> DEFINE q == [req[r] EXCEPT !.pc = "serve", !.fd = disk[h]]
    <2>1. disk[h] = "good"
      BY <1>1, <1>4 DEF IInv, Types
    <2>2. q \in Request /\ q.pc = "serve" /\ q.hash = h /\ q.fd = "good"
      BY <1>1, <2>1 DEF Request
    <2>3. req' = [req EXCEPT ![r] = q]
      BY <1>4 DEF IInv, Types
    <2> HIDE DEF q
    <2>4. Knows(r, q) /\ ~Leads(req[r])
      BY <1>1, <1>4, <2>2 DEF Knows, Puts, Leads
    <2> QED BY <1>1, <1>2, <1>4, <2>2, <2>3, <2>4, OneRequestMoves
  <1>5. CASE Land(h, "ok")
    BY <1>1, <1>2, <1>5, LandStep
  <1> QED BY <1>3, <1>4, <1>5 DEF OpenFile

LEMMA DrainStep ==
    ASSUME IInv, NEW r \in Requests, Drain(r)
    PROVE  IInv'
  <1>1. /\ req[r].hash \in Hashes
        /\ UNCHANGED <<lru, bytesUsed, disk, tmp, gone>>
        /\ writer' = [writer EXCEPT ![r] = "none"]
    BY DEF Drain, IInv, RequestInv, Knows, Puts, cache, files
  <1>2. writer' \in [Requests -> WriterState]
    BY <1>1 DEF IInv, Types, WriterState
  <1>3. \E result : Land(req[r].hash, result)
    BY DEF Drain
  <1> QED BY <1>1, <1>2, <1>3, LandStep

-----------------------------------------------------------------------------
(***************************************************************************)
(* The steps that change the cache or the files.                           *)
(***************************************************************************)

\* One request moves on; the hashes that other requests are putting are not
\* newly cached, and their files stay.
LEMMA LeaderMoves ==
    ASSUME IInv, NEW r \in Requests, NEW q \in Request,
           req' = [req EXCEPT ![r] = q], Knows(r, req[r])',
           Leads(req[r]) => Leads(q) /\ q.hash = req[r].hash,
           UNCHANGED <<flight, gone>>,
           lru' \in Seq(Hashes), bytesUsed' \in Int,
           disk' \in [Hashes -> {"none", "good"}], tmp' \in [Hashes -> Tmp],
           writer' \in [Requests -> WriterState],
           \A s \in Requests \ {r}, h \in Hashes :
               Puts(req[s]) /\ req[s].hash = h =>
                   (Cached(h)' => Cached(h)) /\ tmp'[h] = tmp[h] /\ disk'[h] = disk[h],
           AccountingIsExact', IndexedFileIsGood'
    PROVE  IInv'
  <1>1. Types'
    BY DEF IInv, Types
  <1>2. req'[r] = q /\ \A s \in Requests : s # r => req'[s] = req[s]
    BY DEF IInv, Types
  <1>3. ASSUME NEW s \in Requests, s # r PROVE Knows(s, req[s])'
    <2>1. req'[s] = req[s] /\ Knows(s, req[s])
      BY <1>2, <1>3 DEF IInv, RequestInv
    <2>2. CASE Puts(req[s])
      <3>1. PICK h \in Hashes : h = req[s].hash
        BY <2>1, <2>2 DEF Knows, Puts
      <3>2. (Cached(h)' => Cached(h)) /\ tmp'[h] = tmp[h] /\ disk'[h] = disk[h]
        BY <1>3, <2>2, <3>1
      <3>3. req'[s].hash = h
        BY <2>1, <3>1
      <3> QED BY <2>1, <3>1, <3>2, <3>3 DEF Knows, Puts, Cached
    <2>3. CASE ~Puts(req[s])
      BY <2>1, <2>3 DEF Knows, Puts
    <2> QED BY <2>2, <2>3
  <1>4. RequestInv'
    BY <1>3 DEF RequestInv
  <1>5. FlightInv'
    BY <1>2 DEF IInv, Types, FlightInv
  <1> QED BY <1>1, <1>4, <1>5 DEF IInv

\* The accounting of a list, in terms of what it holds.
LEMMA CountsAs ==
    ASSUME IInv
    PROVE  /\ Distinct(lru) /\ bytesUsed = Weight(ToSet(lru)) /\ bytesUsed <= MaxBytes
           /\ ToSet(lru) \in SUBSET Hashes /\ bytesUsed \in Nat
           /\ \A h \in ToSet(lru) : disk[h] = "good"
  <1>1. ToSet(lru) \in SUBSET Hashes
    BY ListFacts DEF IInv, Types
  <1>2. bytesUsed = Weight(ToSet(lru))
    BY SizeIsWeight DEF IInv, AccountingIsExact
  <1>3. bytesUsed \in Nat
    BY <1>1, <1>2, WeightFacts
  <1>4. \A h \in ToSet(lru) : disk[h] = "good"
    BY <1>1, CachedIsListed DEF IInv, IndexedFileIsGood
  <1> QED BY <1>1, <1>2, <1>3, <1>4 DEF IInv, AccountingIsExact, Distinct

LEMMA AccountsFor ==
    ASSUME lru' \in Seq(Hashes), Distinct(lru'), bytesUsed' = Weight(ToSet(lru')),
           bytesUsed' <= MaxBytes, \A h \in ToSet(lru') : disk'[h] = "good"
    PROVE  /\ AccountingIsExact' /\ IndexedFileIsGood'
           /\ bytesUsed' \in Int
           /\ \A h \in Hashes : Cached(h)' <=> h \in ToSet(lru')
  <1>1. ToSet(lru') = {lru'[i] : i \in 1..Len(lru')} /\ ToSet(lru') \in SUBSET Hashes
    BY ListFacts
  <1>2. \A h \in Hashes : Cached(h)' <=> h \in ToSet(lru')
    BY <1>1 DEF Cached
  <1>3. bytesUsed' \in Int
    BY <1>1, WeightFacts
  <1>4. AccountingIsExact'
    BY SizeIsWeight DEF AccountingIsExact, Distinct
  <1>5. IndexedFileIsGood'
    BY <1>2 DEF IndexedFileIsGood
  <1> QED BY <1>2, <1>3, <1>4, <1>5

\* Open missed, with the entry gone from the list by then.
LEMMA MissStep ==
    ASSUME IInv, NEW r \in Requests, req[r].pc \in {"lookup", "drop"},
           req' = [req EXCEPT ![r] = AfterMiss(r)],
           UNCHANGED <<disk, tmp, flight, writer, gone>>,
           lru' \in Seq(Hashes), Distinct(lru'), bytesUsed' = Weight(ToSet(lru')),
           bytesUsed' <= MaxBytes, ToSet(lru') = ToSet(lru) \ {req[r].hash}
    PROVE  IInv'
  <1> DEFINE q == AfterMiss(r)
             h == req[r].hash
  <1>1. req[r] \in Request /\ h \in Hashes /\ Knows(r, req[r])
    BY DEF IInv, Types, RequestInv, Knows, Puts
  <1>2. /\ q \in Request
        /\ \/ q.pc = "join" /\ q.hash = h /\ req[r].stage = "fast"
           \/ q.pc = "create" /\ q.hash = h /\ q.stage = "recheck" /\ req[r].stage = "recheck"
           \/ q.pc = "done" /\ req[r].stage = "reopen"
    <2>1. CASE req[r].stage = "fast"
      <3>1. q = [req[r] EXCEPT !.pc = "join"]
        BY <2>1 DEF AfterMiss
      <3> HIDE DEF q
      <3> QED BY <1>1, <2>1, <3>1 DEF Request
    <2>2. CASE req[r].stage = "recheck"
      <3>1. q = [req[r] EXCEPT !.pc = "create"]
        BY <2>2 DEF AfterMiss
      <3> HIDE DEF q
      <3> QED BY <1>1, <2>2, <3>1 DEF Request
    <2>3. CASE req[r].stage = "reopen"
      <3>1. q = Answered("empty") \/ q = Answered("502")
        BY <2>3 DEF AfterMiss
      <3> HIDE DEF q
      <3> QED BY <2>3, <3>1, RecordTypes
    <2> HIDE DEF q
    <2> QED BY <1>1, <2>1, <2>2, <2>3 DEF Request
  <1> HIDE DEF q
  <1>3. \A g \in ToSet(lru') : disk'[g] = "good"
    BY CountsAs
  <1>4. /\ AccountingIsExact' /\ IndexedFileIsGood' /\ bytesUsed' \in Int
        /\ \A g \in Hashes : Cached(g)' <=> g \in ToSet(lru')
    BY <1>3, AccountsFor
  <1>5. \A g \in Hashes : Cached(g)' => Cached(g) /\ g # h
    BY <1>4, CachedIsListed DEF IInv
  <1>6. Leads(req[r]) => Leads(q) /\ q.hash = req[r].hash
    BY <1>2 DEF Leads
  <1>7. req'[r] = q
    BY DEF IInv, Types, q
  <1>8. Knows(r, req[r])'
    <2>1. CASE q.pc = "create"
      <3>1. PICK g \in Hashes : g = h
        BY <1>1
      <3>2. ~Cached(g)' /\ req'[r].hash = g /\ req'[r].pc = "create" /\ req'[r].stage = "recheck"
        BY <1>2, <1>5, <1>7, <2>1, <3>1
      <3>3. flight'[g] = r
        BY <1>1, <1>2, <2>1, <3>1 DEF Knows, Puts, Leads
      <3> QED BY <3>2, <3>3 DEF Knows, Puts, Cached
    <2>2. CASE q.pc # "create"
      BY <1>1, <1>2, <1>7, <2>2 DEF Knows, Puts, Leads
    <2> QED BY <2>1, <2>2
  <1>9. /\ disk' \in [Hashes -> {"none", "good"}] /\ tmp' \in [Hashes -> Tmp]
        /\ writer' \in [Requests -> WriterState]
    BY DEF IInv, Types
  <1> QED BY <1>2, <1>4, <1>5, <1>6, <1>8, <1>9, LeaderMoves DEF q

LEMMA OpenLookupStep ==
    ASSUME IInv, NEW r \in Requests, OpenLookup(r)
    PROVE  IInv'
  <1> DEFINE h == req[r].hash
  <1>1. /\ req[r] \in Request /\ req[r].pc = "lookup" /\ h \in Hashes /\ Knows(r, req[r])
        /\ UNCHANGED <<bytesUsed, disk, tmp, writer, flight, gone>>
    BY DEF OpenLookup, IInv, Types, RequestInv, Knows, Puts, files
  <1>2. Types /\ Distinct(lru)
    BY CountsAs DEF IInv
  <1>3. CASE Cached(h)
    <2> DEFINE q == [req[r] EXCEPT !.pc = "open"]
    <2>1. q \in Request /\ q.pc = "open" /\ q.hash = h /\ q.stage = req[r].stage
      BY <1>1 DEF Request
    <2>2. req' = [req EXCEPT ![r] = q] /\ lru' = <<h>> \o Without(h)
      BY <1>3 DEF OpenLookup, IInv, Types
    <2> HIDE DEF q
    <2>3. h \in ToSet(lru)
      BY <1>2, <1>3, CachedIsListed
    <2>4. lru' \in Seq(Hashes) /\ Distinct(lru') /\ ToSet(lru') = ToSet(lru)
      <3>1. /\ Without(h) \in Seq(Hashes) /\ Distinct(Without(h))
            /\ ToSet(Without(h)) = ToSet(lru) \ {h}
        BY <1>1, <1>2, WithoutFacts
      <3>2. /\ lru' \in Seq(Hashes) /\ Distinct(lru')
            /\ ToSet(lru') = ToSet(Without(h)) \cup {h}
        BY <1>1, <2>2, <3>1, PushFrontFacts
      <3> QED BY <2>3, <3>1, <3>2
    <2>5. /\ AccountingIsExact' /\ IndexedFileIsGood' /\ bytesUsed' \in Int
          /\ \A g \in Hashes : Cached(g)' <=> g \in ToSet(lru')
      BY <1>1, <2>4, CountsAs, AccountsFor
    <2>6. \A g \in Hashes : Cached(g)' <=> Cached(g)
      BY <1>2, <2>4, <2>5, CachedIsListed
    <2>7. req'[r] = q
      BY <2>2 DEF IInv, Types
    <2>8. Knows(r, req[r])' /\ (Leads(req[r]) => Leads(q))
      BY <1>1, <2>1, <2>7 DEF Knows, Puts, Leads
    <2>9. /\ disk' \in [Hashes -> {"none", "good"}] /\ tmp' \in [Hashes -> Tmp]
          /\ writer' \in [Requests -> WriterState]
      BY <1>1 DEF IInv, Types
    <2> QED BY <1>1, <2>1, <2>2, <2>4, <2>5, <2>6, <2>8, <2>9, LeaderMoves
  <1>4. CASE ~Cached(h)
    <2>1. req' = [req EXCEPT ![r] = AfterMiss(r)] /\ UNCHANGED lru
      BY <1>4 DEF OpenLookup
    <2>2. h \notin ToSet(lru)
      BY <1>2, <1>4, CachedIsListed
    <2>3. ToSet(lru') = ToSet(lru) \ {h}
      BY <2>1, <2>2
    <2>4. lru' \in Seq(Hashes) /\ Distinct(lru')
      BY <1>2, <2>1 DEF Types
    <2>5. bytesUsed' = Weight(ToSet(lru')) /\ bytesUsed' <= MaxBytes
      BY <1>1, <2>1, CountsAs
    <2> QED BY <1>1, <2>1, <2>3, <2>4, <2>5, MissStep
  <1> QED BY <1>3, <1>4

LEMMA OpenDropStep ==
    ASSUME IInv, NEW r \in Requests, OpenDrop(r)
    PROVE  IInv'
  <1> DEFINE h == req[r].hash
  <1>1. /\ req[r].pc = "drop" /\ h \in Hashes
        /\ req' = [req EXCEPT ![r] = AfterMiss(r)]
        /\ UNCHANGED <<disk, tmp, writer, flight, gone>>
    BY DEF OpenDrop, IInv, RequestInv, Knows, Puts, files
  <1>2. Types /\ Distinct(lru)
    BY CountsAs DEF IInv
  <1>3. /\ lru' = Without(h)
        /\ bytesUsed' = IF Cached(h) THEN bytesUsed - Size[h] ELSE bytesUsed
    BY DEF OpenDrop, Without, cache
  <1>4. lru' \in Seq(Hashes) /\ Distinct(lru') /\ ToSet(lru') = ToSet(lru) \ {h}
    BY <1>1, <1>2, <1>3, WithoutFacts
  <1>5. bytesUsed' = Weight(ToSet(lru')) /\ bytesUsed' <= MaxBytes
    <2>1. CASE Cached(h)
      <3>1. h \in ToSet(lru)
        BY <1>2, <2>1, CachedIsListed
      <3>2. /\ ToSet(lru') \in SUBSET Hashes /\ {h} \in SUBSET Hashes
            /\ ToSet(lru') \cap {h} = {} /\ ToSet(lru') \cup {h} = ToSet(lru)
        BY <1>1, <1>4, <3>1, CountsAs
      <3>3. Weight(ToSet(lru)) = Weight(ToSet(lru')) + Weight({h})
        BY <3>2, WeightFacts
      <3>4. Weight({h}) = Size[h] /\ Size[h] \in Nat /\ Weight(ToSet(lru')) \in Nat
        BY <1>1, <3>2, WeightFacts, SizeAssumption
      <3>5. bytesUsed = Weight(ToSet(lru)) /\ bytesUsed <= MaxBytes /\ bytesUsed \in Nat
        BY CountsAs
      <3> QED BY <1>3, <2>1, <3>3, <3>4, <3>5, MaxBytesAssumption
    <2>2. CASE ~Cached(h)
      <3>1. ToSet(lru') = ToSet(lru)
        BY <1>2, <1>4, <2>2, CachedIsListed
      <3> QED BY <1>3, <2>2, <3>1, CountsAs
    <2> QED BY <2>1, <2>2
  <1> QED BY <1>1, <1>4, <1>5, MissStep

\* A step of Put before the index: the leader's own temporary file or, at the
\* rename, its own file.
LEMMA PutStep ==
    ASSUME IInv, NEW r \in Requests, NEW h \in Hashes, h = req[r].hash,
           req[r].pc \in {"create", "copy", "rename"},
           NEW q \in Request, req' = [req EXCEPT ![r] = q], q.hash = h, q.stage = req[r].stage,
           q.pc \in {"copy", "rename", "index", "drain"},
           NEW t \in Tmp, tmp' = [tmp EXCEPT ![h] = t],
           q.pc = "copy" => t.by = r,
           q.pc = "rename" => t.content = "good",
           NEW d \in {"none", "good"}, disk' = [disk EXCEPT ![h] = d],
           q.pc = "index" => d = "good",
           writer' \in [Requests -> WriterState],
           UNCHANGED <<lru, bytesUsed, flight, gone>>
    PROVE  IInv'
  <1>1. Types /\ Knows(r, req[r])
    BY DEF IInv, RequestInv
  <1>2. Leads(req[r]) /\ flight[h] = r /\ ~Cached(h)
    BY <1>1 DEF Knows, Puts, Leads
  <1>3. Leads(q)
    BY <1>2 DEF Leads
  <1>4. /\ lru' \in Seq(Hashes) /\ bytesUsed' \in Int
        /\ disk' \in [Hashes -> {"none", "good"}] /\ tmp' \in [Hashes -> Tmp]
    BY <1>1 DEF Types
  <1>5. /\ req'[r] = q /\ tmp'[h] = t /\ disk'[h] = d
        /\ \A g \in Hashes : g # h => tmp'[g] = tmp[g] /\ disk'[g] = disk[g]
    BY <1>1 DEF Types
  <1>6. \A g : Cached(g)' <=> Cached(g)
    BY DEF Cached
  <1>7. req'[r].hash = h /\ ~Cached(h)'
    BY <1>2, <1>5, <1>6
  <1>8. Knows(r, req[r])'
    BY <1>1, <1>2, <1>3, <1>5, <1>7 DEF Knows, Puts, Leads, Cached
  <1>9. \A s \in Requests \ {r}, g \in Hashes :
            Puts(req[s]) /\ req[s].hash = g =>
                (Cached(g)' => Cached(g)) /\ tmp'[g] = tmp[g] /\ disk'[g] = disk[g]
    BY <1>2, <1>5, <1>6, LeadersDiffer, PutsLeads
  <1>10. AccountingIsExact'
    BY DEF IInv, AccountingIsExact
  <1>11. IndexedFileIsGood'
    <2> SUFFICES ASSUME NEW g \in Hashes, Cached(g)' PROVE disk'[g] = "good"
      BY DEF IndexedFileIsGood
    <2>1. Cached(g) /\ g # h
      BY <1>2, <1>6
    <2> QED BY <1>5, <2>1 DEF IInv, IndexedFileIsGood
  <1> QED BY <1>3, <1>4, <1>8, <1>9, <1>10, <1>11, LeaderMoves

\* The record of a leader whose Put returned an error.
LEMMA FailedFacts ==
    ASSUME IInv, NEW r \in Requests, PutFailed(r)
    PROVE  \E q \in Request :
              /\ req' = [req EXCEPT ![r] = q]
              /\ q.hash = req[r].hash /\ q.stage = req[r].stage /\ q.pc = "drain"
  <1> DEFINE q == [req[r] EXCEPT !.pc = "drain", !.put = "failed"]
  <1>1. req[r] \in Request
    BY DEF IInv, Types
  <1>2. q \in Request /\ q.hash = req[r].hash /\ q.stage = req[r].stage /\ q.pc = "drain"
    BY <1>1 DEF Request
  <1>3. req' = [req EXCEPT ![r] = q]
    BY DEF PutFailed, IInv, Types
  <1> HIDE DEF q
  <1> QED BY <1>2, <1>3

LEMMA PutCreateStep ==
    ASSUME IInv, NEW r \in Requests, PutCreate(r)
    PROVE  IInv'
  <1>1. PICK h \in Hashes : h = req[r].hash
    BY DEF PutCreate, IInv, RequestInv, Knows, Puts
  <1>2. /\ req[r] \in Request /\ req[r].pc = "create"
        /\ UNCHANGED <<lru, bytesUsed, flight, gone>>
    BY DEF PutCreate, cache, IInv, Types
  <1>3. /\ writer' \in [Requests -> WriterState]
        /\ disk[h] \in {"none", "good"} /\ disk' = [disk EXCEPT ![h] = disk[h]]
    BY DEF PutCreate, IInv, Types, WriterState
  <1>4. CASE /\ tmp' = [tmp EXCEPT ![h] = [content |-> "partial", by |-> r]]
             /\ req' = [req EXCEPT ![r].pc = "copy"]
    <2> DEFINE q == [req[r] EXCEPT !.pc = "copy"]
               t == [content |-> "partial", by |-> r]
    <2>1. q \in Request /\ q.hash = h /\ q.stage = req[r].stage /\ q.pc = "copy"
      BY <1>1, <1>2 DEF Request
    <2>2. t \in Tmp /\ t.by = r
      BY DEF Tmp
    <2>3. req' = [req EXCEPT ![r] = q] /\ tmp' = [tmp EXCEPT ![h] = t]
      BY <1>4 DEF IInv, Types
    <2> HIDE DEF q, t
    <2> QED BY <1>1, <1>2, <1>3, <2>1, <2>2, <2>3, PutStep
  <1>5. CASE tmp' = [tmp EXCEPT ![h] = NoTmp] /\ PutFailed(r)
    <2>1. PICK q \in Request : /\ req' = [req EXCEPT ![r] = q]
                               /\ q.hash = h /\ q.stage = req[r].stage /\ q.pc = "drain"
      BY <1>1, <1>5, FailedFacts
    <2> QED BY <1>1, <1>2, <1>3, <1>5, <2>1, RecordTypes, PutStep
  <1> QED BY <1>1, <1>4, <1>5 DEF PutCreate

LEMMA PutCopyStep ==
    ASSUME IInv, NEW r \in Requests, PutCopy(r)
    PROVE  IInv'
  <1>1. PICK h \in Hashes : h = req[r].hash
    BY DEF PutCopy, IInv, RequestInv, Knows, Puts
  <1>2. /\ req[r] \in Request /\ req[r].pc = "copy"
        /\ UNCHANGED <<lru, bytesUsed, disk, flight, gone>>
    BY DEF PutCopy, cache, IInv, Types
  <1>3. /\ writer' \in [Requests -> WriterState]
        /\ disk[h] \in {"none", "good"} /\ disk' = [disk EXCEPT ![h] = disk[h]]
    BY <1>2 DEF PutCopy, DownloadErrors, IInv, Types, WriterState
  <1>4. CASE /\ tmp' = [tmp EXCEPT ![h].content = IF tmp[h].by = r THEN "good" ELSE @]
             /\ req' = [req EXCEPT ![r].pc = "rename"]
    <2> DEFINE q == [req[r] EXCEPT !.pc = "rename"]
               t == [tmp[h] EXCEPT !.content = "good"]
    <2>1. q \in Request /\ q.hash = h /\ q.stage = req[r].stage /\ q.pc = "rename"
      BY <1>1, <1>2 DEF Request
    <2>2. tmp[h] \in Tmp /\ tmp[h].by = r
      BY <1>1, <1>2 DEF IInv, Types, RequestInv, Knows, Puts
    <2>3. t \in Tmp /\ t.content = "good"
      BY <2>2 DEF Tmp
    <2>4. req' = [req EXCEPT ![r] = q] /\ tmp' = [tmp EXCEPT ![h] = t]
      BY <1>4, <2>2 DEF IInv, Types
    <2> HIDE DEF q, t
    <2> QED BY <1>1, <1>2, <1>3, <2>1, <2>3, <2>4, PutStep
  <1>5. CASE tmp' = [tmp EXCEPT ![h] = NoTmp] /\ PutFailed(r)
    <2>1. PICK q \in Request : /\ req' = [req EXCEPT ![r] = q]
                               /\ q.hash = h /\ q.stage = req[r].stage /\ q.pc = "drain"
      BY <1>1, <1>5, FailedFacts
    <2> QED BY <1>1, <1>2, <1>3, <1>5, <2>1, RecordTypes, PutStep
  <1> QED BY <1>1, <1>4, <1>5 DEF PutCopy

LEMMA PutRenameStep ==
    ASSUME IInv, NEW r \in Requests, PutRename(r)
    PROVE  IInv'
  <1>1. PICK h \in Hashes : h = req[r].hash
    BY DEF PutRename, IInv, RequestInv, Knows, Puts
  <1>2. /\ req[r] \in Request /\ req[r].pc = "rename"
        /\ UNCHANGED <<lru, bytesUsed, writer, flight, gone>>
        /\ tmp' = [tmp EXCEPT ![h] = NoTmp]
    BY <1>1 DEF PutRename, cache, IInv, Types
  <1>3. /\ writer' \in [Requests -> WriterState]
        /\ disk[h] \in {"none", "good"}
    BY <1>2 DEF IInv, Types
  <1>4. CASE /\ disk' = [disk EXCEPT ![h] = IF tmp[h].content = "good" THEN "good" ELSE "bad"]
             /\ req' = [req EXCEPT ![r].pc = "index"]
    <2> DEFINE q == [req[r] EXCEPT !.pc = "index"]
    <2>1. q \in Request /\ q.hash = h /\ q.stage = req[r].stage /\ q.pc = "index"
      BY <1>1, <1>2 DEF Request
    <2>2. tmp[h].content = "good"
      BY <1>1, <1>2 DEF IInv, RequestInv, Knows, Puts
    <2>3. req' = [req EXCEPT ![r] = q] /\ disk' = [disk EXCEPT ![h] = "good"]
      BY <1>4, <2>2 DEF IInv, Types
    <2> HIDE DEF q
    <2> QED BY <1>1, <1>2, <1>3, <2>1, <2>3, RecordTypes, PutStep
  <1>5. CASE UNCHANGED disk /\ PutFailed(r)
    <2>1. PICK q \in Request : /\ req' = [req EXCEPT ![r] = q]
                               /\ q.hash = h /\ q.stage = req[r].stage /\ q.pc = "drain"
      BY <1>1, <1>5, FailedFacts
    <2>2. disk' = [disk EXCEPT ![h] = disk[h]]
      BY <1>5 DEF IInv, Types
    <2> QED BY <1>1, <1>2, <1>3, <2>1, <2>2, RecordTypes, PutStep
  <1> QED BY <1>1, <1>4, <1>5 DEF PutRename

LEMMA PutIndexStep ==
    ASSUME IInv, NEW r \in Requests, PutIndex(r)
    PROVE  IInv'
  <1>1. PICK h \in Hashes : h = req[r].hash
    BY DEF PutIndex, IInv, RequestInv, Knows, Puts
  <1> DEFINE list == <<h>> \o lru
             used == bytesUsed + Size[h]
             k == evictLocked(list, used)
             m == Len(list) - k
             kept == SubSeq(list, 1, m)
             evicted == SubSeq(list, m + 1, Len(list))
             q == [req[r] EXCEPT !.pc = "drain", !.put = "ok"]
  <1>2. /\ Types /\ req[r] \in Request /\ req[r].pc = "index" /\ ~Cached(h)
        /\ disk[h] = "good" /\ Leads(req[r])
    BY <1>1 DEF PutIndex, IInv, Types, RequestInv, Knows, Puts, Leads
  <1>3. /\ lru' = kept
        /\ bytesUsed' = used - SizeOf(evicted)
        /\ disk' = [g \in Hashes |-> IF g \in ToSet(evicted) THEN "none" ELSE disk[g]]
        /\ req' = [req EXCEPT ![r] = q]
        /\ UNCHANGED <<tmp, writer, flight, gone>>
    <2>1. Without(h) = lru
      BY <1>2 DEF Without
    <2> QED BY <1>1, <1>2, <2>1 DEF PutIndex, Types
  <1>4. q \in Request /\ q.pc = "drain" /\ q.hash = h /\ q.stage = req[r].stage
    BY <1>1, <1>2 DEF Request
  <1> HIDE DEF q
  <1>5. h \in Hashes \ ToSet(lru) /\ Size[h] \in Nat
    BY <1>2, CachedIsListed, SizeAssumption
  <1>6. list \in Seq(Hashes) /\ Distinct(list) /\ ToSet(list) = ToSet(lru) \cup {h}
    BY <1>2, <1>5, PushFrontFacts, CountsAs DEF Types
  <1> HIDE DEF list
  <1>7. used \in Int /\ used = Weight(ToSet(list))
    <2>1. {h} \in SUBSET Hashes /\ ToSet(lru) \in SUBSET Hashes /\ ToSet(lru) \cap {h} = {}
      BY <1>5, CountsAs
    <2>2. Weight(ToSet(lru) \cup {h}) = Weight(ToSet(lru)) + Weight({h}) /\ Weight({h}) = Size[h]
      BY <2>1, WeightFacts
    <2> QED BY <1>5, <1>6, <2>2, CountsAs
  <1> HIDE DEF used
  <1>8. /\ k \in 0..Len(list)
        /\ k = Len(list) \/ used - SizeOf(evicted) <= MaxBytes
    BY <1>6, <1>7, EvictFacts
  <1> HIDE DEF k
  <1>9. Len(list) \in Nat /\ m \in 0..Len(list) /\ (k = Len(list) => m = 0)
    BY <1>6, <1>8, ListFacts
  <1> HIDE DEF m
  <1>10. /\ kept \in Seq(Hashes) /\ evicted \in Seq(Hashes) /\ Distinct(kept)
         /\ ToSet(kept) \cup ToSet(evicted) = ToSet(list)
         /\ ToSet(kept) \cap ToSet(evicted) = {}
         /\ m = 0 => ToSet(kept) = {}
    BY <1>6, <1>9, CutFacts
  <1> HIDE DEF kept, evicted
  <1>11. bytesUsed' = Weight(ToSet(kept)) /\ bytesUsed' <= MaxBytes
    <2>1. ToSet(kept) \in SUBSET Hashes /\ ToSet(evicted) \in SUBSET Hashes
      BY <1>10, ListFacts
    <2>2. Weight(ToSet(list)) = Weight(ToSet(kept)) + Weight(ToSet(evicted))
      BY <1>10, <2>1, WeightFacts
    <2>3. Weight(ToSet(kept)) \in Nat /\ Weight(ToSet(evicted)) \in Nat
      BY <2>1, WeightFacts
    <2>4. /\ bytesUsed' = used - SizeOf(evicted)
          /\ bytesUsed' = Weight(ToSet(kept))
      BY <1>3, <1>7, <2>2, <2>3, SizeIsWeight
    <2>5. CASE k = Len(list)
      BY <1>9, <1>10, <2>4, <2>5, WeightFacts, MaxBytesAssumption
    <2>6. CASE used - SizeOf(evicted) <= MaxBytes
      BY <2>4, <2>6
    <2> QED BY <1>8, <2>4, <2>5, <2>6
  <1>12. \A g \in ToSet(lru') : disk'[g] = "good"
    <2> SUFFICES ASSUME NEW g \in ToSet(kept) PROVE disk'[g] = "good"
      BY <1>3
    <2>1. g \in Hashes /\ g \notin ToSet(evicted) /\ g \in ToSet(lru) \cup {h}
      BY <1>6, <1>10, ListFacts
    <2> QED BY <1>2, <1>3, <2>1, CountsAs
  <1>13. /\ AccountingIsExact' /\ IndexedFileIsGood' /\ bytesUsed' \in Int
         /\ \A g \in Hashes : Cached(g)' <=> g \in ToSet(lru')
    BY <1>3, <1>10, <1>11, <1>12, AccountsFor
  <1>14. req'[r] = q /\ Leads(q)
    BY <1>2, <1>3, <1>4 DEF Types, Leads
  <1>15. Knows(r, req[r])'
    <2>1. flight'[h] = r
      BY <1>1, <1>2, <1>3 DEF IInv, RequestInv, Knows, Puts
    <2> QED BY <1>2, <1>4, <1>14, <2>1 DEF Knows, Puts, Leads
  <1>16. ASSUME NEW s \in Requests \ {r}, NEW g \in Hashes, Puts(req[s]), req[s].hash = g
         PROVE  (Cached(g)' => Cached(g)) /\ tmp'[g] = tmp[g] /\ disk'[g] = disk[g]
    <2>1. g # h /\ g \notin ToSet(lru)
      BY <1>1, <1>2, <1>16, LeadersDiffer, PutsLeads, CachedIsListed
    <2>2. g \notin ToSet(kept) /\ g \notin ToSet(evicted)
      BY <1>6, <1>10, <2>1
    <2> QED BY <1>3, <1>13, <2>2
  <1>17. /\ lru' \in Seq(Hashes) /\ disk' \in [Hashes -> {"none", "good"}]
         /\ tmp' \in [Hashes -> Tmp]
         /\ writer' \in [Requests -> WriterState]
    BY <1>2, <1>3, <1>10 DEF Types
  <1> QED BY <1>1, <1>3, <1>4, <1>13, <1>14, <1>15, <1>16, <1>17, LeaderMoves

LEMMA RestartStep ==
    ASSUME IInv, Restart
    PROVE  IInv'
  <1>1. /\ lru' = <<>> /\ bytesUsed' = 0 /\ UNCHANGED disk /\ gone' = {}
        /\ req' = [r \in Requests |-> IdleRequest]
        /\ writer' = [r \in Requests |-> "none"]
        /\ flight' = [h \in Hashes |-> NULL]
        /\ tmp' = [h \in Hashes |-> [tmp[h] EXCEPT !.by = NULL]]
    BY DEF Restart
  <1>2. ASSUME NEW h \in Hashes PROVE tmp'[h] \in Tmp
    <2>1. tmp[h] \in Tmp /\ tmp'[h] = [tmp[h] EXCEPT !.by = NULL]
      BY <1>1 DEF IInv, Types
    <2> QED BY <2>1 DEF Tmp
  <1>3. lru' \in Seq(Hashes) /\ ToSet(lru') = {} /\ Distinct(lru')
    BY <1>1 DEF ToSet, Distinct
  <1>4. AccountingIsExact' /\ IndexedFileIsGood'
    BY <1>1, <1>3, WeightFacts, MaxBytesAssumption, AccountsFor
  <1>5. tmp' \in [Hashes -> Tmp]
    BY <1>1, <1>2
  <1>6. Types'
    BY <1>1, <1>3, <1>5, RecordTypes DEF IInv, Types, WriterState
  <1>7. \A r \in Requests : req'[r].pc = "idle"
    BY <1>1 DEF IdleRequest
  <1>8. RequestInv'
    BY <1>7 DEF RequestInv, Knows, Puts, Leads
  <1>9. FlightInv'
    BY <1>1 DEF FlightInv
  <1> QED BY <1>4, <1>6, <1>8, <1>9 DEF IInv

-----------------------------------------------------------------------------
(***************************************************************************)
(* The theorems.                                                           *)
(***************************************************************************)

LEMMA InitIInv == Init => IInv
  <1> SUFFICES ASSUME Init PROVE IInv
    OBVIOUS
  <1>1. Types
    BY RecordTypes DEF Init, Types, WriterState
  <1>2. \A r \in Requests : req[r].pc = "idle"
    BY DEF Init, IdleRequest
  <1>3. RequestInv
    BY <1>2 DEF RequestInv, Knows, Puts, Leads
  <1>4. FlightInv
    BY DEF Init, FlightInv
  <1>5. ToSet(lru) = {} /\ bytesUsed = 0 /\ Len(lru) = 0
    BY DEF Init, ToSet
  <1>6. SizeOf(lru) = 0
    BY <1>5, SizeIsWeight, WeightFacts
  <1>7. AccountingIsExact
    BY <1>5, <1>6, MaxBytesAssumption DEF AccountingIsExact
  <1>8. IndexedFileIsGood
    BY <1>5 DEF IndexedFileIsGood, Cached
  <1> QED BY <1>1, <1>3, <1>4, <1>7, <1>8 DEF IInv

LEMMA NextIInv == IInv /\ [Next]_vars => IInv'
  <1> SUFFICES ASSUME IInv, [Next]_vars PROVE IInv'
    OBVIOUS
  <1>1. ASSUME NEW r \in Requests, Continue(r) PROVE IInv'
    <2>1. CASE OpenLookup(r)  BY <2>1, OpenLookupStep
    <2>2. CASE OpenFile(r)    BY <2>2, OpenFileStep
    <2>3. CASE OpenDrop(r)    BY <2>3, OpenDropStep
    <2>4. CASE Do(r)          BY <2>4, DoStep
    <2>5. CASE PutCreate(r)   BY <2>5, PutCreateStep
    <2>6. CASE PutCopy(r)     BY <2>6, PutCopyStep
    <2>7. CASE PutRename(r)   BY <2>7, PutRenameStep
    <2>8. CASE PutIndex(r)    BY <2>8, PutIndexStep
    <2>9. CASE Drain(r)       BY <2>9, DrainStep
    <2>10. CASE WriterFails(r) BY <2>10, WriterFailsStep
    <2>11. CASE Serve(r)      BY <2>11, ServeStep
    <2> QED
      BY <1>1, <2>1, <2>2, <2>3, <2>4, <2>5, <2>6, <2>7, <2>8, <2>9, <2>10, <2>11
      DEF Continue, Proceed
  <1>2. CASE UNCHANGED vars
    <2>1. UNCHANGED <<lru, bytesUsed, disk, tmp, req, writer, flight, gone>>
      BY <1>2 DEF vars
    <2>2. Types' /\ RequestInv' /\ FlightInv'
      BY <2>1 DEF IInv, Types, RequestInv, FlightInv, Knows, Puts, Cached
    <2> QED BY <2>1, <2>2, CacheUntouched DEF IInv
  <1> QED BY <1>1, <1>2, StartStep, DisconnectStep, RestartStep DEF Next

\* The inductive invariant holds in every reachable state of the gateway.
THEOREM Inductive == Spec => []IInv
  BY InitIInv, NextIInv, PTL DEF Spec

\* Every variable of the download path stays in its type, no file is ever
\* bad, and whoever waits in singleflight waits for somebody else.
THEOREM TypeCorrect == Spec => []TypeOK
  <1>1. IInv => TypeOK
    <2> SUFFICES ASSUME IInv PROVE TypeOK
      OBVIOUS
    <2>1. ASSUME NEW r \in Requests, req[r].pc = "wait"
          PROVE  flight[req[r].hash] \in Requests \ {r}
      <3>1. req[r].hash \in Hashes /\ flight[req[r].hash] # NULL
        BY <2>1 DEF IInv, RequestInv, Knows
      <3>2. flight[req[r].hash] \in Requests /\ Leads(req[flight[req[r].hash]])
        BY <3>1 DEF IInv, Types, FlightInv
      <3> QED BY <2>1, <3>2 DEF Leads
    <2>2. disk \in [Hashes -> {"none", "good", "bad"}]
      BY DEF IInv, Types
    <2> QED BY <2>1, <2>2 DEF IInv, Types, Tmp, Request, TypeOK
  <1> QED BY <1>1, Inductive, PTL

\* However Open's drop, Put's insertion and evictLocked interleave, the byte
\* count of the cache is the size of what it indexes and within the budget.
THEOREM AccountingCorrect == Spec => []AccountingIsExact
  <1>1. IInv => AccountingIsExact
    BY DEF IInv
  <1> QED BY <1>1, Inductive, PTL

\* The eviction of one Put never unlinks the file another Put has renamed
\* into place, and what is indexed is on disk, whole and verified.
THEOREM IndexCorrect == Spec => []IndexedFileIsGood
  <1>1. IInv => IndexedFileIsGood
    BY DEF IInv
  <1> QED BY <1>1, Inductive, PTL

\* ServeXorb sends only bytes that Put verified, in this process or in one
\* that died before it.
THEOREM BytesAreVerified == Spec => []ServedBytesAreVerified
  <1>1. IInv => ServedBytesAreVerified
    BY DEF IInv, RequestInv, Knows, ServedBytesAreVerified
  <1> QED BY <1>1, Inductive, PTL

\* MissCoalescer.Do lets one leader per hash into FetchAndCache, so the fixed
\* name of the temporary file has one writer.
THEOREM FetchesAreSingle == Spec => []OneFetchPerHash
  <1>1. IInv => OneFetchPerHash
    <2> SUFFICES ASSUME IInv, NEW r \in Requests, NEW s \in Requests, r # s,
                        Fetching(r), Fetching(s)
                 PROVE  req[r].hash # req[s].hash
      BY DEF OneFetchPerHash
    <2>1. Leads(req[r]) /\ Leads(req[s])
      BY DEF Fetching, IInv, RequestInv, Knows, Leads
    <2> QED BY <2>1, LeadersDiffer
  <1> QED BY <1>1, Inductive, PTL

\* FetchAndCache starts a Sia download only for a xorb the cache does not
\* hold at that moment: what the re-check found still holds.
THEOREM NothingCachedIsFetched == Spec => NoRefetchOfCached
  <1>1. IInv => [\A r \in Requests : PutCreate(r) => ~Cached(req[r].hash)]_vars
    BY PutsLeads DEF PutCreate, Puts
  <1> QED BY <1>1, Inductive, PTL DEF NoRefetchOfCached

=============================================================================
