------------------------ MODULE ReconstructionProofs ------------------------
(***************************************************************************)
(* TLAPS proofs of the invariants of Reconstruction, for any xorbs, files, *)
(* shards, clients and Range headers.                                      *)
(*                                                                         *)
(* The model's sums, its concatenation, the selection of pinned terms and  *)
(* the merge loop are recursive functions.  Recursion gives the function a *)
(* definition by recursion chooses, Induction what holds of all its        *)
(* values; both are first-order, so that each use is an instance of them.  *)
(***************************************************************************)
EXTENDS Reconstruction, FiniteSetTheorems, WellFoundedInduction, TLAPS

-----------------------------------------------------------------------------
(***************************************************************************)
(* Numbers.                                                                *)
(***************************************************************************)

LEMMA MinMaxFacts ==
    ASSUME NEW p \in Int, NEW q \in Int
    PROVE  /\ Min({p, q}) = IF p <= q THEN p ELSE q
           /\ Max({p, q}) = IF p >= q THEN p ELSE q
  BY DEF Min, Max

\* The least and the largest number of a set that has one.
LEMMA MinIs ==
    ASSUME NEW T \in SUBSET Int, NEW m \in T, \A k \in T : m <= k
    PROVE  Min(T) = m
  <1> DEFINE Least(k) == k \in T /\ \A j \in T : k <= j
  <1>1. Min(T) = CHOOSE k : Least(k)
    BY DEF Min
  <1>2. Least(m)
    OBVIOUS
  <1>3. ASSUME NEW k, Least(k) PROVE k = m
    <2>1. k \in T /\ k <= m /\ m <= k
      BY <1>3
    <2>2. k \in Int /\ m \in Int
      BY <2>1
    <2> QED BY <2>1, <2>2
  <1> HIDE DEF Least
  <1> QED BY <1>1, <1>2, <1>3

LEMMA MaxIs ==
    ASSUME NEW T \in SUBSET Int, NEW m \in T, \A k \in T : m >= k
    PROVE  Max(T) = m
  <1> DEFINE Largest(k) == k \in T /\ \A j \in T : k >= j
  <1>1. Max(T) = CHOOSE k : Largest(k)
    BY DEF Max
  <1>2. Largest(m)
    OBVIOUS
  <1>3. ASSUME NEW k, Largest(k) PROVE k = m
    <2>1. k \in T /\ k >= m /\ m >= k
      BY <1>3
    <2>2. k \in Int /\ m \in Int
      BY <2>1
    <2> QED BY <2>1, <2>2
  <1> HIDE DEF Largest
  <1> QED BY <1>1, <1>2, <1>3

LEMMA ModFacts ==
    ASSUME NEW m \in Nat \ {0}
    PROVE  /\ \A p \in 0..m - 1 : p % m = p
           /\ m % m = 0
  OBVIOUS

LEMMA ModMinusOne ==
    ASSUME NEW m \in Nat \ {0}
    PROVE  (-1) % m = m - 1
  OBVIOUS

\* Every set of naturals has a least element.
LEMMA LeastNumber ==
    ASSUME NEW T \in SUBSET Nat, T # {}
    PROVE  \E n \in T : \A m \in T : n <= m
  <1> DEFINE D == {0..n : n \in T}
  <1>1. IsWellFoundedOn(StrictSubsetOrdering(Nat), FiniteSubsetsOf(Nat))
    BY FS_StrictSubsetOrderingWellFounded
  <1>2. D \subseteq FiniteSubsetsOf(Nat)
    <2>1. \A n \in Nat : IsFiniteSet(0..n)
      BY FS_Interval
    <2> QED BY <2>1 DEF FiniteSubsetsOf
  <1>3. D # {}
    OBVIOUS
  <1>4. \E x \in D : \A y \in D : ~(<<y, x>> \in StrictSubsetOrdering(Nat))
    <2> HIDE DEF D
    <2> QED BY <1>1, <1>2, <1>3, WFMin
  <1>5. PICK n \in T : \A m \in T : ~(<<0..m, 0..n>> \in StrictSubsetOrdering(Nat))
    BY <1>4
  <1>6. ASSUME NEW m \in T, m < n PROVE FALSE
    <2>1. 0..m \subseteq 0..n /\ 0..m # 0..n /\ 0..m \in SUBSET Nat /\ 0..n \in SUBSET Nat
      <3>1. n \in 0..n /\ n \notin 0..m
        BY <1>6
      <3> QED BY <1>6, <3>1
    <2>2. <<0..m, 0..n>> \in StrictSubsetOrdering(Nat)
      BY <2>1 DEF StrictSubsetOrdering
    <2> QED BY <1>5, <2>2
  <1> QED BY <1>6

\* Induction up to N, for the set T of the numbers that have a property.
LEMMA Induction ==
    ASSUME NEW N \in Nat, NEW T, 0 \in T, \A n \in 1..N : n - 1 \in T => n \in T
    PROVE  \A n \in 0..N : n \in T
  <1> DEFINE Bad == {n \in 0..N : n \notin T}
  <1>1. SUFFICES ASSUME Bad # {} PROVE FALSE
    OBVIOUS
  <1>2. PICK n \in Bad : \A m \in Bad : n <= m
    <2>1. Bad \in SUBSET Nat
      OBVIOUS
    <2> HIDE DEF Bad
    <2> QED BY <1>1, <2>1, LeastNumber
  <1>3. n \in 1..N /\ n - 1 \in 0..N /\ n - 1 < n
    BY <1>2
  <1>4. n - 1 \in T
    BY <1>2, <1>3
  <1> QED BY <1>2, <1>3, <1>4

\* f follows the steps g from a, N times.
Steps(A, N) == [1..N -> [A -> A]]
Run(A, N) == [0..N -> A]
Follows(f, a, N, g) == f[0] = a /\ \A n \in 1..N : f[n] = g[n][f[n - 1]]

\* What a definition by recursion up to N defines.
LEMMA Recursion ==
    ASSUME NEW A, NEW a \in A, NEW N \in Nat, NEW g \in Steps(A, N)
    PROVE  \E f \in Run(A, N) : Follows(f, a, N, g)
  <1> DEFINE Upto(m, f) == f[0] = a /\ \A n \in 1..m : f[n] = g[n][f[n - 1]]
             T == {m \in 0..N : \E f \in [0..m -> A] : Upto(m, f)}
  <1>1. 0 \in T
    <2>1. [n \in 0..0 |-> a] \in [0..0 -> A] /\ Upto(0, [n \in 0..0 |-> a])
      OBVIOUS
    <2>2. 0 \in 0..N
      OBVIOUS
    <2> HIDE DEF Upto
    <2> QED BY <2>1, <2>2
  <1>2. ASSUME NEW m \in 1..N, m - 1 \in T PROVE m \in T
    <2>1. PICK f \in [0..m - 1 -> A] : Upto(m - 1, f)
      BY <1>2
    <2> DEFINE h == [n \in 0..m |-> IF n = m THEN g[m][f[m - 1]] ELSE f[n]]
    <2>2. g[m][f[m - 1]] \in A
      <3>1. m - 1 \in 0..m - 1
        OBVIOUS
      <3> QED BY <3>1 DEF Steps
    <2>3. h \in [0..m -> A]
      BY <2>2
    <2>4. h[0] = a
      BY <2>1
    <2>5. ASSUME NEW n \in 1..m PROVE h[n] = g[n][h[n - 1]]
      <3>1. n - 1 \in 0..m /\ n - 1 # m /\ h[n - 1] = f[n - 1]
        OBVIOUS
      <3>2. CASE n = m
        BY <3>1, <3>2
      <3>3. CASE n # m
        <4>1. n \in 1..m - 1 /\ h[n] = f[n]
          BY <3>3
        <4> QED BY <2>1, <3>1, <4>1
      <3> QED BY <3>2, <3>3
    <2> HIDE DEF h
    <2>6. Upto(m, h)
      BY <2>4, <2>5
    <2>7. m \in 0..N
      OBVIOUS
    <2> HIDE DEF Upto
    <2> QED BY <2>3, <2>6, <2>7
  <1>3. N \in T
    <2> HIDE DEF T
    <2>1. \A m \in 1..N : m - 1 \in T => m \in T
      BY <1>2
    <2>2. \A m \in 0..N : m \in T
      BY <1>1, <2>1, Induction
    <2> QED BY <2>2
  <1> QED BY <1>3 DEF Run, Follows

-----------------------------------------------------------------------------
(***************************************************************************)
(* Sums.                                                                   *)
(***************************************************************************)

LEMMA SeqFacts ==
    ASSUME NEW S, NEW q \in Seq(S)
    PROVE  /\ Len(q) \in Nat /\ DOMAIN q = 1..Len(q)
           /\ \A i \in DOMAIN q : q[i] \in S
  OBVIOUS

LEMMA SumFacts ==
    ASSUME NEW q \in Seq(Nat)
    PROVE  /\ PrefixSum(q, 0) = 0
           /\ \A n \in 0..Len(q) : PrefixSum(q, n) \in Nat
           /\ \A n \in 1..Len(q) : PrefixSum(q, n) = PrefixSum(q, n - 1) + q[n]
  <1> DEFINE N == Len(q)
             Is(F) == F = [i \in 0..N |-> IF i = 0 THEN 0 ELSE F[i - 1] + q[i]]
             g == [n \in 1..N |-> [p \in Nat |-> p + q[n]]]
  <1>1. N \in Nat /\ \A n \in 1..N : q[n] \in Nat
    OBVIOUS
  <1>2. \E F : Is(F)
    <2>1. g \in Steps(Nat, N) /\ 0 \in Nat
      BY <1>1 DEF Steps
    <2>2. PICK f \in Run(Nat, N) : Follows(f, 0, N, g)
      <3> HIDE DEF N, g
      <3> QED BY <1>1, <2>1, Recursion
    <2> USE DEF Run, Follows
    <2>3. ASSUME NEW n \in 1..N PROVE f[n] = f[n - 1] + q[n]
      <3>1. n - 1 \in 0..N
        BY <1>1
      <3>2. f[n - 1] \in Nat
        BY <3>1
      <3> QED BY <2>2, <3>2
    <2>4. Is(f)
      BY <1>1, <2>2, <2>3
    <2> QED BY <2>4
  <1> DEFINE S == CHOOSE F : Is(F)
  <1>3. Is(S)
    <2> HIDE DEF Is
    <2> QED BY <1>2
  <1>4. \A n : PrefixSum(q, n) = S[n]
    BY DEF PrefixSum
  <1> HIDE DEF S
  <1>5. S[0] = 0 /\ \A n \in 1..N : S[n] = S[n - 1] + q[n]
    BY <1>1, <1>3
  <1> DEFINE T == {n \in 0..N : S[n] \in Nat}
  <1>6. \A n \in 0..N : n \in T
    <2>1. 0 \in T
      BY <1>1, <1>5
    <2>2. ASSUME NEW n \in 1..N, n - 1 \in T PROVE n \in T
      <3>1. S[n] = S[n - 1] + q[n] /\ S[n - 1] \in Nat /\ q[n] \in Nat
        BY <1>1, <1>5, <2>2
      <3>2. S[n] \in Nat /\ n \in 0..N
        BY <1>1, <3>1
      <3> QED BY <3>2
    <2> HIDE DEF T, N
    <2> QED BY <1>1, <2>1, <2>2, Induction
  <1> QED BY <1>4, <1>5, <1>6

\* Sums of positive numbers grow at every step.
LEMMA SumGrows ==
    ASSUME NEW q \in Seq(Nat), \A k \in DOMAIN q : q[k] > 0,
           NEW i \in 0..Len(q), NEW j \in 0..Len(q), i < j
    PROVE  PrefixSum(q, i) < PrefixSum(q, j)
  <1> DEFINE N == Len(q)
             T == {n \in 0..N : n > i => PrefixSum(q, i) < PrefixSum(q, n)}
  <1>1. N \in Nat /\ \A n \in 1..N : q[n] \in Nat /\ q[n] > 0
    OBVIOUS
  <1>2. \A n \in 0..N : PrefixSum(q, n) \in Nat
    BY SumFacts
  <1>3. 0 \in T
    BY <1>1
  <1>4. ASSUME NEW n \in 1..N, n - 1 \in T PROVE n \in T
    <2>1. PrefixSum(q, n) = PrefixSum(q, n - 1) + q[n]
      BY SumFacts
    <2>2. n - 1 \in 0..N /\ n \in 0..N
      BY <1>1
    <2>3. PrefixSum(q, n) \in Nat /\ PrefixSum(q, n - 1) \in Nat /\ PrefixSum(q, i) \in Nat
      BY <1>2, <2>2
    <2>4. n > i => i <= n - 1 /\ (i = n - 1 \/ PrefixSum(q, i) < PrefixSum(q, n - 1))
      BY <1>4
    <2>5. q[n] \in Nat /\ q[n] > 0
      BY <1>1
    <2>6. PrefixSum(q, n - 1) < PrefixSum(q, n)
      BY <2>1, <2>3, <2>5
    <2>7. n > i => PrefixSum(q, i) < PrefixSum(q, n)
      <3>1. CASE i = n - 1
        BY <2>6, <3>1
      <3>2. CASE n > i /\ i # n - 1
        BY <2>3, <2>4, <2>6, <3>2
      <3> QED BY <3>1, <3>2
    <2> QED BY <2>2, <2>7
  <1>5. \A n \in 0..N : n \in T
    <2> HIDE DEF T, N
    <2>1. \A n \in 1..N : n - 1 \in T => n \in T
      BY <1>4
    <2> QED BY <1>1, <1>3, <2>1, Induction
  <1> QED BY <1>5

\* A sum depends on the numbers it adds only.
LEMMA SumAgrees ==
    ASSUME NEW q \in Seq(Nat), NEW r \in Seq(Nat), NEW n \in Nat,
           n <= Len(q), n <= Len(r), \A i \in 1..n : q[i] = r[i]
    PROVE  PrefixSum(q, n) = PrefixSum(r, n)
  <1> DEFINE T == {m \in 0..n : PrefixSum(q, m) = PrefixSum(r, m)}
  <1>1. 0 \in T
    BY SumFacts
  <1>2. ASSUME NEW m \in 1..n, m - 1 \in T PROVE m \in T
    <2>1. m \in 1..Len(q) /\ m \in 1..Len(r) /\ q[m] = r[m]
      <3>1. Len(q) \in Nat /\ Len(r) \in Nat /\ n <= Len(q) /\ n <= Len(r)
        BY SeqFacts
      <3>2. \A k, l \in Nat : k <= l => 1..k \subseteq 1..l
        OBVIOUS
      <3> QED BY <3>1, <3>2
    <2>2. /\ PrefixSum(q, m) = PrefixSum(q, m - 1) + q[m]
          /\ PrefixSum(r, m) = PrefixSum(r, m - 1) + r[m]
      BY <2>1, SumFacts
    <2>3. m \in 0..n
      OBVIOUS
    <2> QED BY <1>2, <2>1, <2>2, <2>3
  <1>3. \A m \in 0..n : m \in T
    <2> HIDE DEF T
    <2>1. \A m \in 1..n : m - 1 \in T => m \in T
      BY <1>2
    <2> QED BY <1>1, <2>1, Induction
  <1> QED BY <1>3

LEMMA ConcatFacts ==
    ASSUME NEW S, NEW p \in Seq(S), NEW q \in Seq(S)
    PROVE  /\ p \o q \in Seq(S)
           /\ Len(p \o q) = Len(p) + Len(q)
           /\ \A i \in 1..Len(p) : (p \o q)[i] = p[i]
           /\ \A i \in 1..Len(q) : (p \o q)[Len(p) + i] = q[i]
  OBVIOUS

\* The sum of a concatenation.
LEMMA SumConcat ==
    ASSUME NEW p \in Seq(Nat), NEW q \in Seq(Nat), NEW n \in 0..Len(q)
    PROVE  PrefixSum(p \o q, Len(p) + n) = PrefixSum(p, Len(p)) + PrefixSum(q, n)
  <1> DEFINE r == p \o q
             K == Len(p)
             N == Len(q)
             T == {m \in 0..N : PrefixSum(r, K + m) = PrefixSum(p, K) + PrefixSum(q, m)}
  <1>1. /\ K \in Nat /\ N \in Nat /\ r \in Seq(Nat) /\ Len(r) = K + N
        /\ \A i \in 1..K : r[i] = p[i]
        /\ \A i \in 1..N : r[K + i] = q[i]
    OBVIOUS
  <1>2. 0 \in T
    <2>1. PrefixSum(r, K) = PrefixSum(p, K)
      <3>1. K <= Len(p) /\ K <= Len(r)
        BY <1>1
      <3> HIDE DEF r, K
      <3> QED BY <1>1, <3>1, SumAgrees
    <2>2. PrefixSum(p, K) \in Nat /\ PrefixSum(q, 0) = 0
      BY <1>1, SumFacts
    <2> QED BY <1>1, <2>1, <2>2
  <1>3. ASSUME NEW m \in 1..N, m - 1 \in T PROVE m \in T
    <2>1. /\ K + m \in 1..Len(r) /\ (K + m) - 1 = K + (m - 1) /\ r[K + m] = q[m]
          /\ m \in 0..N /\ m - 1 \in 0..N
      <3> HIDE DEF r, K, N
      <3> QED BY <1>1
    <2>2. PrefixSum(r, K + m) = PrefixSum(r, K + (m - 1)) + q[m]
      <3>1. PrefixSum(r, K + m) = PrefixSum(r, (K + m) - 1) + r[K + m]
        <4> HIDE DEF r, K, N
        <4> QED BY <1>1, <2>1, SumFacts
      <3> QED BY <2>1, <3>1
    <2>3. PrefixSum(q, m) = PrefixSum(q, m - 1) + q[m] /\ PrefixSum(q, m - 1) \in Nat
      BY <2>1, SumFacts
    <2>4. PrefixSum(p, K) \in Nat /\ q[m] \in Nat
      BY <1>1, SumFacts
    <2>5. PrefixSum(r, K + (m - 1)) = PrefixSum(p, K) + PrefixSum(q, m - 1)
      BY <1>3
    <2> HIDE DEF r, K, N
    <2> QED BY <2>1, <2>2, <2>3, <2>4, <2>5
  <1>4. \A m \in 0..N : m \in T
    <2> HIDE DEF T, N
    <2>1. \A m \in 1..N : m - 1 \in T => m \in T
      BY <1>3
    <2> QED BY <1>1, <1>2, <2>1, Induction
  <1> QED BY <1>4

-----------------------------------------------------------------------------
(***************************************************************************)
(* Lengths of chunks.                                                      *)
(***************************************************************************)

\* The two lengths a chunk has.
LEMMA LengthTypes ==
    ASSUME NEW len \in {Stored, Unpacked}, NEW q \in Seq(Chunks)
    PROVE  /\ [i \in DOMAIN q |-> len[q[i]]] \in Seq(Nat)
           /\ Len([i \in DOMAIN q |-> len[q[i]]]) = Len(q)
           /\ \A i \in DOMAIN q : len[q[i]] \in Nat /\ len[q[i]] > 0
  <1>1. \A c \in Chunks : len[c] \in Nat \ {0}
    BY LengthsAssumption
  <1>2. \A i \in DOMAIN q : len[q[i]] \in Nat /\ len[q[i]] > 0
    BY <1>1
  <1> QED BY <1>2

\* Offsets in a list of chunks: from 0, and larger with every chunk.
LEMMA OffsetFacts ==
    ASSUME NEW len \in {Stored, Unpacked}, NEW q \in Seq(Chunks)
    PROVE  /\ Offset(len, q, 0) = 0
           /\ \A n \in 0..Len(q) : Offset(len, q, n) \in Nat
           /\ \A n \in 1..Len(q) : Offset(len, q, n) = Offset(len, q, n - 1) + len[q[n]]
           /\ \A i, j \in 0..Len(q) : i < j => Offset(len, q, i) < Offset(len, q, j)
  <1> DEFINE r == [i \in DOMAIN q |-> len[q[i]]]
  <1>1. /\ r \in Seq(Nat) /\ Len(r) = Len(q)
        /\ \A i \in DOMAIN r : r[i] > 0
        /\ \A i \in 1..Len(q) : r[i] = len[q[i]]
    <2>1. /\ r \in Seq(Nat) /\ Len(r) = Len(q)
          /\ \A i \in DOMAIN q : len[q[i]] > 0
      BY LengthTypes
    <2> QED BY <2>1
  <1>2. \A n : Offset(len, q, n) = PrefixSum(r, n)
    BY DEF Offset
  <1> HIDE DEF r
  <1>3. \A i, j \in 0..Len(q) : i < j => PrefixSum(r, i) < PrefixSum(r, j)
    BY <1>1, SumGrows
  <1> QED BY <1>1, <1>2, <1>3, SumFacts

\* The same, compared the other way.
LEMMA OffsetOrder ==
    ASSUME NEW len \in {Stored, Unpacked}, NEW q \in Seq(Chunks),
           NEW i \in 0..Len(q), NEW j \in 0..Len(q)
    PROVE  (i <= j) <=> (Offset(len, q, i) <= Offset(len, q, j))
  <1>1. i \in Int /\ j \in Int
    OBVIOUS
  <1>2. Offset(len, q, i) \in Nat /\ Offset(len, q, j) \in Nat
    BY OffsetFacts
  <1>3. /\ i < j => Offset(len, q, i) < Offset(len, q, j)
        /\ j < i => Offset(len, q, j) < Offset(len, q, i)
    BY OffsetFacts
  <1>4. i = j => Offset(len, q, i) = Offset(len, q, j)
    OBVIOUS
  <1> QED BY <1>1, <1>2, <1>3, <1>4

LEMMA LengthConcat ==
    ASSUME NEW p \in Seq(Chunks), NEW q \in Seq(Chunks)
    PROVE  Length(Unpacked, p \o q) = Length(Unpacked, p) + Length(Unpacked, q)
  <1> DEFINE u(s) == [i \in DOMAIN s |-> Unpacked[s[i]]]
  <1>1. /\ u(p) \in Seq(Nat) /\ Len(u(p)) = Len(p)
        /\ u(q) \in Seq(Nat) /\ Len(u(q)) = Len(q)
    BY LengthTypes
  <1>2. u(p \o q) = u(p) \o u(q)
    <2> DEFINE l == u(p \o q)
               r == u(p) \o u(q)
    <2>1. DOMAIN (p \o q) = 1..(Len(p) + Len(q))
      OBVIOUS
    <2>2. l = [i \in 1..(Len(p) + Len(q)) |-> Unpacked[(p \o q)[i]]]
      BY <2>1
    <2>3. r \in Seq(Nat) /\ Len(r) = Len(p) + Len(q)
      <3> DEFINE up == u(p)
                 uq == u(q)
      <3>1. up \in Seq(Nat) /\ uq \in Seq(Nat) /\ Len(up) = Len(p) /\ Len(uq) = Len(q)
        BY <1>1
      <3> HIDE DEF up, uq
      <3>2. up \o uq \in Seq(Nat) /\ Len(up \o uq) = Len(up) + Len(uq)
        BY <3>1, ConcatFacts
      <3> QED BY <3>1, <3>2 DEF up, uq
    <2>4. ASSUME NEW i \in 1..(Len(p) + Len(q)) PROVE r[i] = Unpacked[(p \o q)[i]]
      <3>1. CASE i <= Len(p)
        <4>1. r[i] = u(p)[i] /\ (p \o q)[i] = p[i] /\ i \in DOMAIN p
          <5> HIDE DEF u
          <5> QED BY <1>1, <3>1
        <4> QED BY <4>1
      <3>2. CASE i > Len(p)
        <4>1. /\ r[i] = u(q)[i - Len(p)] /\ (p \o q)[i] = q[i - Len(p)]
              /\ i - Len(p) \in DOMAIN q
          <5> HIDE DEF u
          <5> QED BY <1>1, <3>2
        <4> QED BY <4>1
      <3> QED BY <3>1, <3>2
    <2> HIDE DEF l, r
    <2>5. r = [i \in 1..(Len(p) + Len(q)) |-> r[i]]
      BY <2>3
    <2>6. l = r
      BY <2>2, <2>4, <2>5
    <2> QED BY <2>6 DEF l, r
  <1>3. Len(p \o q) = Len(p) + Len(q) /\ Len(q) \in 0..Len(q)
    OBVIOUS
  <1> HIDE DEF u
  <1>4. PrefixSum(u(p) \o u(q), Len(p) + Len(q))
          = PrefixSum(u(p), Len(p)) + PrefixSum(u(q), Len(q))
    <2>1. Len(u(q)) \in 0..Len(u(q))
      BY <1>1
    <2>2. PrefixSum(u(p) \o u(q), Len(u(p)) + Len(u(q)))
            = PrefixSum(u(p), Len(u(p))) + PrefixSum(u(q), Len(u(q)))
      BY <1>1, <2>1, SumConcat
    <2> QED BY <1>1, <2>2
  <1> QED BY <1>2, <1>3, <1>4 DEF Length, Offset, u

LEMMA LengthEmpty == Length(Unpacked, <<>>) = 0
  <1>1. <<>> \in Seq(Chunks) /\ Len(<<>>) = 0
    OBVIOUS
  <1> QED BY <1>1, OffsetFacts DEF Length

\* FlattenSeq by its partial concatenations.
LEMMA FlattenFacts ==
    ASSUME NEW S, NEW qs \in Seq(Seq(S))
    PROVE  \E f \in [0..Len(qs) -> Seq(S)] :
              /\ f[0] = <<>> /\ \A n \in 1..Len(qs) : f[n] = f[n - 1] \o qs[n]
              /\ FlattenSeq(qs) = f[Len(qs)]
  <1> DEFINE N == Len(qs)
             A == Seq(S)
             Is(F) == F = [i \in 1..N |-> IF i = 1 THEN qs[i] ELSE F[i - 1] \o qs[i]]
             g == [n \in 1..N |-> [p \in A |-> p \o qs[n]]]
  <1>1. N \in Nat /\ <<>> \in A /\ \A n \in 1..N : qs[n] \in A
    OBVIOUS
  <1>2. PICK f \in Run(A, N) : Follows(f, <<>>, N, g)
    <2>1. g \in Steps(A, N)
      BY <1>1 DEF Steps
    <2> HIDE DEF N, g, A
    <2> QED BY <1>1, <2>1, Recursion
  <1>3. f \in [0..N -> A] /\ f[0] = <<>>
    BY <1>2 DEF Run, Follows
  <1>4. ASSUME NEW n \in 1..N PROVE f[n] = f[n - 1] \o qs[n] /\ f[n - 1] \in A
    <2>1. n - 1 \in 0..N
      BY <1>1
    <2>2. f[n - 1] \in A
      BY <1>3, <2>1
    <2>3. f[n] = g[n][f[n - 1]]
      BY <1>2 DEF Follows
    <2> HIDE DEF A
    <2> QED BY <2>2, <2>3
  <1>5. CASE N = 0
    <2>1. FlattenSeq(qs) = <<>>
      BY <1>5 DEF FlattenSeq
    <2> QED BY <1>3, <1>4, <1>5, <2>1
  <1>6. CASE N # 0
    <2> DEFINE h == [i \in 1..N |-> f[i]]
               F == CHOOSE F : Is(F)
    <2>1. f[1] = qs[1]
      <3>1. 1 \in 1..N /\ 1 - 1 = 0
        BY <1>1, <1>6
      <3>2. f[1] = f[0] \o qs[1]
        BY <1>4, <3>1
      <3>3. <<>> \o qs[1] = qs[1]
        BY <1>1, <3>1
      <3> QED BY <1>3, <3>2, <3>3
    <2>2. Is(h)
      <3>1. ASSUME NEW i \in 1..N
            PROVE  f[i] = IF i = 1 THEN qs[i] ELSE h[i - 1] \o qs[i]
        <4>1. CASE i = 1
          BY <2>1, <4>1
        <4>2. CASE i # 1
          <5>1. i - 1 \in 1..N
            BY <4>2
          <5> QED BY <1>4, <4>2, <5>1
        <4> QED BY <4>1, <4>2
      <3> QED BY <3>1
    <2>3. Is(F)
      <3> HIDE DEF Is
      <3> QED BY <2>2
    <2>4. FlattenSeq(qs) = F[N]
      BY <1>6 DEF FlattenSeq
    <2> HIDE DEF F
    <2> DEFINE T == {n \in 0..N : n > 0 => F[n] = f[n]}
    <2>5. 0 \in T
      BY <1>1
    <2>6. ASSUME NEW n \in 1..N, n - 1 \in T PROVE n \in T
      <3>1. F[n] = IF n = 1 THEN qs[n] ELSE F[n - 1] \o qs[n]
        BY <2>3
      <3>2. CASE n = 1
        BY <2>1, <3>1, <3>2
      <3>3. CASE n # 1
        <4>1. n - 1 > 0 /\ F[n - 1] = f[n - 1]
          BY <2>6, <3>3
        <4>2. F[n] = f[n]
          BY <1>4, <3>1, <3>3, <4>1
        <4> QED BY <4>2
      <3> QED BY <3>2, <3>3
    <2>7. \A n \in 0..N : n \in T
      <3> HIDE DEF T, N
      <3>1. \A n \in 1..N : n - 1 \in T => n \in T
        BY <2>6
      <3> QED BY <1>1, <2>5, <3>1, Induction
    <2>8. F[N] = f[N]
      BY <1>1, <1>6, <2>7
    <2> QED BY <1>3, <1>4, <2>4, <2>8
  <1> QED BY <1>5, <1>6

-----------------------------------------------------------------------------
(***************************************************************************)
(* Term rows.                                                              *)
(***************************************************************************)

Row == [xorb : Xorbs, first : Nat, last : Nat, bytes : Nat \X (0..U64 - 1),
        unpacked : Nat]

\* A segment that lies in its xorb.
InXorb(seg) ==
    /\ seg.xorb \in Xorbs /\ seg.first \in Nat /\ seg.last \in Nat
    /\ seg.first < seg.last /\ seg.last <= Len(XorbChunks[seg.xorb])

\* What every row keeps: it lies in its xorb, its byte range is that of its
\* chunks if the boundaries are known and ordered or empty otherwise, and
\* its unpacked length is that of its chunks.
Fits(t) ==
    /\ InXorb(t)
    /\ t.xorb \notin Unindexed =>
         t.bytes = <<Offset(Stored, XorbChunks[t.xorb], t.first),
                     Offset(Stored, XorbChunks[t.xorb], t.last)>>
    /\ \/ t.bytes[1] < t.bytes[2]
       \/ t.bytes = <<0, 0>> /\ t.xorb \in Unindexed
    /\ t.unpacked = Length(Unpacked, Chosen(t))

FitRows == {t \in Row : Fits(t)}

LEMMA XorbTypes ==
    ASSUME NEW x \in Xorbs
    PROVE  /\ XorbChunks[x] \in Seq(Chunks) /\ Len(XorbChunks[x]) \in Nat
           /\ U64 \in Nat \ {0}
           /\ Length(Stored, XorbChunks[x]) \in 0..U64 - 1
           /\ Length(Unpacked, XorbChunks[x]) \in 0..U64 - 1
  BY LengthsAssumption

\* A segment selects chunks, at least one.
LEMMA ChosenFacts ==
    ASSUME NEW seg, InXorb(seg)
    PROVE  /\ Chosen(seg) \in Seq(Chunks)
           /\ Length(Unpacked, Chosen(seg)) \in Nat
           /\ Length(Unpacked, Chosen(seg)) > 0
  <1> DEFINE q == XorbChunks[seg.xorb]
             r == Chosen(seg)
  <1>1. q \in Seq(Chunks) /\ Len(q) \in Nat
    BY XorbTypes DEF InXorb
  <1>2. /\ seg.first \in Nat /\ seg.last \in Nat
        /\ seg.first < seg.last /\ seg.last <= Len(q)
    BY DEF InXorb
  <1>3. r = SubSeq(q, seg.first + 1, seg.last)
    BY DEF Chosen
  <1> HIDE DEF q, r
  <1>4. r \in Seq(Chunks) /\ Len(r) = seg.last - seg.first
    BY <1>1, <1>2, <1>3
  <1>5. Len(r) \in Nat /\ Len(r) > 0
    BY <1>2, <1>4
  <1>6. /\ Offset(Unpacked, r, 0) = 0 /\ Offset(Unpacked, r, Len(r)) \in Nat
        /\ Offset(Unpacked, r, 0) < Offset(Unpacked, r, Len(r))
    BY <1>4, <1>5, OffsetFacts
  <1> QED BY <1>4, <1>6 DEF r, Length

\* A byte range between two offsets of a xorb.
LEMMA OffsetRange ==
    ASSUME NEW seg, InXorb(seg), NEW len \in {Stored, Unpacked}
    PROVE  LET lo == Offset(len, XorbChunks[seg.xorb], seg.first)
               hi == Offset(len, XorbChunks[seg.xorb], seg.last)
           IN  lo \in Nat /\ hi \in 0..U64 - 1 /\ lo < hi
  <1> DEFINE q == XorbChunks[seg.xorb]
  <1>1. /\ q \in Seq(Chunks) /\ Len(q) \in Nat /\ U64 \in Nat \ {0}
        /\ Offset(len, q, Len(q)) \in 0..U64 - 1
    BY XorbTypes DEF InXorb, Length
  <1>2. seg.first \in 0..Len(q) /\ seg.last \in 0..Len(q) /\ seg.first < seg.last
    BY <1>1 DEF InXorb
  <1> HIDE DEF q
  <1>3. /\ Offset(len, q, seg.first) \in Nat /\ Offset(len, q, seg.last) \in Nat
        /\ Offset(len, q, seg.first) < Offset(len, q, seg.last)
    BY <1>1, <1>2, OffsetFacts
  <1>4. Offset(len, q, seg.last) <= Offset(len, q, Len(q))
    <2>1. Len(q) \in 0..Len(q) /\ seg.last <= Len(q)
      BY <1>1, <1>2
    <2> QED BY <1>1, <1>2, <2>1, OffsetOrder
  <1>5. Offset(len, q, seg.last) \in 0..U64 - 1
    BY <1>1, <1>3, <1>4
  <1> QED BY <1>3, <1>5 DEF q

\* parse_and_validate and the rewriting of step 6a.
LEMMA PhysicalRangeFacts ==
    ASSUME NEW s, NEW seg, InXorb(seg)
    PROVE  LET b == PhysicalRange(s, seg) IN
           /\ b \in Nat \X (0..U64 - 1)
           /\ seg.xorb \notin Unindexed =>
                b = <<Offset(Stored, XorbChunks[seg.xorb], seg.first),
                      Offset(Stored, XorbChunks[seg.xorb], seg.last)>>
           /\ b[1] < b[2] \/ (b = <<0, 0>> /\ seg.xorb \in Unindexed)
  <1> DEFINE q == XorbChunks[seg.xorb]
             b == PhysicalRange(s, seg)
             lo(len) == Offset(len, q, seg.first)
             hi(len) == Offset(len, q, seg.last)
  <1>1. U64 \in Nat \ {0} /\ q \in Seq(Chunks)
    BY XorbTypes DEF InXorb
  <1>2. /\ lo(Stored) \in Nat /\ hi(Stored) \in 0..U64 - 1 /\ lo(Stored) < hi(Stored)
        /\ lo(Unpacked) \in Nat /\ hi(Unpacked) \in 0..U64 - 1 /\ lo(Unpacked) < hi(Unpacked)
    BY OffsetRange
  <1>3. CASE seg.xorb \notin Unindexed
    <2>1. (IF seg.first = 0 THEN 0 ELSE Boundary(seg.xorb, seg.first - 1)) = lo(Stored)
      <3>1. CASE seg.first = 0
        BY <1>1, <3>1, OffsetFacts
      <3>2. CASE seg.first # 0
        <4>1. (seg.first - 1) + 1 = seg.first
          BY DEF InXorb
        <4> QED BY <3>2, <4>1 DEF Boundary
      <3> QED BY <3>1, <3>2
    <2>2. Boundary(seg.xorb, seg.last - 1) = hi(Stored)
      <3>1. (seg.last - 1) + 1 = seg.last
        BY DEF InXorb
      <3> QED BY <3>1 DEF Boundary
    <2>3. b = <<lo(Stored), hi(Stored)>>
      BY <1>3, <2>1, <2>2 DEF PhysicalRange
    <2> HIDE DEF lo, hi
    <2>4. b \in Nat \X (0..U64 - 1) /\ b[1] < b[2]
      BY <1>2, <2>3
    <2> QED BY <1>3, <2>3, <2>4 DEF lo, hi
  <1>4. CASE seg.xorb \in Unindexed
    <2>1. b = <<lo(Unpacked), hi(Unpacked)>> \/ b = <<0, 0>>
      BY <1>4 DEF PhysicalRange, parse_and_validate, UnpackedStart
    <2> HIDE DEF lo, hi
    <2>2. 0 \in Nat /\ 0 \in 0..U64 - 1
      BY <1>1
    <2>3. b \in Nat \X (0..U64 - 1) /\ (b[1] < b[2] \/ b = <<0, 0>>)
      BY <1>2, <2>1, <2>2
    <2> QED BY <1>4, <2>3
  <1> QED BY <1>3, <1>4

\* The rows a shard writes.
LEMMA ParsedFacts ==
    ASSUME NEW s \in Shards, NEW f \in DOMAIN Segments[s]
    PROVE  /\ ParsedTerms(s, f) \in Seq(FitRows)
           /\ Len(ParsedTerms(s, f)) = Len(Segments[s][f])
           /\ Content(ParsedTerms(s, f)) = FileChunks[f]
           /\ f \in Files
  <1> DEFINE segs == Segments[s][f]
             rows == ParsedTerms(s, f)
             r(i) == [xorb |-> segs[i].xorb, first |-> segs[i].first,
                      last |-> segs[i].last, bytes |-> PhysicalRange(s, segs[i]),
                      unpacked |-> Length(Unpacked, Chosen(segs[i]))]
  <1>1. /\ segs \in Seq([xorb : Xorbs, first : Nat, last : Nat]) /\ f \in Files
        /\ Content(segs) = FileChunks[f]
    BY ShardsAssumption
  <1>2. ASSUME NEW i \in DOMAIN segs PROVE InXorb(segs[i])
    <2>1. segs[i] \in [xorb : Xorbs, first : Nat, last : Nat]
      <3> HIDE DEF segs
      <3> QED BY <1>1, SeqFacts
    <2>2. segs[i].first < segs[i].last /\ segs[i].last <= Len(XorbChunks[segs[i].xorb])
      BY ShardsAssumption
    <2> QED BY <2>1, <2>2 DEF InXorb
  <1>3. rows = [i \in DOMAIN segs |-> r(i)]
    BY DEF ParsedTerms
  <1>4. ASSUME NEW i \in DOMAIN segs PROVE r(i) \in FitRows /\ Chosen(r(i)) = Chosen(segs[i])
    <2>1. InXorb(segs[i])
      BY <1>2
    <2> DEFINE seg == segs[i]
               b == PhysicalRange(s, seg)
               u == Length(Unpacked, Chosen(seg))
    <2>2. /\ b \in Nat \X (0..U64 - 1)
          /\ seg.xorb \notin Unindexed =>
                b = <<Offset(Stored, XorbChunks[seg.xorb], seg.first),
                      Offset(Stored, XorbChunks[seg.xorb], seg.last)>>
          /\ b[1] < b[2] \/ (b = <<0, 0>> /\ seg.xorb \in Unindexed)
      BY <2>1, PhysicalRangeFacts
    <2>3. u \in Nat
      BY <2>1, ChosenFacts
    <2>4. Chosen(r(i)) = Chosen(seg)
      BY DEF Chosen
    <2>5. InXorb(r(i))
      BY <2>1 DEF InXorb
    <2> DEFINE t == r(i)
    <2>6. /\ t.xorb = seg.xorb /\ t.first = seg.first /\ t.last = seg.last
          /\ t.bytes = b /\ t.unpacked = u
      OBVIOUS
    <2>7. t \in Row
      <3>1. seg.xorb \in Xorbs /\ seg.first \in Nat /\ seg.last \in Nat
        BY <2>1 DEF InXorb
      <3> HIDE DEF seg, b, u
      <3> QED BY <2>2, <2>3, <3>1 DEF Row, seg, b, u
    <2> HIDE DEF t, b, seg
    <2>8. Fits(t)
      BY <2>2, <2>4, <2>5, <2>6 DEF Fits, t, seg
    <2> QED BY <2>4, <2>7, <2>8 DEF FitRows, t, seg
  <1>5. rows \in Seq(FitRows) /\ Len(rows) = Len(segs)
    <2> HIDE DEF r, segs
    <2>1. DOMAIN segs = 1..Len(segs) /\ Len(segs) \in Nat
      BY <1>1, SeqFacts
    <2> QED BY <1>3, <1>4, <2>1
  <1>6. Content(rows) = Content(segs)
    <2>1. DOMAIN rows = DOMAIN segs /\ \A i \in DOMAIN segs : rows[i] = r(i)
      BY <1>3
    <2> HIDE DEF r, segs, rows
    <2>2. [i \in DOMAIN rows |-> Chosen(rows[i])] = [i \in DOMAIN segs |-> Chosen(segs[i])]
      BY <1>4, <2>1
    <2> QED BY <2>2 DEF Content
  <1> QED BY <1>1, <1>5, <1>6

LEMMA FitRowFacts ==
    ASSUME NEW t \in FitRows
    PROVE  /\ t \in Row /\ Fits(t) /\ InXorb(t)
           /\ t.xorb \in Xorbs /\ t.unpacked \in Nat /\ t.unpacked > 0
           /\ t.unpacked = Length(Unpacked, Chosen(t))
           /\ t.bytes \in Nat \X (0..U64 - 1)
  <1>1. t \in Row /\ Fits(t)
    BY DEF FitRows
  <1>2. InXorb(t) /\ t.unpacked = Length(Unpacked, Chosen(t))
    BY <1>1 DEF Fits
  <1>3. t.xorb \in Xorbs /\ t.bytes \in Nat \X (0..U64 - 1)
    BY <1>1 DEF Row
  <1> QED BY <1>1, <1>2, <1>3, ChosenFacts

LEMMA UnpackedTypes ==
    ASSUME NEW rows \in Seq(FitRows)
    PROVE  LET u == [i \in DOMAIN rows |-> rows[i].unpacked] IN
           u \in Seq(Nat) /\ Len(u) = Len(rows) /\ \A i \in DOMAIN u : u[i] > 0
  <1> DEFINE u == [i \in DOMAIN rows |-> rows[i].unpacked]
  <1>1. /\ Len(rows) \in Nat /\ DOMAIN rows = 1..Len(rows)
        /\ \A i \in DOMAIN rows : rows[i] \in FitRows
    BY SeqFacts
  <1>2. \A i \in DOMAIN rows : rows[i].unpacked \in Nat /\ rows[i].unpacked > 0
    BY <1>1, FitRowFacts
  <1>3. u \in Seq(Nat) /\ Len(u) = Len(rows)
    BY <1>1, <1>2
  <1>4. \A i \in DOMAIN u : u[i] > 0
    BY <1>2
  <1> QED BY <1>3, <1>4

\* The bytes of the content of some rows are those their lengths add up to:
\* the size check of xet_file_serve compares the same number.
LEMMA ContentLength ==
    ASSUME NEW rows \in Seq(FitRows)
    PROVE  /\ Length(Unpacked, Content(rows)) = UnpackedSize(rows)
           /\ UnpackedSize(rows) \in Nat
  <1> DEFINE N == Len(rows)
             qs == [i \in DOMAIN rows |-> Chosen(rows[i])]
             u == [i \in DOMAIN rows |-> rows[i].unpacked]
  <1>1. /\ N \in Nat /\ DOMAIN rows = 1..N
        /\ \A i \in 1..N : rows[i] \in FitRows
    BY SeqFacts
  <1>2. \A i \in 1..N : /\ Chosen(rows[i]) \in Seq(Chunks)
                        /\ Length(Unpacked, Chosen(rows[i])) = rows[i].unpacked
    BY <1>1, ChosenFacts, FitRowFacts
  <1>3. qs \in Seq(Seq(Chunks)) /\ Len(qs) = N /\ \A i \in 1..N : qs[i] = Chosen(rows[i])
    <2> HIDE DEF N
    <2> QED BY <1>1, <1>2
  <1>4. u \in Seq(Nat) /\ Len(u) = N /\ \A i \in 1..N : u[i] = rows[i].unpacked
    BY <1>1, UnpackedTypes
  <1> HIDE DEF u, qs, N
  <1>5. PICK f \in [0..N -> Seq(Chunks)] :
           /\ f[0] = <<>> /\ \A n \in 1..N : f[n] = f[n - 1] \o qs[n]
           /\ FlattenSeq(qs) = f[N]
    BY <1>3, FlattenFacts
  <1> DEFINE T == {n \in 0..N : Length(Unpacked, f[n]) = PrefixSum(u, n)}
  <1>6. 0 \in T
    BY <1>1, <1>4, <1>5, LengthEmpty, SumFacts
  <1>7. ASSUME NEW n \in 1..N, n - 1 \in T PROVE n \in T
    <2>1. n - 1 \in 0..N /\ n \in 0..N
      BY <1>1
    <2>2. f[n - 1] \in Seq(Chunks) /\ qs[n] \in Seq(Chunks)
      BY <1>2, <1>3, <2>1
    <2>3. Length(Unpacked, f[n]) = Length(Unpacked, f[n - 1]) + Length(Unpacked, qs[n])
      BY <1>5, <2>2, LengthConcat
    <2>4. PrefixSum(u, n) = PrefixSum(u, n - 1) + u[n]
      BY <1>4, SumFacts
    <2>5. Length(Unpacked, qs[n]) = u[n]
      BY <1>2, <1>3, <1>4
    <2>6. Length(Unpacked, f[n - 1]) = PrefixSum(u, n - 1)
      BY <1>7
    <2>7. Length(Unpacked, f[n]) = PrefixSum(u, n)
      BY <2>3, <2>4, <2>5, <2>6
    <2> QED BY <2>1, <2>7
  <1>8. \A n \in 0..N : n \in T
    <2> HIDE DEF T
    <2>1. \A n \in 1..N : n - 1 \in T => n \in T
      BY <1>7
    <2> QED BY <1>1, <1>6, <2>1, Induction
  <1>9. N \in 0..N
    BY <1>1
  <1>10. Length(Unpacked, f[N]) = PrefixSum(u, N) /\ PrefixSum(u, N) \in Nat
    BY <1>4, <1>8, <1>9, SumFacts
  <1>11. Content(rows) = f[N]
    BY <1>5 DEF Content, qs
  <1>12. UnpackedSize(rows) = PrefixSum(u, N)
    BY DEF UnpackedSize, u, N
  <1> QED BY <1>10, <1>11, <1>12

\* A prefix, by its elements.
LEMMA PrefixFacts ==
    ASSUME NEW S, NEW p \in Seq(S), NEW q \in Seq(S)
    PROVE  IsPrefix(p, q) <=> Len(p) <= Len(q) /\ \A i \in 1..Len(p) : p[i] = q[i]
  <1>1. CASE Len(p) <= Len(q)
    <2>1. /\ SubSeq(p, 1, Len(p)) \in Seq(S) /\ Len(SubSeq(p, 1, Len(p))) = Len(p)
          /\ \A i \in 1..Len(p) : SubSeq(p, 1, Len(p))[i] = p[i]
      OBVIOUS
    <2>2. /\ SubSeq(q, 1, Len(p)) \in Seq(S) /\ Len(SubSeq(q, 1, Len(p))) = Len(p)
          /\ \A i \in 1..Len(p) : SubSeq(q, 1, Len(p))[i] = q[i]
      BY <1>1
    <2>3. ASSUME \A i \in 1..Len(p) : p[i] = q[i]
          PROVE  SubSeq(p, 1, Len(p)) = SubSeq(q, 1, Len(p))
      <3> DEFINE l == SubSeq(p, 1, Len(p))
                 r == SubSeq(q, 1, Len(p))
      <3>1. l \in Seq(S) /\ r \in Seq(S) /\ Len(l) = Len(r) /\ \A i \in 1..Len(l) : l[i] = r[i]
        BY <2>1, <2>2, <2>3
      <3> HIDE DEF l, r
      <3>2. l = r
        <4>1. /\ l = [i \in 1..Len(l) |-> l[i]] /\ r = [i \in 1..Len(r) |-> r[i]]
          BY <3>1
        <4> QED BY <3>1, <4>1, Zenon
      <3> QED BY <3>2 DEF l, r
    <2> QED BY <1>1, <2>1, <2>2, <2>3 DEF IsPrefix
  <1>2. CASE ~(Len(p) <= Len(q))
    BY <1>2 DEF IsPrefix
  <1> QED BY <1>1, <1>2

\* Of the prefixes of some rows only one has a given length in bytes.
LEMMA PrefixOfSize ==
    ASSUME NEW rows \in Seq(FitRows), NEW p \in Seq(FitRows), NEW q \in Seq(FitRows),
           IsPrefix(p, rows), IsPrefix(q, rows), UnpackedSize(p) = UnpackedSize(q)
    PROVE  p = q
  <1> DEFINE u(r) == [i \in DOMAIN r |-> r[i].unpacked]
  <1>1. /\ u(rows) \in Seq(Nat) /\ Len(u(rows)) = Len(rows)
        /\ \A i \in DOMAIN u(rows) : u(rows)[i] > 0
    BY UnpackedTypes
  <1>2. ASSUME NEW r \in Seq(FitRows), IsPrefix(r, rows)
        PROVE  /\ UnpackedSize(r) = PrefixSum(u(rows), Len(r))
               /\ Len(r) \in 0..Len(rows) /\ \A i \in 1..Len(r) : r[i] = rows[i]
    <2>1. Len(r) <= Len(rows) /\ \A i \in 1..Len(r) : r[i] = rows[i]
      BY <1>2, PrefixFacts
    <2>2. u(r) \in Seq(Nat) /\ Len(u(r)) = Len(r)
      BY UnpackedTypes
    <2>3. Len(r) \in Nat /\ Len(rows) \in Nat /\ DOMAIN r = 1..Len(r) /\ DOMAIN rows = 1..Len(rows)
      BY SeqFacts
    <2>4. \A i \in 1..Len(r) : u(r)[i] = u(rows)[i]
      BY <2>1, <2>3
    <2> HIDE DEF u
    <2>5. PrefixSum(u(r), Len(r)) = PrefixSum(u(rows), Len(r))
      <3>1. Len(r) \in Nat /\ Len(r) <= Len(u(r)) /\ Len(r) <= Len(u(rows))
        BY <1>1, <2>1, <2>2, <2>3
      <3> QED BY <1>1, <2>2, <2>4, <3>1, SumAgrees
    <2> QED BY <2>1, <2>3, <2>5 DEF UnpackedSize, u
  <1>3. /\ Len(p) \in 0..Len(rows) /\ Len(q) \in 0..Len(rows)
        /\ PrefixSum(u(rows), Len(p)) = PrefixSum(u(rows), Len(q))
        /\ \A i \in 1..Len(p) : p[i] = rows[i]
        /\ \A i \in 1..Len(q) : q[i] = rows[i]
    BY <1>2
  <1> HIDE DEF u
  <1>4. Len(p) = Len(q)
    <2>1. \A i, j \in 0..Len(rows) : i < j => PrefixSum(u(rows), i) < PrefixSum(u(rows), j)
      BY <1>1, SumGrows
    <2>2. \A i \in 0..Len(rows) : PrefixSum(u(rows), i) \in Nat
      BY <1>1, SumFacts
    <2>3. ~(Len(p) < Len(q)) /\ ~(Len(q) < Len(p))
      BY <1>3, <2>1, <2>2
    <2> QED BY <1>3, <2>3
  <1> QED BY <1>3, <1>4

\* K is the loop of get_reconstruction over the rows of file f: it keeps the
\* rows whose xorb is pinned.
Keeps(K, f) ==
    /\ K[0] = <<>>
    /\ \A n \in 1..Len(terms[f]) :
          K[n] = IF pin[terms[f][n].xorb] = "pinned"
                 THEN Append(K[n - 1], terms[f][n]) ELSE K[n - 1]

LEMMA KeptLoop ==
    ASSUME NEW f \in Files, terms[f] \in Seq(FitRows)
    PROVE  \E K : Keeps(K, f) /\ get_reconstruction(f) = K[Len(terms[f])]
  <1> DEFINE rows == terms[f]
             N == Len(rows)
             A == Seq(FitRows)
             Is(F) == F = [n \in 0..N |->
                             IF n = 0 THEN <<>>
                             ELSE IF pin[rows[n].xorb] = "pinned"
                                  THEN Append(F[n - 1], rows[n]) ELSE F[n - 1]]
             g == [n \in 1..N |-> [p \in A |->
                      IF pin[rows[n].xorb] = "pinned" THEN Append(p, rows[n]) ELSE p]]
             K == CHOOSE F : Is(F)
  <1>1. N \in Nat /\ <<>> \in A /\ \A n \in 1..N : rows[n] \in FitRows
    BY SeqFacts
  <1>2. \E F : Is(F)
    <2>1. g \in Steps(A, N)
      <3>1. ASSUME NEW n \in 1..N, NEW p \in A PROVE Append(p, rows[n]) \in A
        BY <1>1
      <3> HIDE DEF A, rows, N
      <3> QED BY <3>1 DEF Steps
    <2>2. PICK k \in Run(A, N) : Follows(k, <<>>, N, g)
      <3> HIDE DEF N, g, A
      <3> QED BY <1>1, <2>1, Recursion
    <2>3. ASSUME NEW n \in 1..N
          PROVE  k[n] = IF pin[rows[n].xorb] = "pinned"
                        THEN Append(k[n - 1], rows[n]) ELSE k[n - 1]
      <3>1. n - 1 \in 0..N
        BY <1>1
      <3>2. k[n - 1] \in A
        BY <3>1 DEF Run
      <3>3. k[n] = g[n][k[n - 1]]
        BY <2>2 DEF Follows
      <3> HIDE DEF A, rows, N
      <3> QED BY <3>2, <3>3
    <2>4. k[0] = <<>> /\ k = [n \in 0..N |-> k[n]]
      BY <2>2 DEF Run, Follows
    <2>5. Is(k)
      <3>1. \A n \in 0..N : n # 0 => n \in 1..N
        BY <1>1
      <3> HIDE DEF rows, N, g
      <3>2. \A n \in 0..N : k[n] = IF n = 0 THEN <<>>
                                   ELSE IF pin[rows[n].xorb] = "pinned"
                                        THEN Append(k[n - 1], rows[n]) ELSE k[n - 1]
        BY <2>3, <2>4, <3>1, Zenon
      <3> QED BY <2>4, <3>2, Zenon
    <2> QED BY <2>5
  <1>3. Is(K)
    <2> HIDE DEF Is
    <2> QED BY <1>2
  <1>4. get_reconstruction(f) = K[N]
    BY DEF get_reconstruction
  <1> HIDE DEF K, rows, N
  <1>5. /\ K[0] = <<>>
        /\ \A n \in 1..N : K[n] = IF pin[rows[n].xorb] = "pinned"
                                  THEN Append(K[n - 1], rows[n]) ELSE K[n - 1]
    <2>1. 0 \in 0..N /\ \A n \in 1..N : n \in 0..N /\ n # 0
      BY <1>1
    <2> QED BY <1>3, <2>1, Zenon
  <1>6. Keeps(K, f)
    BY <1>5 DEF Keeps, rows, N
  <1> QED BY <1>4, <1>6 DEF N, rows

\* The rows get_reconstruction returns fit their chunks.
LEMMA KeptFacts ==
    ASSUME NEW f \in Files, terms[f] \in Seq(FitRows)
    PROVE  get_reconstruction(f) \in Seq(FitRows)
  <1> DEFINE rows == terms[f]
             N == Len(rows)
             A == Seq(FitRows)
  <1>1. N \in Nat /\ <<>> \in A /\ \A n \in 1..N : rows[n] \in FitRows
    BY SeqFacts
  <1>2. PICK K : Keeps(K, f) /\ get_reconstruction(f) = K[N]
    BY KeptLoop
  <1>3. /\ K[0] = <<>>
        /\ \A n \in 1..N : K[n] = IF pin[rows[n].xorb] = "pinned"
                                  THEN Append(K[n - 1], rows[n]) ELSE K[n - 1]
    BY <1>2 DEF Keeps
  <1> HIDE DEF rows, N
  <1> DEFINE T == {n \in 0..N : K[n] \in A}
  <1>4. 0 \in T
    <2> HIDE DEF A
    <2> QED BY <1>1, <1>3
  <1>5. \A n \in 1..N : n - 1 \in T => n \in T
    <2>1. \A n \in 1..N : \A p \in A : Append(p, rows[n]) \in A
      BY <1>1
    <2> HIDE DEF A
    <2> QED BY <1>1, <1>3, <2>1
  <1>6. \A n \in 0..N : n \in T
    <2> HIDE DEF T
    <2> QED BY <1>1, <1>4, <1>5, Induction
  <1> QED BY <1>1, <1>2, <1>6

-----------------------------------------------------------------------------
(***************************************************************************)
(* Sorting and merging byte ranges.                                        *)
(***************************************************************************)

IsSort(q, S) ==
    /\ \A sp \in S : \E i \in DOMAIN q : q[i] = sp
    /\ \A i, j \in DOMAIN q : i < j => Before(q[i], q[j])

\* A set of spans has a first one.
LEMMA FirstSpan ==
    ASSUME NEW S \in SUBSET (Nat \X Nat), S # {}
    PROVE  \E m \in S : \A sp \in S : sp # m => Before(m, sp)
  <1> DEFINE T == {sp[1] : sp \in S}
  <1>1. \A sp \in S : sp = <<sp[1], sp[2]>> /\ sp[1] \in Nat /\ sp[2] \in Nat
    OBVIOUS
  <1>2. T \in SUBSET Nat /\ T # {}
    BY <1>1
  <1>3. PICK lo \in T : \A k \in T : lo <= k
    <2> HIDE DEF T
    <2> QED BY <1>2, LeastNumber
  <1> DEFINE U == {sp[2] : sp \in {r \in S : r[1] = lo}}
  <1>4. U \in SUBSET Nat /\ U # {}
    BY <1>1
  <1>5. PICK hi \in U : \A k \in U : hi <= k
    <2> HIDE DEF U
    <2> QED BY <1>4, LeastNumber
  <1>6. PICK m \in S : m[1] = lo /\ m[2] = hi
    OBVIOUS
  <1>7. ASSUME NEW sp \in S, sp # m PROVE Before(m, sp)
    <2>1. sp[1] \in T /\ lo <= sp[1]
      BY <1>3
    <2>2. sp[1] = lo => hi <= sp[2]
      BY <1>5
    <2>3. sp[1] = lo => sp[2] # hi
      BY <1>1, <1>6, <1>7
    <2>4. sp[1] \in Nat /\ sp[2] \in Nat /\ lo \in Nat /\ hi \in Nat
      BY <1>1, <1>2, <1>4
    <2> HIDE DEF T, U
    <2> QED BY <1>6, <2>1, <2>2, <2>3, <2>4 DEF Before
  <1> QED BY <1>7

\* Every finite set of spans can be sorted.
LEMMA SortExists ==
    ASSUME NEW S \in SUBSET (Nat \X Nat), IsFiniteSet(S)
    PROVE  \E q \in [1..Cardinality(S) -> S] : IsSort(q, S)
  <1> DEFINE Sortable(n) ==
                \A R \in SUBSET (Nat \X Nat) :
                    IsFiniteSet(R) /\ Cardinality(R) = n =>
                        \E q \in [1..n -> R] : IsSort(q, R)
             N == Cardinality(S)
             T == {n \in 0..N : Sortable(n)}
  <1>1. N \in Nat
    BY FS_CardinalityType
  <1>2. 0 \in T
    <2>1. ASSUME NEW R \in SUBSET (Nat \X Nat), IsFiniteSet(R), Cardinality(R) = 0
          PROVE  \E q \in [1..0 -> R] : IsSort(q, R)
      <3>1. R = {}
        BY <2>1, FS_EmptySet
      <3>2. <<>> \in [1..0 -> R] /\ IsSort(<<>>, R)
        BY <3>1 DEF IsSort
      <3> QED BY <3>2
    <2>2. 0 \in 0..N
      BY <1>1
    <2> QED BY <2>1, <2>2
  <1>3. ASSUME NEW n \in 1..N, n - 1 \in T PROVE n \in T
    <2>1. ASSUME NEW R \in SUBSET (Nat \X Nat), IsFiniteSet(R), Cardinality(R) = n
          PROVE  \E q \in [1..n -> R] : IsSort(q, R)
      <3>1. R # {}
        BY <2>1, FS_EmptySet
      <3>2. PICK m \in R : \A sp \in R : sp # m => Before(m, sp)
        BY <3>1, FirstSpan
      <3> DEFINE Q == R \ {m}
      <3>3. Q \in SUBSET (Nat \X Nat) /\ IsFiniteSet(Q) /\ Cardinality(Q) = n - 1
        BY <2>1, FS_RemoveElement
      <3>4. PICK r \in [1..n - 1 -> Q] : IsSort(r, Q)
        <4> HIDE DEF Q
        <4> QED BY <1>3, <3>3
      <3> DEFINE q == [i \in 1..n |-> IF i = 1 THEN m ELSE r[i - 1]]
      <3>5. \A i \in 1..n : i # 1 => i - 1 \in 1..n - 1 /\ r[i - 1] \in R /\ r[i - 1] # m
        <4>1. \A i \in 1..n : i # 1 => i - 1 \in 1..n - 1
          BY <1>1
        <4> QED BY <3>4, <4>1
      <3>6. q \in [1..n -> R]
        BY <3>2, <3>5
      <3>7. ASSUME NEW sp \in R PROVE \E i \in 1..n : q[i] = sp
        <4>1. CASE sp = m
          <5>1. 1 \in 1..n /\ q[1] = m
            BY <1>1
          <5> QED BY <4>1, <5>1
        <4>2. CASE sp # m
          <5>1. PICK k \in 1..n - 1 : r[k] = sp
            BY <3>4, <4>2 DEF IsSort
          <5>2. k + 1 \in 1..n /\ k + 1 # 1 /\ (k + 1) - 1 = k
            BY <1>1
          <5>3. q[k + 1] = sp
            BY <5>1, <5>2
          <5> QED BY <5>2, <5>3
        <4> QED BY <4>1, <4>2
      <3>8. ASSUME NEW i \in 1..n, NEW j \in 1..n, i < j PROVE Before(q[i], q[j])
        <4>1. j # 1 /\ q[j] = r[j - 1]
          BY <3>8
        <4>2. CASE i = 1
          <5>1. q[i] = m
            BY <4>2
          <5> QED BY <3>2, <3>5, <4>1, <5>1
        <4>3. CASE i # 1
          <5>1. q[i] = r[i - 1] /\ i - 1 < j - 1
            BY <3>8, <4>3
          <5>2. i - 1 \in 1..n - 1 /\ j - 1 \in 1..n - 1
            BY <3>5, <4>1, <4>3
          <5>3. Before(r[i - 1], r[j - 1])
            BY <3>4, <5>1, <5>2 DEF IsSort
          <5> QED BY <4>1, <5>1, <5>3
        <4> QED BY <4>2, <4>3
      <3> HIDE DEF q
      <3>9. IsSort(q, R)
        BY <3>6, <3>7, <3>8 DEF IsSort
      <3> QED BY <3>6, <3>9
    <2>2. n \in 0..N
      BY <1>1
    <2>3. Sortable(n)
      BY <2>1
    <2> QED BY <2>2, <2>3
  <1>4. N \in T
    <2> HIDE DEF T, N
    <2>1. \A n \in 1..N : n - 1 \in T => n \in T
      BY <1>3
    <2>2. \A n \in 0..N : n \in T
      BY <1>1, <1>2, <2>1, Induction
    <2> QED BY <1>1, <2>2
  <1> QED BY <1>4

LEMMA SortedFacts ==
    ASSUME NEW S \in SUBSET (Nat \X Nat), IsFiniteSet(S)
    PROVE  /\ Sorted(S) \in [1..Cardinality(S) -> S] /\ IsSort(Sorted(S), S)
           /\ Cardinality(S) \in Nat
  <1>1. Sorted(S) = CHOOSE q \in [1..Cardinality(S) -> S] : IsSort(q, S)
    BY DEF Sorted, IsSort
  <1>2. \E q \in [1..Cardinality(S) -> S] : IsSort(q, S)
    BY SortExists
  <1>3. Cardinality(S) \in Nat
    BY FS_CardinalityType
  <1> QED BY <1>1, <1>2, <1>3

\* The spans of the terms of a xorb.
LEMMA SpansFacts ==
    ASSUME NEW row \in Seq(FitRows), NEW x
    PROVE  /\ Spans(row, x) \in SUBSET (Nat \X (0..U64 - 1))
           /\ Spans(row, x) \in SUBSET (Nat \X Nat)
           /\ IsFiniteSet(Spans(row, x))
           /\ \A sp \in Spans(row, x) : sp[1] <= sp[2]
           /\ U64 \in Nat \ {0}
  <1> DEFINE I == {j \in DOMAIN row : row[j].xorb = x}
             b == [i \in I |-> row[i].bytes]
  <1>1. U64 \in Nat \ {0}
    BY LengthsAssumption
  <1>2. /\ Len(row) \in Nat /\ DOMAIN row = 1..Len(row)
        /\ \A i \in I : row[i] \in FitRows
    BY SeqFacts
  <1>3. \A i \in I : row[i].bytes \in Nat \X (0..U64 - 1)
    BY <1>2, FitRowFacts
  <1>4. ASSUME NEW i \in I PROVE row[i].bytes[1] <= row[i].bytes[2]
    <2>1. row[i].bytes[1] < row[i].bytes[2] \/ row[i].bytes = <<0, 0>>
      BY <1>2, FitRowFacts DEF Fits
    <2>2. row[i].bytes[1] \in Nat /\ row[i].bytes[2] \in Nat
      BY <1>1, <1>3
    <2> QED BY <2>1, <2>2
  <1>5. Spans(row, x) = {row[i].bytes : i \in I}
    BY DEF Spans
  <1>6. IsFiniteSet(Spans(row, x))
    <2>1. IsFiniteSet(I)
      <3>1. IsFiniteSet(1..Len(row))
        BY <1>2, FS_Interval
      <3>2. I \in SUBSET (1..Len(row))
        BY <1>2
      <3> HIDE DEF I
      <3> QED BY <3>1, <3>2, FS_Subset
    <2>2. b \in Surjection(I, Spans(row, x))
      <3> HIDE DEF I
      <3> QED BY <1>5 DEF Surjection
    <2> HIDE DEF I, b
    <2> QED BY <2>1, <2>2, FS_Surjection
  <1> HIDE DEF I
  <1>7. Spans(row, x) \in SUBSET (Nat \X (0..U64 - 1))
    BY <1>3, <1>5
  <1>8. Spans(row, x) \in SUBSET (Nat \X Nat)
    <2>1. 0..U64 - 1 \in SUBSET Nat
      BY <1>1
    <2> QED BY <1>7, <2>1
  <1>9. \A sp \in Spans(row, x) : sp[1] <= sp[2]
    BY <1>4, <1>5
  <1> QED BY <1>1, <1>6, <1>7, <1>8, <1>9

\* m is what the merge loop has made of the first n spans of q: its ranges
\* are in order with a gap before each, and hold every span and no byte that
\* is in none; a span begins where a range begins, and one ends where it ends.
Covers(q, n, m) ==
    /\ \A i, j \in DOMAIN m : i < j => m[i][2] < m[j][1]
    /\ \A k \in 1..n : \E i \in DOMAIN m : m[i][1] <= q[k][1] /\ q[k][2] <= m[i][2]
    /\ \A i \in DOMAIN m : \A byte \in m[i][1]..(m[i][2] - 1) :
          \E k \in 1..n : q[k][1] <= byte /\ byte < q[k][2]
    /\ \A i \in DOMAIN m : \E k \in 1..n : m[i][1] = q[k][1] /\ q[k][2] <= m[i][2]
    /\ \A i \in DOMAIN m : \E k \in 1..n : m[i][2] = q[k][2] /\ m[i][1] <= q[k][1]

SpanSeq == Seq(Nat \X Nat)

Loop(q, n, m) ==
    /\ m \in SpanSeq
    /\ n > 0 => m # <<>> /\ m[Len(m)][1] <= q[n][1]
    /\ Covers(q, n, m)

Ordered(q) ==
    /\ \A i, j \in DOMAIN q : i < j => q[i][1] <= q[j][1]
    /\ \A i \in DOMAIN q : q[i][1] <= q[i][2]

LEMMA SpanSeqFacts ==
    ASSUME NEW m \in SpanSeq
    PROVE  /\ Len(m) \in Nat /\ DOMAIN m = 1..Len(m)
           /\ \A i \in DOMAIN m : /\ m[i] \in Nat \X Nat
                                  /\ m[i][1] \in Nat /\ m[i][2] \in Nat
                                  /\ m[i] = <<m[i][1], m[i][2]>>
           /\ m = <<>> <=> Len(m) = 0
  <1>1. /\ Len(m) \in Nat /\ DOMAIN m = 1..Len(m)
        /\ \A i \in DOMAIN m : m[i] \in Nat \X Nat
    BY SeqFacts DEF SpanSeq
  <1>2. m = <<>> <=> Len(m) = 0
    BY DEF SpanSeq
  <1> QED BY <1>1, <1>2

\* The two outcomes of MergeSpan.
LEMMA MergeSpanFacts ==
    ASSUME NEW m \in SpanSeq, NEW s \in Nat \X Nat
    PROVE  LET r == MergeSpan(m, s)
               L == Len(m)
           IN  /\ r \in SpanSeq
               /\ \/ /\ L > 0 /\ s[1] <= m[L][2] /\ Len(r) = L
                     /\ \A i \in 1..L : i # L => r[i] = m[i]
                     /\ r[L][1] = m[L][1]
                     /\ r[L][2] = (IF m[L][2] >= s[2] THEN m[L][2] ELSE s[2])
                  \/ /\ L > 0 => m[L][2] < s[1]
                     /\ Len(r) = L + 1 /\ r[L + 1] = s
                     /\ \A i \in 1..L : r[i] = m[i]
  <1> DEFINE r == MergeSpan(m, s)
             L == Len(m)
             e == Max({m[L][2], s[2]})
  <1>1. /\ L \in Nat /\ DOMAIN m = 1..L /\ (m = <<>> <=> L = 0)
        /\ \A i \in 1..L : m[i] \in Nat \X Nat /\ m[i][1] \in Nat /\ m[i][2] \in Nat
    BY SpanSeqFacts
  <1>2. s[1] \in Nat /\ s[2] \in Nat /\ s \in Nat \X Nat
    OBVIOUS
  <1>3. CASE m # <<>> /\ s[1] <= m[L][2]
    <2>1. L \in 1..L /\ L > 0
      BY <1>1, <1>3
    <2>2. r = [m EXCEPT ![L] = <<m[L][1], e>>]
      BY <1>3 DEF MergeSpan, Last
    <2>3. e = (IF m[L][2] >= s[2] THEN m[L][2] ELSE s[2]) /\ e \in Nat
      <3>1. m[L][2] \in Int /\ s[2] \in Int
        BY <1>1, <1>2, <2>1
      <3> QED BY <1>1, <1>2, <2>1, <3>1, MinMaxFacts
    <2> HIDE DEF e, r
    <2>4. <<m[L][1], e>> \in Nat \X Nat
      BY <1>1, <2>1, <2>3
    <2>5. r \in SpanSeq /\ Len(r) = L
      <3> HIDE DEF L
      <3>1. m \in Seq(Nat \X Nat) /\ L \in 1..Len(m)
        BY <1>1, <2>1 DEF SpanSeq, L
      <3>2. r \in Seq(Nat \X Nat) /\ Len(r) = Len(m)
        BY <2>2, <2>4, <3>1
      <3> QED BY <3>2 DEF SpanSeq, L
    <2>6. r[L] = <<m[L][1], e>> /\ \A i \in 1..L : i # L => r[i] = m[i]
      <3> HIDE DEF L
      <3> QED BY <1>1, <2>1, <2>2
    <2> QED BY <1>3, <2>1, <2>3, <2>5, <2>6 DEF r
  <1>4. CASE ~(m # <<>> /\ s[1] <= m[L][2])
    <2>1. r = Append(m, s)
      BY <1>4 DEF MergeSpan, Last
    <2> HIDE DEF r
    <2>2. /\ r \in Seq(Nat \X Nat) /\ Len(r) = L + 1 /\ r[L + 1] = s
          /\ \A i \in 1..L : r[i] = m[i]
      BY <1>2, <2>1 DEF SpanSeq
    <2>3. L > 0 => m[L][2] < s[1]
      <3>1. L > 0 => L \in 1..L /\ m # <<>>
        BY <1>1
      <3> HIDE DEF L
      <3> QED BY <1>1, <1>2, <1>4, <3>1
    <2> QED BY <2>2, <2>3 DEF SpanSeq, r
  <1> QED BY <1>3, <1>4

\* One round of the merge loop.
LEMMA MergeStep ==
    ASSUME NEW N \in Nat, NEW q \in [1..N -> Nat \X Nat], Ordered(q),
           NEW n \in 1..N, NEW m, Loop(q, n - 1, m)
    PROVE  Loop(q, n, MergeSpan(m, q[n]))
  <1> DEFINE s == q[n]
             r == MergeSpan(m, s)
             L == Len(m)
             P == n - 1
  <1>1. /\ m \in SpanSeq
        /\ P > 0 => m # <<>> /\ m[L][1] <= q[P][1]
        /\ Covers(q, P, m)
    BY DEF Loop
  <1>2. /\ L \in Nat /\ DOMAIN m = 1..L /\ (m = <<>> <=> L = 0)
        /\ \A i \in 1..L : m[i][1] \in Nat /\ m[i][2] \in Nat
    BY <1>1, SpanSeqFacts
  <1>3. /\ \A k \in 1..N : q[k] \in Nat \X Nat /\ q[k][1] \in Nat /\ q[k][2] \in Nat
        /\ \A k \in 1..N : q[k][1] <= q[k][2]
        /\ \A j, k \in 1..N : j < k => q[j][1] <= q[k][1]
    BY DEF Ordered
  <1>4. s \in Nat \X Nat /\ s[1] \in Nat /\ s[2] \in Nat /\ s[1] <= s[2]
    BY <1>3
  <1>5. /\ r \in SpanSeq
        /\ \/ /\ L > 0 /\ s[1] <= m[L][2] /\ Len(r) = L
              /\ \A i \in 1..L : i # L => r[i] = m[i]
              /\ r[L][1] = m[L][1]
              /\ r[L][2] = (IF m[L][2] >= s[2] THEN m[L][2] ELSE s[2])
           \/ /\ L > 0 => m[L][2] < s[1]
              /\ Len(r) = L + 1 /\ r[L + 1] = s
              /\ \A i \in 1..L : r[i] = m[i]
    BY <1>1, <1>4, MergeSpanFacts
  <1>6. /\ P \in 0..N /\ n \in 1..n /\ n \in 1..N
        /\ 1..P \subseteq 1..n /\ 1..n \subseteq 1..N
        /\ \A k \in 1..n : k = n \/ k \in 1..P
    OBVIOUS
  <1>7. /\ DOMAIN r = 1..Len(r) /\ Len(r) \in Nat
        /\ \A i \in 1..Len(r) : r[i][1] \in Nat /\ r[i][2] \in Nat
    BY <1>5, SpanSeqFacts
  \* The covering, in its parts.
  <1>8. /\ \A i, j \in 1..L : i < j => m[i][2] < m[j][1]
        /\ \A k \in 1..P : \E i \in 1..L : m[i][1] <= q[k][1] /\ q[k][2] <= m[i][2]
        /\ \A i \in 1..L : \A byte \in m[i][1]..(m[i][2] - 1) :
              \E k \in 1..P : q[k][1] <= byte /\ byte < q[k][2]
        /\ \A i \in 1..L : \E k \in 1..P : m[i][1] = q[k][1] /\ q[k][2] <= m[i][2]
        /\ \A i \in 1..L : \E k \in 1..P : m[i][2] = q[k][2] /\ m[i][1] <= q[k][1]
    BY <1>1, <1>2 DEF Covers
  \* The last range begins no later than the new span, and is not empty.
  <1>9. ASSUME L > 0 PROVE L \in 1..L /\ m[L][1] <= s[1] /\ m[L][1] <= m[L][2]
    <2>1. L \in 1..L
      BY <1>2, <1>9
    <2>2. PICK k \in 1..P : m[L][1] = q[k][1] /\ q[k][2] <= m[L][2]
      BY <1>8, <2>1
    <2>3. k \in 1..N /\ k < n
      OBVIOUS
    <2>4. q[k][1] <= s[1] /\ q[k][1] <= q[k][2]
      BY <1>3, <2>3
    <2>5. m[L][1] \in Nat /\ m[L][2] \in Nat /\ q[k][1] \in Nat /\ q[k][2] \in Nat
      BY <1>2, <1>3, <2>1, <2>3
    <2>6. m[L][1] <= s[1]
      BY <2>2, <2>4
    <2> HIDE DEF s, L, P
    <2>7. m[L][1] <= m[L][2]
      BY <2>2, <2>4, <2>5
    <2> QED BY <2>1, <2>6, <2>7
  <1> HIDE DEF s, r, L, P
  <1>10. CASE /\ L > 0 /\ s[1] <= m[L][2] /\ Len(r) = L
              /\ \A i \in 1..L : i # L => r[i] = m[i]
              /\ r[L][1] = m[L][1]
              /\ r[L][2] = (IF m[L][2] >= s[2] THEN m[L][2] ELSE s[2])
    <2>1. L \in 1..L /\ m[L][1] <= s[1] /\ m[L][1] \in Nat /\ m[L][2] \in Nat
      BY <1>2, <1>9, <1>10
    <2>2. /\ \A i \in 1..L : r[i][1] = m[i][1] /\ m[i][2] <= r[i][2]
          /\ s[2] <= r[L][2]
      <3>1. r[L][1] = m[L][1] /\ m[L][2] <= r[L][2] /\ s[2] <= r[L][2]
        BY <1>4, <1>10, <2>1
      <3>2. ASSUME NEW i \in 1..L, i # L PROVE r[i][1] = m[i][1] /\ m[i][2] <= r[i][2]
        <4>1. r[i] = m[i] /\ m[i][2] \in Nat
          BY <1>2, <1>10, <3>2
        <4> QED BY <4>1
      <3> QED BY <3>1, <3>2
    <2>3. ASSUME NEW i \in 1..L, NEW j \in 1..L, i < j PROVE r[i][2] < r[j][1]
      <3>1. i # L
        BY <1>2, <2>3
      <3> QED BY <1>8, <1>10, <2>2, <2>3, <3>1
    <2>4. ASSUME NEW k \in 1..n
          PROVE  \E i \in 1..L : r[i][1] <= q[k][1] /\ q[k][2] <= r[i][2]
      <3>1. CASE k = n
        <4>1. r[L][1] <= q[k][1] /\ q[k][2] <= r[L][2]
          BY <1>10, <2>1, <2>2, <3>1 DEF s
        <4> QED BY <2>1, <4>1
      <3>2. CASE k \in 1..P
        <4>1. PICK i \in 1..L : m[i][1] <= q[k][1] /\ q[k][2] <= m[i][2]
          BY <1>8, <3>2
        <4>2. r[i][1] = m[i][1] /\ m[i][2] <= r[i][2]
          BY <2>2
        <4>3. m[i][2] \in Nat /\ r[i][2] \in Nat /\ q[k][2] \in Nat
          BY <1>2, <1>3, <1>6, <1>7, <1>10
        <4>4. r[i][1] <= q[k][1]
          BY <4>1, <4>2
        <4>5. q[k][2] <= r[i][2]
          BY <4>1, <4>2, <4>3
        <4> QED BY <4>4, <4>5
      <3> QED BY <1>6, <3>1, <3>2
    <2>5. ASSUME NEW i \in 1..L, NEW byte \in r[i][1]..(r[i][2] - 1)
          PROVE  \E k \in 1..n : q[k][1] <= byte /\ byte < q[k][2]
      <3>1. byte \in Int /\ r[i][1] <= byte /\ byte < r[i][2]
        BY <1>7, <1>10
      <3>2. CASE byte < m[i][2]
        <4>1. byte \in m[i][1]..(m[i][2] - 1)
          <5>1. m[i][1] \in Nat /\ m[i][2] \in Nat /\ m[i][1] <= byte
            BY <1>2, <2>2, <3>1
          <5> QED BY <3>1, <3>2, <5>1
        <4>2. \E k \in 1..P : q[k][1] <= byte /\ byte < q[k][2]
          BY <1>8, <4>1
        <4> QED BY <1>6, <4>2
      <3>3. CASE ~(byte < m[i][2])
        <4>1. i = L
          <5>1. ASSUME i # L PROVE FALSE
            <6>1. r[i][2] = m[i][2]
              BY <1>10, <5>1
            <6> QED BY <3>1, <3>3, <6>1
          <5> QED BY <5>1
        <4>2. r[L][2] = s[2]
          BY <1>10, <3>1, <3>3, <4>1
        <4>3. m[L][2] <= byte
          <5>1. ~(byte < m[L][2])
            BY <3>3, <4>1
          <5>2. byte \in Int /\ m[L][2] \in Int
            BY <2>1, <3>1
          <5> QED BY <5>1, <5>2
        <4>4. byte < s[2]
          BY <3>1, <4>1, <4>2
        <4>5. s[1] <= byte
          <5>1. s[1] <= m[L][2] /\ s[1] \in Nat /\ m[L][2] \in Nat /\ byte \in Int
            BY <1>4, <1>10, <2>1, <3>1
          <5> QED BY <4>3, <5>1
        <4> QED BY <1>6, <4>4, <4>5 DEF s
      <3> QED BY <3>2, <3>3
    <2>6. ASSUME NEW i \in 1..L
          PROVE  \E k \in 1..n : r[i][1] = q[k][1] /\ q[k][2] <= r[i][2]
      <3>1. PICK k \in 1..P : m[i][1] = q[k][1] /\ q[k][2] <= m[i][2]
        BY <1>8
      <3>2. r[i][1] = m[i][1] /\ m[i][2] <= r[i][2]
        BY <2>2
      <3>3. m[i][2] \in Nat /\ r[i][2] \in Nat /\ q[k][2] \in Nat /\ k \in 1..n
        BY <1>2, <1>3, <1>6, <1>7, <1>10
      <3>4. r[i][1] = q[k][1] /\ q[k][2] <= r[i][2]
        BY <3>1, <3>2, <3>3
      <3> QED BY <3>3, <3>4
    <2>7. ASSUME NEW i \in 1..L
          PROVE  \E k \in 1..n : r[i][2] = q[k][2] /\ r[i][1] <= q[k][1]
      <3>1. CASE r[i][2] = m[i][2]
        <4>1. PICK k \in 1..P : m[i][2] = q[k][2] /\ m[i][1] <= q[k][1]
          BY <1>8
        <4>2. k \in 1..n /\ r[i][2] = q[k][2] /\ r[i][1] <= q[k][1]
          BY <1>6, <2>2, <3>1, <4>1
        <4> QED BY <4>2
      <3>2. CASE r[i][2] # m[i][2]
        <4>1. i = L /\ r[i][2] = s[2]
          BY <1>10, <3>2
        <4>2. r[i][1] <= s[1]
          BY <1>10, <2>1, <4>1
        <4> QED BY <1>6, <4>1, <4>2 DEF s
      <3> QED BY <3>1, <3>2
    <2>8. Covers(q, n, r)
      BY <1>7, <1>10, <2>3, <2>4, <2>5, <2>6, <2>7 DEF Covers
    <2>9. r # <<>> /\ r[Len(r)][1] <= q[n][1]
      <3>1. r # <<>>
        BY <1>5, <1>10, SpanSeqFacts
      <3> QED BY <1>10, <2>1, <3>1 DEF s
    <2> QED BY <1>5, <2>8, <2>9 DEF Loop, r, s
  <1>11. CASE /\ L > 0 => m[L][2] < s[1]
              /\ Len(r) = L + 1 /\ r[L + 1] = s
              /\ \A i \in 1..L : r[i] = m[i]
    <2>1. L + 1 \in 1..L + 1 /\ \A i \in 1..L + 1 : i = L + 1 \/ i \in 1..L
      BY <1>2
    <2>2. 1..L \subseteq 1..L + 1
      BY <1>2
    <2>3. ASSUME NEW i \in 1..L + 1, NEW j \in 1..L + 1, i < j PROVE r[i][2] < r[j][1]
      <3>1. i \in 1..L
        BY <1>2, <2>3
      <3>2. CASE j \in 1..L
        BY <1>8, <1>11, <2>3, <3>1, <3>2
      <3>3. CASE j = L + 1
        <4>1. L > 0 /\ m[L][2] < s[1] /\ L \in 1..L
          BY <1>2, <1>11, <3>1
        <4>2. m[i][2] <= m[L][2]
          <5>1. CASE i = L
            BY <1>2, <4>1, <5>1
          <5>2. CASE i # L
            <6>1. i < L
              BY <1>2, <3>1, <5>2
            <6>2. m[i][2] < m[L][1] /\ m[L][1] <= m[L][2]
              BY <1>8, <1>9, <3>1, <4>1, <6>1
            <6> QED BY <1>2, <3>1, <4>1, <6>2
          <5> QED BY <5>1, <5>2
        <4>3. m[i][2] \in Nat /\ m[L][2] \in Nat
          BY <1>2, <3>1, <4>1
        <4>4. m[i][2] < s[1]
          <5>1. s[1] \in Nat /\ m[L][2] < s[1]
            BY <1>4, <4>1
          <5> QED BY <4>2, <4>3, <5>1
        <4> QED BY <1>11, <3>1, <3>3, <4>4
      <3> QED BY <2>1, <3>2, <3>3
    <2>4. ASSUME NEW k \in 1..n
          PROVE  \E i \in 1..L + 1 : r[i][1] <= q[k][1] /\ q[k][2] <= r[i][2]
      <3>1. CASE k = n
        <4>1. r[L + 1][1] <= q[k][1] /\ q[k][2] <= r[L + 1][2]
          BY <1>4, <1>11, <3>1 DEF s
        <4> QED BY <2>1, <4>1
      <3>2. CASE k \in 1..P
        BY <1>8, <1>11, <2>2, <3>2
      <3> QED BY <1>6, <3>1, <3>2
    <2>5. ASSUME NEW i \in 1..L + 1, NEW byte \in r[i][1]..(r[i][2] - 1)
          PROVE  \E k \in 1..n : q[k][1] <= byte /\ byte < q[k][2]
      <3>1. CASE i \in 1..L
        <4>1. byte \in m[i][1]..(m[i][2] - 1)
          BY <1>11, <3>1
        <4>2. \E k \in 1..P : q[k][1] <= byte /\ byte < q[k][2]
          BY <1>8, <3>1, <4>1
        <4> QED BY <1>6, <4>2
      <3>2. CASE i = L + 1
        <4>1. s[1] <= byte /\ byte < s[2]
          BY <1>4, <1>11, <3>2
        <4> QED BY <1>6, <4>1 DEF s
      <3> QED BY <2>1, <3>1, <3>2
    <2>6. ASSUME NEW i \in 1..L + 1
          PROVE  /\ \E k \in 1..n : r[i][1] = q[k][1] /\ q[k][2] <= r[i][2]
                 /\ \E k \in 1..n : r[i][2] = q[k][2] /\ r[i][1] <= q[k][1]
      <3>1. CASE i \in 1..L
        <4>1. r[i] = m[i]
          BY <1>11, <3>1
        <4>2. /\ \E k \in 1..P : m[i][1] = q[k][1] /\ q[k][2] <= m[i][2]
              /\ \E k \in 1..P : m[i][2] = q[k][2] /\ m[i][1] <= q[k][1]
          BY <1>8, <3>1
        <4> QED BY <1>6, <4>1, <4>2
      <3>2. CASE i = L + 1
        <4>1. r[i] = q[n] /\ n \in 1..n
          BY <1>6, <1>11, <3>2 DEF s
        <4>2. q[n][1] <= q[n][1] /\ q[n][2] <= q[n][2]
          BY <1>4 DEF s
        <4> QED BY <4>1, <4>2
      <3> QED BY <2>1, <3>1, <3>2
    <2>7. Covers(q, n, r)
      BY <1>7, <1>11, <2>3, <2>4, <2>5, <2>6 DEF Covers
    <2>8. r # <<>> /\ r[Len(r)][1] <= q[n][1]
      <3>1. r # <<>>
        BY <1>2, <1>5, <1>11, SpanSeqFacts
      <3> QED BY <1>4, <1>11, <3>1 DEF s
    <2> QED BY <1>5, <2>7, <2>8 DEF Loop, r, s
  <1> QED BY <1>5, <1>10, <1>11

\* The merge loop, over sorted spans that may be empty.
LEMMA MergeFacts ==
    ASSUME NEW N \in Nat, NEW q \in [1..N -> Nat \X Nat], Ordered(q)
    PROVE  Merge(q) \in SpanSeq /\ Covers(q, N, Merge(q))
  <1> DEFINE Is(F) == F = [n \in 0..N |-> IF n = 0 THEN <<>> ELSE MergeSpan(F[n - 1], q[n])]
             g == [n \in 1..N |-> [p \in SpanSeq |-> MergeSpan(p, q[n])]]
             M == CHOOSE F : Is(F)
  <1>1. Len(q) = N /\ <<>> \in SpanSeq /\ \A n \in 1..N : q[n] \in Nat \X Nat
    BY DEF SpanSeq
  <1>2. \E F : Is(F)
    <2>1. g \in Steps(SpanSeq, N)
      <3>1. \A n \in 1..N : \A p \in SpanSeq : MergeSpan(p, q[n]) \in SpanSeq
        BY <1>1, MergeSpanFacts
      <3> QED BY <3>1 DEF Steps
    <2>2. PICK k \in Run(SpanSeq, N) : Follows(k, <<>>, N, g)
      <3> HIDE DEF g
      <3> QED BY <1>1, <2>1, Recursion
    <2>3. ASSUME NEW n \in 1..N PROVE k[n] = MergeSpan(k[n - 1], q[n])
      <3>1. n - 1 \in 0..N
        OBVIOUS
      <3>2. k[n - 1] \in SpanSeq
        BY <3>1 DEF Run
      <3>3. k[n] = g[n][k[n - 1]]
        BY <2>2 DEF Follows
      <3> QED BY <3>2, <3>3
    <2>4. k[0] = <<>> /\ k = [n \in 0..N |-> k[n]]
      BY <2>2 DEF Run, Follows
    <2>5. Is(k)
      <3>1. \A n \in 0..N : n # 0 => n \in 1..N
        OBVIOUS
      <3>2. \A n \in 0..N : k[n] = IF n = 0 THEN <<>> ELSE MergeSpan(k[n - 1], q[n])
        BY <2>3, <2>4, <3>1
      <3> QED BY <2>4, <3>2, Zenon
    <2> QED BY <2>5
  <1>3. Is(M)
    <2> HIDE DEF Is
    <2> QED BY <1>2
  <1>4. Merge(q) = M[N]
    BY <1>1 DEF Merge
  <1> HIDE DEF M
  <1>5. M[0] = <<>> /\ \A n \in 1..N : M[n] = MergeSpan(M[n - 1], q[n])
    <2>1. 0 \in 0..N /\ \A n \in 1..N : n \in 0..N /\ n # 0
      OBVIOUS
    <2> QED BY <1>3, <2>1, Zenon
  <1> DEFINE T == {n \in 0..N : Loop(q, n, M[n])}
  <1>6. 0 \in T
    <2>1. Loop(q, 0, <<>>)
      BY <1>1 DEF Loop, Covers
    <2>2. 0 \in 0..N
      OBVIOUS
    <2> QED BY <1>5, <2>1, <2>2
  <1>7. ASSUME NEW n \in 1..N, n - 1 \in T PROVE n \in T
    <2>1. Loop(q, n - 1, M[n - 1])
      BY <1>7
    <2>2. Loop(q, n, MergeSpan(M[n - 1], q[n]))
      BY <2>1, MergeStep
    <2>3. n \in 0..N
      OBVIOUS
    <2> QED BY <1>5, <2>2, <2>3
  <1>8. N \in T
    <2> HIDE DEF T
    <2>1. \A n \in 1..N : n - 1 \in T => n \in T
      BY <1>7
    <2>2. \A n \in 0..N : n \in T
      BY <1>6, <2>1, Induction
    <2> QED BY <2>2
  <1> QED BY <1>4, <1>8 DEF Loop

-----------------------------------------------------------------------------
(***************************************************************************)
(* coalesce_terms_by_xorb.                                                 *)
(***************************************************************************)

\* Covers, for a set of spans.
Cover(S, m) ==
    /\ \A i, j \in DOMAIN m : i < j => m[i][2] < m[j][1]
    /\ \A sp \in S : \E i \in DOMAIN m : m[i][1] <= sp[1] /\ sp[2] <= m[i][2]
    /\ \A i \in DOMAIN m : \A byte \in m[i][1]..(m[i][2] - 1) :
          \E sp \in S : sp[1] <= byte /\ byte < sp[2]
    /\ \A i \in DOMAIN m : \E sp \in S : m[i][1] = sp[1] /\ sp[2] <= m[i][2]
    /\ \A i \in DOMAIN m : \E sp \in S : m[i][2] = sp[2] /\ m[i][1] <= sp[1]

LEMMA CoalesceFacts ==
    ASSUME NEW row \in Seq(FitRows), NEW x
    PROVE  \E m \in SpanSeq :
              /\ Cover(Spans(row, x), m)
              /\ coalesce_terms(row, x)
                   = [i \in DOMAIN m |-> [start |-> m[i][1], last |-> (m[i][2] - 1) % U64]]
              /\ \A i \in DOMAIN m : /\ m[i][1] \in Nat /\ m[i][2] \in 0..U64 - 1
                                     /\ m[i][1] <= m[i][2]
  <1> DEFINE S == Spans(row, x)
             q == Sorted(S)
             m == Merge(q)
             N == Cardinality(S)
  <1>1. /\ S \in SUBSET (Nat \X (0..U64 - 1)) /\ S \in SUBSET (Nat \X Nat)
        /\ IsFiniteSet(S) /\ \A sp \in S : sp[1] <= sp[2]
        /\ U64 \in Nat \ {0}
    BY SpansFacts
  <1>2. coalesce_terms(row, x)
          = [i \in DOMAIN m |-> [start |-> m[i][1], last |-> (m[i][2] - 1) % U64]]
    BY DEF coalesce_terms
  <1> HIDE DEF S
  <1>3. q \in [1..N -> S] /\ IsSort(q, S) /\ N \in Nat
    BY <1>1, SortedFacts
  <1>4. /\ \A sp \in S : \E k \in 1..N : q[k] = sp
        /\ \A k \in 1..N : q[k] \in S
        /\ \A i, j \in 1..N : i < j => Before(q[i], q[j])
    BY <1>3 DEF IsSort
  <1> HIDE DEF q, N
  <1>5. q \in [1..N -> Nat \X Nat]
    BY <1>1, <1>3
  <1>6. Ordered(q)
    <2>1. DOMAIN q = 1..N
      BY <1>3
    <2>2. ASSUME NEW i \in 1..N, NEW j \in 1..N, i < j PROVE q[i][1] <= q[j][1]
      <3>1. Before(q[i], q[j])
        BY <1>4, <2>2
      <3>2. q[i][1] \in Nat /\ q[j][1] \in Nat
        BY <1>5
      <3> QED BY <3>1, <3>2 DEF Before
    <2>3. \A i \in 1..N : q[i][1] <= q[i][2]
      BY <1>1, <1>4
    <2> QED BY <2>1, <2>2, <2>3 DEF Ordered
  <1>7. m \in SpanSeq /\ Covers(q, N, m)
    BY <1>3, <1>5, <1>6, MergeFacts
  <1> HIDE DEF m
  <1>8. Cover(S, m)
    <2>1. ASSUME NEW sp \in S
          PROVE  \E i \in DOMAIN m : m[i][1] <= sp[1] /\ sp[2] <= m[i][2]
      <3>1. PICK k \in 1..N : q[k] = sp
        BY <1>4
      <3> QED BY <1>7, <3>1 DEF Covers
    <2>2. ASSUME NEW i \in DOMAIN m, NEW byte \in m[i][1]..(m[i][2] - 1)
          PROVE  \E sp \in S : sp[1] <= byte /\ byte < sp[2]
      <3>1. PICK k \in 1..N : q[k][1] <= byte /\ byte < q[k][2]
        BY <1>7 DEF Covers
      <3> QED BY <1>4, <3>1
    <2>3. ASSUME NEW i \in DOMAIN m
          PROVE  \E sp \in S : m[i][1] = sp[1] /\ sp[2] <= m[i][2]
      <3>1. PICK k \in 1..N : m[i][1] = q[k][1] /\ q[k][2] <= m[i][2]
        BY <1>7 DEF Covers
      <3> QED BY <1>4, <3>1
    <2>4. ASSUME NEW i \in DOMAIN m
          PROVE  \E sp \in S : m[i][2] = sp[2] /\ m[i][1] <= sp[1]
      <3>1. PICK k \in 1..N : m[i][2] = q[k][2] /\ m[i][1] <= q[k][1]
        BY <1>7 DEF Covers
      <3> QED BY <1>4, <3>1
    <2>5. \A i, j \in DOMAIN m : i < j => m[i][2] < m[j][1]
      BY <1>7 DEF Covers
    <2> QED BY <2>1, <2>2, <2>3, <2>4, <2>5 DEF Cover
  <1>9. ASSUME NEW i \in DOMAIN m
        PROVE  m[i][1] \in Nat /\ m[i][2] \in 0..U64 - 1 /\ m[i][1] <= m[i][2]
    <2>1. PICK sp \in S : m[i][1] = sp[1] /\ sp[2] <= m[i][2]
      BY <1>8 DEF Cover
    <2>2. PICK sq \in S : m[i][2] = sq[2]
      BY <1>8 DEF Cover
    <2>3. sp[1] \in Nat /\ sp[2] \in 0..U64 - 1 /\ sp[1] <= sp[2] /\ sq[2] \in 0..U64 - 1
      BY <1>1
    <2> QED BY <1>1, <2>1, <2>2, <2>3
  <1> QED BY <1>2, <1>7, <1>8, <1>9 DEF S

Grant == [start : Nat, last : 0..U64 - 1]

\* What a URL signs: ranges that are ordered, or empty with a wrapped end.
LEMMA GrantFacts ==
    ASSUME NEW row \in Seq(FitRows), NEW x
    PROVE  /\ coalesce_terms(row, x) \in Seq(Grant)
           /\ \A i \in DOMAIN coalesce_terms(row, x) :
                 LET g == coalesce_terms(row, x)[i] IN g.start <= g.last + 1
  <1> DEFINE brs == coalesce_terms(row, x)
  <1>1. PICK m \in SpanSeq :
           /\ brs = [i \in DOMAIN m |-> [start |-> m[i][1], last |-> (m[i][2] - 1) % U64]]
           /\ \A i \in DOMAIN m : /\ m[i][1] \in Nat /\ m[i][2] \in 0..U64 - 1
                                  /\ m[i][1] <= m[i][2]
    BY CoalesceFacts
  <1> HIDE DEF brs
  <1>2. U64 \in Nat \ {0}
    BY LengthsAssumption
  <1>3. Len(m) \in Nat /\ DOMAIN m = 1..Len(m)
    BY SpanSeqFacts
  <1>4. ASSUME NEW i \in DOMAIN m
        PROVE  LET last == (m[i][2] - 1) % U64 IN
               last \in 0..U64 - 1 /\ m[i][1] <= last + 1
    <2>1. m[i][1] \in Nat /\ m[i][2] \in 0..U64 - 1 /\ m[i][1] <= m[i][2]
      BY <1>1
    <2>2. CASE m[i][2] = 0
      <3>1. (-1) % U64 = U64 - 1
        BY <1>2, ModMinusOne
      <3>2. m[i][2] - 1 = -1
        BY <2>2
      <3>3. (m[i][2] - 1) % U64 = U64 - 1
        BY <3>1, <3>2
      <3> QED BY <1>2, <2>1, <2>2, <3>3
    <2>3. CASE m[i][2] # 0
      <3>1. m[i][2] - 1 \in 0..U64 - 1
        BY <1>2, <2>1, <2>3
      <3>2. (m[i][2] - 1) % U64 = m[i][2] - 1
        BY <1>2, <3>1, ModFacts
      <3> QED BY <1>2, <2>1, <3>1, <3>2
    <2> QED BY <2>2, <2>3
  <1>5. \A i \in DOMAIN m : brs[i] \in Grant /\ brs[i].start <= brs[i].last + 1
    <2>1. \A i \in DOMAIN m : brs[i] = [start |-> m[i][1], last |-> (m[i][2] - 1) % U64]
      BY <1>1
    <2> QED BY <1>1, <1>4, <2>1 DEF Grant
  <1>6. DOMAIN brs = DOMAIN m /\ brs \in Seq(Grant)
    BY <1>1, <1>3, <1>5
  <1> QED BY <1>5, <1>6 DEF brs

\* coalesce_terms_by_xorb returns the maximal runs of the bytes of its terms.
LEMMA RunsFacts ==
    ASSUME NEW row \in Seq(FitRows), NEW x, \A sp \in Spans(row, x) : sp[1] < sp[2]
    PROVE  LET bytes == UNION {sp[1] .. sp[2] - 1 : sp \in Spans(row, x)}
               runs  == {run \in bytes \X bytes :
                          /\ run[1] <= run[2] /\ run[1] .. run[2] \subseteq bytes
                          /\ run[1] - 1 \notin bytes /\ run[2] + 1 \notin bytes}
               brs   == coalesce_terms(row, x)
           IN  /\ {<<brs[i].start, brs[i].last>> : i \in DOMAIN brs} = runs
               /\ \A i, j \in DOMAIN brs : i < j => brs[i].start < brs[j].start
  <1> DEFINE S == Spans(row, x)
             bytes == UNION {sp[1] .. sp[2] - 1 : sp \in S}
             IsRun(run) == /\ run \in bytes \X bytes
                           /\ run[1] <= run[2] /\ run[1] .. run[2] \subseteq bytes
                           /\ run[1] - 1 \notin bytes /\ run[2] + 1 \notin bytes
             brs == coalesce_terms(row, x)
  <1>1. S \in SUBSET (Nat \X (0..U64 - 1)) /\ U64 \in Nat \ {0}
    BY SpansFacts
  <1>2. PICK m \in SpanSeq :
           /\ Cover(S, m)
           /\ brs = [i \in DOMAIN m |-> [start |-> m[i][1], last |-> (m[i][2] - 1) % U64]]
           /\ \A i \in DOMAIN m : /\ m[i][1] \in Nat /\ m[i][2] \in 0..U64 - 1
                                  /\ m[i][1] <= m[i][2]
    BY CoalesceFacts
  <1>3. /\ \A sp \in S : sp[1] \in Nat /\ sp[2] \in Nat /\ sp[1] < sp[2]
        /\ \A i \in DOMAIN m : m[i][1] \in Nat /\ m[i][2] \in Nat
    BY <1>1, <1>2
  <1>4. ASSUME NEW byte
        PROVE  byte \in bytes <=> \E sp \in S : byte \in Nat /\ sp[1] <= byte /\ byte < sp[2]
    BY <1>3
  <1> HIDE DEF S, bytes, brs
  \* The bytes are those of the merged ranges, which are not empty.
  <1>5. ASSUME NEW byte
        PROVE  byte \in bytes <=> \E i \in DOMAIN m : byte \in Nat /\ m[i][1] <= byte /\ byte < m[i][2]
    <2>1. ASSUME byte \in bytes
          PROVE  \E i \in DOMAIN m : byte \in Nat /\ m[i][1] <= byte /\ byte < m[i][2]
      <3>1. PICK sp \in S : byte \in Nat /\ sp[1] <= byte /\ byte < sp[2]
        BY <1>4, <2>1
      <3>2. PICK i \in DOMAIN m : m[i][1] <= sp[1] /\ sp[2] <= m[i][2]
        BY <1>2 DEF Cover
      <3>3. m[i][1] <= byte /\ byte < m[i][2]
        BY <1>3, <3>1, <3>2
      <3> QED BY <3>1, <3>3
    <2>2. ASSUME NEW i \in DOMAIN m, byte \in Nat, m[i][1] <= byte, byte < m[i][2]
          PROVE  byte \in bytes
      <3>1. byte \in m[i][1]..(m[i][2] - 1)
        BY <1>3, <2>2
      <3>2. \E sp \in S : sp[1] <= byte /\ byte < sp[2]
        BY <1>2, <3>1 DEF Cover
      <3> QED BY <1>4, <2>2, <3>2
    <2> QED BY <2>1, <2>2
  <1>6. ASSUME NEW i \in DOMAIN m
        PROVE  /\ m[i][1] < m[i][2]
               /\ brs[i].start = m[i][1] /\ brs[i].last = m[i][2] - 1
    <2>1. PICK sp \in S : m[i][1] = sp[1] /\ sp[2] <= m[i][2]
      BY <1>2 DEF Cover
    <2>2. m[i][1] < m[i][2]
      BY <1>3, <2>1
    <2>3. m[i][2] - 1 \in 0..U64 - 1
      BY <1>1, <1>2, <1>3, <2>2
    <2>4. (m[i][2] - 1) % U64 = m[i][2] - 1
      BY <1>1, <2>3, ModFacts
    <2>5. brs[i] = [start |-> m[i][1], last |-> (m[i][2] - 1) % U64]
      BY <1>2
    <2> QED BY <2>2, <2>4, <2>5
  <1>7. DOMAIN brs = DOMAIN m /\ DOMAIN m = 1..Len(m) /\ Len(m) \in Nat
    BY <1>2, SpanSeqFacts
  <1>8. \A i, j \in DOMAIN m : i < j => m[i][2] < m[j][1]
    BY <1>2 DEF Cover
  \* No byte next to a range is in another.
  <1>9. ASSUME NEW i \in DOMAIN m PROVE m[i][1] - 1 \notin bytes /\ m[i][2] \notin bytes
    <2>1. ASSUME NEW j \in DOMAIN m
          PROVE  ~(m[j][1] <= m[i][1] - 1 /\ m[i][1] - 1 < m[j][2])
      <3>1. m[j][1] \in Nat /\ m[j][2] \in Nat /\ m[i][1] \in Nat /\ m[i][2] \in Nat
        BY <1>3
      <3>2. i = j \/ i < j \/ j < i
        BY <1>7
      <3>3. CASE i = j
        BY <3>1, <3>3
      <3>4. CASE i < j
        BY <1>6, <1>8, <3>1, <3>4
      <3>5. CASE j < i
        BY <1>8, <3>1, <3>5
      <3> QED BY <3>2, <3>3, <3>4, <3>5
    <2>2. ASSUME NEW j \in DOMAIN m PROVE ~(m[j][1] <= m[i][2] /\ m[i][2] < m[j][2])
      <3>1. m[j][1] \in Nat /\ m[j][2] \in Nat /\ m[i][1] \in Nat /\ m[i][2] \in Nat
        BY <1>3
      <3>2. i = j \/ i < j \/ j < i
        BY <1>7
      <3>3. CASE i = j
        BY <3>1, <3>3
      <3>4. CASE i < j
        BY <1>8, <3>1, <3>4
      <3>5. CASE j < i
        BY <1>6, <1>8, <3>1, <3>5
      <3> QED BY <3>2, <3>3, <3>4, <3>5
    <2> QED BY <1>5, <2>1, <2>2
  <1>10. ASSUME NEW i \in DOMAIN m PROVE IsRun(<<m[i][1], m[i][2] - 1>>)
    <2>1. m[i][1] \in Nat /\ m[i][2] \in Nat /\ m[i][1] < m[i][2]
      BY <1>3, <1>6
    <2>2. ASSUME NEW byte \in m[i][1]..(m[i][2] - 1) PROVE byte \in bytes
      <3>1. byte \in Nat /\ m[i][1] <= byte /\ byte < m[i][2]
        BY <2>1
      <3> QED BY <1>5, <3>1
    <2>3. m[i][1] \in m[i][1]..(m[i][2] - 1) /\ m[i][2] - 1 \in m[i][1]..(m[i][2] - 1)
      BY <2>1
    <2>4. (m[i][2] - 1) + 1 = m[i][2] /\ m[i][1] <= m[i][2] - 1
      BY <2>1
    <2>5. m[i][1] \in bytes /\ m[i][2] - 1 \in bytes
      BY <2>2, <2>3
    <2>6. m[i][1]..(m[i][2] - 1) \subseteq bytes
      BY <2>2
    <2>7. m[i][1] - 1 \notin bytes /\ (m[i][2] - 1) + 1 \notin bytes
      BY <1>9, <2>4
    <2> QED BY <2>4, <2>5, <2>6, <2>7
  <1>11. ASSUME NEW run, IsRun(run)
         PROVE  \E i \in DOMAIN m : run = <<m[i][1], m[i][2] - 1>>
    <2>1. run = <<run[1], run[2]>> /\ run[1] \in bytes /\ run[2] \in bytes
      BY <1>11
    <2>2. run[1] \in Nat /\ run[2] \in Nat /\ run[1] <= run[2]
      BY <1>4, <1>11, <2>1
    <2>3. PICK i \in DOMAIN m : m[i][1] <= run[1] /\ run[1] < m[i][2]
      BY <1>5, <2>1
    <2>4. m[i][1] \in Nat /\ m[i][2] \in Nat
      BY <1>3
    <2>5. ASSUME run[1] # m[i][1] PROVE FALSE
      <3>1. run[1] - 1 \in Nat /\ m[i][1] <= run[1] - 1 /\ run[1] - 1 < m[i][2]
        BY <2>2, <2>3, <2>4, <2>5
      <3>2. run[1] - 1 \in bytes
        BY <1>5, <3>1
      <3> QED BY <1>11, <3>2
    <2>6. ASSUME run[2] >= m[i][2] PROVE FALSE
      <3>1. m[i][2] \in run[1]..run[2]
        BY <2>2, <2>3, <2>4, <2>6
      <3>2. m[i][2] \in bytes
        BY <1>11, <3>1
      <3> QED BY <1>9, <3>2
    <2>7. ASSUME run[2] < m[i][2] - 1 PROVE FALSE
      <3>1. run[2] + 1 \in Nat /\ m[i][1] <= run[2] + 1 /\ run[2] + 1 < m[i][2]
        BY <2>2, <2>3, <2>4, <2>7
      <3>2. run[2] + 1 \in bytes
        BY <1>5, <3>1
      <3> QED BY <1>11, <3>2
    <2>8. run[1] = m[i][1] /\ run[2] = m[i][2] - 1
      BY <2>2, <2>4, <2>5, <2>6, <2>7
    <2> QED BY <2>1, <2>8
  <1> DEFINE runs == {run \in bytes \X bytes :
                          /\ run[1] <= run[2] /\ run[1] .. run[2] \subseteq bytes
                          /\ run[1] - 1 \notin bytes /\ run[2] + 1 \notin bytes}
             ends == {<<brs[i].start, brs[i].last>> : i \in DOMAIN brs}
  <1>12. \A run : run \in runs <=> IsRun(run)
    OBVIOUS
  <1> HIDE DEF IsRun, runs
  <1>13. ends = runs
    <2>1. ASSUME NEW run \in ends PROVE run \in runs
      <3>1. PICK i \in DOMAIN m : run = <<m[i][1], m[i][2] - 1>>
        BY <1>6, <1>7
      <3> QED BY <1>10, <1>12, <3>1
    <2>2. ASSUME NEW run \in runs PROVE run \in ends
      <3>1. PICK i \in DOMAIN m : run = <<m[i][1], m[i][2] - 1>>
        BY <1>11, <1>12
      <3>2. run = <<brs[i].start, brs[i].last>> /\ i \in DOMAIN brs
        BY <1>6, <1>7, <3>1
      <3> QED BY <3>2
    <2> HIDE DEF ends
    <2> QED BY <2>1, <2>2
  <1>14. ASSUME NEW i \in DOMAIN brs, NEW j \in DOMAIN brs, i < j
         PROVE  brs[i].start < brs[j].start
    <2>1. i \in DOMAIN m /\ j \in DOMAIN m
      BY <1>7
    <2>2. m[i][1] < m[i][2] /\ m[i][2] < m[j][1]
      BY <1>6, <1>8, <1>14, <2>1
    <2>3. m[i][1] \in Nat /\ m[i][2] \in Nat /\ m[j][1] \in Nat
      BY <1>3, <2>1
    <2>4. m[i][1] < m[j][1]
      BY <2>2, <2>3
    <2> QED BY <1>6, <2>1, <2>4
  <1> QED BY <1>13, <1>14 DEF runs, ends, bytes, S, brs

\* build_response recovers the chunks of a merged range from its bytes: of a
\* xorb with known boundaries, the first chunk of the term that begins where
\* the range begins and the last one of the term that ends where it ends.
LEMMA EntryFacts ==
    ASSUME NEW row \in Seq(FitRows), NEW x \in Xorbs, x \notin Unindexed
    PROVE  LET info == FetchInfo(row, x) IN
           /\ \A i \in DOMAIN info :
                 Decodes(x, info[i].chunks,
                         <<info[i].bytes.start,
                           info[i].bytes.last - info[i].bytes.start + 1>>)
           /\ \A j \in DOMAIN row : row[j].xorb = x =>
                 Cardinality({i \in DOMAIN info :
                     /\ info[i].chunks[1] <= row[j].first
                     /\ row[j].last <= info[i].chunks[2]}) = 1
  <1> DEFINE S == Spans(row, x)
             brs == coalesce_terms(row, x)
             info == FetchInfo(row, x)
             B(k) == Offset(Stored, XorbChunks[x], k)
             K == Len(XorbChunks[x])
             J == {j \in DOMAIN row : row[j].xorb = x}
  <1>1. XorbChunks[x] \in Seq(Chunks) /\ K \in Nat /\ U64 \in Nat \ {0} /\ B(K) \in 0..U64 - 1
    BY XorbTypes DEF Length
  <1>2. /\ B(0) = 0 /\ \A k \in 0..K : B(k) \in Nat
        /\ \A k, l \in 0..K : k < l => B(k) < B(l)
        /\ \A k, l \in 0..K : k <= l <=> B(k) <= B(l)
    BY <1>1, OffsetFacts, OffsetOrder
  <1>3. ASSUME NEW j \in J
        PROVE  /\ row[j].first \in 0..K /\ row[j].last \in 0..K /\ row[j].first < row[j].last
               /\ row[j].bytes[1] = B(row[j].first) /\ row[j].bytes[2] = B(row[j].last)
               /\ row[j].bytes \in S
    <2>1. row[j] \in FitRows
      BY SeqFacts
    <2>2. Fits(row[j]) /\ InXorb(row[j]) /\ row[j].xorb = x
      BY <2>1, FitRowFacts
    <2>3. row[j].bytes = <<B(row[j].first), B(row[j].last)>>
      BY <2>2 DEF Fits
    <2>4. row[j].first \in 0..K /\ row[j].last \in 0..K /\ row[j].first < row[j].last
      BY <1>1, <2>2 DEF InXorb
    <2>5. row[j].bytes \in S
      BY DEF Spans
    <2> HIDE DEF B, S
    <2> QED BY <2>3, <2>4, <2>5
  <1>4. PICK m \in SpanSeq :
           /\ Cover(S, m)
           /\ brs = [i \in DOMAIN m |-> [start |-> m[i][1], last |-> (m[i][2] - 1) % U64]]
           /\ \A i \in DOMAIN m : /\ m[i][1] \in Nat /\ m[i][2] \in 0..U64 - 1
                                  /\ m[i][1] <= m[i][2]
    BY CoalesceFacts
  <1>5. \A sp \in S : \E j \in J : row[j].bytes = sp
    BY DEF Spans
  <1>6. info = [i \in DOMAIN brs |-> [bytes |-> brs[i], chunks |-> ChunkRange(row, x, brs[i])]]
    BY DEF FetchInfo
  <1>7. DOMAIN brs = DOMAIN m /\ DOMAIN info = DOMAIN m /\ DOMAIN m = 1..Len(m) /\ Len(m) \in Nat
    BY <1>4, <1>6, SpanSeqFacts
  <1> HIDE DEF S, brs, info, B, K, J
  \* One entry: its chunks and its bytes.
  <1>8. ASSUME NEW i \in DOMAIN m
        PROVE  \E lo, hi \in 0..K :
                  /\ lo < hi /\ m[i][1] = B(lo) /\ m[i][2] = B(hi)
                  /\ info[i].chunks = <<lo, hi>>
                  /\ info[i].bytes.start = m[i][1] /\ info[i].bytes.last = m[i][2] - 1
    <2>1. PICK j \in J : m[i][1] = row[j].bytes[1] /\ row[j].bytes[2] <= m[i][2]
      <3>1. PICK sp \in S : m[i][1] = sp[1] /\ sp[2] <= m[i][2]
        BY <1>4 DEF Cover
      <3> QED BY <1>5, <3>1
    <2>2. PICK l \in J : m[i][2] = row[l].bytes[2] /\ m[i][1] <= row[l].bytes[1]
      <3>1. PICK sp \in S : m[i][2] = sp[2] /\ m[i][1] <= sp[1]
        BY <1>4 DEF Cover
      <3> QED BY <1>5, <3>1
    <2> DEFINE lo == row[j].first
               hi == row[l].last
    <2>3. /\ lo \in 0..K /\ hi \in 0..K /\ m[i][1] = B(lo) /\ m[i][2] = B(hi)
          /\ row[j].last \in 0..K /\ lo < row[j].last /\ B(row[j].last) <= B(hi)
      BY <1>3, <2>1, <2>2
    <2>4. lo < hi
      <3>1. row[j].last <= hi
        BY <1>2, <2>3
      <3>2. lo \in Int /\ hi \in Int /\ row[j].last \in Int
        BY <1>1, <2>3
      <3> QED BY <2>3, <3>1, <3>2
    <2>5. m[i][1] \in Nat /\ m[i][2] \in 0..U64 - 1 /\ m[i][1] < m[i][2]
      BY <1>2, <1>4, <2>3, <2>4
    <2>6. /\ brs[i] = [start |-> m[i][1], last |-> (m[i][2] - 1) % U64]
          /\ info[i] = [bytes |-> brs[i], chunks |-> ChunkRange(row, x, brs[i])]
      BY <1>4, <1>6, <1>7
    <2>7. (m[i][2] - 1) % U64 = m[i][2] - 1 /\ ((m[i][2] - 1) + 1) % U64 = m[i][2]
      <3>1. m[i][2] - 1 \in 0..U64 - 1 /\ (m[i][2] - 1) + 1 = m[i][2]
        BY <1>1, <2>5
      <3> QED BY <1>1, <2>5, <3>1, ModFacts
    <2>8. brs[i].start = m[i][1] /\ brs[i].last = m[i][2] - 1 /\ (brs[i].last + 1) % U64 = m[i][2]
      BY <2>6, <2>7
    <2> DEFINE inside == {k \in DOMAIN row :
                  /\ row[k].xorb = x
                  /\ row[k].bytes[1] >= brs[i].start
                  /\ row[k].bytes[2] <= (brs[i].last + 1) % U64}
               firsts == {row[k].first : k \in inside}
               lasts == {row[k].last : k \in inside}
    <2>9. inside = {k \in J : B(row[k].first) >= B(lo) /\ B(row[k].last) <= B(hi)}
      <3>1. \A k \in J : row[k].bytes[1] = B(row[k].first) /\ row[k].bytes[2] = B(row[k].last)
        BY <1>3
      <3>2. brs[i].start = B(lo) /\ (brs[i].last + 1) % U64 = B(hi)
        BY <2>3, <2>8
      <3> HIDE DEF lo, hi
      <3> QED BY <3>1, <3>2 DEF J
    <2>10. ChunkRange(row, x, brs[i])
             = IF inside = {} THEN <<0, 0>> ELSE <<Min(firsts), Max(lasts)>>
      BY DEF ChunkRange
    <2> HIDE DEF inside
    <2>11. j \in inside /\ l \in inside
      <3>1. B(row[j].last) <= B(hi) /\ B(lo) >= B(lo)
        BY <1>2, <2>3
      <3>2. B(row[l].first) >= B(lo) /\ B(hi) <= B(hi)
        BY <1>2, <1>3, <2>2, <2>3
      <3> QED BY <2>9, <3>1, <3>2
    <2>12. \A k \in inside : row[k].first \in 0..K /\ row[k].last \in 0..K
                             /\ row[k].first >= lo /\ row[k].last <= hi
      <3>1. ASSUME NEW k \in inside
            PROVE  row[k].first \in 0..K /\ row[k].last \in 0..K
                   /\ row[k].first >= lo /\ row[k].last <= hi
        <4>1. k \in J /\ B(lo) <= B(row[k].first) /\ B(row[k].last) <= B(hi)
          <5>1. k \in J /\ B(row[k].first) >= B(lo) /\ B(row[k].last) <= B(hi)
            BY <2>9
          <5>2. B(row[k].first) \in Nat /\ B(lo) \in Nat
            BY <1>2, <1>3, <2>3, <5>1
          <5> QED BY <5>1, <5>2
        <4>2. row[k].first \in 0..K /\ row[k].last \in 0..K
          BY <1>3, <4>1
        <4>3. lo <= row[k].first /\ row[k].last <= hi
          <5> HIDE DEF lo, hi
          <5> QED BY <1>2, <2>3, <4>1, <4>2
        <4>4. lo \in Int /\ row[k].first \in Int
          BY <1>1, <2>3, <4>2
        <4> QED BY <4>2, <4>3, <4>4
      <3> QED BY <3>1
    <2>13. Min(firsts) = lo
      <3>1. firsts \in SUBSET Int /\ lo \in firsts /\ \A k \in firsts : lo <= k
        <4>1. 0..K \subseteq Int
          BY <1>1
        <4>2. lo \in firsts
          BY <2>11
        <4>3. ASSUME NEW k \in firsts PROVE k \in Int /\ lo <= k
          <5>1. k \in 0..K /\ k >= lo
            BY <2>12
          <5> QED BY <1>1, <2>3, <5>1
        <4> QED BY <4>2, <4>3
      <3> HIDE DEF firsts, lo
      <3> QED BY <3>1, MinIs
    <2>14. Max(lasts) = hi
      <3>1. lasts \in SUBSET Int /\ hi \in lasts /\ \A k \in lasts : hi >= k
        <4>2. hi \in lasts
          BY <2>11
        <4>3. ASSUME NEW k \in lasts PROVE k \in Int /\ hi >= k
          <5>1. k \in 0..K /\ k <= hi
            BY <2>12
          <5> QED BY <1>1, <2>3, <5>1
        <4> QED BY <4>2, <4>3
      <3> HIDE DEF lasts, hi
      <3> QED BY <3>1, MaxIs
    <2>15. info[i].chunks = <<lo, hi>>
      <3>1. inside # {}
        BY <2>11
      <3> HIDE DEF firsts, lasts, lo, hi
      <3> QED BY <2>6, <2>10, <2>13, <2>14, <3>1
    <2>16. info[i].bytes.start = m[i][1] /\ info[i].bytes.last = m[i][2] - 1
      BY <2>6, <2>8
    <2> HIDE DEF lo, hi
    <2> QED BY <2>3, <2>4, <2>15, <2>16
  <1>9. ASSUME NEW i \in DOMAIN info
        PROVE  Decodes(x, info[i].chunks,
                       <<info[i].bytes.start,
                         info[i].bytes.last - info[i].bytes.start + 1>>)
    <2>1. PICK lo, hi \in 0..K :
             /\ lo < hi /\ m[i][1] = B(lo) /\ m[i][2] = B(hi)
             /\ info[i].chunks = <<lo, hi>>
             /\ info[i].bytes.start = m[i][1] /\ info[i].bytes.last = m[i][2] - 1
      BY <1>7, <1>8
    <2>2. lo \in Nat /\ hi \in Nat /\ hi <= Len(XorbChunks[x])
      BY <1>1 DEF K
    <2>3. (IF lo = 0 THEN 0 ELSE Boundary(x, lo - 1)) = B(lo)
      <3>1. CASE lo = 0
        BY <1>2, <3>1
      <3>2. CASE lo # 0
        <4>1. (lo - 1) + 1 = lo
          BY <2>2
        <4> QED BY <3>2, <4>1 DEF Boundary, B
      <3> QED BY <3>1, <3>2
    <2>4. Boundary(x, hi - 1) = B(hi)
      <3>1. (hi - 1) + 1 = hi
        BY <2>2
      <3> QED BY <3>1 DEF Boundary, B
    <2>5. info[i].bytes.last - info[i].bytes.start + 1 = B(hi) - B(lo)
      <3>1. B(lo) \in Nat /\ B(hi) \in Nat
        BY <1>2
      <3>2. (B(hi) - 1) - B(lo) + 1 = B(hi) - B(lo)
        BY <3>1
      <3> QED BY <2>1, <3>2
    <2> QED BY <2>1, <2>2, <2>3, <2>4, <2>5 DEF Decodes
  <1>10. ASSUME NEW j \in DOMAIN row, row[j].xorb = x
         PROVE  Cardinality({i \in DOMAIN info :
                     /\ info[i].chunks[1] <= row[j].first
                     /\ row[j].last <= info[i].chunks[2]}) = 1
    <2> DEFINE E == {i \in DOMAIN info : /\ info[i].chunks[1] <= row[j].first
                                         /\ row[j].last <= info[i].chunks[2]}
               lo == row[j].bytes[1]
               hi == row[j].bytes[2]
    <2>1. j \in J
      BY <1>10 DEF J
    <2>2. /\ row[j].first \in 0..K /\ row[j].last \in 0..K /\ row[j].first < row[j].last
          /\ lo = B(row[j].first) /\ hi = B(row[j].last) /\ row[j].bytes \in S
      BY <1>3, <2>1
    <2>3. lo \in Nat /\ hi \in Nat /\ lo < hi
      BY <1>2, <2>2
    <2>4. ASSUME NEW i \in DOMAIN m PROVE i \in E <=> m[i][1] <= lo /\ hi <= m[i][2]
      <3>1. PICK p, q \in 0..K :
               m[i][1] = B(p) /\ m[i][2] = B(q) /\ info[i].chunks = <<p, q>>
        BY <1>8
      <3>2. p <= row[j].first <=> B(p) <= B(row[j].first)
        BY <1>2, <2>2
      <3>3. row[j].last <= q <=> B(row[j].last) <= B(q)
        BY <1>2, <2>2
      <3>4. i \in E <=> p <= row[j].first /\ row[j].last <= q
        BY <1>7, <3>1
      <3> HIDE DEF E
      <3> QED BY <2>2, <3>1, <3>2, <3>3, <3>4
    <2>5. PICK i \in DOMAIN m : m[i][1] <= lo /\ hi <= m[i][2]
      BY <1>4, <2>2 DEF Cover
    <2>6. ASSUME NEW k \in DOMAIN m, m[k][1] <= lo, hi <= m[k][2] PROVE k = i
      <3>1. /\ m[i][1] \in Nat /\ m[i][2] \in Nat /\ m[k][1] \in Nat /\ m[k][2] \in Nat
        BY <1>1, <1>4
      <3>2. i < k => m[i][2] < m[k][1]
        BY <1>4 DEF Cover
      <3>3. k < i => m[k][2] < m[i][1]
        BY <1>4 DEF Cover
      <3>4. ~(i < k)
        BY <2>3, <2>5, <2>6, <3>1, <3>2
      <3>5. ~(k < i)
        BY <2>3, <2>5, <2>6, <3>1, <3>3
      <3> QED BY <1>7, <3>4, <3>5
    <2>7. E = {i}
      <3>1. E \subseteq DOMAIN m
        BY <1>7
      <3> HIDE DEF E, lo, hi
      <3> QED BY <2>4, <2>5, <2>6, <3>1
    <2> QED BY <2>7, FS_Singleton
  <1> QED BY <1>9, <1>10 DEF info

-----------------------------------------------------------------------------
(***************************************************************************)
(* One range of an answer.                                                 *)
(***************************************************************************)

\* writeSingleRange and writeMultipartRanges send a part of the range they
\* were given that lies in the object, or nothing.
LEMMA BodyInside ==
    ASSUME NEW first \in Nat, NEW last \in 0..U64 - 1, first <= last + 1,
           NEW n \in 0..U64 - 1, Body(<<first, last>>, n)[2] > 0
    PROVE  /\ Body(<<first, last>>, n)[1] = first
           /\ Body(<<first, last>>, n)[2] \in Nat
           /\ first + Body(<<first, last>>, n)[2] - 1 <= last
           /\ first + Body(<<first, last>>, n)[2] <= n
  <1> DEFINE len == (last - first + 1) % U64
             rest == Max({n - first, 0})
             part == Body(<<first, last>>, n)
  <1>1. U64 \in Nat \ {0}
    BY LengthsAssumption
  <1>2. part[1] = first /\ part[2] = Min({len, rest})
    BY DEF Body
  <1>3. last - first + 1 \in 0..U64 /\ last - first + 1 \in Int
    BY <1>1
  <1>4. len \in Nat /\ len <= last - first + 1
    <2>1. CASE last - first + 1 = U64
      BY <1>1, <2>1, ModFacts
    <2>2. CASE last - first + 1 \in 0..U64 - 1
      BY <1>1, <2>2, ModFacts
    <2> QED BY <1>1, <1>3, <2>1, <2>2
  <1>5. rest = IF n - first >= 0 THEN n - first ELSE 0
    <2>1. n - first \in Int /\ 0 \in Int
      BY <1>1
    <2> QED BY <2>1, MinMaxFacts
  <1>6. rest \in Nat
    BY <1>5
  <1> HIDE DEF len, rest
  <1>7. part[2] = IF len <= rest THEN len ELSE rest
    BY <1>2, <1>4, <1>6, MinMaxFacts
  <1> HIDE DEF part
  <1>8. part[2] > 0
    BY DEF part
  <1>9. part[2] \in Nat /\ first + part[2] - 1 <= last /\ first + part[2] <= n
    BY <1>4, <1>5, <1>6, <1>7, <1>8
  <1> QED BY <1>2, <1>9 DEF part

\* ParseRange accepts only ranges that lie in the object.
LEMMA ParsedInside ==
    ASSUME NEW header \in Specs, NEW i \in DOMAIN header, NEW n \in 0..U64 - 1,
           ParseSpec(header[i], n) # <<>>
    PROVE  \E first, last \in 0..n - 1 :
              first <= last /\ ParseSpec(header[i], n) = <<first, last>>
  <1> DEFINE spec == header[i]
  <1>1. n \in Nat
    BY LengthsAssumption
  <1>2. \/ spec \in [form : {"full"}, s : Nat, e : Nat]
        \/ spec \in [form : {"open"}, s : Nat]
        \/ spec \in [form : {"suffix"}, n : Nat]
    BY SpecsAssumption
  <1> HIDE DEF spec
  <1>3. CASE spec \in [form : {"full"}, s : Nat, e : Nat]
    <2>1. /\ spec.form = "full" /\ spec.s \in Nat /\ spec.e \in Nat
      BY <1>3
    <2>2. ParseSpec(spec, n) = IF spec.s > spec.e \/ spec.e >= n THEN <<>> ELSE <<spec.s, spec.e>>
      BY <2>1 DEF ParseSpec
    <2>3. ~(spec.s > spec.e \/ spec.e >= n) /\ ParseSpec(spec, n) = <<spec.s, spec.e>>
      BY <2>2 DEF spec
    <2>4. spec.s \in 0..n - 1 /\ spec.e \in 0..n - 1 /\ spec.s <= spec.e
      BY <1>1, <2>1, <2>3
    <2> QED BY <2>3, <2>4 DEF spec
  <1>4. CASE spec \in [form : {"open"}, s : Nat]
    <2>1. spec.form = "open" /\ spec.s \in Nat
      BY <1>4
    <2>2. ParseSpec(spec, n) = IF spec.s >= n THEN <<>> ELSE <<spec.s, n - 1>>
      BY <2>1 DEF ParseSpec
    <2>3. ~(spec.s >= n) /\ ParseSpec(spec, n) = <<spec.s, n - 1>>
      BY <2>2 DEF spec
    <2>4. spec.s \in 0..n - 1 /\ n - 1 \in 0..n - 1 /\ spec.s <= n - 1
      BY <1>1, <2>1, <2>3
    <2> QED BY <2>3, <2>4 DEF spec
  <1>5. CASE spec \in [form : {"suffix"}, n : Nat]
    <2>1. spec.form = "suffix" /\ spec.n \in Nat
      BY <1>5
    <2>2. ParseSpec(spec, n) = IF spec.n = 0 \/ n = 0 THEN <<>>
                               ELSE <<n - Min({spec.n, n}), n - 1>>
      BY <2>1 DEF ParseSpec
    <2>3. spec.n # 0 /\ n # 0 /\ ParseSpec(spec, n) = <<n - Min({spec.n, n}), n - 1>>
      BY <2>2 DEF spec
    <2>4. Min({spec.n, n}) = IF spec.n <= n THEN spec.n ELSE n
      BY <1>1, <2>1, MinMaxFacts
    <2>5. n - Min({spec.n, n}) \in 0..n - 1 /\ n - 1 \in 0..n - 1 /\ n - Min({spec.n, n}) <= n - 1
      BY <1>1, <2>1, <2>3, <2>4
    <2> QED BY <2>3, <2>5 DEF spec
  <1> QED BY <1>2, <1>3, <1>4, <1>5

\* ServeXorb, with a Range header or without one.
LEMMA ServedInside ==
    ASSUME NEW x \in Xorbs, NEW grants \in Seq(Grant), NEW header \in Specs \cup {<<>>},
           \A j \in DOMAIN grants : grants[j].start <= grants[j].last + 1,
           ServeXorb(x, grants, header) # NULL,
           NEW i \in DOMAIN ServeXorb(x, grants, header),
           ServeXorb(x, grants, header)[i][2] > 0
    PROVE  LET part == ServeXorb(x, grants, header)[i] IN
           /\ \E j \in DOMAIN grants :
                 /\ grants[j].start <= part[1]
                 /\ part[1] + part[2] - 1 <= grants[j].last
           /\ part[1] + part[2] <= Length(Stored, XorbChunks[x])
  <1> DEFINE n == Length(Stored, XorbChunks[x])
             asked == ParseRange(header, n)
             given == [j \in DOMAIN grants |-> <<grants[j].start, grants[j].last>>]
             ranges == IF header = <<>> THEN given ELSE asked
             parts == ServeXorb(x, grants, header)
  <1>1. n \in 0..U64 - 1 /\ U64 \in Nat \ {0}
    BY LengthsAssumption
  <1>2. /\ ~(\E j \in DOMAIN asked : asked[j] = <<>>)
        /\ ~(header # <<>> /\ ~allRangesWithinAny(asked, grants))
        /\ parts = [j \in DOMAIN ranges |-> Body(ranges[j], n)]
    BY DEF ServeXorb
  <1> HIDE DEF n, parts
  <1>3. i \in DOMAIN ranges /\ parts[i] = Body(ranges[i], n) /\ parts[i][2] > 0
    <2>1. parts[i][2] > 0 /\ i \in DOMAIN parts
      BY DEF parts
    <2> HIDE DEF ranges
    <2> QED BY <1>2, <2>1
  <1>4. ASSUME NEW first \in Nat, NEW last \in 0..U64 - 1, first <= last + 1,
               ranges[i] = <<first, last>>,
               NEW j \in DOMAIN grants, grants[j].start <= first, last <= grants[j].last
        PROVE  /\ grants[j].start <= parts[i][1]
               /\ parts[i][1] + parts[i][2] - 1 <= grants[j].last
               /\ parts[i][1] + parts[i][2] <= n
    <2>1. grants[j] \in Grant
      OBVIOUS
    <2>2. grants[j].start \in Nat /\ grants[j].last \in 0..U64 - 1
      BY <2>1 DEF Grant
    <2>3. parts[i] = Body(<<first, last>>, n)
      BY <1>3, <1>4
    <2>4. /\ parts[i][1] = first /\ parts[i][2] \in Nat
          /\ first + parts[i][2] - 1 <= last /\ first + parts[i][2] <= n
      BY <1>1, <1>3, <1>4, <2>3, BodyInside
    <2> HIDE DEF ranges
    <2>5. grants[j].start <= parts[i][1] /\ parts[i][1] + parts[i][2] <= n
      BY <1>4, <2>4
    <2>6. parts[i][1] + parts[i][2] - 1 <= last /\ last <= grants[j].last
      BY <1>4, <2>4
    <2>7. parts[i][1] + parts[i][2] - 1 \in Int /\ last \in Int /\ grants[j].last \in Int
      <3>1. parts[i][1] \in Nat /\ parts[i][2] \in Nat
        BY <2>4
      <3>2. last \in Int /\ grants[j].last \in Int
        BY <1>1, <2>2
      <3> QED BY <3>1, <3>2
    <2> QED BY <2>5, <2>6, <2>7
  <1>5. CASE header = <<>>
    <2>1. i \in DOMAIN grants /\ ranges[i] = <<grants[i].start, grants[i].last>>
      BY <1>3, <1>5
    <2>2. grants[i] \in Grant
      BY <2>1
    <2>3. grants[i].start \in Nat /\ grants[i].last \in 0..U64 - 1
      BY <2>2 DEF Grant
    <2>4. grants[i].start <= grants[i].start /\ grants[i].last <= grants[i].last
      BY <1>1, <2>3
    <2> QED BY <1>4, <2>1, <2>3, <2>4 DEF n, parts
  <1>6. CASE header # <<>>
    <2>1. i \in DOMAIN header /\ ranges[i] = ParseSpec(header[i], n) /\ asked[i] = ranges[i]
      BY <1>3, <1>6 DEF ParseRange
    <2>2. ranges[i] # <<>>
      BY <1>2, <2>1 DEF ParseRange
    <2> HIDE DEF ranges
    <2>3. PICK first, last \in 0..n - 1 : first <= last /\ ranges[i] = <<first, last>>
      <3>1. header \in Specs
        BY <1>6
      <3>2. ParseSpec(header[i], n) # <<>>
        BY <2>1, <2>2
      <3>3. \E first, last \in 0..n - 1 :
               first <= last /\ ParseSpec(header[i], n) = <<first, last>>
        BY <1>1, <2>1, <3>1, <3>2, ParsedInside
      <3> QED BY <2>1, <3>3
    <2>4. PICK j \in DOMAIN grants :
             ranges[i][1] >= grants[j].start /\ ranges[i][2] <= grants[j].last
      BY <1>2, <1>6, <2>1 DEF allRangesWithinAny, ParseRange
    <2>5. /\ first \in Nat /\ last \in 0..U64 - 1 /\ first <= last + 1
          /\ grants[j].start <= first /\ last <= grants[j].last
      <3>1. grants[j] \in Grant
        OBVIOUS
      <3>2. grants[j].start \in Nat /\ grants[j].last \in 0..U64 - 1
        BY <3>1 DEF Grant
      <3>3. ranges[i][1] = first /\ ranges[i][2] = last
        BY <2>3
      <3>4. first \in Nat /\ last \in 0..U64 - 1 /\ first <= last + 1
        BY <1>1, <2>3
      <3> QED BY <2>4, <3>2, <3>3, <3>4
    <2> QED BY <1>4, <2>3, <2>5 DEF n, parts
  <1> QED BY <1>5, <1>6

-----------------------------------------------------------------------------
(***************************************************************************)
(* The inductive invariant.                                                *)
(***************************************************************************)

PinType == pin \in [Xorbs -> {"absent", "pinning", "pinned", "orphaned"}]

\* A file's rows fit their xorbs; those of the shard that recorded its size
\* come first, whatever other shards added behind them.
FileInv(f) ==
    /\ terms[f] \in Seq(FitRows)
    /\ size[f] = NULL => terms[f] = <<>>
    /\ size[f] # NULL =>
         \E s \in Shards :
            /\ f \in DOMAIN Segments[s]
            /\ IsPrefix(ParsedTerms(s, f), terms[f])
            /\ size[f] = UnpackedSize(ParsedTerms(s, f))

TablesInv ==
    /\ shards \subseteq Shards
    /\ size = [f \in Files |-> size[f]] /\ terms = [f \in Files |-> terms[f]]
    /\ \A f \in Files : FileInv(f)

Fields == {"pc", "api", "file", "start", "row", "todo", "got", "data"}

\* A client's answer is made of rows that fit and of ordered grants; what it
\* rebuilt is the content of its rows, or for the bridge the file itself.
ClientInv(cl) ==
    /\ DOMAIN cl = Fields
    /\ cl.pc \in {"idle", "fetch", "done", "failed", "eof"}
    /\ cl.row \in Seq(FitRows)
    /\ cl.pc = "fetch" => cl.row # <<>> /\ cl.api # "bridge"
    /\ cl.pc \in {"fetch", "done"} => cl.file \in Files
    /\ cl.pc = "done" /\ cl.api # "bridge" => cl.data = Content(cl.row)
    /\ cl.pc = "done" /\ cl.api = "bridge" => cl.data = FileChunks[cl.file]
    /\ \A u \in cl.todo :
        /\ u \in Xorbs \X Seq(Grant)
        /\ \A i \in DOMAIN u[2] : u[2][i].start <= u[2][i].last + 1

IInv ==
    /\ PinType
    /\ TablesInv
    /\ DOMAIN dl = Clients /\ \A c \in Clients : ClientInv(dl[c])

LEMMA PrefixTrans ==
    ASSUME NEW S, NEW p \in Seq(S), NEW q \in Seq(S), NEW r \in Seq(S),
           IsPrefix(p, q), IsPrefix(q, r)
    PROVE  IsPrefix(p, r)
  <1>1. Len(p) <= Len(q) /\ \A i \in 1..Len(p) : p[i] = q[i]
    BY PrefixFacts
  <1>2. Len(q) <= Len(r) /\ \A i \in 1..Len(q) : q[i] = r[i]
    BY PrefixFacts
  <1>3. Len(p) <= Len(r) /\ \A i \in 1..Len(p) : p[i] = r[i]
    <2>1. Len(p) \in Nat /\ Len(q) \in Nat /\ Len(r) \in Nat
      BY SeqFacts
    <2>2. \A i \in 1..Len(p) : i \in 1..Len(q)
      BY <1>1, <2>1
    <2> QED BY <1>1, <1>2, <2>1, <2>2
  <1> QED BY <1>3, PrefixFacts

\* ON CONFLICT DO NOTHING keeps the rows there are.
LEMMA MergedFacts ==
    ASSUME NEW S, NEW old \in Seq(S), NEW new \in Seq(S)
    PROVE  /\ Merged(old, new) \in Seq(S)
           /\ IsPrefix(old, Merged(old, new))
           /\ old = <<>> => Merged(old, new) = new
  <1> DEFINE K == Max({Len(old), Len(new)})
             r == Merged(old, new)
  <1>1. Len(old) \in Nat /\ Len(new) \in Nat
    OBVIOUS
  <1>2. K = IF Len(old) >= Len(new) THEN Len(old) ELSE Len(new)
    <2>1. Len(old) \in Int /\ Len(new) \in Int
      BY <1>1
    <2> QED BY <2>1, MinMaxFacts
  <1>3. r = [i \in 1..K |-> IF i <= Len(old) THEN old[i] ELSE new[i]]
    BY DEF Merged
  <1> HIDE DEF K
  <1>4. K \in Nat /\ Len(old) <= K
    BY <1>1, <1>2
  <1>5. ASSUME NEW i \in 1..K PROVE r[i] \in S
    <2>1. CASE i <= Len(old)
      <3>1. i \in 1..Len(old)
        BY <1>4, <2>1
      <3> QED BY <1>3, <2>1, <3>1, SeqFacts
    <2>2. CASE ~(i <= Len(old))
      <3>1. i \in 1..Len(new)
        BY <1>1, <1>2, <2>2
      <3> QED BY <1>3, <2>2, <3>1, SeqFacts
    <2> QED BY <2>1, <2>2
  <1>6. r \in Seq(S) /\ Len(r) = K
    BY <1>3, <1>4, <1>5
  <1>7. \A i \in 1..Len(old) : old[i] = r[i]
    BY <1>1, <1>3, <1>4
  <1>8. old = <<>> => r = new
    <2> SUFFICES ASSUME old = <<>> PROVE r = new
      OBVIOUS
    <2>1. Len(old) = 0 /\ K = Len(new)
      BY <1>1, <1>2
    <2>2. r = [i \in 1..Len(new) |-> new[i]]
      BY <1>3, <2>1
    <2> QED BY <2>2
  <1> HIDE DEF r
  <1>9. IsPrefix(old, r)
    BY <1>4, <1>6, <1>7, PrefixFacts
  <1> QED BY <1>6, <1>8, <1>9 DEF r

\* A file stays recorded as one shard described it when a shard is uploaded.
LEMMA UploadFile ==
    ASSUME NEW s \in Shards, TablesInv, UploadShard(s), NEW f \in Files
    PROVE  FileInv(f)'
  <1> DEFINE parsed == ParsedTerms(s, f)
  <1>1. /\ size'[f] = IF s \notin shards /\ f \in DOMAIN Segments[s] /\ size[f] = NULL
                      THEN UnpackedSize(parsed) ELSE size[f]
        /\ terms'[f] = IF s \notin shards /\ f \in DOMAIN Segments[s]
                       THEN Merged(terms[f], parsed) ELSE terms[f]
    BY DEF UploadShard
  <1>2. FileInv(f)
    BY DEF TablesInv
  <1>3. CASE ~(s \notin shards /\ f \in DOMAIN Segments[s])
    <2>1. size'[f] = size[f] /\ terms'[f] = terms[f]
      BY <1>1, <1>3
    <2> QED BY <1>2, <2>1 DEF FileInv
  <1>4. CASE s \notin shards /\ f \in DOMAIN Segments[s]
    <2>1. parsed \in Seq(FitRows) /\ terms[f] \in Seq(FitRows)
      BY <1>2, <1>4, ParsedFacts DEF FileInv
    <2>2. UnpackedSize(parsed) \in Nat /\ NULL \notin Nat
      BY <2>1, ContentLength, LengthsAssumption
    <2>3. /\ terms'[f] = Merged(terms[f], parsed)
          /\ size'[f] = IF size[f] = NULL THEN UnpackedSize(parsed) ELSE size[f]
      BY <1>1, <1>4
    <2> HIDE DEF parsed
    <2>4. /\ terms'[f] \in Seq(FitRows) /\ IsPrefix(terms[f], terms'[f])
          /\ terms[f] = <<>> => terms'[f] = parsed
      BY <2>1, <2>3, MergedFacts
    <2>5. CASE size[f] = NULL
      <3>1. terms'[f] = parsed /\ size'[f] = UnpackedSize(parsed) /\ size'[f] # NULL
        BY <1>2, <2>2, <2>3, <2>4, <2>5 DEF FileInv
      <3>2. IsPrefix(parsed, terms'[f])
        BY <2>1, <3>1, PrefixFacts
      <3> QED BY <1>4, <2>4, <3>1, <3>2 DEF FileInv, parsed
    <2>6. CASE size[f] # NULL
      <3>1. PICK r \in Shards :
               /\ f \in DOMAIN Segments[r] /\ IsPrefix(ParsedTerms(r, f), terms[f])
               /\ size[f] = UnpackedSize(ParsedTerms(r, f))
        BY <1>2, <2>6 DEF FileInv
      <3>2. ParsedTerms(r, f) \in Seq(FitRows)
        BY <3>1, ParsedFacts
      <3>3. IsPrefix(ParsedTerms(r, f), terms'[f])
        BY <2>1, <2>4, <3>1, <3>2, PrefixTrans
      <3>4. size'[f] = size[f]
        BY <2>3, <2>6
      <3> QED BY <2>4, <2>6, <3>1, <3>3, <3>4 DEF FileInv
    <2> QED BY <2>5, <2>6
  <1> QED BY <1>3, <1>4

\* Rows that begin the file's rows and add up to its size are its content.
LEMMA RowsAreTheFile ==
    ASSUME NEW f \in Files, FileInv(f), NEW row \in Seq(FitRows),
           IsPrefix(row, terms[f]), size[f] # NULL, UnpackedSize(row) = size[f]
    PROVE  Content(row) = FileChunks[f]
  <1>1. PICK s \in Shards : /\ f \in DOMAIN Segments[s]
                            /\ IsPrefix(ParsedTerms(s, f), terms[f])
                            /\ size[f] = UnpackedSize(ParsedTerms(s, f))
    BY DEF FileInv
  <1>2. /\ ParsedTerms(s, f) \in Seq(FitRows)
        /\ Content(ParsedTerms(s, f)) = FileChunks[f]
        /\ terms[f] \in Seq(FitRows)
    BY <1>1, ParsedFacts DEF FileInv
  <1>3. row = ParsedTerms(s, f)
    BY <1>1, <1>2, PrefixOfSize
  <1> QED BY <1>2, <1>3

\* The bridge's size check lets nothing but the file through.
LEMMA BridgeServesTheFile ==
    ASSUME NEW f \in Files, FileInv(f), xet_file_serve(f) # NULL
    PROVE  xet_file_serve(f) = FileChunks[f]
  <1> DEFINE out == Content(terms[f])
             refused == \/ size[f] = NULL \/ terms[f] = <<>>
                        \/ \E i \in DOMAIN terms[f] : pin[terms[f][i].xorb] # "pinned"
                        \/ Length(Unpacked, out) # size[f]
  <1>1. /\ xet_file_serve(f) = Content(terms[f]) /\ size[f] # NULL
        /\ Length(Unpacked, Content(terms[f])) = size[f]
    <2>1. xet_file_serve(f) = IF refused THEN NULL ELSE out
      BY DEF xet_file_serve
    <2>2. ~refused
      <3> HIDE DEF refused, out
      <3> QED BY <2>1
    <2>3. xet_file_serve(f) = out
      <3> HIDE DEF refused, out
      <3> QED BY <2>1, <2>2
    <2>4. size[f] # NULL /\ Length(Unpacked, out) = size[f]
      <3> HIDE DEF out
      <3> QED BY <2>2
    <2> QED BY <2>3, <2>4
  <1>2. terms[f] \in Seq(FitRows)
    BY DEF FileInv
  <1>3. UnpackedSize(terms[f]) = size[f]
    BY <1>1, <1>2, ContentLength
  <1>4. IsPrefix(terms[f], terms[f])
    BY <1>2, PrefixFacts
  <1> QED BY <1>1, <1>2, <1>3, <1>4, RowsAreTheFile

\* What a query returns to a client.
LEMMA AnswerFacts ==
    ASSUME TablesInv, NEW c \in Clients, NEW api \in {"v1", "v2"}, NEW f \in Files,
           NEW start, get_reconstruction(f) # <<>>, DOMAIN dl = Clients,
           Answered(c, api, f, start)
    PROVE  /\ ClientInv(dl'[c]) /\ DOMAIN dl' = Clients
           /\ \A k \in Clients : k # c => dl'[k] = dl[k]
  <1> DEFINE row == get_reconstruction(f)
             todo == UNION {{x} \X Urls(api, row, x) : x \in Touched(row)}
             v == [IdleClient EXCEPT !.pc = "fetch", !.api = api, !.file = f,
                                     !.start = start, !.row = row, !.todo = todo]
  <1>1. row \in Seq(FitRows)
    BY KeptFacts DEF TablesInv, FileInv
  <1>2. dl' = [dl EXCEPT ![c] = v]
    BY DEF Answered
  <1> HIDE DEF row
  <1>3. ASSUME NEW u \in todo
        PROVE  /\ u \in Xorbs \X Seq(Grant)
               /\ \A i \in DOMAIN u[2] : u[2][i].start <= u[2][i].last + 1
    <2>1. PICK x \in Touched(row) : u \in {x} \X Urls(api, row, x)
      OBVIOUS
    <2>2. PICK grants \in Urls(api, row, x) : u = <<x, grants>>
      BY <2>1
    <2>3. x \in Xorbs
      <3>1. PICK i \in DOMAIN row : row[i].xorb = x
        BY DEF Touched
      <3>2. row[i] \in FitRows
        BY <1>1, SeqFacts
      <3> QED BY <3>1, <3>2, FitRowFacts
    <2> DEFINE brs == coalesce_terms(row, x)
    <2>4. brs \in Seq(Grant) /\ \A i \in DOMAIN brs : brs[i].start <= brs[i].last + 1
      BY <1>1, GrantFacts
    <2>5. grants = brs \/ \E i \in DOMAIN brs : grants = <<brs[i]>>
      BY DEF Urls
    <2> HIDE DEF brs
    <2>6. CASE grants = brs
      BY <2>2, <2>3, <2>4, <2>6
    <2>7. ASSUME NEW i \in DOMAIN brs, grants = <<brs[i]>>
          PROVE  /\ u \in Xorbs \X Seq(Grant)
                 /\ \A k \in DOMAIN u[2] : u[2][k].start <= u[2][k].last + 1
      <3>1. brs[i] \in Grant /\ brs[i].start <= brs[i].last + 1
        BY <2>4, SeqFacts
      <3>2. <<brs[i]>> \in Seq(Grant) /\ \A k \in DOMAIN <<brs[i]>> : <<brs[i]>>[k] = brs[i]
        BY <3>1
      <3>3. u[2] = <<brs[i]>> /\ u \in Xorbs \X Seq(Grant)
        BY <2>2, <2>3, <2>7, <3>2
      <3> QED BY <3>1, <3>2, <3>3
    <2> QED BY <2>5, <2>6, <2>7
  <1> HIDE DEF todo
  <1>4. /\ DOMAIN v = Fields /\ v.pc = "fetch" /\ v.api = api /\ v.file = f
        /\ v.row = row /\ v.todo = todo
    BY DEF IdleClient, Fields
  <1>5. row # <<>>
    BY DEF row
  <1> HIDE DEF v
  <1>6. ClientInv(v)
    BY <1>1, <1>3, <1>4, <1>5 DEF ClientInv
  <1> QED BY <1>2, <1>6

-----------------------------------------------------------------------------
(***************************************************************************)
(* The steps.                                                              *)
(***************************************************************************)

LEMMA IdleFacts ==
    /\ ClientInv(IdleClient)
    /\ \A f : \A start : ClientInv([IdleClient EXCEPT !.pc = "eof", !.file = f, !.start = start])
    /\ ClientInv([IdleClient EXCEPT !.pc = "failed"])
  <1>1. <<>> \in Seq(FitRows)
    OBVIOUS
  <1> QED BY <1>1 DEF IdleClient, ClientInv, Fields

LEMMA InitIInv == Init => IInv
  <1> SUFFICES ASSUME Init PROVE IInv
    OBVIOUS
  <1>1. PinType
    BY DEF Init, PinType
  <1>2. \A f \in Files : FileInv(f)
    <2>1. <<>> \in Seq(FitRows)
      OBVIOUS
    <2>2. ASSUME NEW f \in Files PROVE terms[f] = <<>> /\ size[f] = NULL
      BY DEF Init
    <2> QED BY <2>1, <2>2 DEF FileInv
  <1>3. TablesInv
    BY <1>2 DEF Init, TablesInv
  <1>4. DOMAIN dl = Clients /\ \A c \in Clients : ClientInv(dl[c])
    BY IdleFacts DEF Init
  <1> QED BY <1>1, <1>3, <1>4 DEF IInv

LEMMA TablesUntouched ==
    ASSUME TablesInv, UNCHANGED <<shards, size, terms>>
    PROVE  TablesInv'
  BY DEF TablesInv, FileInv

\* A step of one client.
LEMMA OneClient ==
    ASSUME IInv, UNCHANGED <<pin, shards, size, terms>>, NEW c \in Clients,
           DOMAIN dl' = Clients, ClientInv(dl'[c]),
           \A k \in Clients : k # c => dl'[k] = dl[k]
    PROVE  IInv'
  <1>1. PinType' /\ TablesInv'
    BY TablesUntouched DEF IInv, PinType
  <1>2. \A k \in Clients : ClientInv(dl'[k])
    BY DEF IInv
  <1> QED BY <1>1, <1>2 DEF IInv

\* The same, for a step that replaces the client's record.
LEMMA ClientReplaced ==
    ASSUME IInv, UNCHANGED <<pin, shards, size, terms>>, NEW c \in Clients, NEW v,
           ClientInv(v), dl' = [dl EXCEPT ![c] = v]
    PROVE  IInv'
  <1>1. DOMAIN dl = Clients
    BY DEF IInv
  <1>2. DOMAIN dl' = Clients /\ dl'[c] = v /\ \A k \in Clients : k # c => dl'[k] = dl[k]
    BY <1>1
  <1> QED BY <1>2, OneClient

LEMMA UploadIInv ==
    ASSUME IInv, NEW s \in Shards, UploadShard(s)
    PROVE  IInv'
  <1>1. PinType'
    BY DEF IInv, PinType, UploadShard, Revived
  <1>2. \A f \in Files : FileInv(f)'
    BY UploadFile DEF IInv
  <1>3. /\ shards' \subseteq Shards
        /\ size' = [f \in Files |-> size'[f]] /\ terms' = [f \in Files |-> terms'[f]]
    <2>1. shards' \subseteq Shards
      BY DEF IInv, TablesInv, UploadShard
    <2>2. size' = [f \in Files |-> size'[f]]
      BY DEF UploadShard
    <2>3. terms' = [f \in Files |-> terms'[f]]
      BY DEF UploadShard
    <2> QED BY <2>1, <2>2, <2>3
  <1>4. TablesInv'
    BY <1>2, <1>3 DEF TablesInv
  <1>5. dl' = dl
    BY DEF UploadShard
  <1> QED BY <1>1, <1>4, <1>5 DEF IInv

LEMMA PinIInv ==
    ASSUME IInv, PinType', UNCHANGED <<shards, size, terms, dl>>
    PROVE  IInv'
  BY TablesUntouched DEF IInv

LEMMA FetchIInv ==
    ASSUME IInv, NEW c \in Clients, Fetch(c)
    PROVE  IInv'
  <1>1. /\ dl[c].pc = "fetch" /\ UNCHANGED <<pin, shards, size, terms>>
        /\ ClientInv(dl[c]) /\ DOMAIN dl = Clients
    BY DEF Fetch, IInv
  <1>2. CASE Fail(c)
    BY <1>1, <1>2, IdleFacts, ClientReplaced DEF Fail
  <1>3. ASSUME NEW u, NEW got,
               dl' = [dl EXCEPT ![c].todo = @ \ {u}, ![c].got = got]
        PROVE  IInv'
    <2>1. /\ DOMAIN dl' = Clients /\ \A k \in Clients : k # c => dl'[k] = dl[k]
          /\ dl'[c] = [dl[c] EXCEPT !.todo = dl[c].todo \ {u}, !.got = got]
      BY <1>1, <1>3
    <2> DEFINE v == dl'[c]
    <2>2. DOMAIN dl[c] = Fields
      BY <1>1 DEF ClientInv
    <2>3. /\ DOMAIN v = Fields /\ v.pc = dl[c].pc /\ v.api = dl[c].api
          /\ v.file = dl[c].file /\ v.row = dl[c].row /\ v.data = dl[c].data
          /\ v.todo = dl[c].todo \ {u}
      BY <2>1, <2>2 DEF Fields
    <2> HIDE DEF v
    <2>4. ClientInv(v)
      BY <1>1, <2>3 DEF ClientInv
    <2> QED BY <1>1, <2>1, <2>4, OneClient DEF v
  <1>4. PICK u \in dl[c].todo, named \in BOOLEAN :
           LET parts == ServeXorb(u[1], u[2], IF named THEN Exactly(u[2]) ELSE <<>>)
           IN  IF parts = NULL THEN Fail(c)
               ELSE dl' = [dl EXCEPT ![c].todo = @ \ {u},
                              ![c].got = @ \cup {<<u[1], u[2][i], parts[i]>> :
                                                   i \in DOMAIN u[2]}]
    BY DEF Fetch
  <1> DEFINE parts == ServeXorb(u[1], u[2], IF named THEN Exactly(u[2]) ELSE <<>>)
             got == dl[c].got \cup {<<u[1], u[2][i], parts[i]>> : i \in DOMAIN u[2]}
  <1>5. Fail(c) \/ dl' = [dl EXCEPT ![c].todo = @ \ {u}, ![c].got = got]
    <2> HIDE DEF parts
    <2> QED BY <1>4 DEF parts
  <1> HIDE DEF got
  <1> QED BY <1>2, <1>3, <1>5

LEMMA AssembleIInv ==
    ASSUME IInv, NEW c \in Clients, Assemble(c)
    PROVE  IInv'
  <1>1. /\ dl[c].pc = "fetch" /\ UNCHANGED <<pin, shards, size, terms>>
        /\ ClientInv(dl[c]) /\ DOMAIN dl = Clients
    BY DEF Assemble, IInv
  <1>2. CASE Fail(c)
    BY <1>1, <1>2, IdleFacts, ClientReplaced DEF Fail
  <1>3. CASE dl' = [dl EXCEPT ![c].pc = "done", ![c].got = {},
                      ![c].data = Content(dl[c].row)]
    <2>1. /\ DOMAIN dl' = Clients /\ \A k \in Clients : k # c => dl'[k] = dl[k]
          /\ dl'[c] = [dl[c] EXCEPT !.pc = "done", !.got = {}, !.data = Content(dl[c].row)]
      BY <1>1, <1>3
    <2> DEFINE v == dl'[c]
    <2>2. DOMAIN dl[c] = Fields
      BY <1>1 DEF ClientInv
    <2>3. /\ DOMAIN v = Fields /\ v.pc = "done" /\ v.api = dl[c].api
          /\ v.file = dl[c].file /\ v.row = dl[c].row /\ v.data = Content(v.row)
          /\ v.todo = dl[c].todo
      BY <2>1, <2>2 DEF Fields
    <2> HIDE DEF v
    <2>4. ClientInv(v)
      BY <1>1, <2>3 DEF ClientInv
    <2> QED BY <1>1, <2>1, <2>4, OneClient DEF v
  <1>4. \/ Fail(c)
        \/ dl' = [dl EXCEPT ![c].pc = "done", ![c].got = {},
                    ![c].data = Content(dl[c].row)]
    <2> DEFINE whole == \A i \in DOMAIN dl[c].row :
                           \E g \in dl[c].got : Holds(dl[c].row, dl[c].row[i], g)
    <2>1. IF whole THEN dl' = [dl EXCEPT ![c].pc = "done", ![c].got = {},
                                 ![c].data = Content(dl[c].row)]
          ELSE Fail(c)
      BY DEF Assemble
    <2> HIDE DEF whole
    <2> QED BY <2>1
  <1> QED BY <1>2, <1>3, <1>4

LEMMA ServeFileIInv ==
    ASSUME IInv, NEW c \in Clients, NEW f \in Files, ServeFile(c, f)
    PROVE  IInv'
  <1> DEFINE v == [IdleClient EXCEPT !.pc = "done", !.api = "bridge",
                                     !.file = f, !.data = xet_file_serve(f)]
  <1>1. /\ xet_file_serve(f) # NULL /\ dl' = [dl EXCEPT ![c] = v]
        /\ UNCHANGED <<pin, shards, size, terms>>
    BY DEF ServeFile
  <1>2. xet_file_serve(f) = FileChunks[f]
    BY <1>1, BridgeServesTheFile DEF IInv, TablesInv
  <1>3. /\ DOMAIN v = Fields /\ v.pc = "done" /\ v.api = "bridge" /\ v.file = f
        /\ v.data = FileChunks[f] /\ v.row = <<>> /\ v.todo = {}
    BY <1>2 DEF IdleClient, Fields
  <1>4. <<>> \in Seq(FitRows)
    OBVIOUS
  <1> HIDE DEF v
  <1>5. ClientInv(v)
    BY <1>3, <1>4 DEF ClientInv
  <1> QED BY <1>1, <1>5, ClientReplaced

LEMMA QueryIInv ==
    ASSUME IInv, NEW c \in Clients, NEW api \in {"v1", "v2"}, NEW f \in Files, NEW start,
           get_reconstruction(f) # <<>>, Answered(c, api, f, start),
           UNCHANGED <<pin, shards, size, terms>>
    PROVE  IInv'
  <1>1. TablesInv /\ DOMAIN dl = Clients
    BY DEF IInv
  <1>2. /\ ClientInv(dl'[c]) /\ DOMAIN dl' = Clients
        /\ \A k \in Clients : k # c => dl'[k] = dl[k]
    BY <1>1, AnswerFacts
  <1> QED BY <1>2, OneClient

LEMMA NextIInv ==
    ASSUME IInv, [Next]_vars
    PROVE  IInv'
  <1>1. CASE UNCHANGED vars
    <2>1. PinType' /\ UNCHANGED <<shards, size, terms, dl>>
      BY <1>1 DEF IInv, PinType, vars
    <2> QED BY <2>1, PinIInv
  <1>2. ASSUME NEW x \in Xorbs, PinMoves(x) PROVE IInv'
    <2>1. PinType' /\ UNCHANGED <<shards, size, terms, dl>>
      BY <1>2 DEF IInv, PinType, PinMoves
    <2> QED BY <2>1, PinIInv
  <1>3. ASSUME NEW s \in Shards, RefuseShard(s) PROVE IInv'
    <2>1. PinType' /\ UNCHANGED <<shards, size, terms, dl>>
      BY <1>3 DEF IInv, PinType, RefuseShard, Revived
    <2> QED BY <2>1, PinIInv
  <1>4. ASSUME NEW c \in Clients, NEW f \in Files, NEW start, QueryPastEnd(c, f, start)
        PROVE  IInv'
    BY <1>4, IdleFacts, ClientReplaced DEF QueryPastEnd
  <1>5. ASSUME NEW c \in Clients, NEW api \in {"v1", "v2"}, NEW f \in Files, NEW start,
               QueryReconstruction(c, api, f, start)
        PROVE  IInv'
    BY <1>5, QueryIInv DEF QueryReconstruction
  <1>6. ASSUME NEW c \in Clients, NEW fs \in SUBSET Files, QueryBatch(c, fs) PROVE IInv'
    <2>1. PICK f \in fs : get_reconstruction(f) # <<>> /\ Answered(c, "v1", f, NULL)
      BY <1>6 DEF QueryBatch
    <2>2. f \in Files /\ "v1" \in {"v1", "v2"} /\ UNCHANGED <<pin, shards, size, terms>>
      BY <1>6, <2>1 DEF QueryBatch
    <2> QED BY <2>1, <2>2, QueryIInv
  <1>7. ASSUME NEW c \in Clients, NEW header, Request(c, header) PROVE IInv'
    <2>1. PinType' /\ UNCHANGED <<shards, size, terms, dl>>
      BY <1>7 DEF IInv, PinType, Request
    <2> QED BY <2>1, PinIInv
  <1>8. ASSUME NEW c \in Clients, FetchFails(c) PROVE IInv'
    BY <1>8, IdleFacts, ClientReplaced DEF FetchFails, Fail
  <1>9. ASSUME NEW c \in Clients, Leave(c) PROVE IInv'
    BY <1>9, IdleFacts, ClientReplaced DEF Leave
  <1>10. CASE Next
    <2>1. \/ \E x \in Xorbs : PinMoves(x)
          \/ \E s \in Shards : UploadShard(s)
          \/ \E s \in Shards : RefuseShard(s)
          \/ \E c \in Clients, f \in Files : ServeFile(c, f)
          \/ \E c \in Clients, f \in Files, start \in Starts : QueryPastEnd(c, f, start)
          \/ \E c \in Clients, f \in Files, api \in {"v1", "v2"}, start \in Starts \cup {NULL} :
                QueryReconstruction(c, api, f, start)
          \/ \E c \in Clients, fs \in SUBSET Files : QueryBatch(c, fs)
          \/ \E c \in Clients, header \in Specs : Request(c, header)
          \/ \E c \in Clients : Fetch(c) \/ FetchFails(c) \/ Assemble(c) \/ Leave(c)
      BY <1>10 DEF Next
    <2> QED BY <2>1, <1>2, <1>3, <1>4, <1>5, <1>6, <1>7, <1>8, <1>9, UploadIInv,
               FetchIInv, AssembleIInv, ServeFileIInv
  <1> QED BY <1>1, <1>10

\* The invariant holds in every reachable state of the read path: the rows a
\* shard upload records, the answers built from them and what clients rebuilt.
THEOREM IInvAlways == Spec => []IInv
  <1>1. IInv /\ [Next]_vars => IInv'
    BY NextIInv
  <1> QED BY <1>1, InitIInv, PTL DEF Spec

-----------------------------------------------------------------------------
(***************************************************************************)
(* The theorems.                                                           *)
(***************************************************************************)

\* Every variable keeps its type; whatever mix of shards wrote them, term rows
\* are ordered and their byte ranges not empty unless nobody knew the xorb's
\* chunks; and every range a URL signs is ordered, or empty with an end that
\* coalesce_terms_by_xorb let wrap.
THEOREM TypeOKAlways == Spec => []TypeOK
  <1>1. IInv => TypeOK
    <2> SUFFICES ASSUME IInv PROVE TypeOK
      OBVIOUS
    <2>1. ASSUME NEW f \in Files, NEW i \in DOMAIN terms[f]
          PROVE  /\ terms[f][i].first < terms[f][i].last
                 /\ \/ terms[f][i].bytes[1] < terms[f][i].bytes[2]
                    \/ terms[f][i].bytes = <<0, 0>> /\ terms[f][i].xorb \in Unindexed
      <3>1. terms[f][i] \in FitRows
        BY SeqFacts DEF IInv, TablesInv, FileInv
      <3> QED BY <3>1 DEF FitRows, Fits, InXorb
    <2>2. \A f \in Files : size[f] = NULL => terms[f] = <<>>
      BY DEF IInv, TablesInv, FileInv
    <2>3. \A c \in Clients : /\ dl[c].pc \in {"idle", "fetch", "done", "failed", "eof"}
                             /\ dl[c].pc = "fetch" => dl[c].row # <<>>
      BY DEF IInv, ClientInv
    <2>4. GrantsAreOrdered
      BY DEF IInv, ClientInv, GrantsAreOrdered, Grant
    <2>5. /\ pin \in [Xorbs -> {"absent", "pinning", "pinned", "orphaned"}]
          /\ shards \subseteq Shards
      BY DEF IInv, PinType, TablesInv
    <2> QED BY <2>1, <2>2, <2>3, <2>4, <2>5 DEF TypeOK
  <1> QED BY <1>1, IInvAlways, PTL

LEMMA AnswerRows ==
    ASSUME IInv, NEW f \in Files
    PROVE  get_reconstruction(f) \in Seq(FitRows)
  BY KeptFacts DEF IInv, TablesInv, FileInv

\* coalesce_terms_by_xorb returns exactly the maximal runs of the bytes its
\* terms cover, in order, for the rows of any file any shards can have
\* written and whichever of its xorbs are pinned.
THEOREM CoalescedIsMinimalCoverAlways == Spec => []CoalescedIsMinimalCover
  <1>1. IInv => CoalescedIsMinimalCover
    BY AnswerRows, RunsFacts DEF CoalescedIsMinimalCover
  <1> QED BY <1>1, IInvAlways, PTL

\* Every fetch_info entry of a xorb with stored boundaries holds exactly the
\* chunks it announces, and every term of the answer finds its chunks in
\* exactly one entry, for any rows and any set of pinned xorbs.
THEOREM EntriesFitTheirChunksAlways == Spec => []EntriesFitTheirChunks
  <1>1. ASSUME IInv PROVE EntriesFitTheirChunks
    <2>1. ASSUME NEW f \in Files, NEW x \in Touched(get_reconstruction(f)) \ Unindexed
          PROVE  x \in Xorbs /\ x \notin Unindexed /\ get_reconstruction(f) \in Seq(FitRows)
      <3> DEFINE row == get_reconstruction(f)
      <3>1. row \in Seq(FitRows)
        BY <1>1, AnswerRows
      <3>2. PICK i \in DOMAIN row : row[i].xorb = x
        BY DEF Touched
      <3> HIDE DEF row
      <3>3. row[i] \in FitRows
        BY <3>1, SeqFacts
      <3>4. x \in Xorbs
        BY <3>2, <3>3, FitRowFacts
      <3> QED BY <3>1, <3>4 DEF row
    <2> QED BY <2>1, EntryFacts DEF EntriesFitTheirChunks
  <1> QED BY <1>1, IInvAlways, PTL

\* What a client rebuilt is the file: always from xet_file_serve, and from a
\* reconstruction answer whose rows begin the file's rows and add up to its
\* size, whatever shards, pin states and failures came between.
THEOREM DownloadIsExactAlways == Spec => []DownloadIsExact
  <1>1. IInv => DownloadIsExact
    <2> SUFFICES ASSUME IInv, NEW c \in Clients, dl[c].pc = "done",
                        dl[c].data # FileChunks[dl[c].file]
                 PROVE  /\ dl[c].api # "bridge"
                        /\ \/ UnpackedSize(dl[c].row) # size[dl[c].file]
                           \/ ~IsPrefix(dl[c].row, terms[dl[c].file])
      BY DEF DownloadIsExact
    <2>1. /\ dl[c].api # "bridge" /\ dl[c].file \in Files /\ dl[c].row \in Seq(FitRows)
          /\ dl[c].data = Content(dl[c].row)
      BY DEF IInv, ClientInv
    <2>2. FileInv(dl[c].file)
      BY <2>1 DEF IInv, TablesInv
    <2>3. ASSUME UnpackedSize(dl[c].row) = size[dl[c].file],
                 IsPrefix(dl[c].row, terms[dl[c].file])
          PROVE  FALSE
      <3>1. size[dl[c].file] # NULL
        BY <2>1, <2>3, ContentLength, LengthsAssumption
      <3>2. Content(dl[c].row) = FileChunks[dl[c].file]
        BY <2>1, <2>2, <2>3, <3>1, RowsAreTheFile
      <3> QED BY <2>1, <3>2
    <2> QED BY <2>1, <2>3
  <1> QED BY <1>1, IInvAlways, PTL

\* Whatever Range header comes with a signed URL, ServeXorb sends no byte
\* outside the ranges that were signed and none past the end of the xorb.
THEOREM ServedInsideGrantAlways == Spec => []ServedInsideGrant
  <1>1. Init => ServedInsideGrant
    BY DEF Init, NoWire, ServedInsideGrant
  <1>2. IInv /\ ServedInsideGrant /\ [Next]_vars => ServedInsideGrant'
    <2> SUFFICES ASSUME IInv, ServedInsideGrant, [Next]_vars
                 PROVE  ServedInsideGrant'
      OBVIOUS
    <2>1. CASE UNCHANGED wire
      BY <2>1 DEF ServedInsideGrant
    <2>2. CASE wire' = NoWire
      BY <2>2 DEF ServedInsideGrant, NoWire
    <2>3. ASSUME NEW c \in Clients, NEW header \in Specs, Request(c, header)
          PROVE  ServedInsideGrant'
      <3>1. PICK u \in dl[c].todo :
              /\ ServeXorb(u[1], u[2], header) # NULL
              /\ wire' = [xorb |-> u[1], grants |-> u[2],
                          parts |-> ServeXorb(u[1], u[2], header)]
        BY <2>3 DEF Request
      <3>2. PICK x \in Xorbs, grants \in Seq(Grant) : u = <<x, grants>>
        <4>1. u \in Xorbs \X Seq(Grant)
          BY <3>1 DEF IInv, ClientInv
        <4> QED BY <4>1
      <3>3. \A j \in DOMAIN grants : grants[j].start <= grants[j].last + 1
        BY <3>1, <3>2 DEF IInv, ClientInv
      <3>4. /\ ServeXorb(x, grants, header) # NULL
            /\ wire'.xorb = x /\ wire'.grants = grants
            /\ wire'.parts = ServeXorb(x, grants, header)
        BY <3>1, <3>2
      <3> QED BY <3>3, <3>4, ServedInside DEF ServedInsideGrant
    <2>4. [Next]_vars => \/ UNCHANGED wire \/ wire' = NoWire
                         \/ \E c \in Clients, header \in Specs : Request(c, header)
      BY DEF Next, vars, PinMoves, UploadShard, RefuseShard, ServeFile, QueryPastEnd,
             QueryReconstruction, QueryBatch, Fetch, FetchFails, Assemble, Leave
    <2> QED BY <2>1, <2>2, <2>3, <2>4
  <1> QED BY <1>1, <1>2, IInvAlways, PTL DEF Spec


\* insert_shard_with_reconstruction never rewrites: ON CONFLICT DO NOTHING
\* keeps a file's size and its rows, whatever a later shard says of the file.
RowsOnlyGrow ==
    \A f \in Files :
        /\ IsPrefix(terms[f], terms'[f])
        /\ size[f] # NULL => size'[f] = size[f]

LEMMA UploadGrows ==
    ASSUME TablesInv, NEW s \in Shards, UploadShard(s)
    PROVE  RowsOnlyGrow
  <1> SUFFICES ASSUME NEW f \in Files
               PROVE  /\ IsPrefix(terms[f], terms'[f])
                      /\ size[f] # NULL => size'[f] = size[f]
    BY DEF RowsOnlyGrow
  <1>1. /\ size'[f] = IF s \notin shards /\ f \in DOMAIN Segments[s] /\ size[f] = NULL
                      THEN UnpackedSize(ParsedTerms(s, f)) ELSE size[f]
        /\ terms'[f] = IF s \notin shards /\ f \in DOMAIN Segments[s]
                       THEN Merged(terms[f], ParsedTerms(s, f)) ELSE terms[f]
    BY DEF UploadShard
  <1>2. terms[f] \in Seq(FitRows)
    BY DEF TablesInv, FileInv
  <1>3. size[f] # NULL => size'[f] = size[f]
    BY <1>1
  <1>4. CASE s \notin shards /\ f \in DOMAIN Segments[s]
    <2>1. ParsedTerms(s, f) \in Seq(FitRows)
      BY <1>4, ParsedFacts
    <2> QED BY <1>1, <1>2, <1>3, <1>4, <2>1, MergedFacts
  <1>5. CASE ~(s \notin shards /\ f \in DOMAIN Segments[s])
    <2>1. terms'[f] = terms[f]
      BY <1>1, <1>5
    <2>2. IsPrefix(terms[f], terms[f])
      BY <1>2, PrefixFacts
    <2> QED BY <1>3, <2>1, <2>2
  <1> QED BY <1>4, <1>5

\* No step of the CAS, of the gateway or of a client rewrites or drops a term
\* row or the size of a file: later shards can only add rows after them.
THEOREM RowsOnlyGrowAlways == Spec => [][RowsOnlyGrow]_<<size, terms>>
  <1>1. IInv /\ [Next]_vars => [RowsOnlyGrow]_<<size, terms>>
    <2> SUFFICES ASSUME IInv, Next, ~UNCHANGED <<size, terms>>
                 PROVE  RowsOnlyGrow
      BY DEF vars
    <2>1. PICK s \in Shards : UploadShard(s)
      BY DEF Next, PinMoves, RefuseShard, ServeFile, QueryPastEnd, QueryReconstruction,
             QueryBatch, Request, Fetch, FetchFails, Assemble, Leave
    <2> QED BY <2>1, UploadGrows DEF IInv
  <1> QED BY <1>1, IInvAlways, PTL DEF Spec

-----------------------------------------------------------------------------
(***************************************************************************)
(* Answers and the rows they came from.                                    *)
(***************************************************************************)

\* h says at which places of q the elements of p are.
Places(h, p, q) ==
    /\ \A i \in DOMAIN p : p[i] = q[h[i]]
    /\ \A i, j \in DOMAIN p : i < j => h[i] < h[j]

IsSubsequence(p, q) == \E h \in [DOMAIN p -> DOMAIN q] : Places(h, p, q)

\* What a client downloads from is made of rows of the file as the table has
\* them now, in their order, although shards were recorded and pin states moved
\* after the query: a row that was answered is never replaced under a client.
AnswersAreRows ==
    \A c \in Clients :
        dl[c].pc \in {"fetch", "done"} => IsSubsequence(dl[c].row, terms[dl[c].file])

\* The next row is kept, or it is not.
LEMMA SubsequenceStep ==
    ASSUME NEW S, NEW q \in Seq(S), NEW n \in 1..Len(q), NEW p \in Seq(S),
           NEW h \in [DOMAIN p -> 1..n - 1], Places(h, p, q)
    PROVE  /\ \E k \in [DOMAIN p -> 1..n] : Places(k, p, q)
           /\ \E k \in [DOMAIN Append(p, q[n]) -> 1..n] : Places(k, Append(p, q[n]), q)
  <1> DEFINE r == Append(p, q[n])
             L == Len(p)
             k == [i \in 1..L + 1 |-> IF i <= L THEN h[i] ELSE n]
  <1>1. L \in Nat /\ DOMAIN p = 1..L /\ Len(q) \in Nat /\ q[n] \in S
    BY SeqFacts
  <1>2. DOMAIN r = 1..L + 1 /\ r[L + 1] = q[n] /\ \A i \in 1..L : r[i] = p[i]
    BY <1>1
  <1>3. \A i \in 1..L : h[i] \in 1..n - 1 /\ h[i] \in 1..n /\ h[i] < n
    BY <1>1
  <1>4. h \in [DOMAIN p -> 1..n]
    BY <1>1, <1>3
  <1>5. /\ \A i \in 1..L : p[i] = q[h[i]]
        /\ \A i, j \in 1..L : i < j => h[i] < h[j]
    BY <1>1 DEF Places
  <1> HIDE DEF r, L
  <1>6. k \in [1..L + 1 -> 1..n]
    BY <1>1, <1>3
  <1>7. k[L + 1] = n /\ \A i \in 1..L : k[i] = h[i]
    BY <1>1
  <1>8. \A i \in 1..L + 1 : i = L + 1 \/ i \in 1..L
    BY <1>1
  <1> HIDE DEF k
  <1>9. \A i \in 1..L + 1 : r[i] = q[k[i]]
    BY <1>2, <1>5, <1>7, <1>8
  <1>10. \A i, j \in 1..L + 1 : i < j => k[i] < k[j]
    <2> SUFFICES ASSUME NEW i \in 1..L + 1, NEW j \in 1..L + 1, i < j
                 PROVE  k[i] < k[j]
      OBVIOUS
    <2>1. i \in 1..L
      BY <1>1
    <2> QED BY <1>3, <1>5, <1>7, <1>8, <2>1
  <1>11. Places(k, r, q)
    BY <1>2, <1>9, <1>10 DEF Places
  <1> QED BY <1>2, <1>4, <1>6, <1>11 DEF r

\* The answer to a query is a subsequence of the rows of the file.
LEMMA KeptIsSubsequence ==
    ASSUME NEW f \in Files, terms[f] \in Seq(FitRows)
    PROVE  IsSubsequence(get_reconstruction(f), terms[f])
  <1> DEFINE rows == terms[f]
             N == Len(rows)
             A == Seq(FitRows)
  <1>1. N \in Nat /\ <<>> \in A /\ DOMAIN rows = 1..N
        /\ \A n \in 1..N : rows[n] \in FitRows
    BY SeqFacts
  <1>2. PICK K : Keeps(K, f) /\ get_reconstruction(f) = K[N]
    BY KeptLoop
  <1>3. /\ K[0] = <<>>
        /\ \A n \in 1..N : K[n] = IF pin[rows[n].xorb] = "pinned"
                                  THEN Append(K[n - 1], rows[n]) ELSE K[n - 1]
    BY <1>2 DEF Keeps
  <1> DEFINE Sub(p, n) == \E h \in [DOMAIN p -> 1..n] : Places(h, p, rows)
             T == {n \in 0..N : K[n] \in A /\ Sub(K[n], n)}
  <1>4. 0 \in T
    <2>1. <<>> \in [DOMAIN <<>> -> 1..0] /\ Places(<<>>, <<>>, rows)
      BY DEF Places
    <2>2. Sub(<<>>, 0)
      BY <2>1
    <2> HIDE DEF Sub, A
    <2> QED BY <1>1, <1>3, <2>2
  <1>5. ASSUME NEW n \in 1..N, n - 1 \in T
        PROVE  n \in T
    <2>1. K[n - 1] \in A /\ Sub(K[n - 1], n - 1)
      BY <1>5
    <2>2. PICK h \in [DOMAIN K[n - 1] -> 1..n - 1] : Places(h, K[n - 1], rows)
      BY <2>1
    <2>3. Sub(K[n - 1], n) /\ Sub(Append(K[n - 1], rows[n]), n)
      BY <2>1, <2>2, SubsequenceStep
    <2>4. Append(K[n - 1], rows[n]) \in A
      BY <1>1, <2>1
    <2>5. n \in 0..N
      BY <1>1
    <2> HIDE DEF Sub, A
    <2> QED BY <1>3, <2>1, <2>3, <2>4, <2>5
  <1>6. \A n \in 0..N : n \in T
    <2> HIDE DEF T
    <2> QED BY <1>1, <1>4, <1>5, Induction
  <1>7. Sub(K[N], N)
    <2>1. N \in T
      BY <1>1, <1>6
    <2> HIDE DEF Sub, A, N
    <2> QED BY <2>1
  <1> QED BY <1>1, <1>2, <1>7 DEF IsSubsequence

\* Rows that are added at the end leave it a subsequence.
LEMMA SubsequenceGrows ==
    ASSUME NEW S, NEW p, NEW q \in Seq(S), NEW r \in Seq(S),
           IsSubsequence(p, q), IsPrefix(q, r)
    PROVE  IsSubsequence(p, r)
  <1>1. PICK h \in [DOMAIN p -> DOMAIN q] : Places(h, p, q)
    BY DEF IsSubsequence
  <1>2. /\ DOMAIN q = 1..Len(q) /\ DOMAIN r = 1..Len(r) /\ Len(q) \in Nat /\ Len(r) \in Nat
        /\ Len(q) <= Len(r) /\ \A i \in 1..Len(q) : q[i] = r[i]
    BY SeqFacts, PrefixFacts
  <1>3. \A i \in DOMAIN p : h[i] \in DOMAIN q /\ h[i] \in DOMAIN r /\ q[h[i]] = r[h[i]]
    BY <1>2
  <1>4. h \in [DOMAIN p -> DOMAIN r]
    BY <1>3
  <1>5. Places(h, p, r)
    BY <1>1, <1>3 DEF Places
  <1> QED BY <1>4, <1>5 DEF IsSubsequence

LEMMA EmptyIsSubsequence == \A q : IsSubsequence(<<>>, q)
  <1> SUFFICES ASSUME NEW q PROVE IsSubsequence(<<>>, q)
    OBVIOUS
  <1>1. <<>> \in [DOMAIN <<>> -> DOMAIN q] /\ Places(<<>>, <<>>, q)
    BY DEF Places
  <1> QED BY <1>1 DEF IsSubsequence

\* A client whose answer is replaced by one that came from the rows.
LEMMA AnswerReplaced ==
    ASSUME IInv, AnswersAreRows, NEW c \in Clients, NEW v, UNCHANGED terms,
           dl' = [dl EXCEPT ![c] = v],
           v.pc \in {"fetch", "done"} => IsSubsequence(v.row, terms[v.file])
    PROVE  AnswersAreRows'
  <1>1. dl'[c] = v /\ \A k \in Clients : k # c => dl'[k] = dl[k]
    BY DEF IInv
  <1> QED BY <1>1 DEF AnswersAreRows

LEMMA QueryAnswers ==
    ASSUME IInv, AnswersAreRows, NEW c \in Clients, NEW api, NEW f \in Files, NEW start,
           Answered(c, api, f, start), UNCHANGED terms
    PROVE  AnswersAreRows'
  <1> DEFINE row == get_reconstruction(f)
             v == [IdleClient EXCEPT !.pc = "fetch", !.api = api, !.file = f,
                     !.start = start, !.row = row,
                     !.todo = UNION {{x} \X Urls(api, row, x) : x \in Touched(row)}]
  <1>1. dl' = [dl EXCEPT ![c] = v]
    BY DEF Answered
  <1>2. IsSubsequence(row, terms[f])
    BY KeptIsSubsequence DEF IInv, TablesInv, FileInv
  <1> HIDE DEF row
  <1>3. v.row = row /\ v.file = f
    BY DEF IdleClient
  <1> HIDE DEF v
  <1> QED BY <1>1, <1>2, <1>3, AnswerReplaced

\* A failed client has no answer.
LEMMA FailAnswers ==
    ASSUME IInv, AnswersAreRows, NEW c \in Clients, Fail(c), UNCHANGED terms
    PROVE  AnswersAreRows'
  <1> DEFINE v == [IdleClient EXCEPT !.pc = "failed"]
  <1>1. dl' = [dl EXCEPT ![c] = v]
    BY DEF Fail
  <1>2. v.pc = "failed"
    BY DEF IdleClient
  <1> HIDE DEF v
  <1> QED BY <1>1, <1>2, AnswerReplaced

\* A client that goes on with its answer keeps the rows.
LEMMA SameAnswer ==
    ASSUME IInv, AnswersAreRows, NEW c \in Clients, dl[c].pc = "fetch", UNCHANGED terms,
           \A k \in Clients : k # c => dl'[k] = dl[k],
           dl'[c].row = dl[c].row, dl'[c].file = dl[c].file
    PROVE  AnswersAreRows'
  BY DEF AnswersAreRows

LEMMA FetchAnswers ==
    ASSUME IInv, AnswersAreRows, NEW c \in Clients, Fetch(c)
    PROVE  AnswersAreRows'
  <1>1. dl[c].pc = "fetch" /\ UNCHANGED terms /\ DOMAIN dl = Clients /\ DOMAIN dl[c] = Fields
    BY DEF Fetch, IInv, ClientInv
  <1>2. PICK u \in dl[c].todo, named \in BOOLEAN :
           LET parts == ServeXorb(u[1], u[2], IF named THEN Exactly(u[2]) ELSE <<>>)
           IN  IF parts = NULL THEN Fail(c)
               ELSE dl' = [dl EXCEPT ![c].todo = @ \ {u},
                              ![c].got = @ \cup {<<u[1], u[2][i], parts[i]>> :
                                                   i \in DOMAIN u[2]}]
    BY DEF Fetch
  <1> DEFINE parts == ServeXorb(u[1], u[2], IF named THEN Exactly(u[2]) ELSE <<>>)
             got == dl[c].got \cup {<<u[1], u[2][i], parts[i]>> : i \in DOMAIN u[2]}
  <1>3. Fail(c) \/ dl' = [dl EXCEPT ![c].todo = @ \ {u}, ![c].got = got]
    BY <1>2
  <1>4. CASE Fail(c)
    BY <1>1, <1>4, FailAnswers
  <1> HIDE DEF got
  <1>5. CASE dl' = [dl EXCEPT ![c].todo = @ \ {u}, ![c].got = got]
    <2>1. /\ \A k \in Clients : k # c => dl'[k] = dl[k]
          /\ dl'[c] = [dl[c] EXCEPT !.todo = dl[c].todo \ {u}, !.got = got]
      BY <1>1, <1>5
    <2>2. dl'[c].row = dl[c].row /\ dl'[c].file = dl[c].file
      BY <1>1, <2>1 DEF Fields
    <2> QED BY <1>1, <2>1, <2>2, SameAnswer
  <1> QED BY <1>3, <1>4, <1>5

LEMMA AssembleAnswers ==
    ASSUME IInv, AnswersAreRows, NEW c \in Clients, Assemble(c)
    PROVE  AnswersAreRows'
  <1> DEFINE whole == \A i \in DOMAIN dl[c].row :
                         \E g \in dl[c].got : Holds(dl[c].row, dl[c].row[i], g)
             data == Content(dl[c].row)
  <1>1. dl[c].pc = "fetch" /\ UNCHANGED terms /\ DOMAIN dl = Clients /\ DOMAIN dl[c] = Fields
    BY DEF Assemble, IInv, ClientInv
  <1>2. IF whole THEN dl' = [dl EXCEPT ![c].pc = "done", ![c].got = {}, ![c].data = data]
        ELSE Fail(c)
    BY DEF Assemble
  <1> HIDE DEF whole, data
  <1>3. CASE Fail(c)
    BY <1>1, <1>3, FailAnswers
  <1>4. CASE dl' = [dl EXCEPT ![c].pc = "done", ![c].got = {}, ![c].data = data]
    <2>1. /\ \A k \in Clients : k # c => dl'[k] = dl[k]
          /\ dl'[c] = [dl[c] EXCEPT !.pc = "done", !.got = {}, !.data = data]
      BY <1>1, <1>4
    <2>2. dl'[c].row = dl[c].row /\ dl'[c].file = dl[c].file
      BY <1>1, <2>1 DEF Fields
    <2> QED BY <1>1, <2>1, <2>2, SameAnswer
  <1> QED BY <1>2, <1>3, <1>4

LEMMA UploadAnswers ==
    ASSUME IInv, AnswersAreRows, NEW s \in Shards, UploadShard(s), TablesInv'
    PROVE  AnswersAreRows'
  <1> SUFFICES ASSUME NEW c \in Clients, dl[c].pc \in {"fetch", "done"}
               PROVE  IsSubsequence(dl[c].row, terms'[dl[c].file])
    BY DEF AnswersAreRows, UploadShard
  <1>1. IsSubsequence(dl[c].row, terms[dl[c].file])
    BY DEF AnswersAreRows
  <1>2. dl[c].file \in Files
    BY DEF IInv, ClientInv
  <1>3. IsPrefix(terms[dl[c].file], terms'[dl[c].file])
    BY <1>2, UploadGrows DEF IInv, RowsOnlyGrow
  <1>4. terms[dl[c].file] \in Seq(FitRows) /\ terms'[dl[c].file] \in Seq(FitRows)
    BY <1>2 DEF IInv, TablesInv, FileInv
  <1> QED BY <1>1, <1>3, <1>4, SubsequenceGrows

\* The rows a client works from are rows of the file as the table has them, in
\* order: neither shards nor pin states that come after the query change that.
THEOREM AnswersAreRowsAlways == Spec => []AnswersAreRows
  <1>1. Init => AnswersAreRows
    BY DEF Init, IdleClient, AnswersAreRows
  <1>2. IInv /\ AnswersAreRows /\ [Next]_vars => AnswersAreRows'
    <2> SUFFICES ASSUME IInv, AnswersAreRows, [Next]_vars
                 PROVE  AnswersAreRows'
      OBVIOUS
    <2>1. CASE UNCHANGED <<dl, terms>>
      BY <2>1 DEF AnswersAreRows
    <2>2. ASSUME NEW s \in Shards, UploadShard(s) PROVE AnswersAreRows'
      BY <2>2, NextIInv, UploadAnswers DEF IInv
    <2>3. ASSUME NEW c \in Clients, NEW f \in Files, ServeFile(c, f) PROVE AnswersAreRows'
      <3> DEFINE v == [IdleClient EXCEPT !.pc = "done", !.api = "bridge",
                                         !.file = f, !.data = xet_file_serve(f)]
      <3>1. dl' = [dl EXCEPT ![c] = v] /\ UNCHANGED terms
        BY <2>3 DEF ServeFile
      <3>2. v.row = <<>>
        BY DEF IdleClient
      <3> HIDE DEF v
      <3> QED BY <3>1, <3>2, EmptyIsSubsequence, AnswerReplaced
    <2>4. ASSUME NEW c \in Clients, NEW f, NEW start, QueryPastEnd(c, f, start)
          PROVE  AnswersAreRows'
      <3> DEFINE v == [IdleClient EXCEPT !.pc = "eof", !.file = f, !.start = start]
      <3>1. dl' = [dl EXCEPT ![c] = v] /\ UNCHANGED terms
        BY <2>4 DEF QueryPastEnd
      <3>2. v.pc = "eof"
        BY DEF IdleClient
      <3> HIDE DEF v
      <3> QED BY <3>1, <3>2, AnswerReplaced
    <2>5. ASSUME NEW c \in Clients, NEW api, NEW f \in Files, NEW start,
                 QueryReconstruction(c, api, f, start)
          PROVE  AnswersAreRows'
      BY <2>5, QueryAnswers DEF QueryReconstruction
    <2>6. ASSUME NEW c \in Clients, NEW fs \in SUBSET Files, QueryBatch(c, fs)
          PROVE  AnswersAreRows'
      <3>1. PICK f \in fs : Answered(c, "v1", f, NULL)
        BY <2>6 DEF QueryBatch
      <3>2. f \in Files /\ UNCHANGED terms
        BY <2>6, <3>1 DEF QueryBatch
      <3> QED BY <3>1, <3>2, QueryAnswers
    <2>7. ASSUME NEW c \in Clients, FetchFails(c) PROVE AnswersAreRows'
      BY <2>7, FailAnswers DEF FetchFails
    <2>8. ASSUME NEW c \in Clients, Leave(c) PROVE AnswersAreRows'
      <3>1. dl' = [dl EXCEPT ![c] = IdleClient] /\ UNCHANGED terms
        BY <2>8 DEF Leave
      <3>2. IdleClient.pc = "idle"
        BY DEF IdleClient
      <3> QED BY <3>1, <3>2, AnswerReplaced
    <2>9. \/ UNCHANGED <<dl, terms>>
          \/ \E s \in Shards : UploadShard(s)
          \/ \E c \in Clients, f \in Files : ServeFile(c, f)
          \/ \E c \in Clients, f \in Files, start \in Starts : QueryPastEnd(c, f, start)
          \/ \E c \in Clients, f \in Files, api \in {"v1", "v2"}, start \in Starts \cup {NULL} :
                QueryReconstruction(c, api, f, start)
          \/ \E c \in Clients, fs \in SUBSET Files : QueryBatch(c, fs)
          \/ \E c \in Clients : Fetch(c) \/ FetchFails(c) \/ Assemble(c) \/ Leave(c)
      BY DEF Next, vars, PinMoves, RefuseShard, Request
    <2> QED BY <2>1, <2>2, <2>3, <2>4, <2>5, <2>6, <2>7, <2>8, <2>9, FetchAnswers,
               AssembleAnswers
  <1> QED BY <1>1, <1>2, IInvAlways, PTL DEF Spec

=============================================================================
