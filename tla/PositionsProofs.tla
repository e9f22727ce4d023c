-------------------------- MODULE PositionsProofs --------------------------
(***************************************************************************)
(* Lemmas about sets of positions: that they have a least member, and that *)
(* Ascending lists them in order.                                          *)
(***************************************************************************)
EXTENDS Positions, FiniteSetTheorems, WellFoundedInduction, TLAPS

\* A set of positions has a least one: strict inclusion is well-founded.
LEMMA LeastExists ==
  ASSUME NEW n \in Nat, NEW S \in SUBSET (1..n), S # {}
  PROVE  \E i \in S : \A j \in S : i <= j
<1> DEFINE T == {1..i : i \in S}
           R == StrictSubsetOrdering(1..n)
<1>1. IsWellFoundedOn(R, SUBSET (1..n))
  <2>1. IsFiniteSet(1..n)
    BY FS_Interval
  <2>2. FiniteSubsetsOf(1..n) = SUBSET (1..n)
    BY <2>1, FS_FiniteSubsetsOfFinite
  <2> QED
    BY <2>2, FS_StrictSubsetOrderingWellFounded
<1>2. T \subseteq SUBSET (1..n) /\ T # {}
  <2>1. \A i \in S : 1..i \subseteq 1..n
    OBVIOUS
  <2> QED
    BY <2>1
<1>3. PICK x \in T : \A y \in T : ~(<<y, x>> \in R)
  <2> HIDE DEF T, R
  <2> QED BY <1>1, <1>2, WFMin
<1>4. PICK i \in S : x = 1..i
  OBVIOUS
<1>5. \A j \in S : j < i => 1..j \in T /\ <<1..j, x>> \in R
  <2> SUFFICES ASSUME NEW j \in S, j < i PROVE 1..j \in T /\ <<1..j, x>> \in R
    OBVIOUS
  <2>1. 1..j \subseteq 1..i /\ 1..j # 1..i
    OBVIOUS
  <2> QED BY <2>1, <1>4, <1>2 DEF StrictSubsetOrdering
<1>6. \A j \in S : ~(j < i)
  BY <1>3, <1>5
<1> QED
  BY <1>6

-----------------------------------------------------------------------------
\* f lists the n members of S in ascending order.
Lists(f, n, S) ==
  /\ n \in Nat /\ f \in [1..n -> S]
  /\ \A j, k \in 1..n : j < k => f[j] < f[k]
  /\ \A i \in S : \E k \in 1..n : f[k] = i

\* Ascending does: counting the members up to each is one-to-one, hence onto.
LEMMA AscendingLists ==
  ASSUME NEW n \in Nat, NEW S \in SUBSET (1..n)
  PROVE  Lists(Ascending(S), Cardinality(S), S)
<1> DEFINE up(i) == {j \in S : j <= i}
           c == Cardinality(S)
           rank == [i \in S |-> Cardinality(up(i))]
           f == Ascending(S)
<1>0. \A i \in S : i \in Nat
  OBVIOUS
<1>1. IsFiniteSet(S) /\ c \in Nat
  <2>1. IsFiniteSet(1..n)
    BY FS_Interval
  <2>2. IsFiniteSet(S)
    BY <2>1, FS_Subset
  <2> QED
    BY <2>2, FS_CardinalityType
<1>2. ASSUME NEW i \in S
      PROVE  IsFiniteSet(up(i)) /\ Cardinality(up(i)) \in 1..c
  <2>1. IsFiniteSet(up(i)) /\ Cardinality(up(i)) <= c
    BY <1>1, FS_Subset
  <2>2. Cardinality(up(i)) \in Nat
    BY <2>1, FS_CardinalityType
  <2>3. i \in up(i)
    OBVIOUS
  <2>4. Cardinality(up(i)) # 0
    <3> HIDE DEF up
    <3> QED BY <2>1, <2>3, FS_EmptySet
  <2> QED
    BY <2>1, <2>2, <2>4, <1>1
<1>3. ASSUME NEW i \in S, NEW j \in S, i < j
      PROVE  rank[i] < rank[j]
  <2>1. up(i) \in SUBSET up(j) /\ j \in up(j) /\ j \notin up(i)
    <3>1. i \in Nat /\ j \in Nat
      BY <1>0
    <3>2. \A l \in S : l <= i => l <= j
      BY <1>0, <1>3, <3>1
    <3>3. j <= j /\ ~(j <= i)
      BY <1>3, <3>1
    <3> QED
      BY <3>2, <3>3, Zenon
  <2>2. Cardinality(up(i)) <= Cardinality(up(j)) /\ Cardinality(up(j)) # Cardinality(up(i))
    <3>1. IsFiniteSet(up(j))
      BY <1>2
    <3> HIDE DEF up
    <3> QED BY <2>1, <3>1, FS_Subset
  <2>3. Cardinality(up(i)) \in 1..c /\ Cardinality(up(j)) \in 1..c
    BY <1>2
  <2> HIDE DEF up
  <2> QED
    BY <2>2, <2>3, <1>1
<1>4. rank \in [S -> 1..c]
  BY <1>2
<1>5. \A k \in 1..c : \E i \in S : rank[i] = k
  <2> HIDE DEF rank, c
  <2>1. rank \in Injection(S, 1..c)
    <3>1. \A i, j \in S : rank[i] = rank[j] => i = j
      <4> SUFFICES ASSUME NEW i \in S, NEW j \in S, i # j PROVE rank[i] # rank[j]
        OBVIOUS
      <4>1. (i < j \/ j < i) /\ rank[i] \in 1..c /\ rank[j] \in 1..c
        BY <1>4
      <4> QED
        BY <4>1, <1>1, <1>3
    <3> QED
      BY <3>1, <1>4 DEF Injection, IsInjective
  <2>2. IsFiniteSet(1..c) /\ Cardinality(1..c) = c
    BY <1>1, FS_Interval
  <2>3. rank \in Surjection(S, 1..c)
    BY <2>1, <2>2, FS_Injection DEF c
  <2> QED
    BY <2>3 DEF Surjection
<1>6. ASSUME NEW k \in 1..c
      PROVE  f[k] \in S /\ rank[f[k]] = k
  <2>1. f[k] = CHOOSE i \in S : Cardinality(up(i)) = k
    BY DEF Ascending
  <2>2. \E i \in S : Cardinality(up(i)) = k
    BY <1>5
  <2>3. f[k] \in S /\ Cardinality(up(f[k])) = k
    <3> HIDE DEF up, f
    <3> QED BY <2>1, <2>2
  <2> QED
    BY <2>3
<1>7. f = [k \in 1..c |-> f[k]]
  BY DEF Ascending
<1>8. \A j, k \in 1..c : j < k => f[j] < f[k]
  <2> HIDE DEF f, rank, c
  <2> SUFFICES ASSUME NEW j \in 1..c, NEW k \in 1..c, j < k PROVE f[j] < f[k]
    OBVIOUS
  <2>1. f[j] \in S /\ f[k] \in S /\ rank[f[j]] = j /\ rank[f[k]] = k
    BY <1>6
  <2>2. ~(f[k] < f[j]) /\ f[k] # f[j]
    <3>1. f[k] < f[j] => k < j
      BY <2>1, <1>3
    <3> QED
      BY <2>1, <3>1, <1>1
  <2>3. f[j] \in Nat /\ f[k] \in Nat
    BY <2>1, <1>0
  <2> QED
    BY <2>2, <2>3
<1>9. ASSUME NEW i \in S
      PROVE  \E k \in 1..c : f[k] = i
  <2> HIDE DEF f, rank, c
  <2> DEFINE k == rank[i]
  <2>1. k \in 1..c /\ f[k] \in S /\ rank[f[k]] = k
    BY <1>4, <1>6
  <2>2. ~(f[k] < i) /\ ~(i < f[k])
    <3>1. f[k] < i => k < k
      BY <2>1, <1>3
    <3>2. i < f[k] => k < k
      BY <2>1, <1>3
    <3> QED
      BY <2>1, <3>1, <3>2, <1>1
  <2>3. f[k] = i
    <3>1. f[k] \in Nat /\ i \in Nat
      BY <2>1, <1>0
    <3> HIDE DEF k
    <3> QED BY <2>2, <3>1
  <2> QED
    BY <2>1, <2>3
<1> HIDE DEF f, c
<1>10. f \in [1..c -> S]
  BY <1>6, <1>7
<1> QED
  BY <1>1, <1>8, <1>9, <1>10 DEF Lists, f, c

\* The members of a list are positions, and their order is that of the list.
LEMMA ListOrder ==
  ASSUME NEW n, NEW S \in SUBSET Nat, NEW f, Lists(f, n, S)
  PROVE  /\ n \in Nat /\ \A k \in 1..n : f[k] \in S /\ f[k] \in Nat
         /\ \A j, k \in 1..n : (j < k <=> f[j] < f[k]) /\ (j <= k <=> f[j] <= f[k])
<1>1. n \in Nat /\ \A k \in 1..n : f[k] \in S /\ f[k] \in Nat
  BY DEF Lists
<1>2. ASSUME NEW j \in 1..n, NEW k \in 1..n
      PROVE  (j < k <=> f[j] < f[k]) /\ (j <= k <=> f[j] <= f[k])
  <2>1. (j < k => f[j] < f[k]) /\ (k < j => f[k] < f[j]) /\ (j = k => f[j] = f[k])
    BY DEF Lists
  <2>2. f[j] \in Nat /\ f[k] \in Nat
    BY <1>1
  <2> QED
    BY <1>1, <2>1, <2>2
<1> QED
  BY <1>1, <1>2

\* Nothing lies between two neighbours in a list.
LEMMA NextListed ==
  ASSUME NEW n, NEW S \in SUBSET Nat, NEW f, Lists(f, n, S),
         NEW k \in 1..n, NEW i \in S, f[k] < i
  PROVE  k < n /\ f[k] < f[k + 1] /\ f[k + 1] <= i
<1>1. PICK j \in 1..n : f[j] = i
  BY DEF Lists
<1>0. /\ n \in Nat /\ \A l \in 1..n : f[l] \in Nat
      /\ \A x, y \in 1..n : (x < y <=> f[x] < f[y]) /\ (x <= y <=> f[x] <= f[y])
  BY ListOrder
<1>2. n \in Nat /\ k < j
  BY <1>0, <1>1
<1>3. k + 1 \in 1..n /\ k + 1 <= j
  BY <1>2
<1> QED
  BY <1>0, <1>1, <1>2, <1>3

\* Two lists of the same members are equal.
LEMMA OneList ==
  ASSUME NEW n, NEW m, NEW S \in SUBSET Nat, NEW f, NEW g,
         Lists(f, n, S), Lists(g, m, S)
  PROVE  f = g /\ n = m
<1>0. n \in Nat /\ m \in Nat
  BY DEF Lists
<1>f. /\ \A k \in 1..n : f[k] \in S /\ f[k] \in Nat
      /\ \A j, k \in 1..n : (j < k <=> f[j] < f[k]) /\ (j <= k <=> f[j] <= f[k])
  BY ListOrder
<1>g. /\ \A k \in 1..m : g[k] \in S /\ g[k] \in Nat
      /\ \A j, k \in 1..m : (j < k <=> g[j] < g[k]) /\ (j <= k <=> g[j] <= g[k])
  BY ListOrder
<1>1. \A k \in 1..n : k <= m => f[k] = g[k]
  <2> DEFINE Bad == {k \in 1..n : k <= m /\ f[k] # g[k]}
  <2> SUFFICES ASSUME Bad # {} PROVE FALSE
    OBVIOUS
  <2>1. PICK k \in Bad : \A j \in Bad : k <= j
    <3>1. Bad \in SUBSET (1..n)
      OBVIOUS
    <3> HIDE DEF Bad
    <3> QED BY <1>0, <3>1, LeastExists
  <2>2. k \in 1..n /\ k \in 1..m /\ f[k] # g[k]
    BY <1>0
  <2>3. \A j \in 1..n : j < k => j <= m /\ f[j] = g[j]
    BY <2>1, <2>2, <1>0
  <2>4. f[k] \in S /\ g[k] \in S
    BY <2>2, <1>f, <1>g
  <2> HIDE DEF Bad
  <2>5. PICK i \in 1..m : g[i] = f[k]
    BY <2>4 DEF Lists
  <2>6. PICK j \in 1..n : f[j] = g[k]
    BY <2>4 DEF Lists
  <2>7. i >= k /\ j >= k
    <3>1. i < k => g[i] = f[i] /\ i \in 1..n
      BY <1>0, <2>2, <2>3, <2>5
    <3>2. j < k => f[j] = g[j] /\ j \in 1..m
      BY <1>0, <2>2, <2>3, <2>6
    <3>3. ~(i < k)
      BY <3>1, <2>2, <2>5, <1>f, <1>g
    <3>4. ~(j < k)
      BY <3>2, <2>2, <2>6, <1>f, <1>g
    <3> QED
      BY <3>3, <3>4, <1>0, <2>2
  <2>8. g[k] <= f[k] /\ f[k] <= g[k]
    BY <2>2, <2>5, <2>6, <2>7, <1>f, <1>g
  <2> QED
    BY <2>2, <2>8, <1>f, <1>g
<1>2. ~(n < m)
  <2> SUFFICES ASSUME n < m PROVE FALSE
    OBVIOUS
  <2>1. n + 1 \in 1..m /\ g[n + 1] \in S
    BY <1>0, <1>f, <1>g
  <2>2. PICK j \in 1..n : f[j] = g[n + 1]
    BY <2>1 DEF Lists
  <2>3. g[j] = g[n + 1] /\ j \in 1..m /\ j < n + 1
    BY <1>0, <1>1, <2>2
  <2> QED
    BY <2>1, <2>3, <1>f, <1>g
<1>3. ~(m < n)
  <2> SUFFICES ASSUME m < n PROVE FALSE
    OBVIOUS
  <2>1. m + 1 \in 1..n /\ f[m + 1] \in S
    BY <1>0, <1>f, <1>g
  <2>2. PICK j \in 1..m : g[j] = f[m + 1]
    BY <2>1 DEF Lists
  <2>3. f[j] = f[m + 1] /\ j \in 1..n /\ j < m + 1
    BY <1>0, <1>1, <2>2
  <2> QED
    BY <2>1, <2>3, <1>f, <1>g
<1>4. n = m
  BY <1>0, <1>2, <1>3
<1>5. f = [k \in 1..n |-> f[k]] /\ g = [k \in 1..n |-> g[k]]
  BY <1>4 DEF Lists
<1> QED
  BY <1>0, <1>1, <1>4, <1>5

\* The part of a list that lies in T.
LEMMA PartListed ==
  ASSUME NEW n, NEW S \in SUBSET Nat, NEW f, Lists(f, n, S), NEW T \in SUBSET S,
         NEW m, NEW g, Lists(g, m, {k \in 1..n : f[k] \in T})
  PROVE  Lists([k \in 1..m |-> f[g[k]]], m, T)
<1> DEFINE P == {k \in 1..n : f[k] \in T}
           h == [k \in 1..m |-> f[g[k]]]
<1>1. P \in SUBSET Nat /\ m \in Nat /\ \A k \in 1..m : g[k] \in 1..n /\ f[g[k]] \in T
  BY DEF Lists
<1>2. \A j, k \in 1..m : j < k => h[j] < h[k]
  <2> SUFFICES ASSUME NEW j \in 1..m, NEW k \in 1..m, j < k PROVE f[g[j]] < f[g[k]]
    OBVIOUS
  <2>1. g[j] < g[k]
    BY DEF Lists
  <2> QED
    BY <1>1, <2>1 DEF Lists
<1>3. ASSUME NEW i \in T PROVE \E k \in 1..m : h[k] = i
  <2>1. PICK j \in 1..n : f[j] = i
    BY DEF Lists
  <2>2. PICK k \in 1..m : g[k] = j
    BY <2>1 DEF Lists
  <2> QED
    BY <2>1, <2>2
<1> QED
  BY <1>1, <1>2, <1>3 DEF Lists

\* From o + 1 on g begins like f, but d apart, and takes the same n - 1 steps.
Alongside(f, n, g, o, d) ==
  /\ n \in Nat /\ o \in Nat /\ d \in Int
  /\ \A k \in 1..n : f[k] \in Int /\ g[o + k] \in Int
  /\ n > 0 => g[o + 1] = f[1] + d
  /\ \A k \in 1..(n - 1) : g[o + k + 1] - g[o + k] = f[k + 1] - f[k]

\* Then it stays d apart.
LEMMA SameSteps ==
  ASSUME NEW f, NEW n, NEW g, NEW o, NEW d, Alongside(f, n, g, o, d)
  PROVE  \A k \in 1..n : g[o + k] = f[k] + d
<1> USE DEF Alongside
<1> DEFINE Bad == {k \in 1..n : g[o + k] # f[k] + d}
<1> SUFFICES ASSUME Bad # {} PROVE FALSE
  OBVIOUS
<1>1. PICK k \in Bad : \A j \in Bad : k <= j
  <2>1. Bad \in SUBSET (1..n)
    OBVIOUS
  <2> HIDE DEF Bad
  <2> QED BY <2>1, LeastExists
<1>2. k \in 1..n /\ g[o + k] # f[k] + d /\ k # 1
  OBVIOUS
<1>3. k - 1 \in 1..(n - 1) /\ k - 1 \in 1..n /\ k - 1 \notin Bad
  BY <1>1, <1>2
<1>4. g[o + (k - 1)] = f[k - 1] + d
  BY <1>3
<1>5. g[o + (k - 1) + 1] - g[o + (k - 1)] = f[(k - 1) + 1] - f[k - 1]
  BY <1>3
<1>6. o + (k - 1) + 1 = o + k /\ (k - 1) + 1 = k
  BY <1>2
<1>7. g[o + k] \in Int /\ f[k] \in Int /\ g[o + (k - 1)] \in Int /\ f[k - 1] \in Int
  BY <1>2, <1>3
<1> QED
  BY <1>2, <1>4, <1>5, <1>6, <1>7
=============================================================================
