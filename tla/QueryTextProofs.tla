-------------------------- MODULE QueryTextProofs --------------------------
(***************************************************************************)
(* What the query matchers accept, for every pair of texts: spacing is all *)
(* they forgive.                                                           *)
(***************************************************************************)
EXTENDS QueryText, PositionsProofs, SequenceTheorems

Norm(c)  == IF c \in Spaces THEN Blank ELSE c
Marks(u) == {i \in 1..Len(u) : u[i] \notin Spaces}
Seen(q)  == {i \in Inside(q) : q[i] \notin Spaces}

-----------------------------------------------------------------------------
(***************************************************************************)
(* What stripQuery makes of a text.                                        *)
(***************************************************************************)

\* The members of q at the positions in S, in order.
LEMMA AtIs ==
  ASSUME NEW q \in Seq(Letters), NEW S \in SUBSET (1..Len(q))
  PROVE  /\ Lists(Ascending(S), Cardinality(S), S)
         /\ At(q, S) \in Seq(Letters) /\ Len(At(q, S)) = Cardinality(S)
         /\ \A k \in 1..Cardinality(S) : At(q, S)[k] = q[Ascending(S)[k]]
<1>1. Len(q) \in Nat
  BY LenProperties
<1>2. Lists(Ascending(S), Cardinality(S), S)
  BY <1>1, AscendingLists
<1>3. Cardinality(S) \in Nat /\ \A k \in 1..Cardinality(S) : Ascending(S)[k] \in 1..Len(q)
  BY <1>2 DEF Lists
<1>4. \A i \in 1..Len(q) : q[i] \in Letters
  BY ElementOfSeq
<1>5. At(q, S) = [k \in 1..Cardinality(S) |-> q[Ascending(S)[k]]]
  BY DEF At
<1>6. At(q, S) \in [1..Cardinality(S) -> Letters]
  BY <1>3, <1>4, <1>5
<1> QED
  BY <1>2, <1>3, <1>5, <1>6, LenProperties

\* Every run of white space becomes one blank.
LEMMA RunsReplaced ==
  ASSUME NEW q \in Seq(Letters)
  PROVE  /\ Lists(Ascending(Kept(q)), Cardinality(Kept(q)), Kept(q))
         /\ ReplaceRuns(q) \in Seq(Letters) /\ Len(ReplaceRuns(q)) = Cardinality(Kept(q))
         /\ \A k \in 1..Cardinality(Kept(q)) :
              ReplaceRuns(q)[k] = Norm(q[Ascending(Kept(q))[k]])
<1> DEFINE kept == At(q, Kept(q))
           c == Cardinality(Kept(q))
<1>1. Kept(q) \in SUBSET (1..Len(q))
  BY DEF Kept
<1>2. /\ Lists(Ascending(Kept(q)), c, Kept(q))
      /\ kept \in Seq(Letters) /\ Len(kept) = c
      /\ \A k \in 1..c : kept[k] = q[Ascending(Kept(q))[k]]
  BY <1>1, AtIs
<1>3. c \in Nat /\ DOMAIN kept = 1..c /\ \A k \in 1..c : kept[k] \in Letters
  BY <1>2, LenProperties, ElementOfSeq
<1>4. ReplaceRuns(q) = [k \in 1..c |-> Norm(kept[k])]
  BY <1>3 DEF ReplaceRuns, Norm
<1>5. Blank \in Letters
  BY TextAssumption
<1> HIDE DEF kept, c
<1>6. ReplaceRuns(q) \in [1..c -> Letters]
  BY <1>3, <1>4, <1>5 DEF Norm
<1>7. ReplaceRuns(q) \in Seq(Letters) /\ Len(ReplaceRuns(q)) = c
  BY <1>3, <1>6, LenProperties
<1> QED
  BY <1>2, <1>4, <1>7 DEF c

\* Where the letters that stripQuery leaves come from.
Origin(q) ==
  LET inside == Inside(ReplaceRuns(q))
  IN  [m \in 1..Cardinality(inside) |-> Ascending(Kept(q))[Ascending(inside)[m]]]

LEMMA Stripped ==
  ASSUME NEW q \in Seq(Letters)
  PROVE  /\ Lists(Origin(q), Len(stripQuery(q)), Kept(q) \cap Inside(q))
         /\ stripQuery(q) \in Seq(Letters)
         /\ \A m \in 1..Len(stripQuery(q)) : stripQuery(q)[m] = Norm(q[Origin(q)[m]])
<1> DEFINE r == ReplaceRuns(q)
           K == Cardinality(Kept(q))
           A == Ascending(Kept(q))
           I == Inside(r)
           M == Cardinality(I)
           B == Ascending(I)
           C == [m \in 1..M |-> A[B[m]]]
<1>1. Kept(q) \subseteq 1..Len(q) /\ Inside(q) \subseteq 1..Len(q) /\ Len(q) \in Nat
  BY LenProperties DEF Kept, Inside
<1>2. /\ Lists(A, K, Kept(q)) /\ r \in Seq(Letters) /\ Len(r) = K
      /\ \A k \in 1..K : r[k] = Norm(q[A[k]])
  BY RunsReplaced
<1>3. I \in SUBSET (1..Len(r))
  BY DEF Inside
<1>4. /\ Lists(B, M, I) /\ stripQuery(q) \in Seq(Letters) /\ Len(stripQuery(q)) = M
      /\ \A m \in 1..M : stripQuery(q)[m] = r[B[m]]
  BY <1>2, <1>3, AtIs DEF stripQuery, TrimSpace
<1>5. /\ K \in Nat /\ \A k \in 1..K : A[k] \in Kept(q) /\ A[k] \in Nat
      /\ \A j, k \in 1..K : (j < k <=> A[j] < A[k]) /\ (j <= k <=> A[j] <= A[k])
  <2>1. Kept(q) \in SUBSET Nat
    BY <1>1
  <2> QED
    BY <1>2, <2>1, ListOrder
<1>6. \A k \in 1..K : r[k] \notin UnicodeSpaces <=> q[A[k]] \notin UnicodeSpaces
  BY <1>2, TextAssumption DEF Norm
<1>7. \A i \in 1..Len(q) : q[i] \notin UnicodeSpaces => \E k \in 1..K : A[k] = i
  <2>1. \A i \in 1..Len(q) : q[i] \notin UnicodeSpaces => i \in Kept(q)
    BY TextAssumption DEF Kept
  <2> QED
    BY <1>2, <2>1 DEF Lists
<1>8. I = {k \in 1..K : A[k] \in Kept(q) \cap Inside(q)}
  <2>1. ASSUME NEW k \in I PROVE k \in 1..K /\ A[k] \in Inside(q)
    <3>1. k \in 1..K
      BY <1>2, <1>3
    <3>2. PICK a \in 1..k, b \in k..Len(r) : r[a] \notin UnicodeSpaces /\ r[b] \notin UnicodeSpaces
      BY DEF Inside
    <3>3. a \in 1..K /\ b \in 1..K /\ a <= k /\ k <= b
      BY <1>2, <1>5, <3>1, <3>2
    <3> HIDE DEF A, K, r
    <3>4. q[A[a]] \notin UnicodeSpaces /\ q[A[b]] \notin UnicodeSpaces
      BY <1>6, <3>2, <3>3
    <3>5. A[a] \in 1..Len(q) /\ A[k] \in 1..Len(q) /\ A[b] \in 1..Len(q)
      BY <1>1, <1>5, <3>1, <3>3
    <3>6. A[a] <= A[k] /\ A[k] <= A[b]
      BY <1>5, <3>1, <3>3
    <3>7. A[a] \in 1..A[k] /\ A[b] \in A[k]..Len(q)
      BY <1>1, <3>5, <3>6
    <3> QED
      BY <3>1, <3>4, <3>5, <3>7 DEF Inside
  <2>2. ASSUME NEW k \in 1..K, A[k] \in Inside(q) PROVE k \in I
    <3>1. PICK x \in 1..A[k], y \in A[k]..Len(q) : q[x] \notin UnicodeSpaces /\ q[y] \notin UnicodeSpaces
      BY <2>2 DEF Inside
    <3> HIDE DEF A, K, r
    <3>2. A[k] \in Nat
      BY <1>5
    <3>3. x \in 1..Len(q) /\ y \in 1..Len(q) /\ x <= A[k] /\ A[k] <= y
      BY <1>1, <2>2, <3>1, <3>2 DEF Inside
    <3>4. PICK a \in 1..K : A[a] = x
      BY <1>7, <3>1, <3>3
    <3>5. PICK b \in 1..K : A[b] = y
      BY <1>7, <3>1, <3>3
    <3>6. a <= k /\ k <= b
      BY <1>5, <3>3, <3>4, <3>5
    <3>7. a \in 1..k /\ b \in k..Len(r) /\ k \in 1..Len(r)
      BY <1>2, <1>5, <3>6
    <3>8. r[a] \notin UnicodeSpaces /\ r[b] \notin UnicodeSpaces
      BY <1>6, <3>1, <3>4, <3>5
    <3> QED
      BY <3>7, <3>8 DEF Inside
  <2> HIDE DEF A, K, r, I
  <2> QED
    BY <2>1, <2>2, <1>5
<1>9. Lists(C, M, Kept(q) \cap Inside(q))
  <2>1. Kept(q) \in SUBSET Nat /\ Kept(q) \cap Inside(q) \in SUBSET Kept(q)
    BY <1>1
  <2>2. Lists(B, M, {k \in 1..K : A[k] \in Kept(q) \cap Inside(q)})
    BY <1>4, <1>8
  <2> HIDE DEF A, B, K, M, I
  <2> QED
    BY <1>2, <2>1, <2>2, PartListed
<1>10. \A m \in 1..M : stripQuery(q)[m] = Norm(q[C[m]])
  <2>1. \A m \in 1..M : B[m] \in 1..K
    BY <1>2, <1>3, <1>4 DEF Lists
  <2> HIDE DEF A, B, K, M, I, r
  <2> QED
    BY <1>2, <1>4, <2>1
<1>11. C = Origin(q)
  BY DEF Origin
<1> HIDE DEF C, M, r
<1> QED
  BY <1>4, <1>9, <1>10, <1>11

-----------------------------------------------------------------------------
(***************************************************************************)
(* A stripped text spells what is seen of the text it was made of: its     *)
(* letters one after the other, with one blank in each gap.                *)
(***************************************************************************)
Spells(u, ink) ==
  LET n  == Len(ink.letters)
      at == Ascending(Marks(u))
  IN  /\ u \in Seq(Letters)
      /\ n \in Nat /\ Lists(at, n, Marks(u))
      /\ ink.letters = [k \in 1..n |-> u[at[k]]]
      /\ ink.gaps \subseteq 1..(n - 1)
      /\ \A k \in 1..(n - 1) : at[k + 1] = at[k] + IF k \in ink.gaps THEN 2 ELSE 1
      /\ \A i \in 1..Len(u) : i \notin Marks(u) => u[i] = Blank
      /\ Len(u) > 0 => 1 \in Marks(u) /\ Len(u) \in Marks(u)

\* Which positions of q are seen, and that those between two of them are inside.
LEMMA SeenIs ==
  ASSUME NEW q \in Seq(Letters)
  PROVE  /\ Len(q) \in Nat /\ Seen(q) \subseteq Kept(q) \cap Inside(q)
         /\ Kept(q) \subseteq 1..Len(q) /\ Inside(q) \subseteq 1..Len(q)
         /\ Lists(Ascending(Seen(q)), Cardinality(Seen(q)), Seen(q))
         /\ \A i, j \in Inside(q) : \A k \in i..j : k \in Inside(q)
<1>1. Len(q) \in Nat
  BY LenProperties
<1>2. Kept(q) \subseteq 1..Len(q) /\ Inside(q) \subseteq 1..Len(q)
  BY DEF Kept, Inside
<1>3. Seen(q) \subseteq Kept(q) \cap Inside(q)
  BY <1>2 DEF Seen, Kept
<1>4. Lists(Ascending(Seen(q)), Cardinality(Seen(q)), Seen(q))
  <2>1. Seen(q) \in SUBSET (1..Len(q))
    BY <1>2, <1>3
  <2> QED
    BY <1>1, <2>1, AscendingLists
<1>5. ASSUME NEW i \in Inside(q), NEW j \in Inside(q), NEW k \in i..j
      PROVE  k \in Inside(q)
  <2>1. i \in 1..Len(q) /\ j \in 1..Len(q) /\ k \in 1..Len(q) /\ i <= k /\ k <= j
    BY <1>1, <1>2
  <2>2. PICK a \in 1..i : q[a] \notin UnicodeSpaces
    BY DEF Inside
  <2>3. PICK b \in j..Len(q) : q[b] \notin UnicodeSpaces
    BY DEF Inside
  <2>4. a \in 1..k /\ b \in k..Len(q)
    BY <1>1, <2>1, <2>2, <2>3
  <2> QED
    BY <2>1, <2>2, <2>3, <2>4 DEF Inside
<1> QED
  BY <1>1, <1>2, <1>3, <1>4, <1>5

LEMMA StrippedSpells ==
  ASSUME NEW q \in Seq(Letters)
  PROVE  Spells(stripQuery(q), Ink(q))
<1> DEFINE u  == stripQuery(q)
           C  == Origin(q)
           M  == Len(u)
           KI == Kept(q) \cap Inside(q)
           n  == Cardinality(Seen(q))
           s  == Ascending(Seen(q))
           at == Ascending(Marks(u))
<1>1. /\ Lists(C, M, KI) /\ u \in Seq(Letters) /\ Len(u) = M
      /\ \A m \in 1..M : u[m] = Norm(q[C[m]])
  BY Stripped
<1>2. /\ Len(q) \in Nat /\ Seen(q) \in SUBSET KI /\ Lists(s, n, Seen(q))
      /\ KI \in SUBSET Nat /\ KI \subseteq 1..Len(q)
      /\ \A i, j \in Inside(q) : \A k \in i..j : k \in Inside(q)
  BY SeenIs
<1> HIDE DEF u, C, M, KI, n, s
<1>3. /\ M \in Nat /\ \A k \in 1..M : C[k] \in KI /\ C[k] \in Nat
      /\ \A j, k \in 1..M : (j < k <=> C[j] < C[k]) /\ (j <= k <=> C[j] <= C[k])
  BY <1>1, <1>2, ListOrder
<1>4. \A m \in 1..M : /\ u[m] \in Spaces => u[m] = Blank
                      /\ u[m] \notin Spaces => u[m] = q[C[m]]
                      /\ u[m] \notin Spaces <=> C[m] \in Seen(q)
  <2>1. \A m \in 1..M : C[m] \in Inside(q)
    BY <1>3 DEF KI
  <2> QED
    BY <1>1, <2>1, TextAssumption DEF Norm, Seen
<1>5. Marks(u) = {m \in 1..M : C[m] \in Seen(q)}
  BY <1>1, <1>4 DEF Marks
<1>6. n = Cardinality(Marks(u)) /\ Lists(at, n, Marks(u)) /\ s = [k \in 1..n |-> C[at[k]]]
  <2>1. Lists(at, Cardinality(Marks(u)), Marks(u))
    <3>1. Marks(u) \in SUBSET (1..M)
      BY <1>5
    <3> QED
      BY <1>3, <3>1, AscendingLists
  <2>2. Lists([k \in 1..Cardinality(Marks(u)) |-> C[at[k]]], Cardinality(Marks(u)), Seen(q))
    <3> HIDE DEF at
    <3> QED BY <1>1, <1>2, <1>5, <2>1, PartListed
  <2>3. Seen(q) \in SUBSET Nat
    BY <1>2
  <2>4. s = [k \in 1..Cardinality(Marks(u)) |-> C[at[k]]] /\ n = Cardinality(Marks(u))
    <3> HIDE DEF at
    <3> QED BY <1>2, <2>2, <2>3, OneList
  <2> QED
    BY <2>1, <2>4
<1> HIDE DEF at
<1>7. n \in Nat /\ \A k \in 1..n : at[k] \in 1..M /\ C[at[k]] \in Seen(q) /\ s[k] = C[at[k]]
  BY <1>5, <1>6 DEF Lists
<1>8. /\ \A k \in 1..n : s[k] \in Seen(q) /\ s[k] \in Nat
      /\ \A j, k \in 1..n : (j < k <=> s[j] < s[k]) /\ (j <= k <=> s[j] <= s[k])
  <2>1. Seen(q) \in SUBSET Nat
    BY <1>2
  <2> QED
    BY <1>2, <2>1, ListOrder
<1>9. Ink(q).letters = [k \in 1..n |-> u[at[k]]] /\ Len(Ink(q).letters) = n
  <2>1. Ink(q).letters = At(q, Seen(q))
    BY DEF Ink, Seen
  <2>2. Ink(q).letters = [k \in 1..n |-> q[s[k]]]
    BY <2>1 DEF At, n, s
  <2>3. \A k \in 1..n : q[s[k]] = u[at[k]]
    BY <1>4, <1>7
  <2>4. Ink(q).letters = [k \in 1..n |-> u[at[k]]]
    BY <2>2, <2>3
  <2>5. \A k \in 1..n : u[at[k]] \in Letters
    BY <1>1, <1>7, ElementOfSeq
  <2> QED
    BY <1>7, <2>4, <2>5, LenProperties
<1>10. Ink(q).gaps = {k \in 1..(n - 1) : s[k + 1] > s[k] + 1}
  BY DEF Ink, Seen, n, s
<1>11. ASSUME NEW k \in 1..(n - 1)
       PROVE  at[k + 1] = at[k] + IF s[k + 1] > s[k] + 1 THEN 2 ELSE 1
  <2> DEFINE m == at[k]
             p == s[k] + 1
  <2>1. /\ k \in 1..n /\ k + 1 \in 1..n /\ k < k + 1
        /\ m \in 1..M /\ at[k + 1] \in 1..M /\ s[k] = C[m] /\ s[k + 1] = C[at[k + 1]]
        /\ s[k] \in Seen(q) /\ s[k + 1] \in Seen(q)
    BY <1>7, <1>8
  <2>2. C[m] < C[at[k + 1]] /\ C[m] \in Nat /\ C[at[k + 1]] \in Nat /\ m < at[k + 1]
    BY <1>3, <1>8, <2>1
  <2>3. m + 1 \in 1..M /\ m + 1 <= at[k + 1] /\ C[m] < C[m + 1] /\ C[m + 1] <= C[at[k + 1]]
    BY <1>3, <2>1, <2>2
  <2>4. \A i \in Seen(q) : ~(s[k] < i /\ i < s[k + 1])
    <3> SUFFICES ASSUME NEW i \in Seen(q), s[k] < i, i < s[k + 1] PROVE FALSE
      OBVIOUS
    <3>1. Seen(q) \in SUBSET Nat
      BY <1>2
    <3>2. s[k + 1] <= i
      BY <1>2, <2>1, <3>1, NextListed
    <3>3. i \in Nat /\ s[k + 1] \in Nat
      BY <1>8, <2>1, <3>1
    <3> QED
      BY <3>2, <3>3
  <2>5. CASE ~(s[k + 1] > p)
    <3>1. C[at[k + 1]] = C[m] + 1
      BY <2>1, <2>2, <2>5
    <3>2. C[m + 1] = C[at[k + 1]]
      BY <1>3, <2>2, <2>3, <3>1
    <3>3. m + 1 = at[k + 1]
      BY <1>3, <2>1, <2>3, <3>2
    <3> QED
      BY <2>5, <3>3
  <2>6. CASE s[k + 1] > p
    <3>1. p \in Nat /\ s[k] < p /\ p < s[k + 1] /\ p = C[m] + 1
      BY <2>1, <2>2, <2>6
    <3>2. s[k] \in Inside(q) /\ s[k + 1] \in Inside(q) /\ q[s[k]] \notin Spaces
      BY <2>1 DEF Seen
    <3>3. \A i \in Nat : s[k] < i /\ i < s[k + 1] => i \in Inside(q) /\ q[i] \in Spaces
      <4> SUFFICES ASSUME NEW i \in Nat, s[k] < i, i < s[k + 1]
                   PROVE  i \in Inside(q) /\ q[i] \in Spaces
        OBVIOUS
      <4>1. i \in s[k]..s[k + 1]
        BY <2>1, <2>2
      <4>2. i \in Inside(q)
        BY <1>2, <3>2, <4>1
      <4> QED
        BY <2>4, <4>2 DEF Seen
    <3>4. p \in KI
      <4>1. p \in Inside(q) /\ q[p] \in Spaces /\ p - 1 = s[k]
        BY <2>1, <2>2, <3>1, <3>3
      <4>2. p \in 1..Len(q)
        BY <4>1, SeenIs
      <4> QED
        BY <3>2, <4>1, <4>2 DEF Kept, KI
    <3>5. C[m + 1] = p
      <4> HIDE DEF p
      <4>1. C[m + 1] <= p
        BY <1>1, <1>2, <2>1, <3>1, <3>4, NextListed
      <4>2. C[m + 1] \in Nat
        BY <1>3, <2>3
      <4> QED
        BY <2>2, <2>3, <3>1, <4>1, <4>2
    <3>6. m + 1 < at[k + 1]
      <4>1. C[m + 1] < C[at[k + 1]]
        BY <2>1, <3>1, <3>5
      <4> QED
        BY <1>3, <2>1, <2>3, <4>1
    <3>7. m + 2 \in 1..M /\ m + 2 <= at[k + 1] /\ C[m + 1] < C[m + 2] /\ C[m + 2] <= C[at[k + 1]]
      BY <1>3, <2>1, <2>3, <3>6
    <3>8. ~(m + 2 < at[k + 1])
      <4> SUFFICES ASSUME m + 2 < at[k + 1] PROVE FALSE
        OBVIOUS
      <4> DEFINE i == C[m + 2]
      <4>1. i \in Nat /\ p < i /\ i < s[k + 1] /\ i \in Kept(q)
        BY <1>3, <2>1, <3>5, <3>7 DEF KI
      <4> HIDE DEF i, p
      <4>2. q[i] \in Spaces /\ i > 1
        <5>1. s[k] \in 1..Len(q) /\ s[k] < i
          BY <1>2, <1>8, <2>1, <3>1, <4>1
        <5> QED
          BY <1>2, <3>3, <4>1, <5>1
      <4>3. q[i - 1] \notin Spaces
        BY <4>1, <4>2 DEF Kept
      <4>4. i - 1 \in Nat /\ s[k] < i - 1 /\ i - 1 < s[k + 1]
        BY <1>8, <2>1, <3>1, <4>1
      <4> QED
        BY <3>3, <4>3, <4>4
    <3>9. at[k + 1] = m + 2
      BY <2>1, <3>7, <3>8
    <3> QED
      BY <2>6, <3>9
  <2> QED
    BY <2>5, <2>6
<1>12. M > 0 => 1 \in Marks(u) /\ M \in Marks(u)
  <2> SUFFICES ASSUME M > 0 PROVE 1 \in Marks(u) /\ M \in Marks(u)
    OBVIOUS
  <2>1. 1 \in 1..M /\ M \in 1..M /\ C[1] \in Inside(q) /\ C[M] \in Inside(q)
    BY <1>3 DEF KI
  <2>2. \A x \in 1..Len(q) : q[x] \notin UnicodeSpaces => x \in Seen(q)
    BY TextAssumption DEF Seen, Inside
  <2>3. PICK a \in 1..C[1], b \in C[1]..Len(q) : q[a] \notin UnicodeSpaces
    BY <2>1 DEF Inside
  <2>4. PICK c \in 1..C[M], d \in C[M]..Len(q) : q[d] \notin UnicodeSpaces
    BY <2>1 DEF Inside
  <2>5. C[1] \in 1..Len(q) /\ C[M] \in 1..Len(q)
    BY <1>2, <1>3, <2>1
  <2>6. a \in Seen(q) /\ a <= C[1]
    BY <1>2, <2>2, <2>3, <2>5
  <2>7. d \in Seen(q) /\ C[M] <= d
    BY <1>2, <2>2, <2>4, <2>5
  <2>8. PICK j \in 1..M : C[j] = a
    BY <1>1, <1>2, <2>6 DEF Lists
  <2>9. PICK l \in 1..M : C[l] = d
    BY <1>1, <1>2, <2>7 DEF Lists
  <2>10. j <= 1 /\ M <= l
    BY <1>3, <2>1, <2>6, <2>7, <2>8, <2>9
  <2>11. j = 1 /\ l = M
    BY <1>3, <2>10
  <2> QED
    BY <1>5, <2>1, <2>6, <2>7, <2>8, <2>9, <2>11
<1>13. \A i \in 1..Len(u) : i \notin Marks(u) => u[i] = Blank
  BY <1>1, <1>4 DEF Marks
<1> QED
  BY <1>1, <1>6, <1>7, <1>9, <1>10, <1>11, <1>12, <1>13 DEF Spells, u, at

-----------------------------------------------------------------------------
\* Facts about a text that spells what is seen.
LEMMA SpelledFacts ==
  ASSUME NEW u, NEW ink, Spells(u, ink)
  PROVE  LET n  == Len(ink.letters)
             at == Ascending(Marks(u))
         IN  /\ n \in Nat /\ Len(u) \in Nat /\ u = [i \in 1..Len(u) |-> u[i]]
             /\ Marks(u) \in SUBSET (1..Len(u)) /\ Marks(u) \in SUBSET Nat
             /\ \A i \in 1..Len(u) : i \notin Marks(u) => u[i] = Blank
             /\ \A k \in 1..n : at[k] \in Marks(u) /\ at[k] \in Nat
             /\ \A i \in Marks(u) : \E k \in 1..n : at[k] = i
             /\ \A j, k \in 1..n : (j < k <=> at[j] < at[k]) /\ (j <= k <=> at[j] <= at[k])
             /\ \A k \in 1..n : ink.letters[k] = u[at[k]]
             /\ n > 0 => at[1] = 1 /\ at[n] = Len(u)
             /\ n = 0 => u = <<>>
<1> DEFINE n  == Len(ink.letters)
           at == Ascending(Marks(u))
<1>1. /\ u \in Seq(Letters) /\ n \in Nat /\ Lists(at, n, Marks(u))
      /\ ink.letters = [k \in 1..n |-> u[at[k]]]
      /\ \A i \in 1..Len(u) : i \notin Marks(u) => u[i] = Blank
      /\ Len(u) > 0 => 1 \in Marks(u) /\ Len(u) \in Marks(u)
  BY DEF Spells
<1> HIDE DEF n, at
<1>2. Len(u) \in Nat /\ u = [i \in 1..Len(u) |-> u[i]] /\ (Len(u) = 0 => u = <<>>)
  BY <1>1, LenProperties
<1>3. Marks(u) \in SUBSET (1..Len(u)) /\ Marks(u) \in SUBSET Nat
  BY <1>2 DEF Marks
<1>4. /\ \A k \in 1..n : at[k] \in Marks(u) /\ at[k] \in Nat
      /\ \A j, k \in 1..n : (j < k <=> at[j] < at[k]) /\ (j <= k <=> at[j] <= at[k])
  BY <1>1, <1>3, ListOrder
<1>5. \A i \in Marks(u) : \E k \in 1..n : at[k] = i
  BY <1>1 DEF Lists
<1>6. n > 0 => at[1] = 1 /\ at[n] = Len(u)
  <2> SUFFICES ASSUME n > 0 PROVE at[1] = 1 /\ at[n] = Len(u)
    OBVIOUS
  <2>1. 1 \in 1..n /\ n \in 1..n /\ at[1] \in 1..Len(u) /\ at[n] \in 1..Len(u) /\ Len(u) > 0
    BY <1>1, <1>2, <1>3, <1>4
  <2>2. PICK j \in 1..n : at[j] = 1
    BY <1>1, <1>5, <2>1
  <2>3. PICK k \in 1..n : at[k] = Len(u)
    BY <1>1, <1>5, <2>1
  <2>4. at[1] <= 1 /\ Len(u) <= at[n]
    BY <1>1, <1>4, <2>1, <2>2, <2>3
  <2> QED
    BY <1>2, <2>1, <2>4
<1>7. n = 0 => u = <<>>
  <2>1. n = 0 => ~(Len(u) > 0)
    BY <1>1, <1>5
  <2> QED
    BY <1>2, <2>1
<1> QED
  BY <1>1, <1>2, <1>3, <1>4, <1>5, <1>6, <1>7 DEF n, at

\* A text is determined by what it spells, and the other way round.
LEMMA SameInk ==
  ASSUME NEW u, NEW v, NEW i, NEW j, Spells(u, i), Spells(v, j)
  PROVE  u = v <=> i.letters = j.letters /\ i.gaps = j.gaps
<1> DEFINE n  == Len(i.letters)
           f  == Ascending(Marks(u))
           g  == Ascending(Marks(v))
<1>1. u = v => i.letters = j.letters /\ i.gaps = j.gaps
  <2> SUFFICES ASSUME u = v PROVE i.letters = j.letters /\ i.gaps = j.gaps
    OBVIOUS
  <2>1. /\ n \in Nat /\ Lists(f, n, Marks(u)) /\ i.letters = [k \in 1..n |-> u[f[k]]]
        /\ i.gaps \subseteq 1..(n - 1)
        /\ \A k \in 1..(n - 1) : f[k + 1] = f[k] + IF k \in i.gaps THEN 2 ELSE 1
    BY DEF Spells
  <2> DEFINE m == Len(j.letters)
  <2>2. /\ m \in Nat /\ Lists(f, m, Marks(u)) /\ j.letters = [k \in 1..m |-> u[f[k]]]
        /\ j.gaps \subseteq 1..(m - 1)
        /\ \A k \in 1..(m - 1) : f[k + 1] = f[k] + IF k \in j.gaps THEN 2 ELSE 1
    BY DEF Spells
  <2> HIDE DEF n, f, m
  <2>3. Marks(u) \in SUBSET Nat
    BY SpelledFacts
  <2>4. n = m
    BY <2>1, <2>2, <2>3, OneList
  <2>5. \A k \in 1..n : f[k] \in Nat
    BY <2>1, <2>3 DEF Lists
  <2>6. ASSUME NEW k \in 1..(n - 1) PROVE k \in i.gaps <=> k \in j.gaps
    <3>1. f[k + 1] = f[k] + IF k \in i.gaps THEN 2 ELSE 1
      BY <2>1
    <3>2. f[k + 1] = f[k] + IF k \in j.gaps THEN 2 ELSE 1
      BY <2>2, <2>4
    <3>3. f[k] \in Nat
      BY <2>1, <2>5
    <3> QED
      BY <3>1, <3>2, <3>3
  <2> QED
    BY <2>1, <2>2, <2>4, <2>6
<1>2. ASSUME i.letters = j.letters, i.gaps = j.gaps
      PROVE  u = v
  <2>1. /\ n \in Nat /\ Len(u) \in Nat /\ u = [p \in 1..Len(u) |-> u[p]]
        /\ Marks(u) \in SUBSET (1..Len(u))
        /\ \A p \in 1..Len(u) : p \notin Marks(u) => u[p] = Blank
        /\ \A k \in 1..n : f[k] \in Marks(u) /\ f[k] \in Nat
        /\ \A p \in Marks(u) : \E k \in 1..n : f[k] = p
        /\ \A k \in 1..n : i.letters[k] = u[f[k]]
        /\ n > 0 => f[1] = 1 /\ f[n] = Len(u)
        /\ n = 0 => u = <<>>
    BY SpelledFacts
  <2>2. /\ Len(v) \in Nat /\ v = [p \in 1..Len(v) |-> v[p]]
        /\ Marks(v) \in SUBSET (1..Len(v))
        /\ \A p \in 1..Len(v) : p \notin Marks(v) => v[p] = Blank
        /\ \A k \in 1..n : g[k] \in Marks(v) /\ g[k] \in Nat
        /\ \A p \in Marks(v) : \E k \in 1..n : g[k] = p
        /\ \A k \in 1..n : i.letters[k] = v[g[k]]
        /\ n > 0 => g[1] = 1 /\ g[n] = Len(v)
        /\ n = 0 => v = <<>>
    BY <1>2, SpelledFacts
  <2>3. \A k \in 1..(n - 1) : /\ f[k + 1] = f[k] + IF k \in i.gaps THEN 2 ELSE 1
                              /\ g[k + 1] = g[k] + IF k \in i.gaps THEN 2 ELSE 1
    BY <1>2 DEF Spells
  <2> HIDE DEF n, f, g
  <2>4. \A k \in 1..n : g[k] = f[k]
    <3>0. PICK o \in Nat : o = 0
      OBVIOUS
    <3>1. \A k \in 1..n : f[k] \in Int /\ g[o + k] \in Int
      BY <2>1, <2>2, <3>0
    <3>2. \A k \in 1..(n - 1) : g[o + k + 1] - g[o + k] = f[k + 1] - f[k]
      <4> SUFFICES ASSUME NEW k \in 1..(n - 1)
                   PROVE  g[o + k + 1] - g[o + k] = f[k + 1] - f[k]
        OBVIOUS
      <4>1. f[k] \in Int /\ g[k] \in Int /\ o + k = k /\ o + k + 1 = k + 1
        BY <2>1, <2>2, <3>0
      <4> QED
        BY <2>3, <4>1
    <3>3. n > 0 => g[o + 1] = f[1] + o
      BY <2>1, <2>2, <3>0
    <3>4. \A k \in 1..n : g[o + k] = f[k] + o
      <4>1. n \in Nat /\ o \in Nat /\ o \in Int
        BY <2>1
      <4>2. Alongside(f, n, g, o, o)
        BY <3>1, <3>2, <3>3, <4>1 DEF Alongside
      <4> QED
        BY <4>2, SameSteps
    <3> QED
      BY <2>1, <2>2, <3>0, <3>4
  <2>5. CASE n = 0
    BY <2>1, <2>2, <2>5
  <2>6. CASE n > 0
    <3>1. Len(u) = Len(v)
      <4>1. n \in 1..n
        BY <2>1, <2>6
      <4> QED
        BY <2>1, <2>2, <2>4, <2>6, <4>1
    <3>2. Marks(u) = Marks(v)
      <4>1. \A p \in Marks(u) : p \in Marks(v)
        BY <2>1, <2>2, <2>4
      <4>2. \A p \in Marks(v) : p \in Marks(u)
        BY <2>1, <2>2, <2>4
      <4> QED
        BY <4>1, <4>2
    <3>3. ASSUME NEW p \in 1..Len(u) PROVE u[p] = v[p]
      <4>1. CASE p \notin Marks(u)
        BY <2>1, <2>2, <3>1, <3>2, <4>1
      <4>2. CASE p \in Marks(u)
        <5>1. PICK k \in 1..n : f[k] = p
          BY <2>1, <4>2
        <5> QED
          BY <2>1, <2>2, <2>4, <5>1
      <4> QED
        BY <4>1, <4>2
    <3>4. u = [p \in 1..Len(u) |-> u[p]] /\ v = [p \in 1..Len(u) |-> v[p]]
      BY <2>1, <2>2, <3>1
    <3> QED
      BY <3>3, <3>4
  <2> QED
    BY <2>1, <2>5, <2>6
<1> QED
  BY <1>1, <1>2

(***************************************************************************)
(* QueryMatcherEqual accepts a text exactly if it looks like the expected  *)
(* one: the same letters, with white space between the same neighbours.    *)
(***************************************************************************)
THEOREM EqualForgivesSpacing ==
  ASSUME NEW expectedSQL \in Seq(Letters), NEW actualSQL \in Seq(Letters)
  PROVE  QueryMatcherEqual(expectedSQL, actualSQL) <=> LooksLike(expectedSQL, actualSQL)
<1> DEFINE i == Ink(expectedSQL)
           j == Ink(actualSQL)
<1>1. Spells(stripQuery(expectedSQL), i) /\ Spells(stripQuery(actualSQL), j)
  BY StrippedSpells
<1>2. i = j <=> i.letters = j.letters /\ i.gaps = j.gaps
  BY DEF Ink
<1> HIDE DEF i, j
<1>3. stripQuery(expectedSQL) = stripQuery(actualSQL)
        <=> i.letters = j.letters /\ i.gaps = j.gaps
  BY <1>1, SameInk
<1> QED
  BY <1>2, <1>3 DEF QueryMatcherEqual, LooksLike, i, j

-----------------------------------------------------------------------------
\* A part of v is u.
LEMMA PartIs ==
  ASSUME NEW u \in Seq(Letters), NEW v \in Seq(Letters), NEW o \in 0..(Len(v) - Len(u))
  PROVE  SubSeq(v, o + 1, o + Len(u)) = u <=> \A p \in 1..Len(u) : v[o + p] = u[p]
<1> DEFINE w == SubSeq(v, o + 1, o + Len(u))
<1>1. Len(u) \in Nat /\ Len(v) \in Nat /\ o \in Nat /\ o + Len(u) <= Len(v)
  BY LenProperties
<1>2. w = [p \in 1..Len(u) |-> v[o + p]]
  <2>1. w \in Seq(Letters) /\ Len(w) = Len(u)
    BY <1>1
  <2>2. \A p \in 1..Len(u) : w[p] = v[o + p]
    BY <1>1
  <2> HIDE DEF w
  <2>3. w = [p \in 1..Len(u) |-> w[p]]
    BY <2>1, LenProperties
  <2> QED
    BY <2>2, <2>3
<1>3. u = [p \in 1..Len(u) |-> u[p]]
  BY LenProperties
<1> HIDE DEF w
<1>4. w = u <=> \A p \in 1..Len(u) : v[o + p] = u[p]
  BY <1>2, <1>3
<1> QED
  BY <1>4 DEF w

\* What is seen of e is seen somewhere in a if the text of the one is a part of the other's.
LEMMA PartIsSeen ==
  ASSUME NEW u, NEW v, NEW i, NEW j, Spells(u, i), Spells(v, j), Len(i.letters) > 0,
         NEW d \in 0..(Len(v) - Len(u)), \A p \in 1..Len(u) : v[d + p] = u[p]
  PROVE  \E o \in 0..Len(j.letters) : SeenAt(i, j, o)
<1> DEFINE n == Len(i.letters)
           m == Len(j.letters)
           f == Ascending(Marks(u))
           g == Ascending(Marks(v))
<1>1. /\ n \in Nat /\ Len(u) \in Nat
      /\ Marks(u) \in SUBSET (1..Len(u))
      /\ \A k \in 1..n : f[k] \in Marks(u) /\ f[k] \in Nat
      /\ \A p \in Marks(u) : \E k \in 1..n : f[k] = p
      /\ \A l, k \in 1..n : (l < k <=> f[l] < f[k]) /\ (l <= k <=> f[l] <= f[k])
      /\ \A k \in 1..n : i.letters[k] = u[f[k]]
      /\ n > 0 => f[1] = 1 /\ f[n] = Len(u)
  BY SpelledFacts
<1>2. /\ m \in Nat /\ Len(v) \in Nat
      /\ Marks(v) \in SUBSET (1..Len(v)) /\ Marks(v) \in SUBSET Nat
      /\ \A k \in 1..m : g[k] \in Marks(v) /\ g[k] \in Nat
      /\ \A p \in Marks(v) : \E k \in 1..m : g[k] = p
      /\ \A l, k \in 1..m : (l < k <=> g[l] < g[k]) /\ (l <= k <=> g[l] <= g[k])
      /\ \A k \in 1..m : j.letters[k] = v[g[k]]
  BY SpelledFacts
<1>3. /\ Lists(f, n, Marks(u)) /\ Lists(g, m, Marks(v))
      /\ \A k \in 1..(n - 1) : f[k + 1] = f[k] + IF k \in i.gaps THEN 2 ELSE 1
      /\ \A k \in 1..(m - 1) : g[k + 1] = g[k] + IF k \in j.gaps THEN 2 ELSE 1
  BY DEF Spells
<1>4. \A p \in 1..Len(u) : /\ p \in Marks(u) <=> d + p \in Marks(v)
                           /\ d + p \in 1..Len(v)
  BY <1>1, <1>2 DEF Marks
<1> HIDE DEF n, m, f, g
<1>5. n > 0 /\ f[1] = 1 /\ f[n] = Len(u) /\ d \in Nat
  BY <1>1, <1>2 DEF n
<1>6. PICK c \in 1..m : g[c] = d + 1
  <2>1. 1 \in Marks(u) /\ 1 \in 1..Len(u)
    BY <1>1, <1>5
  <2> QED
    BY <1>2, <1>4, <2>1
<1> DEFINE o == c - 1
<1>7. o \in Nat /\ o \in 0..m /\ o + 1 = c
  BY <1>2, <1>6
\* The letters of u lie at those of v from the c-th on.
<1>8. \A k \in 1..n : o + k <= m /\ g[o + k] = d + f[k]
  <2> DEFINE Bad == {k \in 1..n : ~(o + k <= m /\ g[o + k] = d + f[k])}
  <2> SUFFICES ASSUME Bad # {} PROVE FALSE
    OBVIOUS
  <2>1. PICK k \in Bad : \A l \in Bad : k <= l
    <3>1. Bad \in SUBSET (1..n)
      OBVIOUS
    <3> HIDE DEF Bad
    <3> QED BY <1>1, <3>1, LeastExists
  <2>2. k \in 1..n /\ ~(o + k <= m /\ g[o + k] = d + f[k])
    OBVIOUS
  <2>3. k # 1
    BY <1>2, <1>5, <1>6, <1>7, <2>2
  <2>4. k - 1 \in 1..n /\ k - 1 < k
    BY <1>1, <2>2, <2>3
  <2>5. o + (k - 1) <= m /\ g[o + (k - 1)] = d + f[k - 1]
    <3>1. k - 1 \notin Bad
      <4> HIDE DEF Bad
      <4> QED BY <1>1, <2>1, <2>2, <2>4
    <3> HIDE DEF o
    <3> QED
      BY <2>4, <3>1
  <2> HIDE DEF Bad, o
  <2>6. o + (k - 1) \in 1..m /\ o + k = (o + (k - 1)) + 1
    BY <1>2, <1>7, <2>2, <2>4, <2>5
  <2> DEFINE e == o + (k - 1)
  <2>7. f[k] \in Marks(u) /\ f[k] \in 1..Len(u) /\ f[k - 1] \in Nat /\ f[k - 1] < f[k]
    BY <1>1, <2>2, <2>4
  <2>8. e < m /\ g[e + 1] <= d + f[k] /\ g[e] < g[e + 1]
    <3>1. d + f[k] \in Marks(v)
      BY <1>4, <2>7
    <3>2. e \in 1..m /\ g[e] = d + f[k - 1]
      BY <2>5, <2>6
    <3>3. g[e] < d + f[k]
      BY <1>1, <1>5, <2>7, <3>2
    <3>4. Marks(v) \in SUBSET Nat
      BY <1>2
    <3>5. Lists(g, m, Marks(v))
      BY <1>3
    <3> DEFINE x == d + f[k]
    <3>6. x \in Marks(v) /\ e \in 1..m /\ g[e] < x
      BY <3>1, <3>2, <3>3
    <3> HIDE DEF e, x
    <3>7. e < m /\ g[e] < g[e + 1] /\ g[e + 1] <= x
      BY <3>4, <3>5, <3>6, NextListed
    <3> QED
      BY <3>7 DEF x
  <2>9. /\ o + k \in 1..m /\ g[o + k] \in Marks(v) /\ g[o + k] \in Nat
        /\ g[o + k] <= d + f[k] /\ d + f[k - 1] < g[o + k]
    <3>1. e + 1 = o + k /\ e + 1 \in 1..m /\ g[e] = d + f[k - 1]
      BY <1>2, <2>5, <2>6, <2>8
    <3> HIDE DEF e
    <3> QED
      BY <1>2, <2>8, <3>1
  <2> DEFINE p == g[o + k] - d
  <2>10. p \in 1..Len(u) /\ p > f[k - 1] /\ p <= f[k] /\ d + p = g[o + k]
    <3>1. Len(u) \in Nat /\ d \in Nat
      BY <1>1, <1>5
    <3>2. \A x \in Nat : x <= d + f[k] /\ d + f[k - 1] < x =>
            x - d \in 1..Len(u) /\ x - d > f[k - 1] /\ x - d <= f[k] /\ d + (x - d) = x
      BY <2>7, <3>1
    <3> QED
      BY <2>9, <3>2
  <2>11. p \in Marks(u)
    BY <1>4, <2>9, <2>10
  <2> HIDE DEF p
  <2>12. f[(k - 1) + 1] <= p
    <3>1. Marks(u) \in SUBSET Nat
      BY <1>1
    <3> QED
      BY <1>3, <2>4, <2>10, <2>11, <3>1, NextListed
  <2>13. p = f[k]
    BY <1>1, <2>2, <2>10, <2>12
  <2> QED
    BY <2>2, <2>9, <2>10, <2>13, <1>2
<1> HIDE DEF o
<1>9. o + n <= m
  BY <1>1, <1>5, <1>8
<1>10. \A k \in 1..n : i.letters[k] = j.letters[o + k]
  <2> SUFFICES ASSUME NEW k \in 1..n PROVE i.letters[k] = j.letters[o + k]
    OBVIOUS
  <2>1. o + k \in 1..m /\ g[o + k] = d + f[k] /\ f[k] \in 1..Len(u)
    <3>1. o + k <= m /\ g[o + k] = d + f[k]
      BY <1>8
    <3>2. o + k \in 1..m
      BY <1>1, <1>2, <1>7, <3>1
    <3>3. f[k] \in 1..Len(u)
      BY <1>1
    <3> QED
      BY <3>1, <3>2, <3>3
  <2>2. i.letters[k] = u[f[k]] /\ j.letters[o + k] = v[d + f[k]]
    BY <1>1, <1>2, <2>1
  <2> QED
    BY <2>1, <2>2
<1>11. \A k \in 1..(n - 1) : k \in i.gaps <=> o + k \in j.gaps
  <2> SUFFICES ASSUME NEW k \in 1..(n - 1) PROVE k \in i.gaps <=> o + k \in j.gaps
    OBVIOUS
  <2>1. k \in 1..n /\ k + 1 \in 1..n /\ o + k \in 1..(m - 1) /\ o + (k + 1) = o + k + 1
    BY <1>1, <1>2, <1>7, <1>9
  <2>2. g[o + k] = d + f[k] /\ g[o + k + 1] = d + f[k + 1] /\ f[k] \in Nat
    BY <1>1, <1>8, <2>1
  <2>3. /\ f[k + 1] = f[k] + IF k \in i.gaps THEN 2 ELSE 1
        /\ g[o + k + 1] = g[o + k] + IF o + k \in j.gaps THEN 2 ELSE 1
    BY <1>3, <2>1
  <2> QED
    BY <1>5, <2>2, <2>3
<1> QED
  BY <1>7, <1>9, <1>10, <1>11 DEF SeenAt, n, m

\* And the other way round.
LEMMA SeenIsPart ==
  ASSUME NEW u, NEW v, NEW i, NEW j, Spells(u, i), Spells(v, j), Len(i.letters) > 0,
         NEW o \in 0..Len(j.letters), SeenAt(i, j, o)
  PROVE  \E d \in 0..(Len(v) - Len(u)) : \A p \in 1..Len(u) : v[d + p] = u[p]
<1> DEFINE n == Len(i.letters)
           m == Len(j.letters)
           f == Ascending(Marks(u))
           g == Ascending(Marks(v))
           d == g[o + 1] - 1
<1>1. /\ n \in Nat /\ Len(u) \in Nat
      /\ Marks(u) \in SUBSET (1..Len(u)) /\ Marks(u) \in SUBSET Nat
      /\ \A p \in 1..Len(u) : p \notin Marks(u) => u[p] = Blank
      /\ \A k \in 1..n : f[k] \in Marks(u) /\ f[k] \in Nat
      /\ \A p \in Marks(u) : \E k \in 1..n : f[k] = p
      /\ \A k \in 1..n : i.letters[k] = u[f[k]]
      /\ n > 0 => f[1] = 1 /\ f[n] = Len(u)
  BY SpelledFacts
<1>2. /\ m \in Nat /\ Len(v) \in Nat
      /\ Marks(v) \in SUBSET (1..Len(v)) /\ Marks(v) \in SUBSET Nat
      /\ \A p \in 1..Len(v) : p \notin Marks(v) => v[p] = Blank
      /\ \A k \in 1..m : g[k] \in Marks(v) /\ g[k] \in Nat
      /\ \A k \in 1..m : j.letters[k] = v[g[k]]
  BY SpelledFacts
<1>3. /\ Lists(f, n, Marks(u)) /\ Lists(g, m, Marks(v))
      /\ \A k \in 1..(n - 1) : f[k + 1] = f[k] + IF k \in i.gaps THEN 2 ELSE 1
      /\ \A k \in 1..(m - 1) : g[k + 1] = g[k] + IF k \in j.gaps THEN 2 ELSE 1
  BY DEF Spells
<1>4. /\ o + n <= m
      /\ \A k \in 1..n : i.letters[k] = j.letters[o + k]
      /\ \A k \in 1..(n - 1) : k \in i.gaps <=> o + k \in j.gaps
  BY DEF SeenAt
<1>5. n > 0 /\ o \in Nat
  BY <1>2
<1> HIDE DEF n, m, f, g
<1>6. \A k \in 1..n : o + k \in 1..m /\ g[o + k] \in Nat /\ g[o + k] \in Int /\ f[k] \in Int
  BY <1>1, <1>2, <1>4, <1>5
<1>7. d \in Nat /\ d \in Int /\ g[o + 1] = f[1] + d
  <2>1. 1 \in 1..n
    BY <1>1, <1>5
  <2>2. o + 1 \in 1..m
    BY <1>6, <2>1
  <2>3. g[o + 1] \in 1..Len(v)
    BY <1>2, <2>2
  <2> QED
    BY <1>1, <1>5, <2>3
<1> HIDE DEF d
<1>8. \A k \in 1..(n - 1) : g[o + k + 1] - g[o + k] = f[k + 1] - f[k]
  <2> SUFFICES ASSUME NEW k \in 1..(n - 1)
               PROVE  g[o + k + 1] - g[o + k] = f[k + 1] - f[k]
    OBVIOUS
  <2>1. k \in 1..n /\ o + k \in 1..(m - 1)
    BY <1>1, <1>2, <1>4, <1>5
  <2>2. g[o + k] \in Int /\ f[k] \in Int
    BY <1>6, <2>1
  <2>3. g[o + k + 1] = g[o + k] + IF k \in i.gaps THEN 2 ELSE 1
    BY <1>3, <1>4, <2>1
  <2> QED
    BY <1>3, <2>2, <2>3
<1>9. \A k \in 1..n : g[o + k] = f[k] + d
  <2>1. \A k \in 1..n : f[k] \in Int /\ g[o + k] \in Int
    BY <1>6
  <2> QED
    <3>1. n \in Nat /\ o \in Nat /\ d \in Int
      BY <1>1, <1>5, <1>7
    <3>2. n > 0 => g[o + 1] = f[1] + d
      BY <1>7
    <3>3. Alongside(f, n, g, o, d)
      BY <1>8, <2>1, <3>1, <3>2 DEF Alongside
    <3> QED
      BY <3>3, SameSteps
<1>10. d + Len(u) <= Len(v)
  <2>1. n \in 1..n /\ f[n] = Len(u)
    BY <1>1, <1>5
  <2>2. g[o + n] \in 1..Len(v) /\ g[o + n] = f[n] + d
    BY <1>2, <1>6, <1>9, <2>1
  <2> QED
    BY <1>1, <1>2, <1>7, <2>1, <2>2
<1>11. ASSUME NEW p \in 1..Len(u) PROVE v[d + p] = u[p]
  <2>1. CASE p \in Marks(u)
    <3>1. PICK k \in 1..n : f[k] = p
      BY <1>1, <2>1
    <3>2. o + k \in 1..m /\ g[o + k] = d + p
      BY <1>6, <1>7, <1>9, <3>1
    <3>3. u[p] = i.letters[k] /\ v[d + p] = j.letters[o + k]
      BY <1>1, <1>2, <3>1, <3>2
    <3> QED
      BY <1>4, <3>3
  <2>2. CASE p \notin Marks(u)
    <3>1. d + p \in 1..Len(v) /\ d + p \in Nat
      BY <1>1, <1>2, <1>7, <1>10
    <3>2. d + p \notin Marks(v)
      <4> SUFFICES ASSUME d + p \in Marks(v) PROVE FALSE
        OBVIOUS
      <4> DEFINE Before == {k \in 1..n : f[k] > p}
      <4>1. n \in Before
        <5>1. n \in 1..n /\ f[n] = Len(u) /\ f[n] \in Marks(u)
          BY <1>1, <1>5
        <5>2. f[n] # p
          BY <2>2, <5>1
        <5> QED
          BY <1>1, <5>1, <5>2
      <4>2. PICK l \in Before : \A k \in Before : l <= k
        <5>1. Before \in SUBSET (1..n) /\ Before # {}
          BY <4>1
        <5> HIDE DEF Before
        <5> QED BY <1>1, <5>1, LeastExists
      <4>3. l \in 1..n /\ f[l] > p /\ l # 1
        BY <1>1, <1>5
      <4>4. l - 1 \in 1..(n - 1) /\ l - 1 \in 1..n /\ (l - 1) + 1 = l /\ l - 1 \notin Before
        <5>1. l - 1 \in 1..n /\ l - 1 \in 1..(n - 1) /\ (l - 1) + 1 = l /\ ~(l <= l - 1)
          BY <1>1, <4>3
        <5> HIDE DEF Before
        <5> QED
          BY <4>2, <5>1
      <4>5. f[l - 1] \in Marks(u) /\ f[l - 1] \in Nat /\ f[l - 1] # p /\ ~(f[l - 1] > p)
        BY <1>1, <2>2, <4>4
      <4>6. f[l - 1] < p /\ p < f[l]
        BY <1>1, <4>3, <4>5
      <4> HIDE DEF Before
      <4> DEFINE e == o + (l - 1)
                 x == d + p
      <4>7. /\ e \in 1..m /\ e + 1 = o + l /\ o + l \in 1..m
            /\ g[e] = f[l - 1] + d /\ g[o + l] = f[l] + d
        BY <1>5, <1>6, <1>9, <4>3, <4>4
      <4>8. g[e] < x /\ x \in Marks(v) /\ x < g[o + l] /\ x \in Nat
        <5>1. f[l - 1] \in Nat /\ f[l] \in Nat /\ p \in Nat /\ d \in Nat
          BY <1>1, <1>7, <4>3, <4>5
        <5>2. f[l - 1] + d < d + p /\ d + p < f[l] + d
          BY <4>6, <5>1
        <5> HIDE DEF e
        <5> QED
          BY <3>1, <4>7, <5>2
      <4>9. g[e + 1] <= x
        <5>1. Lists(g, m, Marks(v)) /\ Marks(v) \in SUBSET Nat
          BY <1>2, <1>3
        <5> HIDE DEF e, x
        <5> QED
          BY <4>7, <4>8, <5>1, NextListed
      <4>10. g[o + l] <= x /\ g[o + l] \in Nat
        BY <1>2, <4>7, <4>9
      <4> HIDE DEF e, x
      <4> QED
        BY <4>8, <4>10
    <3> QED
      BY <1>1, <1>2, <2>2, <3>1, <3>2
  <2> QED
    BY <2>1, <2>2
<1>12. d \in 0..(Len(v) - Len(u))
  BY <1>1, <1>2, <1>7, <1>10
<1> QED
  BY <1>11, <1>12

\* A text compiles if its stripped form does, and the other way round.
LEMMA SameBalance ==
  ASSUME NEW q \in Seq(Letters)
  PROVE  (\A i \in 1..Len(stripQuery(q)) : stripQuery(q)[i] \notin Unbalanced)
           <=> \A i \in 1..Len(q) : q[i] \notin Unbalanced
<1> DEFINE u == stripQuery(q)
           C == Origin(q)
<1>1. /\ Lists(C, Len(u), Kept(q) \cap Inside(q))
      /\ \A m \in 1..Len(u) : u[m] = Norm(q[C[m]])
  BY Stripped
<1>2. \A c : c \in Unbalanced => Norm(c) = c /\ c \notin UnicodeSpaces
  BY TextAssumption DEF Norm
<1>3. \A c : Norm(c) \in Unbalanced => Norm(c) = c
  BY TextAssumption DEF Norm
<1> HIDE DEF u, C
<1>4. \A m \in 1..Len(u) : C[m] \in 1..Len(q)
  BY <1>1, SeenIs DEF Lists
<1>5. ASSUME NEW i \in 1..Len(q), q[i] \in Unbalanced
      PROVE  \E m \in 1..Len(u) : u[m] \in Unbalanced
  <2>1. q[i] \notin UnicodeSpaces /\ Norm(q[i]) = q[i]
    BY <1>2, <1>5
  <2>2. i \in Kept(q) \cap Inside(q)
    BY <2>1, SeenIs, TextAssumption DEF Kept, Inside
  <2>3. PICK m \in 1..Len(u) : C[m] = i
    BY <1>1, <2>2 DEF Lists
  <2> QED
    BY <1>1, <1>5, <2>1, <2>3
<1>6. ASSUME NEW m \in 1..Len(u), u[m] \in Unbalanced
      PROVE  \E i \in 1..Len(q) : q[i] \in Unbalanced
  BY <1>1, <1>3, <1>4, <1>6
<1> QED
  BY <1>5, <1>6 DEF u

(***************************************************************************)
(* QueryMatcherRegexp accepts a text exactly if what is seen of the        *)
(* expected one, a pattern that compiles, is seen somewhere in it; a blank *)
(* pattern only stands for a blank text.                                   *)
(***************************************************************************)
THEOREM RegexpForgivesSpacing ==
  ASSUME NEW expectedSQL \in Seq(Letters), NEW actualSQL \in Seq(Letters)
  PROVE  QueryMatcherRegexp(expectedSQL, actualSQL)
           <=> /\ OccursIn(expectedSQL, actualSQL)
               /\ \A k \in 1..Len(expectedSQL) : expectedSQL[k] \notin Unbalanced
<1> DEFINE u == stripQuery(expectedSQL)
           v == stripQuery(actualSQL)
           i == Ink(expectedSQL)
           j == Ink(actualSQL)
           Part == \E o \in 0..(Len(v) - Len(u)) : SubSeq(v, o + 1, o + Len(u)) = u
<1>1. Spells(u, i) /\ Spells(v, j)
  BY StrippedSpells
<1>2. (\A k \in 1..Len(u) : u[k] \notin Unbalanced)
        <=> \A k \in 1..Len(expectedSQL) : expectedSQL[k] \notin Unbalanced
  BY SameBalance
<1>3. QueryMatcherRegexp(expectedSQL, actualSQL)
        <=> /\ ~(v # <<>> /\ u = <<>>)
            /\ \A k \in 1..Len(u) : u[k] \notin Unbalanced
            /\ Part
  BY DEF QueryMatcherRegexp
<1>4. OccursIn(expectedSQL, actualSQL)
        <=> IF i.letters = <<>> THEN j.letters = <<>>
            ELSE \E o \in 0..Len(j.letters) : SeenAt(i, j, o)
  BY DEF OccursIn
<1> HIDE DEF u, v, i, j
<1>5. /\ u \in Seq(Letters) /\ v \in Seq(Letters)
      /\ Len(i.letters) \in Nat /\ Len(j.letters) \in Nat
      /\ i.letters = <<>> <=> u = <<>>
      /\ j.letters = <<>> <=> v = <<>>
      /\ i.letters # <<>> => Len(i.letters) > 0
  <2>1. ASSUME NEW w, NEW ink, Spells(w, ink)
        PROVE  /\ w \in Seq(Letters) /\ Len(ink.letters) \in Nat
               /\ ink.letters = <<>> <=> w = <<>>
               /\ ink.letters # <<>> => Len(ink.letters) > 0
    <3> DEFINE n  == Len(ink.letters)
               at == Ascending(Marks(w))
    <3>1. w \in Seq(Letters) /\ n \in Nat /\ ink.letters = [k \in 1..n |-> w[at[k]]]
      BY <2>1 DEF Spells
    <3>2. /\ Marks(w) \in SUBSET (1..Len(w))
          /\ \A k \in 1..n : at[k] \in Marks(w)
          /\ n = 0 => w = <<>>
      BY <2>1, SpelledFacts
    <3>3. w = <<>> => n = 0
      <4> SUFFICES ASSUME w = <<>>, n # 0 PROVE FALSE
        OBVIOUS
      <4>1. 1 \in 1..n /\ 1..Len(w) = {}
        BY <3>1
      <4> QED
        BY <3>2, <4>1
    <3>4. ink.letters = <<>> => n = 0
      OBVIOUS
    <3> HIDE DEF n, at
    <3>5. n = 0 => ink.letters = <<>>
      BY <3>1
    <3> QED
      BY <3>1, <3>2, <3>3, <3>4, <3>5 DEF n
  <2> QED
    BY <1>1, <2>1
<1>6. CASE i.letters = <<>>
  <2>1. Part
    <3>1. u = <<>> /\ Len(u) = 0 /\ Len(v) \in Nat
      BY <1>5, <1>6, LenProperties
    <3>2. 0 \in 0..(Len(v) - Len(u)) /\ \A p \in 1..Len(u) : v[0 + p] = u[p]
      BY <3>1
    <3>3. SubSeq(v, 0 + 1, 0 + Len(u)) = u
      BY <1>5, <3>2, PartIs
    <3>4. SubSeq(v, 0 + 1, 0 + Len(u)) = u => Part
      BY <3>2, Zenon
    <3> QED
      BY <3>3, <3>4
  <2> QED
    BY <1>2, <1>3, <1>4, <1>5, <1>6, <2>1
<1>7. CASE i.letters # <<>>
  <2>1. Len(i.letters) > 0 /\ u # <<>>
    BY <1>5, <1>7
  <2>2. Part <=> \E d \in 0..(Len(v) - Len(u)) : \A p \in 1..Len(u) : v[d + p] = u[p]
    <3>1. \A o \in 0..(Len(v) - Len(u)) :
            SubSeq(v, o + 1, o + Len(u)) = u <=> \A p \in 1..Len(u) : v[o + p] = u[p]
      BY <1>5, PartIs
    <3> QED
      BY <3>1, Zenon
  <2>3. (\E d \in 0..(Len(v) - Len(u)) : \A p \in 1..Len(u) : v[d + p] = u[p])
          <=> \E o \in 0..Len(j.letters) : SeenAt(i, j, o)
    <3>1. ASSUME NEW d \in 0..(Len(v) - Len(u)), \A p \in 1..Len(u) : v[d + p] = u[p]
          PROVE  \E o \in 0..Len(j.letters) : SeenAt(i, j, o)
      BY <1>1, <2>1, <3>1, PartIsSeen
    <3>2. ASSUME NEW o \in 0..Len(j.letters), SeenAt(i, j, o)
          PROVE  \E d \in 0..(Len(v) - Len(u)) : \A p \in 1..Len(u) : v[d + p] = u[p]
      BY <1>1, <2>1, <3>2, SeenIsPart
    <3> QED
      BY <3>1, <3>2
  <2> HIDE DEF Part
  <2> QED
    BY <1>2, <1>3, <1>4, <1>7, <2>1, <2>2, <2>3
<1> QED
  BY <1>6, <1>7
=============================================================================
