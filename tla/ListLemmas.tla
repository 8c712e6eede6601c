----------------------------- MODULE ListLemmas -----------------------------
(***************************************************************************)
(* What the list operators of module Lists do to the contents of a list,   *)
(* for lists of every length.                                              *)
(***************************************************************************)
EXTENDS Lists, SequenceTheorems, FiniteSetTheorems, WellFoundedInduction, TLAPS

\* A set of natural numbers has a least element: what the lemmas below use
\* in the place of induction.
LEMMA LeastNat ==
  ASSUME NEW T \in SUBSET Nat, T # {}
  PROVE  \E m \in T : \A n \in T : m <= n
<1>1. PICK m \in T : \A n \in T : ~(<<n, m>> \in OpToRel(<, Nat))
  BY WFMin, NatLessThanWellFounded
<1>2. \A n \in T : ~(n < m)
  BY <1>1 DEF OpToRel
<1> QED
  BY <1>2

\* A list's elements are of the type of the list.
LEMMA RangeSeq ==
  ASSUME NEW S, NEW s \in Seq(S)
  PROVE  Range(s) \subseteq S
  BY ElementOfSeq, LenProperties DEF Range

\* list_push_back() adds one element, and keeps a list without duplicates so
\* when the element is new.
LEMMA AppendList ==
  ASSUME NEW S, NEW s \in Seq(S), NEW x \in S
  PROVE  /\ Append(s, x) \in Seq(S)
         /\ Range(Append(s, x)) = Range(s) \cup {x}
         /\ IsInjective(s) /\ x \notin Range(s) => IsInjective(Append(s, x))
<1>1. /\ Append(s, x) \in Seq(S)
      /\ DOMAIN Append(s, x) = 1..(Len(s) + 1) /\ DOMAIN s = 1..Len(s)
      /\ \A i \in 1..Len(s) : Append(s, x)[i] = s[i]
      /\ Append(s, x)[Len(s) + 1] = x
      /\ Len(s) \in Nat
  OBVIOUS
<1>2. Range(Append(s, x)) = Range(s) \cup {x}
  BY <1>1 DEF Range
<1>3. IsInjective(s) /\ x \notin Range(s) => IsInjective(Append(s, x))
  BY <1>1 DEF Range, IsInjective
<1> QED
  BY <1>1, <1>2, <1>3

\* Appending a whole list.
LEMMA ConcatList ==
  ASSUME NEW S, NEW s \in Seq(S), NEW t \in Seq(S)
  PROVE  /\ s \o t \in Seq(S)
         /\ Range(s \o t) = Range(s) \cup Range(t)
         /\ (IsInjective(s) /\ IsInjective(t) /\ Range(s) \cap Range(t) = {})
              => IsInjective(s \o t)
<1> DEFINE c == s \o t
<1>1. /\ c \in Seq(S) /\ DOMAIN c = 1..(Len(s) + Len(t))
      /\ DOMAIN s = 1..Len(s) /\ DOMAIN t = 1..Len(t)
      /\ Len(s) \in Nat /\ Len(t) \in Nat
      /\ \A i \in DOMAIN c : c[i] = IF i <= Len(s) THEN s[i] ELSE t[i - Len(s)]
  BY ConcatProperties, LenProperties
<1> HIDE DEF c
<1>2. Range(c) = Range(s) \cup Range(t)
  <2>1. Range(c) \subseteq Range(s) \cup Range(t)
    <3> SUFFICES ASSUME NEW i \in DOMAIN c PROVE c[i] \in Range(s) \cup Range(t)
      BY DEF Range
    <3>1. CASE i <= Len(s)
      BY <3>1, <1>1 DEF Range
    <3>2. CASE i > Len(s)
      <4>1. i - Len(s) \in DOMAIN t /\ c[i] = t[i - Len(s)]
        BY <3>2, <1>1
      <4> QED
        BY <4>1 DEF Range
    <3> QED
      BY <3>1, <3>2, <1>1
  <2>2. Range(s) \subseteq Range(c)
    <3> SUFFICES ASSUME NEW i \in DOMAIN s PROVE s[i] \in Range(c)
      BY DEF Range
    <3>1. i \in DOMAIN c /\ c[i] = s[i]
      BY <1>1
    <3> QED
      BY <3>1 DEF Range
  <2>3. Range(t) \subseteq Range(c)
    <3> SUFFICES ASSUME NEW i \in DOMAIN t PROVE t[i] \in Range(c)
      BY DEF Range
    <3>1. i + Len(s) \in DOMAIN c /\ c[i + Len(s)] = t[i]
      BY <1>1
    <3> QED
      BY <3>1 DEF Range
  <2> QED
    BY <2>1, <2>2, <2>3
<1>3. ASSUME IsInjective(s), IsInjective(t), Range(s) \cap Range(t) = {}
      PROVE  IsInjective(c)
  <2> SUFFICES ASSUME NEW i \in DOMAIN c, NEW j \in DOMAIN c, c[i] = c[j]
               PROVE  i = j
    BY DEF IsInjective
  <2>1. CASE i <= Len(s) /\ j <= Len(s)
    BY <2>1, <1>1, <1>3 DEF IsInjective
  <2>2. CASE i > Len(s) /\ j > Len(s)
    <3>1. i - Len(s) = j - Len(s)
      BY <2>2, <1>1, <1>3, SMTT(30) DEF IsInjective
    <3> QED
      BY <3>1, <1>1
  <2>3. CASE i <= Len(s) /\ j > Len(s)
    <3>1. c[i] \in Range(s) /\ c[j] \in Range(t)
      <4>1. j - Len(s) \in DOMAIN t /\ c[j] = t[j - Len(s)] /\ c[i] = s[i] /\ i \in DOMAIN s
        BY <2>3, <1>1
      <4> QED
        BY <4>1 DEF Range
    <3> QED
      BY <3>1, <1>3
  <2>4. CASE i > Len(s) /\ j <= Len(s)
    <3>1. c[j] \in Range(s) /\ c[i] \in Range(t)
      <4>1. i - Len(s) \in DOMAIN t /\ c[i] = t[i - Len(s)] /\ c[j] = s[j] /\ j \in DOMAIN s
        BY <2>4, <1>1
      <4> QED
        BY <4>1 DEF Range
    <3> QED
      BY <3>1, <1>3
  <2> QED
    BY <2>1, <2>2, <2>3, <2>4, <1>1
<1> QED
  BY <1>1, <1>2, <1>3 DEF c

\* A list without its element at i: those behind it move up.
LEMMA RemoveAtList ==
  ASSUME NEW S, NEW s \in Seq(S), NEW i \in DOMAIN s
  PROVE  /\ RemoveAt(s, i) \in Seq(S) /\ DOMAIN RemoveAt(s, i) = 1..(Len(s) - 1)
         /\ \A k \in 1..(Len(s) - 1) :
              RemoveAt(s, i)[k] = IF k < i THEN s[k] ELSE s[k + 1]
         /\ IsInjective(s) => /\ Range(RemoveAt(s, i)) = Range(s) \ {s[i]}
                              /\ IsInjective(RemoveAt(s, i))
<1> DEFINE r == RemoveAt(s, i)
           x == s[i]
           m == SubSeq(s, 1, i - 1)
           n == SubSeq(s, i + 1, Len(s))
<1>1. i \in DOMAIN s /\ s[i] = x
  OBVIOUS
<1> HIDE DEF x
<1>2. DOMAIN s = 1..Len(s) /\ Len(s) \in Nat /\ \A k \in 1..Len(s) : s[k] \in S
  BY LenProperties, ElementOfSeq
<1>3. r = m \o n
  BY DEF RemoveAt
<1> HIDE DEF r
<1>4. /\ m \in Seq(S) /\ Len(m) = i - 1
      /\ \A k \in 1..(i - 1) : m[k] = s[k]
  BY <1>1, <1>2, SubSeqProperties
<1>5. /\ n \in Seq(S) /\ Len(n) = Len(s) - i
      /\ \A k \in 1..(Len(s) - i) : n[k] = s[i + k]
  <2>1. i + 1 \in Int /\ Len(s) \in Int /\ \A k \in (i + 1)..Len(s) : s[k] \in S
    BY <1>1, <1>2
  <2>2. /\ n \in Seq(S)
        /\ Len(n) = IF i + 1 <= Len(s) THEN Len(s) - (i + 1) + 1 ELSE 0
        /\ \A k \in 1..(Len(s) - (i + 1) + 1) : n[k] = s[(i + 1) + k - 1]
    BY <2>1, SubSeqProperties
  <2> QED
    BY <2>2, <1>1, <1>2
<1> HIDE DEF m, n
<1>6. /\ r \in Seq(S) /\ DOMAIN r = 1..(Len(s) - 1)
      /\ \A k \in 1..(Len(s) - 1) : r[k] = IF k < i THEN s[k] ELSE s[k + 1]
  <2>1. /\ r \in Seq(S) /\ Len(r) = Len(s) - 1
        /\ \A k \in 1..(Len(s) - 1) :
             r[k] = IF k <= i - 1 THEN m[k] ELSE n[k - (i - 1)]
    <3>1. /\ r \in Seq(S) /\ Len(r) = Len(m) + Len(n)
          /\ \A k \in 1..(Len(m) + Len(n)) :
               r[k] = IF k <= Len(m) THEN m[k] ELSE n[k - Len(m)]
      BY <1>3, <1>4, <1>5, ConcatProperties
    <3>2. Len(m) + Len(n) = Len(s) - 1 /\ Len(m) = i - 1
      BY <1>1, <1>2, <1>4, <1>5
    <3> QED
      BY <3>1, <3>2
  <2>2. ASSUME NEW k \in 1..(Len(s) - 1), k > i - 1
        PROVE  n[k - (i - 1)] = s[k + 1]
    <3>1. k - (i - 1) \in 1..(Len(s) - i) /\ i + (k - (i - 1)) = k + 1
      BY <2>2, <1>1, <1>2
    <3> QED
      BY <3>1, <1>5
  <2> QED
    BY <2>1, <2>2, <1>1, <1>2, <1>4, LenProperties
<1>7. IsInjective(s) => Range(r) = Range(s) \ {x}
  <2> HAVE IsInjective(s)
  <2>1. ASSUME NEW k \in DOMAIN r PROVE r[k] \in Range(s) /\ r[k] # x
    <3> DEFINE j == IF k < i THEN k ELSE k + 1
    <3>1. j \in DOMAIN s /\ r[k] = s[j] /\ j # i
      BY <2>1, <1>6, <1>1, <1>2
    <3> QED
      BY <3>1, <1>1 DEF Range, IsInjective
  <2>2. ASSUME NEW k \in DOMAIN s, s[k] # x PROVE s[k] \in Range(r)
    <3> DEFINE j == IF k < i THEN k ELSE k - 1
    <3>1. j \in DOMAIN r /\ r[j] = s[k]
      BY <2>2, <1>6, <1>1, <1>2
    <3> QED
      BY <3>1 DEF Range
  <2> QED
    BY <2>1, <2>2 DEF Range
<1>8. IsInjective(s) => IsInjective(r)
  <2> HAVE IsInjective(s)
  <2> SUFFICES ASSUME NEW j \in DOMAIN r, NEW k \in DOMAIN r, r[j] = r[k]
               PROVE  j = k
    BY DEF IsInjective
  <2> DEFINE p(q) == IF q < i THEN q ELSE q + 1
  <2>1. p(j) \in DOMAIN s /\ p(k) \in DOMAIN s /\ r[j] = s[p(j)] /\ r[k] = s[p(k)]
    BY <1>1, <1>2, <1>6
  <2>2. p(j) = p(k)
    <3> HIDE DEF p
    <3> QED
      BY <2>1 DEF IsInjective
  <2> QED
    BY <2>2, <1>1, <1>2, <1>6
<1> QED
  BY <1>6, <1>7, <1>8 DEF r, x

\* list_remove() takes exactly its element out of a list without duplicates.
LEMMA UnlinkList ==
  ASSUME NEW S, NEW s \in Seq(S), IsInjective(s), NEW x \in Range(s)
  PROVE  /\ Unlink(s, x) \in Seq(S)
         /\ Range(Unlink(s, x)) = Range(s) \ {x}
         /\ IsInjective(Unlink(s, x))
<1> DEFINE i == CHOOSE k \in DOMAIN s : s[k] = x
<1>1. i \in DOMAIN s /\ s[i] = x
  BY DEF Range
<1>2. Unlink(s, x) = RemoveAt(s, i)
  BY DEF Unlink
<1> HIDE DEF i
<1> QED
  BY <1>1, <1>2, RemoveAtList

\* The scans for the first element of greatest priority find one: it is an
\* element of the list, and no other has a greater priority.
LEMMA FirstMaxList ==
  ASSUME NEW S, NEW s \in Seq(S), s # <<>>, NEW N \in Nat, NEW pri \in [S -> 0..N]
  PROVE  /\ FirstMax(s, pri) \in DOMAIN s
         /\ s[FirstMax(s, pri)] \in Range(s)
         /\ \A x \in Range(s) : pri[x] <= pri[s[FirstMax(s, pri)]]
<1>1. /\ DOMAIN s = 1..Len(s) /\ Len(s) \in Nat /\ Len(s) # 0
      /\ \A i \in DOMAIN s : s[i] \in S /\ pri[s[i]] \in 0..N
  BY LenProperties, ElementOfSeq, EmptySeq
<1> DEFINE gap == {N - pri[s[i]] : i \in DOMAIN s}
<1>2. PICK g \in gap : \A h \in gap : g <= h
  <2>1. gap \in SUBSET Nat /\ gap # {}
    BY <1>1
  <2> HIDE DEF gap
  <2> QED
    BY <2>1, LeastNat
<1> DEFINE top == {i \in DOMAIN s : N - pri[s[i]] = g}
<1>3. PICK i \in top : \A j \in top : i <= j
  <2>1. top \in SUBSET Nat /\ top # {}
    BY <1>1, <1>2
  <2> HIDE DEF top
  <2> QED
    BY <2>1, LeastNat
<1>4. /\ i \in DOMAIN s
      /\ \A j \in DOMAIN s : pri[s[j]] <= pri[s[i]]
  <2>1. i \in DOMAIN s /\ N - pri[s[i]] = g
    BY <1>3
  <2>2. ASSUME NEW j \in DOMAIN s PROVE pri[s[j]] <= pri[s[i]]
    <3>1. N - pri[s[j]] \in gap
      OBVIOUS
    <3>2. N - pri[s[i]] <= N - pri[s[j]]
      BY <3>1, <2>1, <1>2
    <3> QED
      BY <3>2, <2>1, <2>2, <1>1
  <2> QED
    BY <2>1, <2>2
<1>5. ASSUME NEW j \in DOMAIN s, j < i
      PROVE  pri[s[j]] < pri[s[i]]
  <2>1. j \notin top
    BY <1>1, <1>3, <1>5
  <2> QED
    BY <2>1, <1>1, <1>3, <1>4, <1>5
<1>6. /\ FirstMax(s, pri) \in DOMAIN s
      /\ \A j \in DOMAIN s : pri[s[j]] <= pri[s[FirstMax(s, pri)]]
  BY <1>4, <1>5 DEF FirstMax
<1> QED
  BY <1>6 DEF Range

\* A set of integers below a bound has a greatest element, which Max gives.
LEMMA MaxBounded ==
  ASSUME NEW T \in SUBSET Int, T # {}, NEW N \in Int, \A x \in T : x <= N
  PROVE  Max(T) \in T /\ \A x \in T : x <= Max(T)
<1> DEFINE gap == {N - x : x \in T}
<1>1. PICK g \in gap : \A h \in gap : g <= h
  <2>1. \A x \in T : x \in Int /\ N - x \in Nat
    OBVIOUS
  <2>2. gap \in SUBSET Nat /\ gap # {}
    BY <2>1
  <2> HIDE DEF gap
  <2> QED
    BY <2>2, LeastNat
<1>2. PICK m \in T : g = N - m
  BY <1>1
<1>3. \A x \in T : m >= x
  <2> SUFFICES ASSUME NEW x \in T PROVE m >= x
    OBVIOUS
  <2>1. N - m <= N - x
    BY <1>1, <1>2
  <2> QED
    BY <2>1
<1>4. Max(T) \in T /\ \A x \in T : Max(T) >= x
  BY <1>3 DEF Max
<1> QED
  BY <1>4

\* Rank counts up by one at each element in T and not at the others.
LEMMA RankStep ==
  ASSUME NEW s, NEW T, NEW i \in Nat
  PROVE  /\ Rank(s, T, i) \in Nat
         /\ Rank(s, T, 0) = 0
         /\ s[i + 1] \in T => Rank(s, T, i + 1) = Rank(s, T, i) + 1
         /\ s[i + 1] \notin T => Rank(s, T, i + 1) = Rank(s, T, i)
<1> DEFINE P(k) == {j \in 1..k : s[j] \in T}
<1>1. IsFiniteSet(P(i))
  <2>1. IsFiniteSet(1..i) /\ P(i) \in SUBSET (1..i)
    BY FS_Interval
  <2> HIDE DEF P
  <2> QED
    BY <2>1, FS_Subset
<1>2. P(0) = {}
  OBVIOUS
<1>3. P(i + 1) = IF s[i + 1] \in T THEN P(i) \cup {i + 1} ELSE P(i)
  OBVIOUS
<1>4. i + 1 \notin P(i)
  OBVIOUS
<1>5. Cardinality(P(i)) \in Nat /\ Cardinality(P(0)) = 0
  BY <1>1, <1>2, FS_CardinalityType, FS_EmptySet
<1>6. /\ s[i + 1] \in T => Cardinality(P(i + 1)) = Cardinality(P(i)) + 1
      /\ s[i + 1] \notin T => Cardinality(P(i + 1)) = Cardinality(P(i))
  <2> HIDE DEF P
  <2>1. CASE s[i + 1] \in T
    BY <2>1, <1>1, <1>3, <1>4, FS_AddElement
  <2>2. CASE s[i + 1] \notin T
    BY <2>2, <1>3, <1>5
  <2> QED
    BY <2>1, <2>2
<1> QED
  BY <1>5, <1>6 DEF Rank

\* Rank does not decrease, and an element of T has a greater rank than every
\* position before it.
LEMMA RankMonotone ==
  ASSUME NEW s, NEW T, NEW i \in Nat, NEW j \in Nat, i < j
  PROVE  /\ Rank(s, T, i) <= Rank(s, T, j)
         /\ s[j] \in T => Rank(s, T, i) < Rank(s, T, j)
<1> DEFINE P(k) == {n \in 1..k : s[n] \in T}
<1>1. P(i) \in SUBSET P(j) /\ (s[j] \in T => j \in P(j) /\ j \notin P(i))
  OBVIOUS
<1>2. IsFiniteSet(P(j)) /\ IsFiniteSet(P(i))
  <2>1. /\ IsFiniteSet(1..i) /\ P(i) \in SUBSET (1..i)
        /\ IsFiniteSet(1..j) /\ P(j) \in SUBSET (1..j)
    BY FS_Interval
  <2> HIDE DEF P
  <2> QED
    BY <2>1, FS_Subset
<1>3. /\ Cardinality(P(i)) \in Nat /\ Cardinality(P(j)) \in Nat
      /\ Cardinality(P(i)) <= Cardinality(P(j))
      /\ Cardinality(P(i)) = Cardinality(P(j)) => P(j) = P(i)
  <2> HIDE DEF P
  <2> QED
    BY <1>1, <1>2, FS_Subset, FS_CardinalityType
<1>4. s[j] \in T => Cardinality(P(i)) # Cardinality(P(j))
  <2> HIDE DEF P
  <2> QED
    BY <1>1, <1>3
<1> QED
  BY <1>3, <1>4 DEF Rank

\* Every rank up to the last is the rank of an element of T.
LEMMA RankHit ==
  ASSUME NEW S, NEW s \in Seq(S), NEW T, NEW k \in 1..Rank(s, T, Len(s))
  PROVE  \E i \in DOMAIN s : s[i] \in T /\ Rank(s, T, i) = k
<1>1. Len(s) \in Nat /\ DOMAIN s = 1..Len(s)
  BY LenProperties
<1>2. \A i \in Nat : Rank(s, T, i) \in Nat
  BY RankStep
<1> DEFINE A == {i \in Nat : Rank(s, T, i) >= k}
<1>3. PICK i \in A : \A j \in A : i <= j
  <2>1. A \in SUBSET Nat /\ Len(s) \in A
    BY <1>1, <1>2
  <2> HIDE DEF A
  <2> QED
    BY <2>1, LeastNat
<1>4. i # 0
  <2>1. Rank(s, T, 0) = 0
    BY RankStep
  <2> QED
    BY <2>1, <1>2, <1>3
<1>5. i \in Nat /\ i - 1 \in Nat /\ i <= Len(s) /\ Rank(s, T, i - 1) < k
  <2>1. i \in Nat /\ i - 1 \in Nat /\ Len(s) \in A /\ i <= Len(s)
    BY <1>1, <1>2, <1>3, <1>4
  <2>2. i - 1 \notin A
    BY <2>1, <1>3
  <2>3. Rank(s, T, i - 1) \in Nat
    BY <2>1, <1>2
  <2> QED
    BY <2>1, <2>2, <2>3
<1>6. /\ s[i] \in T => Rank(s, T, i) = Rank(s, T, i - 1) + 1
      /\ s[i] \notin T => Rank(s, T, i) = Rank(s, T, i - 1)
  <2> DEFINE h == i - 1
  <2>1. h \in Nat /\ h + 1 = i
    BY <1>5
  <2> HIDE DEF h
  <2>2. /\ s[h + 1] \in T => Rank(s, T, h + 1) = Rank(s, T, h) + 1
        /\ s[h + 1] \notin T => Rank(s, T, h + 1) = Rank(s, T, h)
    BY <2>1, RankStep
  <2> QED
    BY <2>1, <2>2 DEF h
<1>7. i \in DOMAIN s /\ s[i] \in T /\ Rank(s, T, i) = k
  <2>1. Rank(s, T, i) >= k /\ Rank(s, T, i) \in Nat /\ Rank(s, T, i - 1) \in Nat
    BY <1>2, <1>3, <1>5
  <2>2. k \in Nat
    BY <1>1, <1>2
  <2> QED
    BY <2>1, <2>2, <1>1, <1>4, <1>5, <1>6
<1> QED
  BY <1>7

\* A pass over a list that keeps the elements of T keeps exactly those, each
\* as often as before.
LEMMA SublistList ==
  ASSUME NEW S, NEW s \in Seq(S), NEW T
  PROVE  /\ Sublist(s, T) \in Seq(S)
         /\ Range(Sublist(s, T)) = Range(s) \cap T
         /\ IsInjective(s) => IsInjective(Sublist(s, T))
<1> DEFINE n == Rank(s, T, Len(s))
           f == [k \in 1..n |-> CHOOSE i \in DOMAIN s : s[i] \in T /\ Rank(s, T, i) = k]
           r == Sublist(s, T)
<1>1. Len(s) \in Nat /\ DOMAIN s = 1..Len(s) /\ n \in Nat
  BY LenProperties, RankStep
<1>2. \A k \in 1..n : f[k] \in DOMAIN s /\ s[f[k]] \in T /\ Rank(s, T, f[k]) = k
  BY RankHit
<1>3. r = [k \in 1..n |-> s[f[k]]]
  BY DEF Sublist
<1> HIDE DEF f, r, n
<1>4. r \in Seq(S)
  <2>1. r \in [1..n -> S]
    BY <1>1, <1>2, <1>3, ElementOfSeq
  <2> QED
    BY <2>1, <1>1, SeqDef
<1>5. ASSUME NEW i \in DOMAIN s, s[i] \in T
      PROVE  Rank(s, T, i) \in 1..n /\ f[Rank(s, T, i)] = i
  <2>1. Rank(s, T, i) \in 1..n
    <3>1. Rank(s, T, 0) = 0 /\ Rank(s, T, 0) < Rank(s, T, i) /\ Rank(s, T, i) \in Nat
      <4>1. i \in Nat /\ 0 \in Nat /\ 0 < i
        BY <1>1
      <4> QED
        BY <4>1, <1>5, RankStep, RankMonotone
    <3>2. Rank(s, T, i) <= n
      <4>1. CASE i = Len(s)
        BY <4>1, <3>1 DEF n
      <4>2. CASE i < Len(s)
        BY <4>2, <1>1, RankMonotone DEF n
      <4> QED
        BY <4>1, <4>2, <1>1
    <3> QED
      BY <3>1, <3>2, <1>1
  <2> DEFINE j == f[Rank(s, T, i)]
  <2>2. j \in DOMAIN s /\ s[j] \in T /\ Rank(s, T, j) = Rank(s, T, i)
    BY <2>1, <1>2
  <2> HIDE DEF j
  <2>3. i \in Nat /\ j \in Nat /\ Rank(s, T, i) \in Nat /\ Rank(s, T, j) \in Nat
    <3>1. i \in Nat /\ j \in Nat
      BY <1>1, <2>2
    <3> QED
      BY <3>1, RankStep, Zenon
  <2>4. ~(i < j)
    BY <2>2, <2>3, RankMonotone
  <2>5. ~(j < i)
    BY <1>5, <2>2, <2>3, RankMonotone
  <2>6. j = i
    BY <2>3, <2>4, <2>5
  <2> QED
    BY <2>1, <2>6 DEF j
<1>6. Range(r) = Range(s) \cap T
  <2>1. ASSUME NEW k \in DOMAIN r PROVE r[k] \in Range(s) \cap T
    BY <2>1, <1>2, <1>3 DEF Range
  <2>2. ASSUME NEW i \in DOMAIN s, s[i] \in T PROVE s[i] \in Range(r)
    <3>1. Rank(s, T, i) \in DOMAIN r /\ r[Rank(s, T, i)] = s[i]
      BY <2>2, <1>3, <1>5
    <3> QED
      BY <3>1 DEF Range
  <2> QED
    BY <2>1, <2>2 DEF Range
<1>7. ASSUME IsInjective(s) PROVE IsInjective(r)
  <2> SUFFICES ASSUME NEW k \in 1..n, NEW l \in 1..n, s[f[k]] = s[f[l]]
               PROVE  k = l
    BY <1>3 DEF IsInjective
  <2>1. f[k] = f[l]
    BY <1>2, <1>7 DEF IsInjective
  <2> QED
    BY <2>1, <1>2
<1> QED
  BY <1>4, <1>6, <1>7 DEF r

\* list_pop_front() takes the first element out of a list without duplicates.
LEMMA TailList ==
  ASSUME NEW S, NEW s \in Seq(S), s # <<>>
  PROVE  /\ Head(s) \in S /\ Head(s) \in Range(s) /\ Tail(s) \in Seq(S)
         /\ Range(s) = {Head(s)} \cup Range(Tail(s))
         /\ IsInjective(s) => /\ Range(Tail(s)) = Range(s) \ {Head(s)}
                              /\ IsInjective(Tail(s))
<1>1. /\ DOMAIN s = 1..Len(s) /\ Len(s) \in Nat \ {0} /\ Head(s) = s[1]
      /\ Tail(s) \in Seq(S) /\ DOMAIN Tail(s) = 1..(Len(s) - 1)
      /\ \A i \in 1..(Len(s) - 1) : Tail(s)[i] = s[i + 1]
      /\ \A i \in 1..Len(s) : s[i] \in S
  BY EmptySeq, LenProperties, HeadTailProperties, ElementOfSeq
<1> DEFINE r == Tail(s)
<1> HIDE DEF r
<1>2. /\ DOMAIN r = 1..(Len(s) - 1) /\ \A i \in 1..(Len(s) - 1) : r[i] = s[i + 1]
  BY <1>1 DEF r
<1>3. s[1] \in Range(s) /\ Range(r) \subseteq Range(s)
  BY <1>1, <1>2 DEF Range
<1>4. ASSUME NEW i \in DOMAIN s PROVE s[i] = s[1] \/ s[i] \in Range(r)
  <2>1. CASE i = 1
    BY <2>1
  <2>2. CASE i # 1
    <3>1. i - 1 \in DOMAIN r /\ r[i - 1] = s[i]
      BY <2>2, <1>1, <1>2
    <3> QED
      BY <3>1 DEF Range
  <2> QED
    BY <2>1, <2>2
<1>5. Range(s) = {s[1]} \cup Range(r)
  BY <1>3, <1>4 DEF Range
<1>6. ASSUME IsInjective(s) PROVE s[1] \notin Range(r) /\ IsInjective(r)
  <2>1. \A i \in DOMAIN r : i + 1 \in DOMAIN s /\ i + 1 # 1 /\ r[i] = s[i + 1]
    BY <1>1, <1>2
  <2>2. 1 \in DOMAIN s
    BY <1>1
  <2>3. ASSUME NEW i \in DOMAIN r PROVE r[i] # s[1]
    BY <1>6, <2>1, <2>2 DEF IsInjective
  <2>4. ASSUME NEW i \in DOMAIN r, NEW j \in DOMAIN r, r[i] = r[j] PROVE i = j
    <3>1. i + 1 = j + 1
      BY <1>6, <2>1, <2>4 DEF IsInjective
    <3> QED
      BY <1>1, <1>2, <3>1
  <2> QED
    BY <2>3, <2>4 DEF Range, IsInjective
<1> QED
  BY <1>1, <1>3, <1>5, <1>6 DEF r
=============================================================================
