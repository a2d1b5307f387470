-------------------------- MODULE MarketingProofs ---------------------------
(***************************************************************************)
(* Accounts, coupons, session cards, settlements and the catalogues, for   *)
(* any number of callers, templates, holders and offers: the accounts are  *)
(* explained by their ledger, the counters that are columns of other rows  *)
(* agree with the rows, the limits are exceeded by no more than what is in *)
(* flight, what a settlement claims is backed, and the lists show all of   *)
(* it, page by page.                                                       *)
(***************************************************************************)
EXTENDS MCMarketing, SumTheorems, FiniteSetTheorems, FunctionTheorems, SequenceTheorems

-----------------------------------------------------------------------------
(* Sets and sequences *)

\* The rows made of a finite set are the elements of a sequence as long as the
\* set is large.
LEMMA SetToSeqFacts ==
    ASSUME NEW S, IsFiniteSet(S)
    PROVE  SetToSeq(S) \in [1..Cardinality(S) -> S] /\ Cardinality(S) \in Nat
<1>1. ExistsBijection(1..Cardinality(S), S) /\ Cardinality(S) \in Nat
  BY FS_CardinalityType
<1>2. \E f \in [1..Cardinality(S) -> S] : IsInjective(f)
  BY <1>1 DEF ExistsBijection, Bijection, Injection
<1> QED
  BY <1>1, <1>2 DEF SetToSeq

LEMMA RowsAreASequence ==
    ASSUME NEW S, IsFiniteSet(S), NEW T, S \subseteq T
    PROVE  /\ SetToSeq(S) \in Seq(T) /\ Len(SetToSeq(S)) = Cardinality(S)
           /\ Cardinality(S) \in Nat
           /\ \A k \in 1..Cardinality(S) : SetToSeq(S)[k] \in S
<1>1. SetToSeq(S) \in [1..Cardinality(S) -> S] /\ Cardinality(S) \in Nat
  BY SetToSeqFacts
<1> HIDE DEF SetToSeq
<1>2. PICK s : s = SetToSeq(S)
  OBVIOUS
<1>3. PICK n \in Nat : n = Cardinality(S)
  BY <1>1
<1>4. s \in [1..n -> S]
  BY <1>1, <1>2, <1>3
<1>5. s \in Seq(T) /\ Len(s) = n /\ \A k \in 1..n : s[k] \in S
  BY <1>4
<1> QED
  BY <1>2, <1>3, <1>5

\* The image of a set under a function is no larger than the set.
LEMMA ImageSize ==
    ASSUME NEW S, IsFiniteSet(S), NEW f, f = [x \in S |-> f[x]]
    PROVE  /\ IsFiniteSet({f[x] : x \in S})
           /\ Cardinality({f[x] : x \in S}) <= Cardinality(S)
<1>1. f \in Surjection(S, {f[x] : x \in S})
  BY DEF Surjection
<1> QED
  BY <1>1, FS_Surjection

\* Two disjoint finite sets together.
LEMMA DisjointUnion ==
    ASSUME NEW S, IsFiniteSet(S), NEW T, IsFiniteSet(T), S \cap T = {}
    PROVE  /\ IsFiniteSet(S \cup T)
           /\ Cardinality(S) \in Nat /\ Cardinality(T) \in Nat
           /\ Cardinality(S \cup T) = Cardinality(S) + Cardinality(T)
<1>1. Cardinality(S \cap T) = 0
  BY FS_EmptySet
<1>2. Cardinality(S) \in Nat /\ Cardinality(T) \in Nat
  BY FS_CardinalityType
<1>3. /\ IsFiniteSet(S \cup T)
      /\ Cardinality(S \cup T) = Cardinality(S) + Cardinality(T) - Cardinality(S \cap T)
  BY FS_Union
<1> QED
  BY <1>1, <1>2, <1>3

LEMMA FiniteIndices ==
    ASSUME NEW m \in Nat, NEW S \in SUBSET (1..m)
    PROVE  IsFiniteSet(S) /\ Cardinality(S) \in Nat
<1>1. IsFiniteSet(1..m)
  BY FS_Interval
<1> QED
  BY <1>1, FS_Subset, FS_CardinalityType

\* The indices of new rows behind old ones.
LEMMA NewIndices ==
    ASSUME NEW m \in Nat, NEW n \in Nat, NEW S \in SUBSET (1..m)
    PROVE  /\ IsFiniteSet(S) /\ Cardinality(S) \in Nat
           /\ Cardinality(S \cup (m+1)..(m+n)) = Cardinality(S) + n
<1>1. IsFiniteSet(S)
  BY FiniteIndices
<1>2. IsFiniteSet((m+1)..(m+n)) /\ Cardinality((m+1)..(m+n)) = n
  BY FS_Interval
<1>3. S \cap (m+1)..(m+n) = {}
  OBVIOUS
<1> QED
  BY <1>1, <1>2, <1>3, DisjointUnion

-----------------------------------------------------------------------------
(* The order of the lists and their pages *)

\* A finite set of numbers can be put in order.
Ascends(f, S) ==
    /\ f \in [1..Cardinality(S) -> S]
    /\ \A i, j \in 1..Cardinality(S) : i < j => f[i] < f[j]

LEMMA OrderExists ==
    ASSUME NEW S, IsFiniteSet(S), Numbered(S)
    PROVE  \E f : Ascends(f, S)
<1> DEFINE T == {s \in SUBSET S : ~ \E f : Ascends(f, s)}
<1>1. SUFFICES ASSUME T # {} PROVE FALSE
  OBVIOUS
<1>2. PICK s \in T : \A y \in T : ~ (y \subseteq s /\ y # s)
  <2>1. T \in SUBSET SUBSET S
    OBVIOUS
  <2> HIDE DEF T
  <2> QED
    BY <1>1, <2>1, LeastSet
<1>3. IsFiniteSet(s) /\ Numbered(s)
  BY FS_Subset DEF Numbered
<1>4. s # {}
  <2>1. Ascends(<<>>, {})
    BY FS_EmptySet DEF Ascends
  <2> QED
    BY <1>2, <2>1
<1>5. PICK m \in s : \A x \in s : m <= x
  BY <1>3, <1>4, LeastNumber
<1> DEFINE r == s \ {m}
<1>6. PICK g : Ascends(g, r)
  <2>1. r \in SUBSET S /\ r \subseteq s /\ r # s
    OBVIOUS
  <2> HIDE DEF r
  <2>2. r \notin T
    BY <1>2, <2>1
  <2> QED
    BY <2>1, <2>2
<1>7. /\ Cardinality(r) \in Nat /\ Cardinality(s) = Cardinality(r) + 1
      /\ IsFiniteSet(r)
  <2>1. /\ IsFiniteSet(r)
        /\ Cardinality(r) = IF m \in s THEN Cardinality(s) - 1 ELSE Cardinality(s)
    BY <1>3, FS_RemoveElement
  <2>2. Cardinality(r) \in Nat /\ Cardinality(s) \in Nat
    BY <1>3, <2>1, FS_CardinalityType
  <2> QED
    BY <1>5, <2>1, <2>2
<1> DEFINE n == Cardinality(r)
           f == [i \in 1..(n + 1) |-> IF i = 1 THEN m ELSE g[i - 1]]
<1>8. g \in [1..n -> r] /\ \A i, j \in 1..n : i < j => g[i] < g[j]
  BY <1>6 DEF Ascends
<1>9. \A i \in 1..n : g[i] \in Int /\ m < g[i]
  <2>1. \A x \in r : x \in Int /\ m <= x /\ x # m /\ m \in Int
    BY <1>3, <1>5 DEF Numbered
  <2>2. \A x \in r : x \in Int /\ m < x
    BY <2>1
  <2> HIDE DEF r
  <2> QED
    BY <1>8, <2>2
<1>10. m \in Int /\ n \in Nat
  BY <1>3, <1>5, <1>7 DEF Numbered
<1> HIDE DEF n, r
<1>11. f \in [1..(n + 1) -> s]
  BY <1>8, <1>10 DEF r
<1>12. \A i, j \in 1..(n + 1) : i < j => f[i] < f[j]
  <2> SUFFICES ASSUME NEW i \in 1..(n + 1), NEW j \in 1..(n + 1), i < j PROVE f[i] < f[j]
    OBVIOUS
  <2>1. f[j] = g[j - 1] /\ j - 1 \in 1..n
    BY <1>10
  <2>2. CASE i = 1
    BY <1>9, <1>10, <2>1, <2>2
  <2>3. CASE i # 1
    <3>1. f[i] = g[i - 1] /\ i - 1 \in 1..n /\ i - 1 < j - 1
      BY <1>10, <2>3
    <3> QED
      BY <1>8, <2>1, <3>1
  <2> QED
    BY <2>2, <2>3
<1>13. Ascends(f, s)
  BY <1>7, <1>11, <1>12 DEF Ascends, n
<1> QED
  BY <1>2, <1>13

LEMMA AscendsOnto ==
    ASSUME NEW S, IsFiniteSet(S), Numbered(S), NEW f \in [1..Cardinality(S) -> S],
           \A i, j \in 1..Cardinality(S) : i < j => f[i] # f[j]
    PROVE  /\ Cardinality(S) \in Nat
           /\ f \in Seq(S) /\ Len(f) = Cardinality(S)
           /\ \A x \in S : \E i \in 1..Cardinality(S) : f[i] = x
<1>1. Cardinality(S) \in Nat
  BY FS_CardinalityType
<1>2. f \in Injection(1..Cardinality(S), S)
  <2>1. \A i, j \in 1..Cardinality(S) : f[i] = f[j] => i = j
    BY <1>1
  <2> QED
    BY <2>1 DEF Injection, IsInjective
<1>3. Cardinality(1..Cardinality(S)) = Cardinality(S)
  BY <1>1, FS_Interval
<1>4. f \in Surjection(1..Cardinality(S), S)
  BY <1>2, <1>3, FS_Injection
<1>5. \A x \in S : \E i \in 1..Cardinality(S) : f[i] = x
  BY <1>4 DEF Surjection
<1> QED
  BY <1>1, <1>5

LEMMA OldestFirstIs ==
    ASSUME NEW S, IsFiniteSet(S), Numbered(S)
    PROVE  /\ Cardinality(S) \in Nat
           /\ OldestFirst(S) \in Seq(S) /\ Len(OldestFirst(S)) = Cardinality(S)
           /\ \A i, j \in 1..Cardinality(S) : i < j => OldestFirst(S)[i] < OldestFirst(S)[j]
           /\ \A x \in S : \E i \in 1..Cardinality(S) : OldestFirst(S)[i] = x
<1> DEFINE f == OldestFirst(S)
<1>1. f \in [1..Cardinality(S) -> S] /\ \A i, j \in 1..Cardinality(S) : i < j => f[i] < f[j]
  BY OrderExists DEF OldestFirst, Ascends
<1> HIDE DEF f
<1>2. \A i, j \in 1..Cardinality(S) : i < j => f[i] # f[j]
  <2> SUFFICES ASSUME NEW i \in 1..Cardinality(S), NEW j \in 1..Cardinality(S), i < j
               PROVE  f[i] # f[j]
    OBVIOUS
  <2>1. f[i] \in Int /\ f[j] \in Int /\ f[i] < f[j]
    BY <1>1 DEF Numbered
  <2> QED
    BY <2>1
<1>3. /\ Cardinality(S) \in Nat /\ f \in Seq(S) /\ Len(f) = Cardinality(S)
      /\ \A x \in S : \E i \in 1..Cardinality(S) : f[i] = x
  <2>1. f \in [1..Cardinality(S) -> S] /\ \A i, j \in 1..Cardinality(S) : i < j => f[i] # f[j]
    BY <1>1, <1>2
  <2> QED
    BY <2>1, AscendsOnto
<1> QED
  BY <1>1, <1>3 DEF f

LEMMA NewestFirstIs ==
    ASSUME NEW S, IsFiniteSet(S), Numbered(S)
    PROVE  /\ Cardinality(S) \in Nat
           /\ NewestFirst(S) \in Seq(S) /\ Len(NewestFirst(S)) = Cardinality(S)
           /\ \A i, j \in 1..Cardinality(S) : i < j => NewestFirst(S)[i] > NewestFirst(S)[j]
           /\ \A x \in S : \E i \in 1..Cardinality(S) : NewestFirst(S)[i] = x
<1> DEFINE f == NewestFirst(S)
<1>1. PICK n \in Nat : n = Cardinality(S)
  BY FS_CardinalityType
<1>2. \E g \in [1..n -> S] : \A i, j \in 1..n : i < j => g[i] > g[j]
  <2>1. PICK h \in [1..n -> S] : \A i, j \in 1..n : i < j => h[i] < h[j]
    BY <1>1, OrderExists DEF Ascends
  <2> DEFINE g == [i \in 1..n |-> h[n + 1 - i]]
  <2>2. g \in [1..n -> S]
    BY <1>1
  <2>3. \A i, j \in 1..n : i < j => g[i] > g[j]
    <3> SUFFICES ASSUME NEW i \in 1..n, NEW j \in 1..n, i < j PROVE g[i] > g[j]
      OBVIOUS
    <3>1. n + 1 - j \in 1..n /\ n + 1 - i \in 1..n /\ n + 1 - j < n + 1 - i
      BY <1>1
    <3>2. h[n + 1 - j] < h[n + 1 - i]
      BY <2>1, <3>1
    <3>3. h[n + 1 - j] \in Int /\ h[n + 1 - i] \in Int
      BY <2>1, <3>1 DEF Numbered
    <3> QED
      BY <3>2, <3>3
  <2> QED
    BY <2>2, <2>3
<1>3. f \in [1..n -> S] /\ \A i, j \in 1..n : i < j => f[i] > f[j]
  BY <1>1, <1>2 DEF NewestFirst
<1> HIDE DEF f
<1>4. \A i, j \in 1..n : i < j => f[i] # f[j]
  <2> SUFFICES ASSUME NEW i \in 1..n, NEW j \in 1..n, i < j
               PROVE  f[i] # f[j]
    OBVIOUS
  <2>1. f[i] \in Int /\ f[j] \in Int /\ f[i] > f[j]
    BY <1>3 DEF Numbered
  <2> QED
    BY <2>1
<1>5. /\ Cardinality(S) \in Nat /\ f \in Seq(S) /\ Len(f) = Cardinality(S)
      /\ \A x \in S : \E i \in 1..Cardinality(S) : f[i] = x
  <2>1. f \in [1..Cardinality(S) -> S] /\ \A i, j \in 1..Cardinality(S) : i < j => f[i] # f[j]
    BY <1>1, <1>3, <1>4
  <2> QED
    BY <2>1, AscendsOnto
<1> QED
  BY <1>1, <1>3, <1>5 DEF f

\* The pages of a list, one after the other, are the list.
Cut(k, size, n) == IF k * size < n THEN k * size ELSE n

PagesIn(rows, size, K) ==
    [k \in 1..K |-> SubSeq(rows, (k - 1) * size + 1, Cut(k, size, Len(rows)))]

LEMMA Flattened ==
    ASSUME NEW X, NEW rows \in Seq(X), NEW size \in Nat \ {0}, NEW K \in Nat \ {0},
           K * size >= Len(rows)
    PROVE  FlattenSeq(PagesIn(rows, size, K)) = rows
<1>0. PICK pages : /\ pages = [k \in 1..K |-> SubSeq(rows, (k - 1) * size + 1,
                                                       Cut(k, size, Len(rows)))]
                   /\ pages = PagesIn(rows, size, K)
  BY DEF PagesIn
<1> DEFINE N == Len(rows)
           Eq(f) == f = [i \in 1..K |-> IF i = 1 THEN pages[i] ELSE f[i - 1] \o pages[i]]
           closed == [i \in 1..K |-> SubSeq(rows, 1, Cut(i, size, N))]
<1>1. Len(pages) = K
  BY <1>0
<1>2. N \in Nat
  OBVIOUS
<1>3. pages[1] = closed[1]
  <2>1. (1 - 1) * size + 1 = 1
    OBVIOUS
  <2> QED
    BY <1>0, <2>1
<1>4. \A i \in 2..K : closed[i] = closed[i - 1] \o pages[i]
  <2> SUFFICES ASSUME NEW i \in 2..K PROVE closed[i] = closed[i - 1] \o pages[i]
    OBVIOUS
  <2>1. PICK a \in Nat : a = (i - 1) * size
    OBVIOUS
  <2>2. i * size = a + size
    BY <2>1
  <2>3. CASE a <= N
    <3>1. Cut(i - 1, size, N) = a
      BY <2>1, <2>3 DEF Cut
    <3>2. PICK b \in a..N : b = Cut(i, size, N)
      BY <1>2, <2>2, <2>3 DEF Cut
    <3>3. SubSeq(rows, 1, a) \o SubSeq(rows, a + 1, b) = SubSeq(rows, 1, b)
      BY <1>2, <2>3, ConcatAdjacentSubSeq
    <3>4. i - 1 \in 1..K /\ i \in 1..K
      OBVIOUS
    <3> QED
      BY <1>0, <2>1, <3>1, <3>2, <3>3, <3>4
  <2>4. CASE a > N
    <3>1. Cut(i - 1, size, N) = N /\ Cut(i, size, N) = N
      BY <1>2, <2>1, <2>2, <2>4 DEF Cut
    <3>2. pages[i] = <<>>
      <4>1. pages[i] = SubSeq(rows, a + 1, N)
        BY <1>0, <2>1, <3>1, SMTT(30)
      <4> QED
        BY <1>2, <2>4, <4>1, SubSeqEmpty
    <3>3. closed[i - 1] = rows /\ closed[i] = rows
      BY <3>1, SubSeqFull
    <3>4. i - 1 \in 1..K /\ i \in 1..K
      OBVIOUS
    <3> HIDE DEF closed
    <3>5. rows \o <<>> = rows
      OBVIOUS
    <3> QED
      BY <3>2, <3>3, <3>5
  <2>5. a <= N \/ a > N
    BY <1>2
  <2> QED
    BY <2>3, <2>4, <2>5
<1>5. closed[K] = rows
  <2>1. Cut(K, size, N) = N
    BY <1>2 DEF Cut
  <2> QED
    BY <2>1, SubSeqFull
<1>6. Eq(closed)
  <2>1. \A i \in 1..K : closed[i] = IF i = 1 THEN pages[i] ELSE closed[i - 1] \o pages[i]
    <3> HIDE DEF closed
    <3> SUFFICES ASSUME NEW i \in 1..K
                 PROVE  closed[i] = IF i = 1 THEN pages[i] ELSE closed[i - 1] \o pages[i]
      OBVIOUS
    <3>1. CASE i = 1
      BY <1>3, <3>1
    <3>2. CASE i # 1
      <4>1. i \in 2..K
        BY <3>2
      <4> QED
        BY <1>4, <3>2, <4>1
    <3> QED
      BY <3>1, <3>2
  <2>2. closed = [i \in 1..K |-> closed[i]]
    OBVIOUS
  <2> HIDE DEF closed
  <2> QED
    BY <2>1, <2>2
<1> DEFINE g == CHOOSE f : Eq(f)
<1>7. Eq(g)
  BY <1>6
<1>8. FlattenSeq(pages) = g[K]
  BY <1>1 DEF FlattenSeq
<1>9. g[K] = closed[K]
  <2> DEFINE B == {i \in 1..K : g[i] # closed[i]}
  <2>1. SUFFICES ASSUME B # {} PROVE FALSE
    <3>1. K \in 1..K
      OBVIOUS
    <3> HIDE DEF g, closed
    <3> QED
      BY <3>1
  <2>2. PICK i \in B : \A j \in B : i <= j
    <3>1. IsFiniteSet(B) /\ Numbered(B)
      <4>1. B \in SUBSET (1..K) /\ IsFiniteSet(1..K) /\ \A x \in B : x \in Int
        <5> HIDE DEF g, closed
        <5> QED
          BY FS_Interval
      <4>2. IsFiniteSet(B)
        <5> HIDE DEF B
        <5> QED
          BY <4>1, FS_Subset
      <4> QED
        BY <4>1, <4>2 DEF Numbered
    <3> HIDE DEF B
    <3> QED
      BY <2>1, <3>1, LeastNumber
  <2>3. g[i] = IF i = 1 THEN pages[i] ELSE g[i - 1] \o pages[i]
    BY <1>7
  <2>4. i = 1 => g[i] = closed[i]
    BY <1>3, <2>3
  <2>5. i # 1 => g[i] = closed[i]
    <3> SUFFICES ASSUME i # 1 PROVE g[i] = closed[i]
      OBVIOUS
    <3>1. i \in 2..K /\ i - 1 \in 1..K
      <4>1. i \in 1..K
        OBVIOUS
      <4> HIDE DEF B
      <4> QED
        BY <4>1
    <3>2. i - 1 \notin B
      <4> HIDE DEF B
      <4>1. ~ (i <= i - 1)
        BY <3>1
      <4> QED
        BY <2>2, <4>1
    <3>3. g[i - 1] = closed[i - 1]
      <4> HIDE DEF g, closed
      <4> QED
        BY <3>1, <3>2
    <3> HIDE DEF g, closed, B
    <3> QED
      BY <1>4, <2>3, <3>1, <3>3
  <2> QED
    BY <2>2, <2>4, <2>5
<1> QED
  BY <1>0, <1>5, <1>8, <1>9

LEMMA Division ==
    ASSUME NEW n \in Nat, NEW size \in Nat \ {0}
    PROVE  n \div size \in Nat /\ (n \div size + 1) * size >= n
<1>1. n \div size \in Nat
  OBVIOUS
<1> QED
  BY <1>1

\* Rows that are all different are a list of as many.
LEMMA PagesHold ==
    ASSUME NEW ids, IsFiniteSet(ids), Numbered(ids), NEW size \in 1..100
    PROVE  PagesAreTheList(ids, size)
<1> DEFINE rows == NewestFirst(ids)
           N == Cardinality(ids)
           K == N \div size + 1
           At(n) == PageOf(ids, [page |-> n, size |-> size])
           pages == [n \in 0..K |-> At(n)]
           lists == [n \in 1..K |-> pages[n].items]
           all == FlattenSeq(lists)
<1>1. /\ N \in Nat /\ rows \in Seq(ids) /\ Len(rows) = N
      /\ \A i, j \in 1..N : i < j => rows[i] > rows[j]
      /\ \A x \in ids : \E i \in 1..N : rows[i] = x
  BY NewestFirstIs
<1>2. K \in Nat \ {0} /\ K * size >= N
  <2> HIDE DEF N
  <2>1. size \in Nat \ {0} /\ N \in Nat
    BY <1>1
  <2>2. N \div size \in Nat /\ (N \div size + 1) * size >= N
    BY <2>1, Division
  <2> QED
    BY <2>2
<1>3. \A n \in Nat : LET p == IF n < 1 THEN 1 ELSE n
                     IN  At(n).items = SubSeq(rows, (p - 1) * size + 1, Cut(p, size, N))
  <2> SUFFICES ASSUME NEW n \in Nat
               PROVE  LET p == IF n < 1 THEN 1 ELSE n
                      IN  At(n).items = SubSeq(rows, (p - 1) * size + 1, Cut(p, size, N))
    OBVIOUS
  <2> DEFINE p == IF n < 1 THEN 1 ELSE n
             q == NormalizeQuery([page |-> n, size |-> size])
  <2>1. q = [page |-> p, size |-> size]
    <3>1. (CASE size < 1 -> DefaultPageSize [] size > MaxPageSize -> MaxPageSize [] OTHER -> size)
             = size
      <4>1. ~ (size < 1) /\ ~ (size > MaxPageSize)
        BY DEF MaxPageSize
      <4> QED
        BY <4>1
    <3> QED
      BY <3>1 DEF NormalizeQuery
  <2>2. Offset(q) = (p - 1) * size
    BY <2>1 DEF Offset
  <2>3. Offset(q) + q.size = p * size /\ q.size = size
    BY <2>1, <2>2
  <2> HIDE DEF q, p
  <2>4. At(n).items = SubSeq(rows, (p - 1) * size + 1, Cut(p, size, N))
    BY <1>1, <2>2, <2>3 DEF PageOf, Cut, q
  <2> QED
    BY <2>4 DEF p
<1>4. lists = PagesIn(rows, size, K)
  <2>1. \A n \in 1..K : pages[n].items = SubSeq(rows, (n - 1) * size + 1, Cut(n, size, Len(rows)))
    <3> SUFFICES ASSUME NEW n \in 1..K
                 PROVE  At(n).items = SubSeq(rows, (n - 1) * size + 1, Cut(n, size, N))
      BY <1>1, <1>2
    <3>1. n \in Nat /\ ~ (n < 1)
      BY <1>2
    <3> HIDE DEF At, rows, K, N
    <3> QED
      BY <1>3, <3>1
  <2> HIDE DEF pages, rows, K
  <2> QED
    BY <2>1 DEF PagesIn
<1>5. all = rows
  <2> HIDE DEF lists, rows, K, N
  <2>1. rows \in Seq(ids) /\ size \in Nat \ {0} /\ K \in Nat \ {0} /\ K * size >= Len(rows)
    BY <1>1, <1>2
  <2> QED
    BY <1>4, <2>1, Flattened
<1>6. pages[0] = pages[1]
  <2>1. At(0) = At(1)
    BY DEF PageOf, NormalizeQuery
  <2> QED
    BY <1>2, <2>1
<1>7. Range(rows) = ids
  <2> HIDE DEF rows, N
  <2> QED
    BY <1>1 DEF Range
<1>8. \A i, j \in DOMAIN rows : i < j => rows[i] > rows[j]
  <2> HIDE DEF rows, N
  <2> QED
    BY <1>1
<1>9. Range(all) = ids /\ Len(all) = N /\ \A i, j \in DOMAIN all : i < j => all[i] > all[j]
  <2> HIDE DEF rows, N, all
  <2> QED
    BY <1>1, <1>5, <1>7, <1>8
<1> QED
  BY <1>6, <1>9 DEF PagesAreTheList

LEMMA ListedIn ==
    ASSUME NEW S, NEW s \in Seq(S), NEW T \in SUBSET DOMAIN s
    PROVE  IsFiniteSet(T) /\ Numbered(T)
<1>1. PICK n \in Nat : DOMAIN s = 1..n
  OBVIOUS
<1>2. IsFiniteSet(1..n)
  BY FS_Interval
<1>3. IsFiniteSet(T)
  BY <1>1, <1>2, FS_Subset
<1> QED
  BY <1>1, <1>3 DEF Numbered

-----------------------------------------------------------------------------
(* Accounts and their ledger *)

\* A recharge in flight has been checked by the engine.
RechargesAreChecked ==
    \A c \in Callers : saving[c].op = "recharge" => saving[c].amount > 0

MInv == LedgerExplainsBalance /\ RechargesAreChecked

-----------------------------------------------------------------------------
(* What the actions are made of *)

LEMMA MemberInvInit == MemberInit => MInv
<1> SUFFICES ASSUME MemberInit PROVE MInv
  OBVIOUS
<1> USE DEF MemberInit
<1>1. MemberTypeOK
  BY DEF MemberTypeOK, NoAccount, MemberAccount
<1>2. LedgerIsChained /\ BalanceIsLedger /\ NeverOverdrawn
  BY DEF LedgerIsChained, BalanceIsLedger, NeverOverdrawn, RowsOf, NoAccount
<1>3. RechargesAreChecked
  BY DEF RechargesAreChecked, NoSaving
<1> QED
  BY <1>1, <1>2, <1>3 DEF MInv, LedgerExplainsBalance

\* Whoever has begun something holds a well-typed transaction.
LEMMA SavingTyped ==
    ASSUME MemberTypeOK, NEW c \in Callers, saving[c].op # "none"
    PROVE  saving[c] \in Saving
BY DEF MemberTypeOK, NoSaving

LEMMA EndSavingTyped ==
    ASSUME MemberTypeOK, NEW c \in Callers, EndSaving(c)
    PROVE  /\ saving' \in [Callers -> Saving \cup {NoSaving}]
           /\ RechargesAreChecked => RechargesAreChecked'
BY DEF MemberTypeOK, EndSaving, RechargesAreChecked, NoSaving

\* One more row for one holder, whose balance is what the row says it is: the
\* chain grows by one link and ends in the balance.
LEMMA RowAdded ==
    ASSUME MInv, NEW h \in Holders, NEW row \in MemberTransaction,
           account' \in [Holders -> MemberAccount],
           row.holder = h, row.amount > 0, row.after >= 0,
           row.after = account[h].balance + Change(row),
           account'[h].balance = row.after,
           account'[h].balance = account'[h].recharged - account'[h].spent,
           \A g \in Holders \ {h} : account'[g] = account[g],
           ledger' = Append(ledger, row)
    PROVE  /\ ledger' \in Seq(MemberTransaction)
           /\ LedgerIsChained' /\ BalanceIsLedger' /\ NeverOverdrawn'
<1> DEFINE n == Len(ledger) + 1
<1>1. /\ ledger \in Seq(MemberTransaction) /\ account \in [Holders -> MemberAccount]
      /\ LedgerIsChained /\ BalanceIsLedger /\ NeverOverdrawn
  BY DEF MInv, LedgerExplainsBalance, MemberTypeOK
<1>2. /\ ledger' \in Seq(MemberTransaction)
      /\ DOMAIN ledger = 1..Len(ledger) /\ Len(ledger) \in Nat
      /\ DOMAIN ledger' = (DOMAIN ledger) \cup {n} /\ n \notin DOMAIN ledger
      /\ \A k \in DOMAIN ledger : ledger'[k] = ledger[k] /\ k < n
      /\ ledger'[n] = row
  BY <1>1
<1>3. /\ RowsOf(h)' = RowsOf(h) \cup {n}
      /\ \A g \in Holders \ {h} : RowsOf(g)' = RowsOf(g)
  BY <1>2 DEF RowsOf
<1>4. Change(row) \in Int
  BY DEF Change, MemberTransaction
<1>5. LedgerIsChained'
  <2> SUFFICES ASSUME NEW g \in Holders, NEW k \in RowsOf(g)'
               PROVE  LET before == {j \in RowsOf(g)' : j < k} IN
                      IF before = {} THEN ledger'[k].after = Change(ledger'[k])
                      ELSE \E j \in before :
                              /\ \A i \in before : i <= j
                              /\ ledger'[k].after = ledger'[j].after + Change(ledger'[k])
    BY DEF LedgerIsChained, Change
  <2>1. CASE k \in DOMAIN ledger
    <3>1. /\ k \in RowsOf(g) /\ ledger'[k] = ledger[k]
          /\ {j \in RowsOf(g)' : j < k} = {j \in RowsOf(g) : j < k}
      BY <1>2, <1>3, <2>1 DEF RowsOf
    <3>2. \A j \in RowsOf(g) : ledger'[j] = ledger[j]
      BY <1>2 DEF RowsOf
    <3>3. PICK before : before = {j \in RowsOf(g) : j < k}
      OBVIOUS
    <3>4. IF before = {} THEN ledger[k].after = Change(ledger[k])
          ELSE \E j \in before : /\ \A i \in before : i <= j
                                 /\ ledger[k].after = ledger[j].after + Change(ledger[k])
      BY <1>1, <3>1, <3>3 DEF LedgerIsChained
    <3>5. \A j \in before : ledger'[j] = ledger[j]
      BY <3>2, <3>3
    <3>6. IF before = {} THEN ledger'[k].after = Change(ledger'[k])
          ELSE \E j \in before : /\ \A i \in before : i <= j
                                 /\ ledger'[k].after = ledger'[j].after + Change(ledger'[k])
      BY <3>1, <3>4, <3>5
    <3> QED
      BY <3>1, <3>3, <3>6
  <2>2. CASE k = n
    <3>1. g = h /\ ledger'[k] = row
      BY <1>2, <2>2 DEF RowsOf
    <3>2. {j \in RowsOf(h)' : j < k} = RowsOf(h)
      BY <1>2, <1>3, <2>2 DEF RowsOf
    <3>3. \A j \in RowsOf(h) : ledger'[j] = ledger[j]
      BY <1>2 DEF RowsOf
    <3>4. CASE RowsOf(h) = {}
      BY <1>1, <1>4, <3>1, <3>2, <3>4 DEF BalanceIsLedger
    <3>5. CASE RowsOf(h) # {}
      <4>1. PICK j \in RowsOf(h) : /\ \A i \in RowsOf(h) : i <= j
                                   /\ account[h].balance = ledger[j].after
        BY <1>1, <3>5 DEF BalanceIsLedger
      <4>2. row.after = ledger'[j].after + Change(row)
        BY <3>3, <4>1
      <4> QED
        BY <3>1, <3>2, <3>5, <4>1, <4>2
    <3> QED
      BY <3>4, <3>5
  <2> QED
    BY <1>2, <2>1, <2>2 DEF RowsOf
<1>6. BalanceIsLedger'
  <2> SUFFICES ASSUME NEW g \in Holders
               PROVE  /\ account'[g].balance = account'[g].recharged - account'[g].spent
                      /\ IF RowsOf(g)' = {} THEN account'[g].balance = 0
                         ELSE \E j \in RowsOf(g)' : /\ \A i \in RowsOf(g)' : i <= j
                                                    /\ account'[g].balance = ledger'[j].after
    BY DEF BalanceIsLedger
  <2>1. CASE g = h
    <3>1. n \in RowsOf(g)' /\ \A i \in RowsOf(g)' : i <= n
      BY <1>2, <1>3, <2>1 DEF RowsOf
    <3> QED
      BY <1>2, <2>1, <3>1
  <2>2. CASE g # h
    <3>1. RowsOf(g)' = RowsOf(g) /\ account'[g] = account[g]
      BY <1>3, <2>2
    <3>2. \A j \in RowsOf(g) : ledger'[j] = ledger[j]
      BY <1>2 DEF RowsOf
    <3>3. CASE RowsOf(g) = {}
      BY <1>1, <3>1, <3>3 DEF BalanceIsLedger
    <3>4. CASE RowsOf(g) # {}
      <4>1. PICK j \in RowsOf(g) : /\ \A i \in RowsOf(g) : i <= j
                                   /\ account[g].balance = ledger[j].after
        BY <1>1, <3>4 DEF BalanceIsLedger
      <4>2. account[g].balance = account[g].recharged - account[g].spent
        BY <1>1 DEF BalanceIsLedger
      <4> QED
        BY <3>1, <3>2, <3>4, <4>1, <4>2
    <3> QED
      BY <3>3, <3>4
  <2> QED
    BY <2>1, <2>2
<1>7. NeverOverdrawn'
  <2>1. account'[h].balance >= 0 /\ account'[h].spent <= account'[h].recharged
    BY DEF MemberAccount, MemberTransaction
  <2>2. \A k \in DOMAIN ledger' : ledger'[k].amount > 0 /\ ledger'[k].after >= 0
    BY <1>1, <1>2 DEF NeverOverdrawn
  <2> QED
    BY <1>1, <2>1, <2>2 DEF NeverOverdrawn
<1> QED
  BY <1>2, <1>5, <1>6, <1>7

-----------------------------------------------------------------------------
(* The steps *)

LEMMA ReadStep ==
    ASSUME MInv, NEW c \in Callers, NEW h \in Holders, NEW a \in Int,
           NEW r \in Refs \cup {RechargeRef}, NEW type \in {"recharge", "spend"},
           a > 0, Read(c, type, h, a, r)
    PROVE  MInv'
<1>1. MemberTypeOK'
  BY DEF MInv, LedgerExplainsBalance, MemberTypeOK, Read, Saving
<1>2. RechargesAreChecked'
  BY DEF MInv, LedgerExplainsBalance, MemberTypeOK, RechargesAreChecked, Read
<1>3. (LedgerIsChained /\ BalanceIsLedger /\ NeverOverdrawn)'
  BY DEF MInv, LedgerExplainsBalance, Read, LedgerIsChained, BalanceIsLedger,
         NeverOverdrawn, RowsOf, Change
<1> QED
  BY <1>1, <1>2, <1>3 DEF MInv, LedgerExplainsBalance

\* One account is written, and no other.
LEMMA AccountWritten ==
    ASSUME account \in [Holders -> MemberAccount], NEW h \in Holders, NEW x \in MemberAccount,
           account' = [account EXCEPT ![h] = x]
    PROVE  /\ account' \in [Holders -> MemberAccount] /\ account'[h] = x
           /\ \A g \in Holders \ {h} : account'[g] = account[g]
OBVIOUS

LEMMA RechargeStep ==
    ASSUME MInv, NEW c \in Callers, RechargeCommit(c)
    PROVE  MInv'
<1> DEFINE h == saving[c].holder
           row == Row(c, saving[c].amount, BalanceNow(c) + saving[c].amount)
<1>1. MemberTypeOK /\ saving[c] \in Saving /\ saving[c].op = "recharge" /\ saving[c].amount > 0
  BY SavingTyped DEF MInv, LedgerExplainsBalance, RechargesAreChecked, RechargeCommit
<1>2. account \in [Holders -> MemberAccount] /\ h \in Holders
  BY <1>1 DEF MemberTypeOK, Saving
<1>3. PICK b \in Int : b = account[h].balance /\ b >= 0
  BY <1>2 DEF MInv, LedgerExplainsBalance, NeverOverdrawn, MemberAccount
<1>4. PICK a \in Int : a = saving[c].amount /\ a > 0
  BY <1>1 DEF Saving
<1>5. /\ row \in MemberTransaction /\ row.holder = h /\ row.amount = a
      /\ row.after = b + a /\ Change(row) = a
  BY <1>1, <1>3, <1>4 DEF Row, BalanceNow, MemberTransaction, Saving, Change
<1>6. /\ account' \in [Holders -> MemberAccount]
      /\ account'[h].balance = b + a
      /\ account'[h].recharged = account[h].recharged + a
      /\ account'[h].spent = account[h].spent
      /\ \A g \in Holders \ {h} : account'[g] = account[g]
      /\ ledger' = Append(ledger, row)
  <2>1. account' = [account EXCEPT ![h].open = TRUE, ![h].balance = b + a,
                                   ![h].recharged = @ + a]
    BY <1>3, <1>4 DEF RechargeCommit, BalanceNow
  <2>2. account[h] \in MemberAccount
    BY <1>2
  <2>3. PICK r \in Int : r = account[h].recharged
    BY <2>2 DEF MemberAccount
  <2>4. PICK x : x = [account[h] EXCEPT !.open = TRUE, !.balance = b + a, !.recharged = r + a]
    OBVIOUS
  <2>5. /\ x \in MemberAccount /\ x.balance = b + a
        /\ x.recharged = r + a /\ x.spent = account[h].spent
    <3>1. b + a \in Int /\ r + a \in Int
      OBVIOUS
    <3> QED
      BY <2>2, <2>4, <3>1 DEF MemberAccount
  <2>6. account' = [account EXCEPT ![h] = x]
    BY <1>2, <2>1, <2>2, <2>3, <2>4 DEF MemberAccount
  <2>7. ledger' = Append(ledger, row)
    BY DEF RechargeCommit, BalanceNow
  <2> HIDE DEF h, row
  <2> QED
    BY <1>2, <2>3, <2>5, <2>6, <2>7, AccountWritten
<1>7. account'[h].balance = account'[h].recharged - account'[h].spent
  <2>1. account[h] \in MemberAccount
    BY <1>2
  <2>2. account[h].balance = account[h].recharged - account[h].spent
    BY <1>2 DEF MInv, LedgerExplainsBalance, BalanceIsLedger
  <2>3. PICK r \in Int, s \in Int : account[h].recharged = r /\ account[h].spent = s
    BY <2>1 DEF MemberAccount
  <2>4. b = r - s
    BY <1>3, <2>2, <2>3
  <2>5. account'[h].balance = b + a /\ account'[h].recharged = r + a /\ account'[h].spent = s
    BY <1>6, <2>3
  <2> HIDE DEF h
  <2> QED
    BY <2>4, <2>5
<1>8. /\ ledger' \in Seq(MemberTransaction)
      /\ LedgerIsChained' /\ BalanceIsLedger' /\ NeverOverdrawn'
  <2> HIDE DEF row, h
  <2> QED
    BY <1>2, <1>3, <1>4, <1>5, <1>6, <1>7, RowAdded
<1>9. saving' \in [Callers -> Saving \cup {NoSaving}] /\ RechargesAreChecked'
  BY <1>1, EndSavingTyped DEF RechargeCommit, MInv
<1> QED
  BY <1>6, <1>8, <1>9 DEF MInv, LedgerExplainsBalance, MemberTypeOK

LEMMA DeductStep ==
    ASSUME MInv, NEW c \in Callers, DeductCommit(c)
    PROVE  MInv'
<1> DEFINE h == saving[c].holder
           row == Row(c, Deducted(c), account[h].balance - Deducted(c))
<1>1. MemberTypeOK /\ saving[c] \in Saving /\ saving[c].op = "spend"
  BY SavingTyped DEF MInv, LedgerExplainsBalance, DeductCommit
<1>2. account \in [Holders -> MemberAccount] /\ h \in Holders
  BY <1>1 DEF MemberTypeOK, Saving
<1>3. PICK b \in Int : b = account[h].balance /\ b >= 0
  BY <1>2 DEF MInv, LedgerExplainsBalance, NeverOverdrawn, MemberAccount
<1>4. PICK a \in Int : a = Deducted(c) /\ a > 0 /\ b >= a
  BY <1>1, <1>3 DEF Deducted, DeductCommit, StillCovered, Saving, MemberAccount
<1>5. /\ row \in MemberTransaction /\ row.holder = h /\ row.amount = a
      /\ row.after = b - a /\ Change(row) = 0 - a
  BY <1>1, <1>3, <1>4 DEF Row, MemberTransaction, Saving, Change
<1>6. /\ account' \in [Holders -> MemberAccount]
      /\ account'[h].balance = b - a
      /\ account'[h].recharged = account[h].recharged
      /\ account'[h].spent = account[h].spent + a
      /\ \A g \in Holders \ {h} : account'[g] = account[g]
      /\ ledger' = Append(ledger, row)
  <2>1. account' = [account EXCEPT ![h].balance = b - a, ![h].spent = @ + a]
    BY <1>3, <1>4 DEF DeductCommit
  <2>2. account[h] \in MemberAccount
    BY <1>2
  <2>3. PICK r \in Int : r = account[h].spent
    BY <2>2 DEF MemberAccount
  <2>4. PICK x : x = [account[h] EXCEPT !.balance = b - a, !.spent = r + a]
    OBVIOUS
  <2>5. /\ x \in MemberAccount /\ x.balance = b - a
        /\ x.recharged = account[h].recharged /\ x.spent = r + a
    <3>1. b - a \in Int /\ r + a \in Int
      OBVIOUS
    <3> QED
      BY <2>2, <2>4, <3>1 DEF MemberAccount
  <2>6. account' = [account EXCEPT ![h] = x]
    BY <1>2, <2>1, <2>2, <2>3, <2>4 DEF MemberAccount
  <2>7. ledger' = Append(ledger, row)
    BY DEF DeductCommit
  <2> HIDE DEF h, row
  <2> QED
    BY <1>2, <2>3, <2>5, <2>6, <2>7, AccountWritten
<1>7. account'[h].balance = account'[h].recharged - account'[h].spent
  <2>1. account[h] \in MemberAccount
    BY <1>2
  <2>2. account[h].balance = account[h].recharged - account[h].spent
    BY <1>2 DEF MInv, LedgerExplainsBalance, BalanceIsLedger
  <2>3. PICK r \in Int, s \in Int : account[h].recharged = r /\ account[h].spent = s
    BY <2>1 DEF MemberAccount
  <2>4. b = r - s
    BY <1>3, <2>2, <2>3
  <2>5. account'[h].balance = b - a /\ account'[h].recharged = r /\ account'[h].spent = s + a
    BY <1>6, <2>3
  <2> HIDE DEF h
  <2> QED
    BY <2>4, <2>5
<1>8. /\ ledger' \in Seq(MemberTransaction)
      /\ LedgerIsChained' /\ BalanceIsLedger' /\ NeverOverdrawn'
  <2> HIDE DEF row, h
  <2> QED
    BY <1>2, <1>3, <1>4, <1>5, <1>6, <1>7, RowAdded
<1>9. saving' \in [Callers -> Saving \cup {NoSaving}] /\ RechargesAreChecked'
  BY <1>1, EndSavingTyped DEF DeductCommit, MInv
<1> QED
  BY <1>6, <1>8, <1>9 DEF MInv, LedgerExplainsBalance, MemberTypeOK

\* The ledger stays, and so do the columns it explains.
LEMMA LedgerStays ==
    ASSUME MInv, ledger' = ledger, NEW h \in Holders,
           \/ account' = account
           \/ account' = [account EXCEPT ![h].open = TRUE]
    PROVE  /\ account' \in [Holders -> MemberAccount]
           /\ (LedgerIsChained /\ BalanceIsLedger /\ NeverOverdrawn)'
<1>1. /\ MemberTypeOK /\ LedgerIsChained /\ BalanceIsLedger /\ NeverOverdrawn
  BY DEF MInv, LedgerExplainsBalance
<1>2. /\ account' \in [Holders -> MemberAccount]
      /\ \A g \in Holders : /\ account'[g].balance = account[g].balance
                            /\ account'[g].recharged = account[g].recharged
                            /\ account'[g].spent = account[g].spent
  <2>1. CASE account' = account
    BY <1>1, <2>1 DEF MemberTypeOK
  <2>2. CASE account' = [account EXCEPT ![h].open = TRUE]
    <3>1. account \in [Holders -> MemberAccount] /\ account[h] \in MemberAccount
      BY <1>1 DEF MemberTypeOK
    <3> QED
      BY <2>2, <3>1 DEF MemberAccount
  <2> QED
    BY <2>1, <2>2
<1>3. LedgerIsChained'
  BY <1>1 DEF LedgerIsChained, RowsOf, Change
<1>4. BalanceIsLedger'
  BY <1>1, <1>2 DEF BalanceIsLedger, RowsOf
<1>5. NeverOverdrawn'
  BY <1>1, <1>2 DEF NeverOverdrawn
<1> QED
  BY <1>2, <1>3, <1>4, <1>5

LEMMA NothingStep ==
    ASSUME MInv, NEW c \in Callers, DeductNothing(c)
    PROVE  MInv'
<1>1. MemberTypeOK /\ saving[c] \in Saving
  BY SavingTyped DEF MInv, LedgerExplainsBalance, DeductNothing
<1>2. saving[c].holder \in Holders
  BY <1>1 DEF Saving
<1>3. saving' \in [Callers -> Saving \cup {NoSaving}] /\ RechargesAreChecked'
  BY <1>1, EndSavingTyped DEF DeductNothing, MInv
<1>4. /\ account' \in [Holders -> MemberAccount]
      /\ (LedgerIsChained /\ BalanceIsLedger /\ NeverOverdrawn)'
  BY <1>2, LedgerStays DEF DeductNothing
<1> QED
  BY <1>1, <1>3, <1>4 DEF MInv, LedgerExplainsBalance, MemberTypeOK, DeductNothing

LEMMA FailStep ==
    ASSUME MInv, NEW c \in Callers, SavingFails(c)
    PROVE  MInv'
<1>1. MemberTypeOK /\ saving[c] \in Saving
  BY DEF MInv, LedgerExplainsBalance, MemberTypeOK, SavingFails
<1>2. saving[c].holder \in Holders
  BY <1>1 DEF Saving
<1>3. saving' \in [Callers -> Saving \cup {NoSaving}] /\ RechargesAreChecked'
  BY <1>1, EndSavingTyped DEF SavingFails, MInv
<1>4. /\ account' \in [Holders -> MemberAccount]
      /\ (LedgerIsChained /\ BalanceIsLedger /\ NeverOverdrawn)'
  BY <1>2, LedgerStays DEF SavingFails
<1> QED
  BY <1>1, <1>3, <1>4 DEF MInv, LedgerExplainsBalance, MemberTypeOK, SavingFails

LEMMA MemberUnchanged ==
    ASSUME MInv, UNCHANGED memberVars
    PROVE  MInv'
BY DEF MInv, LedgerExplainsBalance, MemberTypeOK, LedgerIsChained, BalanceIsLedger,
       NeverOverdrawn, RechargesAreChecked, RowsOf, Change, memberVars

LEMMA MemberStep == MInv /\ [MemberNext]_memberVars => MInv'
<1> SUFFICES ASSUME MInv, [MemberNext]_memberVars PROVE MInv'
  OBVIOUS
<1>1. ASSUME NEW c \in Callers, NEW h \in Holders, NEW a \in Amounts, RechargeRead(c, h, a)
      PROVE  MInv'
  <2>1. a \in Int /\ a > 0
    BY <1>1, AmountsAssumption DEF RechargeRead, RechargeAllowed
  <2> QED
    BY <1>1, <2>1, ReadStep DEF RechargeRead
<1>2. ASSUME NEW c \in Callers, NEW h \in Holders, NEW a \in Amounts, NEW r \in Refs,
             DeductRead(c, h, a, r)
      PROVE  MInv'
  <2>1. a \in Int /\ a > 0
    BY <1>2, AmountsAssumption DEF DeductRead
  <2> QED
    BY <1>2, <2>1, ReadStep DEF DeductRead
<1>3. ASSUME NEW c \in Callers,
             RechargeCommit(c) \/ DeductCommit(c) \/ DeductNothing(c) \/ SavingFails(c)
      PROVE  MInv'
  BY <1>3, RechargeStep, DeductStep, NothingStep, FailStep
<1> QED
  BY <1>1, <1>2, <1>3, MemberUnchanged DEF MemberNext

-----------------------------------------------------------------------------
(* The theorem *)

LEMMA MemberInvariance == MemberSpec => []MInv
BY MemberInvInit, MemberStep, PTL DEF MemberSpec

\* Whatever recharges and deductions race, each ledger is a chain that ends in
\* the balance of its account, and no account is overdrawn (store.go, Recharge
\* and Deduct).
THEOREM BalancesAreExplained == MemberSpec => []LedgerExplainsBalance
<1>1. MInv => LedgerExplainsBalance
  BY DEF MInv
<1> QED
  BY MemberInvariance, <1>1, PTL

-----------------------------------------------------------------------------
(* Coupons: what always holds *)

UsedOf(t) == {i \in CouponsOf(t) : coupon[i].status = "used"}

CounterOK(t) ==
    Exists(t) => /\ template[t].issued = Cardinality(CouponsOf(t))
                 /\ template[t].used = Cardinality(UsedOf(t))

\* Before a template is created there is nothing of it.
AbsentOK(t) ==
    template[t].status = "absent" =>
        /\ template[t].issued = 0 /\ template[t].used = 0
        /\ CouponsOf(t) = {}
        /\ \A c \in Callers : doing[c].op = "issue" => doing[c].template # t

\* What a transaction in flight has checked and stays so.
DoingOK(c) ==
    /\ doing[c].op = "issue" => /\ 0 \notin doing[c].holders
                                /\ Cardinality(doing[c].holders) <= MaxIssueBatch
    /\ doing[c].op = "claim" => doing[c].coupon \in DOMAIN coupon

\* The coupons that issues in flight are about to create, one per recipient.
InFlight(t) ==
    {p \in Callers \X Holders : /\ doing[p[1]].op = "issue" /\ doing[p[1]].template = t
                                /\ p[2] \in doing[p[1]].holders}

AllLimited == \A o \in Offers : o.total > 0

OverIssueLimit == HighestTotal + (Cardinality(Callers) - 1) * MaxIssueBatch

\* Counted and in flight together keep within the bound.
LimitOK(t) ==
    Exists(t) => /\ \E o \in Offers : template[t].total = o.total
                 /\ AllLimited => template[t].issued + Cardinality(InFlight(t)) <= OverIssueLimit

CouponInv ==
    /\ CouponTypeOK
    /\ \A t \in Templates : CounterOK(t) /\ AbsentOK(t) /\ LimitOK(t)
    /\ \A c \in Callers : DoingOK(c)

-----------------------------------------------------------------------------
(* Coupons: what the actions are made of *)

LEMMA CouponInvInit == CouponInit => CouponInv
<1> SUFFICES ASSUME CouponInit PROVE CouponInv
  OBVIOUS
<1>1. CouponTypeOK
  BY MarketingAssumption, BoundsAssumption
  DEF CouponInit, CouponTypeOK, CouponTemplate
<1>2. \A t \in Templates : ~Exists(t) /\ AbsentOK(t)
  BY DEF CouponInit, Exists, AbsentOK, CouponsOf, Idle
<1>3. \A c \in Callers : DoingOK(c)
  BY DEF CouponInit, DoingOK, Idle
<1> QED
  BY <1>1, <1>2, <1>3 DEF CouponInv, CounterOK, LimitOK

\* A transaction in flight is told by its op.
LEMMA DoingTyped ==
    ASSUME CouponTypeOK, NEW c \in Callers
    PROVE  /\ doing[c] = Idle => doing[c].op = "none"
           /\ doing[c].op = "issue" => doing[c] \in Issuing
           /\ doing[c].op = "delete" => doing[c] \in Deleting
           /\ doing[c].op = "claim" => doing[c] \in Claiming
BY DEF CouponTypeOK, Idle, Issuing, Deleting, Claiming

LEMMA FlightFinite ==
    ASSUME NEW S \in SUBSET (Callers \X Holders)
    PROVE  IsFiniteSet(S) /\ Cardinality(S) \in Nat
<1>1. IsFiniteSet(Callers \X Holders)
  BY MarketingAssumption, FS_Product
<1> QED
  BY <1>1, FS_Subset, FS_CardinalityType

LEMMA InFlightIsASet ==
    ASSUME NEW t
    PROVE  InFlight(t) \in SUBSET (Callers \X Holders)
           /\ InFlight(t)' \in SUBSET (Callers \X Holders)
BY DEF InFlight

LEMMA LimitTyped ==
    /\ OverIssueLimit \in Int
    /\ \A o \in Offers : o.total <= HighestTotal
    /\ HighestTotal \in Int /\ MaxIssueBatch \in Nat
    /\ Cardinality(Callers) - 1 \in Nat
    /\ (Cardinality(Callers) - 1) * MaxIssueBatch \in Nat
    /\ AllLimited => HighestTotal > 0
<1>1. PICK o \in Offers : o = CHOOSE x \in Offers : \A p \in Offers : x.total >= p.total
  BY OffersAssumption
<1>2. \A p \in Offers : p.total \in Int /\ o.total >= p.total
  BY <1>1, OffersAssumption
<1>3. HighestTotal = o.total
  BY <1>1 DEF HighestTotal
<1>4. PICK n \in Nat : n = Cardinality(Callers) - 1
  BY MarketingAssumption, FS_CardinalityType, FS_EmptySet
<1>5. PICK b \in Nat : b = MaxIssueBatch
  BY MarketingAssumption
<1>6. n * b \in Nat
  OBVIOUS
<1> QED
  BY <1>2, <1>3, <1>4, <1>5, <1>6 DEF OverIssueLimit, AllLimited

\* Whatever ends, or begins and is no issue, leaves no more in flight.
LEMMA FlightShrinks ==
    ASSUME CouponTypeOK, NEW c \in Callers, NEW x, x.op # "issue",
           doing' = [doing EXCEPT ![c] = x], NEW t
    PROVE  /\ Cardinality(InFlight(t)') <= Cardinality(InFlight(t))
           /\ Cardinality(InFlight(t)') \in Nat /\ Cardinality(InFlight(t)) \in Nat
<1>1. \A d \in Callers : d # c => doing'[d] = doing[d]
  BY DEF CouponTypeOK
<1>2. doing'[c].op # "issue"
  BY DEF CouponTypeOK
<1>3. InFlight(t)' \subseteq InFlight(t)
  BY <1>1, <1>2 DEF InFlight
<1> QED
  BY <1>3, InFlightIsASet, FlightFinite, FS_Subset

\* Only doing changes, and not into an issue.
LEMMA NoIssueStep ==
    ASSUME CouponInv, NEW c \in Callers, NEW x \in {Idle} \cup Deleting \cup Claiming,
           x.op = "claim" => x.coupon \in DOMAIN coupon,
           doing' = [doing EXCEPT ![c] = x],
           UNCHANGED <<template, coupon, today, edits>>
    PROVE  CouponInv'
<1>1. x.op # "issue"
  BY DEF Idle, Deleting, Claiming
<1>2. /\ CouponTypeOK /\ \A d \in Callers : doing'[d] = IF d = c THEN x ELSE doing[d]
  BY DEF CouponInv, CouponTypeOK
<1>3. CouponTypeOK'
  BY <1>2 DEF CouponTypeOK
<1>4. ASSUME NEW t \in Templates
      PROVE  (CounterOK(t) /\ AbsentOK(t) /\ LimitOK(t))'
  <2>1. CounterOK(t)'
    BY DEF CouponInv, CounterOK, Exists, CouponsOf, UsedOf
  <2>2. AbsentOK(t)'
    BY <1>1, <1>2 DEF CouponInv, AbsentOK, CouponsOf
  <2>3. PICK m \in Int, n \in Int : /\ Cardinality(InFlight(t)) = m
                                    /\ Cardinality(InFlight(t)') = n /\ n <= m
    <3>1. /\ Cardinality(InFlight(t)') <= Cardinality(InFlight(t))
          /\ Cardinality(InFlight(t)') \in Nat /\ Cardinality(InFlight(t)) \in Nat
      BY <1>1, <1>2, FlightShrinks
    <3> QED
      BY <3>1
  <2>4. PICK k \in Int : k = template[t].issued
    BY <1>2 DEF CouponTypeOK, CouponTemplate
  <2>5. LimitOK(t)'
    BY <2>3, <2>4, LimitTyped DEF CouponInv, LimitOK, Exists
  <2> QED
    BY <2>1, <2>2, <2>5
<1>5. \A d \in Callers : DoingOK(d)'
  BY <1>1, <1>2 DEF CouponInv, DoingOK
<1> QED
  BY <1>3, <1>4, <1>5 DEF CouponInv

\* A template is created or edited; what is counted in it stays.
LEMMA EditStep ==
    ASSUME CouponInv, NEW t \in Templates, NEW o \in Offers, Accepts(o),
           NEW s \in {"enabled", "disabled"}, Exists(t) \/ template[t].status = "absent",
           template' = [template EXCEPT ![t] = Edited(@, o, s)],
           edits < MaxEdits, edits' = edits + 1, UNCHANGED <<coupon, doing, today>>
    PROVE  CouponInv'
<1>1. /\ CouponTypeOK /\ template \in [Templates -> CouponTemplate]
      /\ template[t] \in CouponTemplate
  BY DEF CouponInv, CouponTypeOK
<1>2. /\ o.amount \in Nat /\ o.minSpend \in Nat /\ o.days \in Nat /\ o.total \in Nat
      /\ StoredShop(o) \in Shops
  <2>1. PICK a \in Int, m \in Int, n \in Int, k \in Int :
            a = o.amount /\ m = o.minSpend /\ n = o.days /\ k = o.total
    BY OffersAssumption
  <2>2. MaxTemplateAmount \in Int /\ MaxValidDays \in Int
    BY BoundsAssumption, MarketingAssumption
  <2>3. a \in 1..MaxTemplateAmount /\ n \in 1..MaxValidDays /\ m >= 0 /\ k >= 0
    BY <2>1 DEF Accepts
  <2>4. StoredShop(o) \in Shops
    BY OffersAssumption, MarketingAssumption DEF StoredShop
  <2> QED
    BY <2>1, <2>2, <2>3, <2>4
<1>3. /\ Edited(template[t], o, s) \in CouponTemplate
      /\ template'[t] = Edited(template[t], o, s)
      /\ \A u \in Templates \ {t} : template'[u] = template[u]
      /\ template' \in [Templates -> CouponTemplate]
  BY <1>1, <1>2 DEF Edited, CouponTemplate
<1>4. /\ template'[t].issued = template[t].issued /\ template'[t].used = template[t].used
      /\ template'[t].total = o.total /\ template'[t].status = s
  BY <1>1, <1>3 DEF Edited, CouponTemplate
<1>5. CouponTypeOK'
  BY <1>1, <1>3, MarketingAssumption DEF CouponTypeOK
<1>6. ASSUME NEW u \in Templates
      PROVE  (CounterOK(u) /\ AbsentOK(u) /\ LimitOK(u))'
  <2>1. CouponsOf(u)' = CouponsOf(u) /\ UsedOf(u)' = UsedOf(u) /\ InFlight(u)' = InFlight(u)
    BY DEF CouponsOf, UsedOf, InFlight
  <2>2. CASE u # t
    BY <1>3, <2>1, <2>2 DEF CouponInv, CounterOK, AbsentOK, LimitOK, Exists
  <2>3. CASE u = t
    <3>1. Exists(t)' /\ AbsentOK(t)'
      BY <1>4 DEF Exists, AbsentOK
    <3>2. CASE Exists(t)
      BY <1>4, <2>1, <2>3, <3>1, <3>2 DEF CouponInv, CounterOK, LimitOK
    <3>3. CASE template[t].status = "absent"
      <4>1. CouponsOf(t) = {} /\ template[t].issued = 0 /\ template[t].used = 0
        BY <3>3 DEF CouponInv, AbsentOK
      <4>2. UsedOf(t) = {} /\ InFlight(t) = {}
        BY <3>3, <4>1 DEF CouponInv, AbsentOK, InFlight, UsedOf
      <4>3. Cardinality({}) = 0
        BY FS_EmptySet
      <4>4. AllLimited => OverIssueLimit >= 0
        BY LimitTyped DEF OverIssueLimit
      <4> QED
        BY <1>4, <2>1, <2>3, <3>1, <4>1, <4>2, <4>3, <4>4 DEF CounterOK, LimitOK
    <3> QED
      BY <3>2, <3>3
  <2> QED
    BY <2>2, <2>3
<1>7. \A d \in Callers : DoingOK(d)'
  BY DEF CouponInv, DoingOK
<1> QED
  BY <1>5, <1>6, <1>7 DEF CouponInv

LEMMA StoreDeleteStep ==
    ASSUME CouponInv, NEW c \in Callers, StoreDelete(c)
    PROVE  CouponInv'
<1>1. /\ CouponTypeOK /\ template \in [Templates -> CouponTemplate]
      /\ doing[c] \in Deleting
  BY DoingTyped DEF CouponInv, CouponTypeOK, StoreDelete
<1>2. PICK t \in Templates : t = doing[c].template
  BY <1>1 DEF Deleting
<1>3. template' = [template EXCEPT ![t].status = IF Exists(t) THEN "deleted" ELSE @]
  BY <1>2 DEF StoreDelete
<1>4. /\ template' \in [Templates -> CouponTemplate]
      /\ \A u \in Templates :
            /\ template'[u].issued = template[u].issued
            /\ template'[u].used = template[u].used /\ template'[u].total = template[u].total
            /\ Exists(u)' => Exists(u)
            /\ template'[u].status = "absent" => template[u].status = "absent"
  <2>1. template[t] \in CouponTemplate
    BY <1>1
  <2> QED
    BY <1>1, <1>3, <2>1 DEF CouponTemplate, Exists
<1>5. doing' = [doing EXCEPT ![c] = Idle] /\ UNCHANGED <<coupon, today, edits>>
  BY DEF StoreDelete, Finish
<1>6. \A d \in Callers : doing'[d] = IF d = c THEN Idle ELSE doing[d]
  BY <1>1, <1>5 DEF CouponTypeOK
<1>7. CouponTypeOK'
  BY <1>1, <1>4, <1>5, <1>6 DEF CouponTypeOK
<1>8. ASSUME NEW u \in Templates
      PROVE  (CounterOK(u) /\ AbsentOK(u) /\ LimitOK(u))'
  <2>1. CouponsOf(u)' = CouponsOf(u) /\ UsedOf(u)' = UsedOf(u)
    BY <1>5 DEF CouponsOf, UsedOf
  <2>2. CounterOK(u)'
    BY <1>4, <2>1 DEF CouponInv, CounterOK
  <2>3. AbsentOK(u)'
    BY <1>4, <1>6, <2>1 DEF CouponInv, AbsentOK, Idle
  <2>4. PICK m \in Int, n \in Int : /\ Cardinality(InFlight(u)) = m
                                    /\ Cardinality(InFlight(u)') = n /\ n <= m
    <3>1. /\ Cardinality(InFlight(u)') <= Cardinality(InFlight(u))
          /\ Cardinality(InFlight(u)') \in Nat /\ Cardinality(InFlight(u)) \in Nat
      BY <1>1, <1>5, FlightShrinks DEF Idle
    <3> QED
      BY <3>1
  <2>5. PICK k \in Int : k = template[u].issued
    BY <1>1 DEF CouponTemplate
  <2>6. LimitOK(u)'
    BY <1>4, <2>4, <2>5, LimitTyped DEF CouponInv, LimitOK
  <2> QED
    BY <2>2, <2>3, <2>6
<1>9. \A d \in Callers : DoingOK(d)'
  BY <1>5, <1>6 DEF CouponInv, DoingOK, Idle
<1> QED
  BY <1>7, <1>8, <1>9 DEF CouponInv

\* Coupons keep their template, and whether they are used: expiry.
LEMMA ListStep ==
    ASSUME CouponInv, ListCoupons
    PROVE  CouponInv'
<1>1. /\ CouponTypeOK /\ coupon \in Seq(CouponModel)
      /\ UNCHANGED <<template, doing, today, edits>>
  BY DEF CouponInv, CouponTypeOK, ListCoupons
<1>2. DOMAIN coupon = 1..Len(coupon) /\ Len(coupon) \in Nat
  BY <1>1
<1>3. /\ coupon' \in Seq(CouponModel) /\ Len(coupon') = Len(coupon)
      /\ DOMAIN coupon' = DOMAIN coupon
      /\ \A i \in DOMAIN coupon : /\ coupon'[i].template = coupon[i].template
                                  /\ coupon'[i].status = "used" <=> coupon[i].status = "used"
  <2>1. PICK n \in Nat : n = Len(coupon) /\ DOMAIN coupon = 1..n
    BY <1>2
  <2>2. coupon' = [i \in 1..n |-> IF Stale(coupon[i])
                                  THEN [coupon[i] EXCEPT !.status = "expired"] ELSE coupon[i]]
    BY <2>1 DEF ListCoupons
  <2>3. \A i \in 1..n : coupon[i] \in CouponModel
    BY <1>1, <2>1
  <2>4. \A i \in 1..n : /\ coupon'[i] \in CouponModel
                        /\ coupon'[i].template = coupon[i].template
                        /\ coupon'[i].status = "used" <=> coupon[i].status = "used"
    BY <2>2, <2>3 DEF CouponModel, Stale
  <2>5. coupon' = [i \in 1..n |-> coupon'[i]]
    BY <2>2
  <2>6. coupon' \in [1..n -> CouponModel]
    BY <2>4, <2>5
  <2>7. coupon' \in Seq(CouponModel) /\ Len(coupon') = n /\ DOMAIN coupon' = 1..n
    BY <2>6
  <2> QED
    BY <2>1, <2>4, <2>7
<1>4. CouponTypeOK'
  BY <1>1, <1>3 DEF CouponTypeOK
<1>5. ASSUME NEW u \in Templates
      PROVE  (CounterOK(u) /\ AbsentOK(u) /\ LimitOK(u))'
  <2>1. CouponsOf(u)' = CouponsOf(u) /\ UsedOf(u)' = UsedOf(u) /\ InFlight(u)' = InFlight(u)
    <3>1. CouponsOf(u)' = CouponsOf(u)
      <4>1. /\ DOMAIN coupon' = DOMAIN coupon
            /\ \A i \in DOMAIN coupon : coupon'[i].template = coupon[i].template
        BY <1>3
      <4> QED
        BY <4>1 DEF CouponsOf
    <3>2. UsedOf(u)' = UsedOf(u)
      <4>1. \A i \in DOMAIN coupon : coupon'[i].status = "used" <=> coupon[i].status = "used"
        BY <1>3
      <4> QED
        BY <3>1, <4>1 DEF UsedOf, CouponsOf
    <3>3. InFlight(u)' = InFlight(u)
      BY <1>1 DEF InFlight
    <3> QED
      BY <3>1, <3>2, <3>3
  <2> QED
    BY <1>1, <2>1 DEF CouponInv, CounterOK, AbsentOK, LimitOK, Exists
<1>6. \A d \in Callers : DoingOK(d)'
  BY <1>1, <1>3 DEF CouponInv, DoingOK
<1> QED
  BY <1>4, <1>5, <1>6 DEF CouponInv

LEMMA NextDayStep ==
    ASSUME CouponInv, NextDay
    PROVE  CouponInv'
<1>1. UNCHANGED <<template, coupon, doing, edits>> /\ today' = today + 1 /\ today < Horizon
  BY DEF NextDay
<1>2. CouponTypeOK'
  BY <1>1, MarketingAssumption DEF CouponInv, CouponTypeOK
<1>3. ASSUME NEW u \in Templates
      PROVE  (CounterOK(u) /\ AbsentOK(u) /\ LimitOK(u))'
  <2>1. CouponsOf(u)' = CouponsOf(u) /\ UsedOf(u)' = UsedOf(u) /\ InFlight(u)' = InFlight(u)
    BY <1>1 DEF CouponsOf, UsedOf, InFlight
  <2> QED
    BY <1>1, <2>1 DEF CouponInv, CounterOK, AbsentOK, LimitOK, Exists
<1>4. \A d \in Callers : DoingOK(d)'
  BY <1>1 DEF CouponInv, DoingOK
<1> QED
  BY <1>2, <1>3, <1>4 DEF CouponInv

\* A coupon is redeemed once, and counted by its template in the same step.
LEMMA ClaimStep ==
    ASSUME CouponInv, NEW c \in Callers, ClaimCommit(c)
    PROVE  CouponInv'
<1>1. /\ CouponTypeOK /\ template \in [Templates -> CouponTemplate]
      /\ coupon \in Seq(CouponModel) /\ doing[c] \in Claiming
  BY DoingTyped DEF CouponInv, CouponTypeOK, ClaimCommit
<1>2. PICK i \in DOMAIN coupon : i = doing[c].coupon
  BY <1>1 DEF CouponInv, DoingOK, Claiming
<1>3. coupon[i] \in CouponModel /\ DOMAIN coupon = 1..Len(coupon) /\ Len(coupon) \in Nat
  BY <1>1
<1>4. PICK t \in Templates : t = coupon[i].template
  BY <1>3 DEF CouponModel
<1>5. PICK r \in Refs : r = doing[c].ref
  BY <1>1 DEF Claiming
<1>6. /\ coupon[i].status = "unused"
      /\ coupon' = [coupon EXCEPT ![i].status = "used", ![i].ref = r]
      /\ template' = [template EXCEPT ![t].used = IF Exists(t) THEN @ + 1 ELSE @]
      /\ doing' = [doing EXCEPT ![c] = Idle] /\ UNCHANGED <<today, edits>>
  BY <1>2, <1>4, <1>5 DEF ClaimCommit, StillUnused, Finish
<1>7. /\ coupon' \in Seq(CouponModel) /\ Len(coupon') = Len(coupon)
      /\ DOMAIN coupon' = DOMAIN coupon
      /\ coupon'[i].template = t /\ coupon'[i].status = "used"
      /\ \A j \in DOMAIN coupon \ {i} : coupon'[j] = coupon[j]
  <2>1. PICK row \in CouponModel : /\ row = [coupon[i] EXCEPT !.status = "used", !.ref = r]
                                   /\ row.template = t /\ row.status = "used"
    <3> DEFINE new == [coupon[i] EXCEPT !.status = "used", !.ref = r]
    <3>1. new \in CouponModel /\ new.template = coupon[i].template /\ new.status = "used"
      BY <1>3, <1>5 DEF CouponModel
    <3> HIDE DEF new
    <3> QED
      BY <1>4, <3>1 DEF new
  <2>2. coupon' = [coupon EXCEPT ![i] = row]
    BY <1>2, <1>6, <2>1
  <2> QED
    BY <1>1, <1>2, <1>3, <2>1, <2>2
<1>8. /\ template' \in [Templates -> CouponTemplate]
      /\ \A u \in Templates :
            /\ template'[u].issued = template[u].issued
            /\ template'[u].total = template[u].total
            /\ template'[u].status = template[u].status
      /\ Exists(t) => template'[t].used = template[t].used + 1
      /\ ~Exists(t) => template'[t].used = template[t].used
      /\ \A u \in Templates \ {t} : template'[u] = template[u]
  <2>1. template[t] \in CouponTemplate
    BY <1>1
  <2>2. PICK n \in Nat : /\ n = IF Exists(t) THEN template[t].used + 1 ELSE template[t].used
                         /\ template' = [template EXCEPT ![t].used = n]
    <3>1. PICK k \in Nat : k = template[t].used
      BY <2>1 DEF CouponTemplate
    <3>2. CASE Exists(t)
      <4>1. template' = [template EXCEPT ![t].used = k + 1] /\ k + 1 \in Nat
        BY <1>6, <3>1, <3>2
      <4> QED
        BY <3>1, <3>2, <4>1
    <3>3. CASE ~Exists(t)
      BY <1>6, <3>1, <3>3
    <3> QED
      BY <3>2, <3>3
  <2> QED
    BY <1>1, <2>1, <2>2 DEF CouponTemplate
<1>9. \A d \in Callers : doing'[d] = IF d = c THEN Idle ELSE doing[d]
  BY <1>1, <1>6 DEF CouponTypeOK
<1>10. CouponTypeOK'
  BY <1>1, <1>6, <1>7, <1>8, <1>9 DEF CouponTypeOK
<1>11. ASSUME NEW u \in Templates
       PROVE  (CounterOK(u) /\ AbsentOK(u) /\ LimitOK(u))'
  <2>1. CouponsOf(u)' = CouponsOf(u)
    BY <1>4, <1>7 DEF CouponsOf
  <2>2. Exists(u)' <=> Exists(u)
    BY <1>8 DEF Exists
  <2>3. CounterOK(u)'
    <3>1. CASE u # t
      <4>1. UsedOf(u)' = UsedOf(u)
        BY <1>4, <1>6, <1>7, <3>1 DEF UsedOf, CouponsOf
      <4> QED
        BY <1>8, <2>1, <2>2, <3>1, <4>1 DEF CouponInv, CounterOK
    <3>2. CASE u = t
      <4>1. UsedOf(t)' = UsedOf(t) \cup {i} /\ i \notin UsedOf(t)
        <5>1. i \in UsedOf(t)' /\ i \notin UsedOf(t)
          BY <1>2, <1>4, <1>6, <1>7 DEF UsedOf, CouponsOf
        <5>2. ASSUME NEW j, j # i PROVE j \in UsedOf(t)' <=> j \in UsedOf(t)
          BY <1>4, <1>6, <1>7, <5>2 DEF UsedOf, CouponsOf
        <5> QED
          BY <5>1, <5>2
      <4>2. UsedOf(t) \in SUBSET (1..Len(coupon))
        BY <1>3 DEF UsedOf, CouponsOf
      <4>3. IsFiniteSet(UsedOf(t))
        BY <1>3, <4>2, FiniteIndices
      <4>4. Cardinality(UsedOf(t) \cup {i}) = Cardinality(UsedOf(t)) + 1
        BY <4>1, <4>3, FS_AddElement
      <4> QED
        BY <1>8, <2>1, <2>2, <3>2, <4>1, <4>4 DEF CouponInv, CounterOK
    <3> QED
      BY <3>1, <3>2
  <2>4. AbsentOK(u)'
    <3>1. template[u].status = "absent" => u # t
      BY <1>2, <1>4 DEF CouponInv, AbsentOK, CouponsOf
    <3> QED
      BY <1>8, <1>9, <2>1, <3>1 DEF CouponInv, AbsentOK, Idle
  <2>5. PICK m \in Int, n \in Int : /\ Cardinality(InFlight(u)) = m
                                    /\ Cardinality(InFlight(u)') = n /\ n <= m
    <3>1. /\ Cardinality(InFlight(u)') <= Cardinality(InFlight(u))
          /\ Cardinality(InFlight(u)') \in Nat /\ Cardinality(InFlight(u)) \in Nat
      BY <1>1, <1>6, FlightShrinks DEF Idle
    <3> QED
      BY <3>1
  <2>6. PICK k \in Int : k = template[u].issued
    BY <1>1 DEF CouponTemplate
  <2>7. LimitOK(u)'
    BY <1>8, <2>2, <2>5, <2>6, LimitTyped DEF CouponInv, LimitOK
  <2> QED
    BY <2>3, <2>4, <2>7
<1>12. \A d \in Callers : DoingOK(d)'
  BY <1>7, <1>9 DEF CouponInv, DoingOK, Idle
<1> QED
  BY <1>10, <1>11, <1>12 DEF CouponInv

\* Those in flight from all callers but one are at most a batch for each.
LEMMA OthersInFlight ==
    ASSUME CouponInv, NEW c \in Callers, doing[c].op # "issue", NEW t
    PROVE  Cardinality(InFlight(t)) <= (Cardinality(Callers) - 1) * MaxIssueBatch
<1> DEFINE Others == Callers \ {c}
<1>1. MaxIssueBatch \in Nat /\ IsFiniteSet(Others) /\ IsFiniteSet(1..MaxIssueBatch)
      /\ Cardinality(Others) = Cardinality(Callers) - 1
      /\ Cardinality(1..MaxIssueBatch) = MaxIssueBatch
  <2>1. MaxIssueBatch \in Nat
    BY MarketingAssumption
  <2>2. IsFiniteSet(Others) /\ Cardinality(Others) = Cardinality(Callers) - 1
    BY MarketingAssumption, FS_RemoveElement
  <2>3. IsFiniteSet(1..MaxIssueBatch) /\ Cardinality(1..MaxIssueBatch) = MaxIssueBatch
    BY <2>1, FS_Interval
  <2> QED
    BY <2>1, <2>2, <2>3
<1> DEFINE Issues == {d \in Callers : doing[d].op = "issue"}
           place == [d \in Issues |->
                        CHOOSE f \in [doing[d].holders -> 1..MaxIssueBatch] : IsInjective(f)]
<1>2. ASSUME NEW d \in Issues
      PROVE  place[d] \in [doing[d].holders -> 1..MaxIssueBatch] /\ IsInjective(place[d])
  <2>1. doing[d] \in Issuing /\ doing[d].holders \subseteq Holders
    BY DoingTyped DEF CouponInv, Issuing
  <2>2. PICK n \in Nat : n = Cardinality(doing[d].holders) /\ n <= MaxIssueBatch
        /\ ExistsBijection(1..n, doing[d].holders)
    <3>1. IsFiniteSet(doing[d].holders)
      BY <2>1, MarketingAssumption, FS_Subset
    <3> QED
      BY <3>1, FS_CardinalityType DEF CouponInv, DoingOK
  <2>3. PICK g : g \in Bijection(1..n, doing[d].holders)
    BY <2>2 DEF ExistsBijection
  <2>4. Inverse(g, 1..n, doing[d].holders) \in Injection(doing[d].holders, 1..n)
    BY <2>3, Fun_SurjInverse DEF Bijection
  <2>5. PICK f : f \in [doing[d].holders -> 1..n] /\ IsInjective(f)
    BY <2>4 DEF Injection
  <2>6. f \in [doing[d].holders -> 1..MaxIssueBatch]
    BY <1>1, <2>2, <2>5
  <2>7. \E h \in [doing[d].holders -> 1..MaxIssueBatch] : IsInjective(h)
    BY <2>5, <2>6
  <2> QED
    BY <2>7
<1> DEFINE seat == [p \in InFlight(t) |-> <<p[1], place[p[1]][p[2]]>>]
<1>3. \A p \in InFlight(t) : /\ p = <<p[1], p[2]>> /\ p[1] \in Issues /\ p[1] # c
                             /\ p[2] \in doing[p[1]].holders
  BY DEF InFlight
<1> HIDE DEF place
<1>4. seat \in Injection(InFlight(t), Others \X (1..MaxIssueBatch))
  <2>1. ASSUME NEW p \in InFlight(t)
        PROVE  seat[p] \in Others \X (1..MaxIssueBatch)
    BY <1>2, <1>3
  <2>2. ASSUME NEW p \in InFlight(t), NEW q \in InFlight(t), seat[p] = seat[q]
        PROVE  p = q
    <3>1. p[1] = q[1] /\ place[p[1]][p[2]] = place[p[1]][q[2]]
      BY <2>2
    <3>2. p[2] \in DOMAIN place[p[1]] /\ q[2] \in DOMAIN place[p[1]]
      BY <1>2, <1>3, <3>1
    <3>3. p[2] = q[2]
      BY <1>2, <1>3, <3>1, <3>2 DEF IsInjective
    <3> QED
      BY <1>3, <3>1, <3>3
  <2> QED
    BY <2>1, <2>2 DEF Injection, IsInjective
<1>5. /\ IsFiniteSet(Others \X (1..MaxIssueBatch))
      /\ Cardinality(Others \X (1..MaxIssueBatch)) = Cardinality(Others) * MaxIssueBatch
  BY <1>1, FS_Product
<1> QED
  BY <1>1, <1>4, <1>5, FS_Injection

\* One caller's recipients are in flight as pairs with it.
LEMMA PairsOfOne ==
    ASSUME NEW c, NEW R, IsFiniteSet(R)
    PROVE  /\ IsFiniteSet({c} \X R) /\ Cardinality({c} \X R) = Cardinality(R)
           /\ Cardinality(R) \in Nat
<1>1. IsFiniteSet({c}) /\ Cardinality({c}) = 1
  BY FS_Singleton
<1>2. IsFiniteSet({c} \X R) /\ Cardinality({c} \X R) = Cardinality({c}) * Cardinality(R)
  BY <1>1, FS_Product
<1>3. Cardinality(R) \in Nat
  BY FS_CardinalityType
<1> QED
  BY <1>1, <1>2, <1>3

\* An issue is let through while its template has room: with all others in
\* flight, at most a batch each, it keeps within the bound.
LEMMA IssueCheckStep ==
    ASSUME CouponInv, NEW c \in Callers, NEW t \in Templates, NEW hs \in SUBSET Holders,
           IssueCheck(c, t, hs)
    PROVE  CouponInv'
<1> DEFINE R == Recipients(hs)
           x == [op |-> "issue", template |-> t, row |-> template[t], holders |-> R]
<1>1. CouponTypeOK /\ doing[c] = Idle /\ doing[c].op = "none"
  BY DoingTyped DEF CouponInv, IssueCheck, Begin
<1>2. /\ R \in SUBSET Holders /\ 0 \notin R /\ IsFiniteSet(R) /\ Cardinality(R) \in Nat
      /\ Cardinality(R) <= MaxIssueBatch
  <2>1. R \in SUBSET Holders /\ 0 \notin R
    BY DEF Recipients
  <2>2. IsFiniteSet(R)
    BY <2>1, MarketingAssumption, FS_Subset
  <2>3. Cardinality(R) \in Nat
    BY <2>2, FS_CardinalityType
  <2>4. Cardinality(R) <= MaxIssueBatch
    <3>1. Cardinality(R) \in 1..MaxIssueBatch
      BY DEF IssueCheck
    <3> HIDE DEF R
    <3> QED
      BY <2>3, <3>1, LimitTyped
  <2> QED
    BY <2>1, <2>2, <2>3, <2>4
<1>3. /\ template[t].status = "enabled" /\ HasRoom(template[t], Cardinality(R))
      /\ doing' = [doing EXCEPT ![c] = x]
      /\ UNCHANGED <<template, coupon, today, edits>>
  BY DEF IssueCheck, Begin
<1>4. x \in Issuing /\ x.op = "issue" /\ x.template = t /\ x.holders = R
  <2>1. template[t] \in CouponTemplate
    BY <1>1 DEF CouponTypeOK
  <2> HIDE DEF R
  <2> QED
    BY <1>2, <2>1 DEF Issuing
<1> HIDE DEF R, x
<1>5. \A d \in Callers : doing'[d] = IF d = c THEN x ELSE doing[d]
  BY <1>1, <1>3 DEF CouponTypeOK
<1>6. CouponTypeOK'
  BY <1>1, <1>3, <1>4, <1>5 DEF CouponTypeOK
<1>7. /\ InFlight(t)' = InFlight(t) \cup ({c} \X R)
      /\ InFlight(t) \cap ({c} \X R) = {}
      /\ \A u \in Templates \ {t} : InFlight(u)' = InFlight(u)
  <2>1. ASSUME NEW u \in Templates, NEW p \in Callers \X Holders, p[1] # c
        PROVE  p \in InFlight(u)' <=> p \in InFlight(u)
    BY <1>5, <2>1 DEF InFlight
  <2>2. ASSUME NEW u \in Templates, NEW p \in Callers \X Holders, p[1] = c
        PROVE  /\ p \notin InFlight(u)
               /\ p \in InFlight(u)' <=> u = t /\ p[2] \in R
    BY <1>1, <1>4, <1>5, <2>2 DEF InFlight
  <2>3. \A u : /\ InFlight(u) \subseteq Callers \X Holders
               /\ InFlight(u)' \subseteq Callers \X Holders
    BY DEF InFlight
  <2>4. \A p : p \in {c} \X R <=> p \in Callers \X Holders /\ p[1] = c /\ p[2] \in R
    BY <1>2
  <2> QED
    BY <2>1, <2>2, <2>3, <2>4
<1>8. ASSUME NEW u \in Templates
      PROVE  (CounterOK(u) /\ AbsentOK(u) /\ LimitOK(u))'
  <2>1. CouponsOf(u)' = CouponsOf(u) /\ UsedOf(u)' = UsedOf(u) /\ (Exists(u)' <=> Exists(u))
    BY <1>3 DEF CouponsOf, UsedOf, Exists
  <2>2. CounterOK(u)'
    BY <1>3, <2>1 DEF CouponInv, CounterOK
  <2>3. AbsentOK(u)'
    BY <1>3, <1>4, <1>5, <2>1 DEF CouponInv, AbsentOK
  <2>4. CASE u # t
    BY <1>3, <1>7, <2>1, <2>2, <2>3, <2>4 DEF CouponInv, LimitOK
  <2>5. CASE u = t
    <3>1. PICK k \in Nat, n \in Nat, m \in Nat : k = template[t].issued /\ n = Cardinality(R)
                                           /\ m = template[t].total
      BY <1>1, <1>2 DEF CouponTypeOK, CouponTemplate
    <3>2. PICK o \in Offers : m = o.total
      BY <1>3, <3>1 DEF CouponInv, LimitOK, Exists
    <3>3. AllLimited => k + n <= m
      BY <1>3, <3>1, <3>2 DEF HasRoom, AllLimited
    <3>4. PICK f \in Nat : f = Cardinality(InFlight(t)) /\ Cardinality(InFlight(t)') = f + n
      <4>1. IsFiniteSet(InFlight(t)) /\ Cardinality(InFlight(t)) \in Nat
        BY InFlightIsASet, FlightFinite
      <4>2. IsFiniteSet({c} \X R) /\ Cardinality({c} \X R) = n
        BY <1>2, <3>1, PairsOfOne
      <4>3. Cardinality(InFlight(t)') = Cardinality(InFlight(t)) + n
        BY <1>7, <4>1, <4>2, DisjointUnion
      <4> QED
        BY <4>1, <4>3
    <3>5. f <= (Cardinality(Callers) - 1) * MaxIssueBatch
      BY <1>1, <3>4, OthersInFlight
    <3>6. AllLimited => k + (f + n) <= OverIssueLimit
      <4>1. PICK l \in Nat : l = (Cardinality(Callers) - 1) * MaxIssueBatch
        BY LimitTyped
      <4>2. m <= HighestTotal /\ HighestTotal \in Int
        BY <3>2, LimitTyped
      <4> QED
        BY <3>3, <3>5, <4>1, <4>2 DEF OverIssueLimit
    <3>7. LimitOK(t)'
      BY <1>3, <3>1, <3>2, <3>4, <3>6 DEF LimitOK, AllLimited, OverIssueLimit
    <3> QED
      BY <2>2, <2>3, <2>5, <3>7
  <2> QED
    BY <2>4, <2>5
<1>9. \A d \in Callers : DoingOK(d)'
  BY <1>2, <1>3, <1>4, <1>5 DEF CouponInv, DoingOK
<1> QED
  BY <1>6, <1>8, <1>9 DEF CouponInv

NewRows(t, row, R) == {NewCoupon(t, row, h) : h \in R}

\* The rows an issue writes: one for each recipient, unused.
LEMMA NewCoupons ==
    ASSUME CouponInv, NEW c \in Callers, doing[c].op = "issue",
           NEW t \in Templates, t = doing[c].template,
           NEW R, R = doing[c].holders, NEW row, row = doing[c].row,
           NEW rows, rows = SetToSeq(NewRows(t, row, R))
    PROVE  /\ rows \in Seq(CouponModel)
           /\ Len(rows) \in Nat /\ Len(rows) <= Cardinality(R)
           /\ \A k \in 1..Len(rows) : /\ rows[k].template = t
                                      /\ rows[k].status = "unused" /\ rows[k].ref = NoRef
<1> DEFINE f == [h \in R |-> NewCoupon(t, row, h)]
           new == {f[h] : h \in R}
<1>1. /\ R \in SUBSET (Holders \ {0}) /\ row \in CouponTemplate /\ today \in Nat
      /\ IsFiniteSet(R)
  <2>1. doing[c] \in Issuing /\ 0 \notin R /\ CouponTypeOK
    BY DoingTyped DEF CouponInv, DoingOK
  <2>2. R \in SUBSET Holders /\ row \in CouponTemplate
    BY <2>1 DEF Issuing
  <2>3. today \in Nat
    BY <2>1, MarketingAssumption DEF CouponTypeOK
  <2> QED
    BY <2>1, <2>2, <2>3, MarketingAssumption, FS_Subset
<1>2. \A h \in R : /\ f[h] \in CouponModel
                   /\ f[h].template = t /\ f[h].status = "unused" /\ f[h].ref = NoRef
  BY <1>1 DEF NewCoupon, CouponModel, CouponTemplate
<1>3. NewRows(t, row, R) = new
  BY DEF NewRows
<1>4. f = [h \in R |-> f[h]]
  OBVIOUS
<1> HIDE DEF f
<1>5. IsFiniteSet(new) /\ Cardinality(new) <= Cardinality(R)
  BY <1>1, <1>4, ImageSize
<1>6. new \subseteq CouponModel
  BY <1>2
<1>7. \A y \in new : y.template = t /\ y.status = "unused" /\ y.ref = NoRef
  BY <1>2
<1> HIDE DEF new
<1>8. /\ SetToSeq(new) \in Seq(CouponModel) /\ Len(SetToSeq(new)) = Cardinality(new)
      /\ Cardinality(new) \in Nat
      /\ \A k \in 1..Cardinality(new) : SetToSeq(new)[k] \in new
  BY <1>5, <1>6, RowsAreASequence
<1> QED
  BY <1>3, <1>5, <1>7, <1>8

\* What the commit of an issue does to the coupons.
LEMMA IssuedRows ==
    ASSUME CouponInv, NEW c \in Callers, IssueCommit(c)
    PROVE  \E t \in Templates, k \in Nat :
              /\ t = doing[c].template
              /\ k <= Cardinality(doing[c].holders)
              /\ template' = [template EXCEPT ![t].issued = IF Exists(t) THEN @ + k ELSE @]
              /\ coupon' \in Seq(CouponModel)
              /\ Len(coupon') = Len(coupon) + k /\ Len(coupon') <= MaxCoupons
              /\ DOMAIN coupon' = (DOMAIN coupon) \cup (Len(coupon)+1)..(Len(coupon)+k)
              /\ \A i \in DOMAIN coupon : coupon'[i] = coupon[i]
              /\ \A i \in (Len(coupon)+1)..(Len(coupon)+k) :
                    /\ coupon'[i].template = t
                    /\ coupon'[i].status = "unused" /\ coupon'[i].ref = NoRef
<1>1. /\ coupon \in Seq(CouponModel) /\ doing[c] \in Issuing
      /\ template \in [Templates -> CouponTemplate]
  BY DoingTyped DEF CouponInv, CouponTypeOK, IssueCommit
<1>2. PICK t \in Templates : t = doing[c].template
  BY <1>1 DEF Issuing
<1>3. PICK R, row : R = doing[c].holders /\ row = doing[c].row
  OBVIOUS
<1>4. PICK rows : rows = SetToSeq(NewRows(t, row, R))
  OBVIOUS
<1>5. /\ rows \in Seq(CouponModel)
      /\ Len(rows) \in Nat /\ Len(rows) <= Cardinality(R)
      /\ \A k \in 1..Len(rows) : /\ rows[k].template = t
                                 /\ rows[k].status = "unused" /\ rows[k].ref = NoRef
  <2>1. doing[c].op = "issue"
    BY DEF IssueCommit
  <2> QED
    BY <1>2, <1>3, <1>4, <2>1, NewCoupons
<1>6. /\ Len(coupon) + Len(rows) <= MaxCoupons
      /\ coupon' = coupon \o rows
      /\ template' = [template EXCEPT ![t].issued =
                          IF Exists(t) THEN template[t].issued + Len(rows) ELSE @]
  <2>1. NewRows(t, row, R) = {NewCoupon(doing[c].template, doing[c].row, h) :
                                 h \in doing[c].holders}
    BY <1>2, <1>3 DEF NewRows
  <2> QED
    BY <1>2, <1>4, <2>1 DEF IssueCommit, Issued
<1>7. PICK k \in Nat : k = Len(rows)
  BY <1>5
<1>8. PICK m \in Nat : m = Len(coupon) /\ DOMAIN coupon = 1..m
  BY <1>1
<1>9. /\ coupon' \in Seq(CouponModel) /\ Len(coupon') = m + k /\ DOMAIN coupon' = 1..(m + k)
      /\ \A i \in 1..m : coupon'[i] = coupon[i]
      /\ \A i \in (m+1)..(m+k) : coupon'[i] = rows[i - m]
  BY <1>1, <1>5, <1>6, <1>7, <1>8
<1>10. \A i \in (m+1)..(m+k) :
         coupon'[i].template = t /\ coupon'[i].status = "unused" /\ coupon'[i].ref = NoRef
  <2> SUFFICES ASSUME NEW i \in (m+1)..(m+k)
               PROVE  /\ coupon'[i].template = t /\ coupon'[i].status = "unused"
                      /\ coupon'[i].ref = NoRef
    OBVIOUS
  <2>1. i - m \in 1..k
    OBVIOUS
  <2> QED
    BY <1>5, <1>7, <1>9, <2>1
<1>11. DOMAIN coupon' = (1..m) \cup (m+1)..(m+k)
  BY <1>9
<1>12. template' = [template EXCEPT ![t].issued = IF Exists(t) THEN @ + k ELSE @]
  BY <1>1, <1>6, <1>7
<1>13. k <= Cardinality(doing[c].holders) /\ m + k <= MaxCoupons
  BY <1>5, <1>6, <1>7, <1>8, <1>3
<1>14. /\ DOMAIN coupon' = (DOMAIN coupon) \cup (Len(coupon)+1)..(Len(coupon)+k)
       /\ \A i \in DOMAIN coupon : coupon'[i] = coupon[i]
       /\ \A i \in (Len(coupon)+1)..(Len(coupon)+k) :
             /\ coupon'[i].template = t
             /\ coupon'[i].status = "unused" /\ coupon'[i].ref = NoRef
  BY <1>8, <1>9, <1>10, <1>11
<1>15. /\ coupon' \in Seq(CouponModel) /\ Len(coupon') = Len(coupon) + k
       /\ Len(coupon') <= MaxCoupons /\ k <= Cardinality(doing[c].holders)
  BY <1>8, <1>9, <1>13
<1> QED
  BY <1>2, <1>12, <1>14, <1>15

\* The commit of an issue counts what it writes, and takes it out of flight.
LEMMA IssueCommitStep ==
    ASSUME CouponInv, NEW c \in Callers, IssueCommit(c)
    PROVE  CouponInv'
<1>1. /\ CouponTypeOK /\ doing[c] \in Issuing /\ doing[c].op = "issue"
      /\ template \in [Templates -> CouponTemplate] /\ coupon \in Seq(CouponModel)
  BY DoingTyped DEF CouponInv, CouponTypeOK, IssueCommit
<1>2. PICK R \in SUBSET Holders : R = doing[c].holders
  BY <1>1 DEF Issuing
<1>3. IsFiniteSet(R) /\ Cardinality(R) \in Nat
  BY MarketingAssumption, FS_Subset, FS_CardinalityType
<1>4. PICK m \in Nat : m = Len(coupon) /\ DOMAIN coupon = 1..m
  BY <1>1
<1>5. PICK t \in Templates, k \in Nat :
          /\ t = doing[c].template
          /\ k <= Cardinality(doing[c].holders)
          /\ template' = [template EXCEPT ![t].issued = IF Exists(t) THEN @ + k ELSE @]
          /\ coupon' \in Seq(CouponModel)
          /\ Len(coupon') = Len(coupon) + k /\ Len(coupon') <= MaxCoupons
          /\ DOMAIN coupon' = (DOMAIN coupon) \cup (Len(coupon)+1)..(Len(coupon)+k)
          /\ \A i \in DOMAIN coupon : coupon'[i] = coupon[i]
          /\ \A i \in (Len(coupon)+1)..(Len(coupon)+k) :
                /\ coupon'[i].template = t
                /\ coupon'[i].status = "unused" /\ coupon'[i].ref = NoRef
  BY IssuedRows
<1>6. /\ k <= Cardinality(R)
      /\ DOMAIN coupon' = (DOMAIN coupon) \cup (m+1)..(m+k)
      /\ \A i \in (m+1)..(m+k) : coupon'[i].template = t /\ coupon'[i].status = "unused"
  BY <1>2, <1>4, <1>5
<1>7. doing' = [doing EXCEPT ![c] = Idle] /\ UNCHANGED <<today, edits>>
  BY DEF IssueCommit, Finish
<1>8. \A d \in Callers : doing'[d] = IF d = c THEN Idle ELSE doing[d]
  BY <1>1, <1>7 DEF CouponTypeOK
<1>9. /\ template' \in [Templates -> CouponTemplate]
      /\ \A u \in Templates : /\ template'[u].used = template[u].used
                              /\ template'[u].total = template[u].total
                              /\ template'[u].status = template[u].status
      /\ Exists(t) => template'[t].issued = template[t].issued + k
      /\ \A u \in Templates \ {t} : template'[u] = template[u]
  <2>1. PICK k0 \in Nat : k0 = template[t].issued
    BY <1>1 DEF CouponTemplate
  <2>2. PICK n \in Nat : /\ Exists(t) => n = k0 + k
                         /\ template' = [template EXCEPT ![t].issued = n]
    <3>1. CASE Exists(t)
      <4>1. template' = [template EXCEPT ![t].issued = k0 + k] /\ k0 + k \in Nat
        BY <1>6, <1>5, <2>1, <3>1
      <4> QED
        BY <3>1, <4>1
    <3>2. CASE ~Exists(t)
      BY <1>6, <1>5, <2>1, <3>2
    <3> QED
      BY <3>1, <3>2
  <2>3. template[t] \in CouponTemplate
    BY <1>1
  <2> QED
    BY <1>1, <2>1, <2>2, <2>3 DEF CouponTemplate
<1>10. CouponTypeOK'
  BY <1>1, <1>6, <1>5, <1>7, <1>8, <1>9 DEF CouponTypeOK
<1>11. /\ InFlight(t)' = InFlight(t) \ ({c} \X R) /\ {c} \X R \subseteq InFlight(t)
       /\ \A u \in Templates \ {t} : InFlight(u)' = InFlight(u)
  <2>1. ASSUME NEW u \in Templates, NEW p \in Callers \X Holders, p[1] # c
        PROVE  p \in InFlight(u)' <=> p \in InFlight(u)
    BY <1>8, <2>1 DEF InFlight
  <2>2. ASSUME NEW u \in Templates, NEW p \in Callers \X Holders, p[1] = c
        PROVE  /\ p \notin InFlight(u)'
               /\ p \in InFlight(u) <=> u = t /\ p[2] \in R
    BY <1>1, <1>2, <1>6, <1>5, <1>8, <2>2 DEF InFlight, Idle
  <2>3. \A u : /\ InFlight(u) \subseteq Callers \X Holders
               /\ InFlight(u)' \subseteq Callers \X Holders
    BY DEF InFlight
  <2>4. \A p : p \in {c} \X R <=> p \in Callers \X Holders /\ p[1] = c /\ p[2] \in R
    BY <1>2
  <2>5. {c} \X R \subseteq InFlight(t)
    BY <2>2, <2>4
  <2>6. InFlight(t)' = InFlight(t) \ ({c} \X R)
    BY <2>1, <2>2, <2>3, <2>4
  <2>7. ASSUME NEW u \in Templates \ {t} PROVE InFlight(u)' = InFlight(u)
    <3>1. ASSUME NEW p \in Callers \X Holders PROVE p \in InFlight(u)' <=> p \in InFlight(u)
      BY <2>1, <2>2
    <3> QED
      BY <2>3, <3>1
  <2> QED
    BY <2>5, <2>6, <2>7
<1>12. ASSUME NEW u \in Templates
       PROVE  (CounterOK(u) /\ AbsentOK(u) /\ LimitOK(u))'
  <2>1. Exists(u)' <=> Exists(u)
    BY <1>9 DEF Exists
  <2>2. UsedOf(u)' = UsedOf(u)
    BY <1>6, <1>5 DEF UsedOf, CouponsOf
  <2>3. CASE u # t
    <3>1. CouponsOf(u)' = CouponsOf(u)
      BY <1>6, <1>5, <2>3 DEF CouponsOf
    <3> QED
      BY <1>8, <1>9, <1>11, <2>1, <2>2, <2>3, <3>1
      DEF CouponInv, CounterOK, AbsentOK, LimitOK, Idle
  <2>4. CASE u = t
    <3>1. template[t].status # "absent"
      BY <1>1, <1>6, <1>5 DEF CouponInv, AbsentOK
    <3>2. CouponsOf(t)' = CouponsOf(t) \cup (m+1)..(m+k)
      BY <1>6, <1>5 DEF CouponsOf
    <3>3. Cardinality(CouponsOf(t)') = Cardinality(CouponsOf(t)) + k
      <4>1. CouponsOf(t) \in SUBSET (1..m)
        BY <1>4 DEF CouponsOf
      <4>2. Cardinality(CouponsOf(t) \cup (m+1)..(m+k)) = Cardinality(CouponsOf(t)) + k
        BY <4>1, NewIndices
      <4> QED
        BY <3>2, <4>2
    <3>4. CounterOK(t)'
      BY <1>9, <2>1, <2>2, <2>4, <3>3 DEF CouponInv, CounterOK
    <3>5. AbsentOK(t)'
      BY <1>9, <3>1 DEF AbsentOK
    <3>6. PICK n \in Nat, f \in Nat, i \in Nat :
              /\ n = Cardinality(R) /\ f = Cardinality(InFlight(t)) /\ i = template[t].issued
              /\ Cardinality(InFlight(t)') = f - n
      <4>1. IsFiniteSet(InFlight(t)) /\ Cardinality(InFlight(t)) \in Nat
        BY InFlightIsASet, FlightFinite
      <4>2. InFlight(t) \cap ({c} \X R) = {c} \X R
        BY <1>11
      <4>3. Cardinality({c} \X R) = Cardinality(R)
        BY <1>3, PairsOfOne
      <4>4. Cardinality(InFlight(t) \ ({c} \X R)) = Cardinality(InFlight(t)) - Cardinality(R)
        <5>1. PICK S, T : S = InFlight(t) /\ T = {c} \X R
          OBVIOUS
        <5>2. IsFiniteSet(S) /\ S \cap T = T /\ Cardinality(T) = Cardinality(R)
          BY <4>1, <4>2, <4>3, <5>1
        <5>3. Cardinality(S \ T) = Cardinality(S) - Cardinality(S \cap T)
          BY <5>2, FS_Difference
        <5>4. Cardinality(S \ T) = Cardinality(S) - Cardinality(R)
          BY <5>2, <5>3
        <5> QED
          BY <5>1, <5>4
      <4>5. template[t].issued \in Nat
        BY <1>1 DEF CouponTemplate
      <4> QED
        BY <1>3, <1>11, <4>1, <4>4, <4>5
    <3>7. LimitOK(t)'
      <4>1. k <= n /\ OverIssueLimit \in Int
        BY <1>6, <1>5, <3>6, LimitTyped
      <4>2. OverIssueLimit' = OverIssueLimit /\ AllLimited' = AllLimited
        BY DEF OverIssueLimit, AllLimited
      <4> QED
        BY <1>9, <2>1, <2>4, <3>6, <4>1, <4>2 DEF CouponInv, LimitOK
    <3> QED
      BY <2>4, <3>4, <3>5, <3>7
  <2> QED
    BY <2>3, <2>4
<1>13. \A d \in Callers : DoingOK(d)'
  BY <1>6, <1>5, <1>8 DEF CouponInv, DoingOK, Idle
<1> QED
  BY <1>10, <1>12, <1>13 DEF CouponInv

-----------------------------------------------------------------------------
(* Coupons: the steps *)

\* Transactions that begin or end without writing.
LEMMA BeginOrEndStep ==
    ASSUME CouponInv, NEW c \in Callers,
           \/ \E t \in Templates : DeleteTemplate(c, t)
           \/ \E h, i, a, s : \E r \in Refs : ClaimCheck(c, h, i, a, s, r)
           \/ ClaimRefused(c) \/ CouponAbort(c)
    PROVE  CouponInv'
<1>1. CASE \E t \in Templates : DeleteTemplate(c, t)
  <2>1. PICK t \in Templates : DeleteTemplate(c, t)
    BY <1>1
  <2>2. PICK x \in Deleting : x = [op |-> "delete", template |-> t]
    BY DEF Deleting
  <2>3. x.op # "claim"
    BY <2>2
  <2> QED
    BY <2>1, <2>2, <2>3, NoIssueStep DEF DeleteTemplate, Begin
<1>2. CASE \E h, i, a, s : \E r \in Refs : ClaimCheck(c, h, i, a, s, r)
  <2>1. PICK h, i, a, s : \E r \in Refs : ClaimCheck(c, h, i, a, s, r)
    BY <1>2
  <2>2. PICK r \in Refs : ClaimCheck(c, h, i, a, s, r)
    BY <2>1
  <2>3. i \in DOMAIN coupon /\ i \in 1..MaxCoupons
    <3>1. coupon \in Seq(CouponModel) /\ Len(coupon) <= MaxCoupons /\ MaxCoupons \in Nat
      BY BoundsAssumption DEF CouponInv, CouponTypeOK
    <3>2. i \in DOMAIN coupon
      BY <2>2 DEF ClaimCheck
    <3> QED
      BY <3>1, <3>2
  <2>4. PICK x \in Claiming : x = [op |-> "claim", coupon |-> i, ref |-> r]
    BY <2>3 DEF Claiming
  <2>5. doing' = [doing EXCEPT ![c] = x] /\ UNCHANGED <<template, coupon, today, edits>>
    BY <2>2, <2>4 DEF ClaimCheck, Begin
  <2>6. x.coupon \in DOMAIN coupon
    BY <2>3, <2>4
  <2> QED
    BY <2>5, <2>6, NoIssueStep
<1>3. CASE ClaimRefused(c) \/ CouponAbort(c)
  <2>1. doing' = [doing EXCEPT ![c] = Idle] /\ UNCHANGED <<template, coupon, today, edits>>
    BY <1>3 DEF ClaimRefused, CouponAbort, Finish
  <2>2. Idle.op # "claim"
    BY DEF Idle
  <2> QED
    BY <2>1, <2>2, NoIssueStep
<1> QED
  BY <1>1, <1>2, <1>3

LEMMA AdministrationStep == CouponInv /\ Administration => CouponInv'
<1> SUFFICES ASSUME CouponInv, Administration PROVE CouponInv'
  OBVIOUS
<1>1. ASSUME NEW t \in Templates, NEW o \in Offers, CreateTemplate(t, o)
      PROVE  CouponInv'
  BY <1>1, EditStep DEF CreateTemplate
<1>2. ASSUME NEW t \in Templates, NEW o \in Offers, NEW s \in {"enabled", "disabled"},
             UpdateTemplate(t, o, s)
      PROVE  CouponInv'
  BY <1>2, EditStep DEF UpdateTemplate
<1>3. ASSUME NEW c \in Callers, NEW t \in Templates, DeleteTemplate(c, t)
      PROVE  CouponInv'
  BY <1>3, BeginOrEndStep
<1>4. ASSUME NEW c \in Callers, NEW t \in Templates, NEW hs \in SUBSET Holders,
             IssueCheck(c, t, hs)
      PROVE  CouponInv'
  BY <1>4, IssueCheckStep
<1>5. ASSUME NEW c \in Callers, StoreDelete(c) \/ IssueCommit(c)
      PROVE  CouponInv'
  BY <1>5, StoreDeleteStep, IssueCommitStep
<1> QED
  BY <1>1, <1>2, <1>3, <1>4, <1>5, ListStep, NextDayStep DEF Administration

LEMMA CouponUnchanged ==
    ASSUME CouponInv, UNCHANGED couponVars
    PROVE  CouponInv'
<1>1. UNCHANGED <<template, coupon, doing, today, edits>>
  BY DEF couponVars
<1>2. CouponTypeOK' /\ \A d \in Callers : DoingOK(d)'
  BY <1>1 DEF CouponInv, CouponTypeOK, DoingOK
<1>3. ASSUME NEW u \in Templates
      PROVE  (CounterOK(u) /\ AbsentOK(u) /\ LimitOK(u))'
  <2>1. CouponsOf(u)' = CouponsOf(u) /\ UsedOf(u)' = UsedOf(u) /\ InFlight(u)' = InFlight(u)
    BY <1>1 DEF CouponsOf, UsedOf, InFlight
  <2> QED
    BY <1>1, <2>1 DEF CouponInv, CounterOK, AbsentOK, LimitOK, Exists
<1> QED
  BY <1>2, <1>3 DEF CouponInv

LEMMA CouponStep == CouponInv /\ [CouponNext]_couponVars => CouponInv'
<1> SUFFICES ASSUME CouponInv, [CouponNext]_couponVars PROVE CouponInv'
  OBVIOUS
<1>1. ASSUME NEW c \in Callers, NEW h \in Holders, NEW i \in 1..MaxCoupons, NEW a \in Bills,
             NEW s \in Shops \cup {AnyShop}, NEW r \in Refs, ClaimCheck(c, h, i, a, s, r)
      PROVE  CouponInv'
  BY <1>1, BeginOrEndStep
<1>2. ASSUME NEW c \in Callers, ClaimCommit(c) \/ ClaimRefused(c) \/ CouponAbort(c)
      PROVE  CouponInv'
  BY <1>2, ClaimStep, BeginOrEndStep
<1> QED
  BY <1>1, <1>2, AdministrationStep, CouponUnchanged DEF CouponNext, Redemptions

\* What becomes of a coupon in a step: nothing, unless it is unused.
OutcomesStay == \A i \in DOMAIN coupon : coupon[i].status # "unused" => coupon'[i] = coupon[i]

LEMMA AdministrationKeepsOutcomes ==
    ASSUME CouponInv, Administration
    PROVE  OutcomesStay
<1>1. ASSUME NEW c \in Callers, IssueCommit(c)
      PROVE  OutcomesStay
  BY <1>1, IssuedRows DEF OutcomesStay
<1>2. CASE ListCoupons
  BY <1>2 DEF ListCoupons, OutcomesStay, Stale
<1>3. CASE coupon' = coupon
  BY <1>3 DEF OutcomesStay
<1>4. \/ \E c \in Callers : IssueCommit(c)
      \/ ListCoupons
      \/ coupon' = coupon
  BY DEF Administration, CreateTemplate, UpdateTemplate, DeleteTemplate, IssueCheck,
         StoreDelete, NextDay
<1> QED
  BY <1>1, <1>2, <1>3, <1>4

LEMMA ClaimKeepsOutcomes ==
    ASSUME CouponInv, NEW c \in Callers, ClaimCommit(c)
    PROVE  OutcomesStay
<1>1. doing[c] \in Claiming /\ doing[c].coupon \in DOMAIN coupon
  BY DoingTyped DEF CouponInv, DoingOK, ClaimCommit
<1>2. coupon \in Seq(CouponModel)
  BY DEF CouponInv, CouponTypeOK
<1> QED
  BY <1>1, <1>2 DEF ClaimCommit, StillUnused, OutcomesStay

LEMMA CouponKeepsOutcomes == CouponInv /\ [CouponNext]_couponVars => [OutcomesStay]_coupon
<1> SUFFICES ASSUME CouponInv, CouponNext PROVE OutcomesStay \/ coupon' = coupon
  BY DEF couponVars
<1>1. CASE Administration
  BY <1>1, AdministrationKeepsOutcomes
<1>2. ASSUME NEW c \in Callers, ClaimCommit(c) PROVE OutcomesStay
  BY <1>2, ClaimKeepsOutcomes
<1>3. Redemptions => (\E c \in Callers : ClaimCommit(c)) \/ coupon' = coupon
  BY DEF Redemptions, ClaimCheck, ClaimRefused, CouponAbort
<1> QED
  BY <1>1, <1>2, <1>3 DEF CouponNext

-----------------------------------------------------------------------------
(* Coupons: the theorems *)

LEMMA CouponInvariance == CouponSpec => []CouponInv
BY CouponInvInit, CouponStep, PTL DEF CouponSpec

\* The counters of a template are the numbers of its issued and its redeemed
\* coupons, whatever issues, redemptions, edits and deletions interleave
\* (coupon/store.go, Issue and Claim).
THEOREM CountersAgree == CouponSpec => []CountersAreRows
<1>1. CouponInv => CountersAreRows
  BY DEF CouponInv, CountersAreRows, CounterOK, UsedOf
<1> QED
  BY CouponInvariance, <1>1, PTL

LEMMA LimitKept == CouponInv => OverIssueIsBounded
<1> SUFFICES ASSUME CouponInv, NEW t \in Templates, Exists(t), AllLimited
             PROVE  template[t].issued <= OverIssueLimit
  BY DEF OverIssueIsBounded, OverIssueLimit, AllLimited
<1>1. template[t].issued \in Nat
  BY DEF CouponInv, CouponTypeOK, CouponTemplate
<1>2. Cardinality(InFlight(t)) \in Nat
  BY InFlightIsASet, FlightFinite
<1>3. template[t].issued + Cardinality(InFlight(t)) <= OverIssueLimit
  BY DEF CouponInv, LimitOK
<1> QED
  BY <1>1, <1>2, <1>3, LimitTyped

\* Issues that were checked against the same count exceed the limit of the
\* template by at most a batch for every caller but one (store.go, Issue).
THEOREM OverIssueBounded == CouponSpec => []OverIssueIsBounded
BY CouponInvariance, LimitKept, PTL

\* A redeemed coupon keeps its document and an expired one stays expired
\* (store.go, Claim and expireStaleCoupons).
THEOREM OutcomesAreFinal == CouponSpec => OutcomeIsFinal
<1>1. OutcomesStay <=>
         \A i \in DOMAIN coupon : coupon[i].status # "unused" => coupon'[i] = coupon[i]
  BY DEF OutcomesStay
<1> QED
  BY CouponInvariance, CouponKeepsOutcomes, <1>1, PTL DEF CouponSpec, OutcomeIsFinal

-----------------------------------------------------------------------------
(* Session cards: what always holds *)

LogOf(i) == {k \in DOMAIN consumed : consumed[k].card = i}

\* What a card says of itself.
CardOK(i) ==
    /\ card[i].remaining >= 0 /\ card[i].remaining + card[i].used = card[i].times
    /\ card[i].used = Cardinality(LogOf(i))
    /\ card[i].status = "active" => card[i].remaining > 0
    /\ card[i].status = "exhausted" => card[i].remaining = 0

LogOK(k) ==
    /\ consumed[k].card \in DOMAIN card
    /\ card[consumed[k].card].shop \in {0, consumed[k].shop}

CardCounterOK(t) ==
    /\ HasTemplate(t) => /\ cardTemplate[t].issued = Cardinality(CardsOf(t))
                         /\ cardTemplate[t].times > 0
    /\ cardTemplate[t].status = "absent" =>
          /\ cardTemplate[t].issued = 0 /\ CardsOf(t) = {}
          /\ \A c \in Callers : using[c].op = "issue" => using[c].template # t

\* What a transaction has read and stays so.
UsingOK(c) ==
    /\ using[c].op = "issue" => 0 \notin using[c].holders /\ using[c].row.times > 0
    /\ using[c].op = "consume" => /\ using[c].card \in DOMAIN card
                                  /\ CardShopMatches(card[using[c].card], using[c].shop)

CardInv ==
    /\ CardTypeOK
    /\ \A i \in DOMAIN card : CardOK(i)
    /\ \A k \in DOMAIN consumed : LogOK(k)
    /\ \A t \in CardTemplates : CardCounterOK(t)
    /\ \A c \in Callers : UsingOK(c)

-----------------------------------------------------------------------------
(* Session cards: the steps *)

UsingIssue ==
    [op : {"issue"}, template : CardTemplates, row : SessionCardTemplate,
     holders : SUBSET Holders]
UsingDelete == [op : {"delete"}, template : CardTemplates]
UsingConsume == [op : {"consume"}, card : 1..MaxCards, shop : Shops]

LEMMA UsingTyped ==
    ASSUME CardTypeOK
    PROVE  /\ using \in [Callers -> {NoUse} \cup UsingIssue \cup UsingDelete \cup UsingConsume]
           /\ \A c \in Callers :
                 /\ using[c] = NoUse => using[c].op = "none"
                 /\ using[c].op = "issue" => using[c] \in UsingIssue
                 /\ using[c].op = "delete" => using[c] \in UsingDelete
                 /\ using[c].op = "consume" => using[c] \in UsingConsume
<1>1. using \in [Callers -> {NoUse} \cup UsingIssue \cup UsingDelete \cup UsingConsume]
  BY DEF CardTypeOK, UsingIssue, UsingDelete, UsingConsume
<1> QED
  BY <1>1 DEF NoUse, UsingIssue, UsingDelete, UsingConsume

LEMMA CardInvInit == CardInit => CardInv
<1> SUFFICES ASSUME CardInit PROVE CardInv
  OBVIOUS
<1>1. CardTypeOK
  BY MarketingAssumption, CardBoundsAssumption DEF CardInit, CardTypeOK, SessionCardTemplate
<1>2. \A t \in CardTemplates : CardCounterOK(t)
  BY DEF CardInit, CardCounterOK, HasTemplate, CardsOf, NoUse
<1>3. \A c \in Callers : UsingOK(c)
  BY DEF CardInit, UsingOK, NoUse
<1> QED
  BY <1>1, <1>2, <1>3 DEF CardInit, CardInv

\* Only using changes, and not into an issue.
LEMMA NoCardIssueStep ==
    ASSUME CardInv, NEW c \in Callers, NEW x \in {NoUse} \cup UsingDelete \cup UsingConsume,
           x.op = "consume" => /\ x.card \in DOMAIN card
                               /\ CardShopMatches(card[x.card], x.shop),
           using' = [using EXCEPT ![c] = x],
           UNCHANGED <<cardTemplate, card, consumed, cardDay, cardEdits>>
    PROVE  CardInv'
<1>1. x.op # "issue"
  BY DEF NoUse, UsingDelete, UsingConsume
<1>2. /\ CardTypeOK /\ \A d \in Callers : using'[d] = IF d = c THEN x ELSE using[d]
      /\ using' \in [Callers -> {NoUse} \cup UsingIssue \cup UsingDelete \cup UsingConsume]
  BY UsingTyped DEF CardInv
<1>3. CardTypeOK'
  BY <1>2 DEF CardTypeOK, UsingIssue, UsingDelete, UsingConsume
<1>4. \A i \in DOMAIN card : CardOK(i)'
  BY DEF CardInv, CardOK, LogOf
<1>5. \A k \in DOMAIN consumed : LogOK(k)'
  BY DEF CardInv, LogOK
<1>6. \A t \in CardTemplates : CardCounterOK(t)'
  BY <1>1, <1>2 DEF CardInv, CardCounterOK, HasTemplate, CardsOf
<1>7. \A d \in Callers : UsingOK(d)'
  BY <1>1, <1>2 DEF CardInv, UsingOK, CardShopMatches
<1> QED
  BY <1>3, <1>4, <1>5, <1>6, <1>7 DEF CardInv

LEMMA CardEditStep ==
    ASSUME CardInv, NEW t \in CardTemplates, NEW o \in CardOffers, Builds(o),
           NEW s \in {"enabled", "disabled"},
           HasTemplate(t) \/ cardTemplate[t].status = "absent",
           cardTemplate' = [cardTemplate EXCEPT ![t] = Rebuilt(@, o, s)],
           cardEdits < MaxEdits, cardEdits' = cardEdits + 1,
           UNCHANGED <<card, consumed, using, cardDay>>
    PROVE  CardInv'
<1>1. /\ CardTypeOK /\ cardTemplate \in [CardTemplates -> SessionCardTemplate]
      /\ cardTemplate[t] \in SessionCardTemplate
  BY DEF CardInv, CardTypeOK
<1>2. /\ o.times \in Nat /\ o.times > 0 /\ o.days \in Nat /\ o.total \in Nat
      /\ o.shop \in Shops
  <2>1. PICK m \in Int, n \in Int, k \in Int : m = o.times /\ n = o.days /\ k = o.total
    BY CardOffersAssumption
  <2>2. MaxTotalTimes \in Int /\ MaxValidDays \in Int
    BY CardBoundsAssumption, MarketingAssumption
  <2>3. m \in 1..MaxTotalTimes /\ n \in 1..MaxValidDays /\ k >= 0
    BY <2>1 DEF Builds
  <2>4. o.shop \in Shops
    BY CardOffersAssumption
  <2> QED
    BY <2>1, <2>2, <2>3, <2>4
<1>3. /\ Rebuilt(cardTemplate[t], o, s) \in SessionCardTemplate
      /\ cardTemplate'[t] = Rebuilt(cardTemplate[t], o, s)
      /\ \A u \in CardTemplates \ {t} : cardTemplate'[u] = cardTemplate[u]
      /\ cardTemplate' \in [CardTemplates -> SessionCardTemplate]
  BY <1>1, <1>2 DEF Rebuilt, SessionCardTemplate
<1>4. /\ cardTemplate'[t].issued = cardTemplate[t].issued
      /\ cardTemplate'[t].times = o.times /\ cardTemplate'[t].status = s
  BY <1>1, <1>3 DEF Rebuilt, SessionCardTemplate
<1>5. CardTypeOK'
  BY <1>1, <1>3, MarketingAssumption DEF CardTypeOK
<1>6. ASSUME NEW u \in CardTemplates
      PROVE  CardCounterOK(u)'
  <2>1. CardsOf(u)' = CardsOf(u)
    BY DEF CardsOf
  <2>2. CASE u # t
    BY <1>3, <2>1, <2>2 DEF CardInv, CardCounterOK, HasTemplate
  <2>3. CASE u = t
    <3>1. cardTemplate[t].issued = Cardinality(CardsOf(t))
      BY FS_EmptySet DEF CardInv, CardCounterOK
    <3> QED
      BY <1>2, <1>4, <2>1, <2>3, <3>1 DEF CardCounterOK
  <2> QED
    BY <2>2, <2>3
<1>7. \A i \in DOMAIN card : CardOK(i)'
  BY DEF CardInv, CardOK, LogOf
<1>8. (\A k \in DOMAIN consumed : LogOK(k)') /\ \A d \in Callers : UsingOK(d)'
  BY DEF CardInv, LogOK, UsingOK, CardShopMatches
<1> QED
  BY <1>5, <1>6, <1>7, <1>8 DEF CardInv

LEMMA StoreDeleteTemplateStep ==
    ASSUME CardInv, NEW c \in Callers, StoreDeleteTemplate(c)
    PROVE  CardInv'
<1>1. /\ CardTypeOK /\ cardTemplate \in [CardTemplates -> SessionCardTemplate]
      /\ using[c] \in UsingDelete
  BY UsingTyped DEF CardInv, CardTypeOK, StoreDeleteTemplate
<1>2. PICK t \in CardTemplates : t = using[c].template
  BY <1>1 DEF UsingDelete
<1>3. cardTemplate' = [cardTemplate EXCEPT ![t].status =
                          IF HasTemplate(t) THEN "deleted" ELSE @]
  BY <1>2 DEF StoreDeleteTemplate
<1>4. /\ cardTemplate' \in [CardTemplates -> SessionCardTemplate]
      /\ \A u \in CardTemplates :
            /\ cardTemplate'[u].issued = cardTemplate[u].issued
            /\ cardTemplate'[u].times = cardTemplate[u].times
            /\ HasTemplate(u)' => HasTemplate(u)
            /\ cardTemplate'[u].status = "absent" => cardTemplate[u].status = "absent"
  <2>1. cardTemplate[t] \in SessionCardTemplate
    BY <1>1
  <2> QED
    BY <1>1, <1>3, <2>1 DEF SessionCardTemplate, HasTemplate
<1>5. using' = [using EXCEPT ![c] = NoUse] /\ UNCHANGED <<card, consumed, cardDay, cardEdits>>
  BY DEF StoreDeleteTemplate, EndUse
<1>6. /\ \A d \in Callers : using'[d] = IF d = c THEN NoUse ELSE using[d]
      /\ using' \in [Callers -> {NoUse} \cup UsingIssue \cup UsingDelete \cup UsingConsume]
  BY <1>1, <1>5, UsingTyped
<1>7. CardTypeOK'
  BY <1>1, <1>4, <1>5, <1>6 DEF CardTypeOK, UsingIssue, UsingDelete, UsingConsume
<1>8. ASSUME NEW u \in CardTemplates
      PROVE  CardCounterOK(u)'
  <2>1. CardsOf(u)' = CardsOf(u)
    BY <1>5 DEF CardsOf
  <2> QED
    BY <1>4, <1>6, <2>1 DEF CardInv, CardCounterOK, NoUse
<1>9. \A i \in DOMAIN card : CardOK(i)'
  BY <1>5 DEF CardInv, CardOK, LogOf
<1>10. \A k \in DOMAIN consumed : LogOK(k)'
  BY <1>5 DEF CardInv, LogOK
<1>11. \A d \in Callers : UsingOK(d)'
  BY <1>5, <1>6 DEF CardInv, UsingOK, CardShopMatches, NoUse
<1> QED
  BY <1>5, <1>7, <1>8, <1>9, <1>10, <1>11 DEF CardInv

LEMMA IssueCardsCheckStep ==
    ASSUME CardInv, NEW c \in Callers, NEW t \in CardTemplates, NEW hs \in SUBSET Holders,
           IssueCardsCheck(c, t, hs)
    PROVE  CardInv'
<1> DEFINE R == CardRecipients(hs)
           x == [op |-> "issue", template |-> t, row |-> cardTemplate[t], holders |-> R]
<1>1. CardTypeOK /\ cardTemplate[t] \in SessionCardTemplate
  BY DEF CardInv, CardTypeOK
<1>2. R \in SUBSET Holders /\ 0 \notin R
  BY DEF CardRecipients
<1>3. /\ cardTemplate[t].status = "enabled" /\ HasTemplate(t)
      /\ using' = [using EXCEPT ![c] = x]
      /\ UNCHANGED <<cardTemplate, card, consumed, cardDay, cardEdits>>
  BY DEF IssueCardsCheck, Use, HasTemplate
<1> HIDE DEF R
<1>4. /\ x \in UsingIssue /\ x.op = "issue" /\ x.template = t /\ x.holders = R
      /\ x.row = cardTemplate[t]
  BY <1>1, <1>2 DEF UsingIssue
<1> HIDE DEF x
<1>5. /\ \A d \in Callers : using'[d] = IF d = c THEN x ELSE using[d]
      /\ using' \in [Callers -> {NoUse} \cup UsingIssue \cup UsingDelete \cup UsingConsume]
  BY <1>1, <1>3, <1>4, UsingTyped
<1>6. CardTypeOK'
  BY <1>1, <1>3, <1>5 DEF CardTypeOK, UsingIssue, UsingDelete, UsingConsume
<1>7. \A u \in CardTemplates : CardCounterOK(u)'
  BY <1>3, <1>4, <1>5 DEF CardInv, CardCounterOK, HasTemplate, CardsOf
<1>8. \A d \in Callers : UsingOK(d)'
  BY <1>2, <1>3, <1>4, <1>5 DEF CardInv, UsingOK, CardShopMatches, CardCounterOK
<1>9. \A i \in DOMAIN card : CardOK(i)'
  BY <1>3 DEF CardInv, CardOK, LogOf
<1>10. \A k \in DOMAIN consumed : LogOK(k)'
  BY <1>3 DEF CardInv, LogOK
<1> QED
  BY <1>3, <1>6, <1>7, <1>8, <1>9, <1>10 DEF CardInv

NewCardRows(t, row, R) == {NewCard(t, row, h) : h \in R}

\* Cards as they are issued: unused.
Fresh(y, t) ==
    /\ y.template = t /\ y.status = "active" /\ y.used = 0
    /\ y.remaining = y.times /\ y.remaining > 0

\* The rows an issue writes: one for each recipient, unused.
LEMMA NewCards ==
    ASSUME CardInv, NEW c \in Callers, using[c].op = "issue",
           NEW t \in CardTemplates, t = using[c].template,
           NEW R, R = using[c].holders, NEW row, row = using[c].row,
           NEW rows, rows = SetToSeq(NewCardRows(t, row, R))
    PROVE  /\ rows \in Seq(SessionCardModel) /\ Len(rows) \in Nat
           /\ \A k \in 1..Len(rows) : Fresh(rows[k], t)
<1> DEFINE f == [h \in R |-> NewCard(t, row, h)]
           new == {f[h] : h \in R}
<1>1. /\ R \in SUBSET (Holders \ {0}) /\ row \in SessionCardTemplate /\ cardDay \in Nat
      /\ row.times > 0 /\ IsFiniteSet(R)
  <2>1. using[c] \in UsingIssue /\ 0 \notin R /\ row.times > 0 /\ CardTypeOK
    BY UsingTyped DEF CardInv, UsingOK
  <2>2. R \in SUBSET Holders /\ row \in SessionCardTemplate
    BY <2>1 DEF UsingIssue
  <2>3. cardDay \in Nat
    BY <2>1, MarketingAssumption DEF CardTypeOK
  <2> QED
    BY <2>1, <2>2, <2>3, MarketingAssumption, FS_Subset
<1>2. \A h \in R : f[h] \in SessionCardModel /\ Fresh(f[h], t)
  BY <1>1 DEF NewCard, SessionCardModel, SessionCardTemplate, Fresh
<1>3. NewCardRows(t, row, R) = new
  BY DEF NewCardRows
<1>4. f = [h \in R |-> f[h]]
  OBVIOUS
<1> HIDE DEF f
<1>5. IsFiniteSet(new)
  BY <1>1, <1>4, ImageSize
<1>6. new \subseteq SessionCardModel
  BY <1>2
<1>7. \A y \in new : Fresh(y, t)
  BY <1>2
<1> HIDE DEF new
<1>8. /\ SetToSeq(new) \in Seq(SessionCardModel) /\ Len(SetToSeq(new)) = Cardinality(new)
      /\ Cardinality(new) \in Nat
      /\ \A k \in 1..Cardinality(new) : SetToSeq(new)[k] \in new
  BY <1>5, <1>6, RowsAreASequence
<1> QED
  BY <1>3, <1>7, <1>8

LEMMA IssueCardsCommitStep ==
    ASSUME CardInv, NEW c \in Callers, IssueCardsCommit(c)
    PROVE  CardInv'
<1>1. /\ CardTypeOK /\ using[c] \in UsingIssue /\ using[c].op = "issue"
      /\ cardTemplate \in [CardTemplates -> SessionCardTemplate]
      /\ card \in Seq(SessionCardModel)
  BY UsingTyped DEF CardInv, CardTypeOK, IssueCardsCommit
<1>2. PICK t \in CardTemplates : t = using[c].template
  BY <1>1 DEF UsingIssue
<1>3. PICK R, row : R = using[c].holders /\ row = using[c].row
  OBVIOUS
<1>4. PICK rows : rows = SetToSeq(NewCardRows(t, row, R))
  OBVIOUS
<1>5. /\ rows \in Seq(SessionCardModel) /\ Len(rows) \in Nat
      /\ \A k \in 1..Len(rows) : Fresh(rows[k], t)
  BY <1>1, <1>2, <1>3, <1>4, NewCards
<1>6. /\ Len(card) + Len(rows) <= MaxCards
      /\ card' = card \o rows
      /\ cardTemplate' = [cardTemplate EXCEPT ![t].issued =
                 IF HasTemplate(t) THEN cardTemplate[t].issued + Len(rows) ELSE @]
      /\ using' = [using EXCEPT ![c] = NoUse] /\ UNCHANGED <<consumed, cardDay, cardEdits>>
  <2>1. NewCardRows(t, row, R) = {NewCard(using[c].template, using[c].row, h) :
                                     h \in using[c].holders}
    BY <1>2, <1>3 DEF NewCardRows
  <2> QED
    BY <1>2, <1>4, <2>1 DEF IssueCardsCommit, IssuedNow, EndUse
<1>7. PICK k \in Nat, m \in Nat : k = Len(rows) /\ m = Len(card) /\ DOMAIN card = 1..m
  BY <1>1, <1>5
<1>8. /\ card' \in Seq(SessionCardModel) /\ Len(card') = m + k /\ DOMAIN card' = 1..(m + k)
      /\ \A i \in 1..m : card'[i] = card[i]
      /\ \A i \in (m+1)..(m+k) : card'[i] = rows[i - m]
  BY <1>1, <1>5, <1>6, <1>7
<1>9. \A i \in (m+1)..(m+k) : Fresh(card'[i], t)
  <2> SUFFICES ASSUME NEW i \in (m+1)..(m+k) PROVE Fresh(card'[i], t)
    OBVIOUS
  <2>1. i - m \in 1..k
    OBVIOUS
  <2> QED
    BY <1>5, <1>7, <1>8, <2>1
<1>10. DOMAIN card' = (1..m) \cup (m+1)..(m+k)
  BY <1>8
<1>11. /\ cardTemplate' \in [CardTemplates -> SessionCardTemplate]
       /\ cardTemplate'[t].status = cardTemplate[t].status
       /\ cardTemplate'[t].times = cardTemplate[t].times
       /\ HasTemplate(t) => cardTemplate'[t].issued = cardTemplate[t].issued + k
       /\ \A u \in CardTemplates \ {t} : cardTemplate'[u] = cardTemplate[u]
  <2>1. PICK k0 \in Nat : k0 = cardTemplate[t].issued
    BY <1>1 DEF SessionCardTemplate
  <2>2. PICK n \in Nat : /\ HasTemplate(t) => n = k0 + k
                         /\ cardTemplate' = [cardTemplate EXCEPT ![t].issued = n]
    <3>1. CASE HasTemplate(t)
      <4>1. cardTemplate' = [cardTemplate EXCEPT ![t].issued = k0 + k] /\ k0 + k \in Nat
        BY <1>6, <1>7, <2>1, <3>1
      <4> QED
        BY <3>1, <4>1
    <3>2. CASE ~HasTemplate(t)
      BY <1>6, <2>1, <3>2
    <3> QED
      BY <3>1, <3>2
  <2>3. cardTemplate[t] \in SessionCardTemplate
    BY <1>1
  <2> QED
    BY <1>1, <2>1, <2>2, <2>3 DEF SessionCardTemplate
<1>12. /\ \A d \in Callers : using'[d] = IF d = c THEN NoUse ELSE using[d]
       /\ using' \in [Callers -> {NoUse} \cup UsingIssue \cup UsingDelete \cup UsingConsume]
  BY <1>1, <1>6, UsingTyped
<1>13. CardTypeOK'
  <2>1. Len(card') <= MaxCards
    BY <1>6, <1>7, <1>8
  <2> QED
    BY <1>1, <1>6, <1>8, <1>11, <1>12, <2>1
    DEF CardTypeOK, UsingIssue, UsingDelete, UsingConsume
<1>14. ASSUME NEW i \in DOMAIN card'
       PROVE  CardOK(i)'
  <2>1. LogOf(i)' = LogOf(i)
    BY <1>6 DEF LogOf
  <2>2. CASE i \in 1..m
    BY <1>7, <1>8, <2>1, <2>2 DEF CardInv, CardOK
  <2>3. CASE i \in (m+1)..(m+k)
    <3>1. LogOf(i) = {}
      <4>1. i \notin DOMAIN card
        BY <1>7, <2>3
      <4> QED
        BY <4>1 DEF CardInv, LogOK, LogOf
    <3>2. card'[i] \in SessionCardModel
      BY <1>8
    <3>3. PICK y \in SessionCardModel : y = card'[i] /\ Fresh(y, t)
      BY <1>9, <2>3, <3>2
    <3>4. /\ y.remaining >= 0 /\ y.remaining + y.used = y.times /\ y.used = 0
          /\ y.status = "active" /\ y.remaining > 0
      BY <3>3 DEF Fresh, SessionCardModel
    <3> QED
      BY <2>1, <3>1, <3>3, <3>4, FS_EmptySet DEF CardOK
  <2> QED
    BY <1>10, <2>2, <2>3
<1>15. \A j \in DOMAIN consumed' : LogOK(j)'
  BY <1>6, <1>7, <1>8, <1>10 DEF CardInv, LogOK
<1>16. ASSUME NEW u \in CardTemplates
       PROVE  CardCounterOK(u)'
  <2>1. CASE u # t
    <3>1. CardsOf(u)' = CardsOf(u)
      BY <1>7, <1>8, <1>9, <1>10, <2>1 DEF CardsOf, Fresh
    <3> QED
      BY <1>11, <1>12, <2>1, <3>1 DEF CardInv, CardCounterOK, HasTemplate, NoUse
  <2>2. CASE u = t
    <3>1. cardTemplate[t].status # "absent"
      BY <1>1, <1>2 DEF CardInv, CardCounterOK
    <3>2. CardsOf(t)' = CardsOf(t) \cup (m+1)..(m+k)
      BY <1>7, <1>8, <1>9, <1>10 DEF CardsOf, Fresh
    <3>3. CardsOf(t) \in SUBSET (1..m)
      BY <1>7 DEF CardsOf
    <3>4. Cardinality(CardsOf(t) \cup (m+1)..(m+k)) = Cardinality(CardsOf(t)) + k
      BY <3>3, NewIndices
    <3> QED
      BY <1>11, <2>2, <3>1, <3>2, <3>4 DEF CardInv, CardCounterOK, HasTemplate
  <2> QED
    BY <2>1, <2>2
<1>17. ASSUME NEW d \in Callers
       PROVE  UsingOK(d)'
  <2>1. CASE d = c
    BY <1>12, <2>1 DEF UsingOK, NoUse
  <2>2. CASE d # c
    <3>1. using'[d] = using[d] /\ UsingOK(d)
      BY <1>12, <2>2 DEF CardInv
    <3>2. \A i \in DOMAIN card : i \in DOMAIN card' /\ card'[i] = card[i]
      BY <1>7, <1>8, <1>10
    <3> QED
      BY <3>1, <3>2 DEF UsingOK, CardShopMatches
  <2> QED
    BY <2>1, <2>2
<1> QED
  BY <1>13, <1>14, <1>15, <1>16, <1>17 DEF CardInv

LEMMA ListCardsStep ==
    ASSUME CardInv, ListCards
    PROVE  CardInv'
<1>1. /\ CardTypeOK /\ card \in Seq(SessionCardModel)
      /\ UNCHANGED <<cardTemplate, consumed, using, cardDay, cardEdits>>
  BY DEF CardInv, CardTypeOK, ListCards
<1>2. PICK n \in Nat : n = Len(card) /\ DOMAIN card = 1..n
  BY <1>1
<1>3. card' = [i \in 1..n |-> IF StaleCard(card[i])
                             THEN [card[i] EXCEPT !.status = "expired"] ELSE card[i]]
  BY <1>2 DEF ListCards
<1>4. \A i \in 1..n : card[i] \in SessionCardModel
  BY <1>1, <1>2
<1>5. \A i \in 1..n :
         /\ card'[i] \in SessionCardModel
         /\ card'[i].template = card[i].template /\ card'[i].shop = card[i].shop
         /\ card'[i].remaining = card[i].remaining /\ card'[i].used = card[i].used
         /\ card'[i].times = card[i].times
         /\ card'[i].status \in {card[i].status, "expired"}
  BY <1>3, <1>4 DEF SessionCardModel, StaleCard
<1>6. /\ card' \in Seq(SessionCardModel) /\ Len(card') = n /\ DOMAIN card' = 1..n
  <2>1. card' = [i \in 1..n |-> card'[i]]
    BY <1>3
  <2>2. card' \in [1..n -> SessionCardModel]
    BY <1>5, <2>1
  <2> QED
    BY <2>2
<1>7. CardTypeOK'
  BY <1>1, <1>2, <1>6 DEF CardTypeOK
<1>8. ASSUME NEW i \in 1..n
      PROVE  CardOK(i)'
  <2>1. LogOf(i)' = LogOf(i)
    BY <1>1 DEF LogOf
  <2>2. CardOK(i)
    BY <1>2 DEF CardInv
  <2>3. PICK y, z : y = card[i] /\ z = card'[i]
    OBVIOUS
  <2>4. /\ z.remaining = y.remaining /\ z.used = y.used /\ z.times = y.times
        /\ z.status \in {y.status, "expired"}
    BY <1>5, <2>3
  <2> QED
    BY <2>1, <2>2, <2>3, <2>4 DEF CardOK
<1>9. \A k \in DOMAIN consumed' : LogOK(k)'
  BY <1>1, <1>2, <1>5, <1>6 DEF CardInv, LogOK
<1>10. ASSUME NEW u \in CardTemplates
       PROVE  CardCounterOK(u)'
  <2>1. CardsOf(u)' = CardsOf(u)
    <3>1. \A i \in 1..n : card'[i].template = card[i].template
      BY <1>5
    <3> QED
      BY <1>2, <1>6, <3>1 DEF CardsOf
  <2> QED
    BY <1>1, <2>1 DEF CardInv, CardCounterOK, HasTemplate
<1>11. \A d \in Callers : UsingOK(d)'
  BY <1>1, <1>2, <1>5, <1>6 DEF CardInv, UsingOK, CardShopMatches
<1> QED
  BY <1>6, <1>7, <1>8, <1>9, <1>10, <1>11 DEF CardInv

\* A use is taken off the card and logged in the same step.
LEMMA ConsumeCommitStep ==
    ASSUME CardInv, NEW c \in Callers, ConsumeCommit(c)
    PROVE  CardInv'
<1>1. /\ CardTypeOK /\ using[c] \in UsingConsume /\ using[c].op = "consume"
      /\ card \in Seq(SessionCardModel) /\ consumed \in Seq(SessionCardConsumeLog)
  BY UsingTyped DEF CardInv, CardTypeOK, ConsumeCommit
<1>2. PICK m \in Nat, n \in Nat : /\ m = Len(card) /\ DOMAIN card = 1..m /\ m <= MaxCards
                                  /\ n = Len(consumed) /\ DOMAIN consumed = 1..n
  BY <1>1 DEF CardTypeOK
<1>3. PICK i \in 1..m : i = using[c].card /\ CardShopMatches(card[i], using[c].shop)
  BY <1>1, <1>2 DEF CardInv, UsingOK
<1>4. PICK s \in Shops : s = using[c].shop
  BY <1>1 DEF UsingConsume
<1>5. PICK y \in SessionCardModel : y = card[i]
  BY <1>1, <1>2
<1>6. /\ y.remaining \in Int /\ y.used \in Nat /\ y.times \in Nat /\ y.remaining > 0
      /\ y.remaining + y.used = y.times /\ y.used = Cardinality(LogOf(i))
      /\ y.holder \in Holders /\ y.shop \in Shops
  BY <1>2, <1>3, <1>5 DEF SessionCardModel, ConsumeCommit, UseLeft, CardInv, CardOK
<1>7. PICK z : z = OneUseLess(y)
  OBVIOUS
<1>8. /\ z \in SessionCardModel /\ z.remaining = y.remaining - 1 /\ z.used = y.used + 1
      /\ z.times = y.times /\ z.template = y.template /\ z.shop = y.shop
      /\ z.status = "active" => z.remaining > 0
      /\ z.status = "exhausted" => z.remaining = 0
  <2>1. y.status # "exhausted"
    BY <1>2, <1>3, <1>5, <1>6 DEF CardInv, CardOK
  <2>2. PICK a \in Int, b \in Nat : a = y.remaining - 1 /\ b = y.used + 1
    BY <1>6
  <2>3. PICK w : w = [y EXCEPT !.remaining = a, !.used = b]
    OBVIOUS
  <2>4. /\ w \in SessionCardModel /\ w.remaining = y.remaining - 1 /\ w.used = y.used + 1
        /\ w.times = y.times /\ w.template = y.template /\ w.shop = y.shop
        /\ w.status = y.status
    BY <2>2, <2>3 DEF SessionCardModel
  <2>5. z = Exhausted(w)
    BY <1>7, <2>2, <2>3 DEF OneUseLess
  <2> QED
    BY <1>6, <2>1, <2>4, <2>5 DEF Exhausted, SessionCardModel
<1>9. PICK l : l = [card |-> i, holder |-> y.holder, shop |-> s]
  OBVIOUS
<1>10. /\ l \in SessionCardConsumeLog /\ l.card = i /\ l.shop = s
  BY <1>2, <1>6, <1>9, CardBoundsAssumption DEF SessionCardConsumeLog
<1>11. /\ card' = [card EXCEPT ![i] = z] /\ consumed' = Append(consumed, l)
       /\ using' = [using EXCEPT ![c] = NoUse] /\ UNCHANGED <<cardTemplate, cardDay, cardEdits>>
  <2>1. card' = [card EXCEPT ![i] = z]
    BY <1>3, <1>5, <1>7 DEF ConsumeCommit
  <2>2. consumed' = Append(consumed, l)
    BY <1>3, <1>4, <1>5, <1>9 DEF ConsumeCommit
  <2> QED
    BY <2>1, <2>2 DEF ConsumeCommit, EndUse
<1>12. /\ card' \in Seq(SessionCardModel) /\ Len(card') = m /\ DOMAIN card' = 1..m
       /\ card'[i] = z /\ \A j \in (1..m) \ {i} : card'[j] = card[j]
  BY <1>1, <1>2, <1>8, <1>11
<1>13. /\ consumed' \in Seq(SessionCardConsumeLog) /\ DOMAIN consumed' = (1..n) \cup {n + 1}
       /\ consumed'[n + 1] = l /\ \A k \in 1..n : consumed'[k] = consumed[k]
  BY <1>1, <1>2, <1>10, <1>11
<1>14. /\ \A d \in Callers : using'[d] = IF d = c THEN NoUse ELSE using[d]
       /\ using' \in [Callers -> {NoUse} \cup UsingIssue \cup UsingDelete \cup UsingConsume]
  BY <1>1, <1>11, UsingTyped
<1>15. CardTypeOK'
  BY <1>1, <1>2, <1>11, <1>12, <1>13, <1>14
  DEF CardTypeOK, UsingIssue, UsingDelete, UsingConsume
<1>16. ASSUME NEW j \in 1..m
       PROVE  CardOK(j)'
  <2>1. CASE j # i
    <3>1. LogOf(j)' = LogOf(j)
      BY <1>2, <1>10, <1>13, <2>1 DEF LogOf
    <3> QED
      BY <1>2, <1>12, <2>1, <3>1 DEF CardInv, CardOK
  <2>2. CASE j = i
    <3>1. LogOf(i)' = LogOf(i) \cup {n + 1} /\ n + 1 \notin LogOf(i)
      BY <1>2, <1>10, <1>13 DEF LogOf
    <3>2. LogOf(i) \in SUBSET (1..n)
      BY <1>2 DEF LogOf
    <3>3. IsFiniteSet(LogOf(i)) /\ Cardinality(LogOf(i)) \in Nat
      BY <3>2, FiniteIndices
    <3>4. Cardinality(LogOf(i) \cup {n + 1}) = Cardinality(LogOf(i)) + 1
      BY <3>1, <3>3, FS_AddElement
    <3>5. card'[i].used = Cardinality(LogOf(i)')
      BY <1>6, <1>8, <1>12, <3>1, <3>4
    <3>6. /\ z.remaining >= 0 /\ z.remaining + z.used = z.times
      BY <1>6, <1>8
    <3> QED
      BY <1>8, <1>12, <2>2, <3>5, <3>6 DEF CardOK
  <2> QED
    BY <2>1, <2>2
<1>17. ASSUME NEW k \in DOMAIN consumed'
       PROVE  LogOK(k)'
  <2>1. CASE k \in 1..n
    <3>1. LogOK(k) /\ consumed'[k] = consumed[k]
      BY <1>2, <1>13, <2>1 DEF CardInv
    <3>2. PICK j \in 1..m : j = consumed[k].card
      BY <1>2, <3>1 DEF LogOK
    <3>3. card'[j].shop = card[j].shop
      BY <1>5, <1>8, <1>12
    <3> QED
      BY <1>2, <1>12, <3>1, <3>2, <3>3 DEF LogOK
  <2>2. CASE k = n + 1
    <3>1. PICK v \in Nat : v = y.shop
      BY <1>6, MarketingAssumption
    <3>2. v > 0 => v = s
      BY <1>3, <1>4, <1>5, <3>1 DEF CardShopMatches
    <3> QED
      BY <1>8, <1>10, <1>12, <1>13, <2>2, <3>1, <3>2 DEF LogOK
  <2> QED
    BY <1>13, <2>1, <2>2
<1>18. ASSUME NEW u \in CardTemplates
       PROVE  CardCounterOK(u)'
  <2>1. CardsOf(u)' = CardsOf(u)
    BY <1>2, <1>5, <1>8, <1>12 DEF CardsOf
  <2> QED
    BY <1>11, <1>14, <2>1 DEF CardInv, CardCounterOK, HasTemplate, NoUse
<1>19. ASSUME NEW d \in Callers
       PROVE  UsingOK(d)'
  <2>1. CASE d = c
    BY <1>14, <2>1 DEF UsingOK, NoUse
  <2>2. CASE d # c
    <3>1. UsingOK(d) /\ using'[d] = using[d]
      BY <1>14, <2>2 DEF CardInv
    <3>2. \A j \in 1..m : card'[j].shop = card[j].shop
      BY <1>5, <1>8, <1>12
    <3> QED
      BY <1>2, <1>12, <3>1, <3>2 DEF UsingOK, CardShopMatches
  <2> QED
    BY <2>1, <2>2
<1> QED
  BY <1>12, <1>15, <1>16, <1>17, <1>18, <1>19 DEF CardInv

LEMMA CardUnchanged ==
    ASSUME CardInv, UNCHANGED <<cardTemplate, card, consumed, using, cardEdits>>,
           cardDay' \in 0..Horizon
    PROVE  CardInv'
<1>1. CardTypeOK' /\ \A d \in Callers : UsingOK(d)'
  BY DEF CardInv, CardTypeOK, UsingOK, CardShopMatches
<1>2. \A i \in DOMAIN card : CardOK(i)'
  BY DEF CardInv, CardOK, LogOf
<1>3. \A k \in DOMAIN consumed : LogOK(k)'
  BY DEF CardInv, LogOK
<1>4. \A t \in CardTemplates : CardCounterOK(t)'
  BY DEF CardInv, CardCounterOK, HasTemplate, CardsOf
<1> QED
  BY <1>1, <1>2, <1>3, <1>4 DEF CardInv

LEMMA CardStep == CardInv /\ [CardNext]_cardVars => CardInv'
<1> SUFFICES ASSUME CardInv, [CardNext]_cardVars PROVE CardInv'
  OBVIOUS
<1>1. ASSUME NEW t \in CardTemplates, NEW o \in CardOffers, CreateCardTemplate(t, o)
      PROVE  CardInv'
  BY <1>1, CardEditStep DEF CreateCardTemplate
<1>2. ASSUME NEW t \in CardTemplates, NEW o \in CardOffers, NEW s \in {"enabled", "disabled"},
             UpdateCardTemplate(t, o, s)
      PROVE  CardInv'
  BY <1>2, CardEditStep DEF UpdateCardTemplate
<1>3. ASSUME NEW c \in Callers, NEW t \in CardTemplates, DeleteCardTemplate(c, t)
      PROVE  CardInv'
  <2>1. PICK x \in UsingDelete : x = [op |-> "delete", template |-> t]
    BY DEF UsingDelete
  <2>2. x.op # "consume"
    BY <2>1
  <2> QED
    BY <1>3, <2>1, <2>2, NoCardIssueStep DEF DeleteCardTemplate, Use
<1>4. ASSUME NEW c \in Callers, NEW t \in CardTemplates, NEW hs \in SUBSET Holders,
             IssueCardsCheck(c, t, hs)
      PROVE  CardInv'
  BY <1>4, IssueCardsCheckStep
<1>5. ASSUME NEW c \in Callers, StoreDeleteTemplate(c) \/ IssueCardsCommit(c)
      PROVE  CardInv'
  BY <1>5, StoreDeleteTemplateStep, IssueCardsCommitStep
<1>6. ASSUME NEW c \in Callers, NEW h \in Holders, NEW i \in 1..MaxCards, NEW s \in Shops,
             ConsumeCheck(c, h, i, s)
      PROVE  CardInv'
  <2>1. PICK x \in UsingConsume : x = [op |-> "consume", card |-> i, shop |-> s]
    BY DEF UsingConsume
  <2>2. x.card \in DOMAIN card /\ CardShopMatches(card[x.card], x.shop)
    BY <1>6, <2>1 DEF ConsumeCheck
  <2>3. using' = [using EXCEPT ![c] = x]
        /\ UNCHANGED <<cardTemplate, card, consumed, cardDay, cardEdits>>
    BY <1>6, <2>1 DEF ConsumeCheck, Use
  <2> QED
    BY <2>2, <2>3, NoCardIssueStep
<1>7. ASSUME NEW c \in Callers, ConsumeCommit(c)
      PROVE  CardInv'
  BY <1>7, ConsumeCommitStep
<1>8. ASSUME NEW c \in Callers, CardAbort(c)
      PROVE  CardInv'
  <2>1. NoUse.op # "consume"
    BY DEF NoUse
  <2> QED
    BY <1>8, <2>1, NoCardIssueStep DEF CardAbort, EndUse
<1>9. CASE CardNextDay
  <2>1. cardDay' \in 0..Horizon
    BY <1>9, MarketingAssumption DEF CardNextDay, CardInv, CardTypeOK
  <2> QED
    BY <1>9, <2>1, CardUnchanged DEF CardNextDay
<1>10. CASE UNCHANGED cardVars
  <2>1. cardDay' \in 0..Horizon
    BY <1>10 DEF cardVars, CardInv, CardTypeOK
  <2> QED
    BY <1>10, <2>1, CardUnchanged DEF cardVars
<1> QED
  BY <1>1, <1>2, <1>3, <1>4, <1>5, <1>6, <1>7, <1>8, <1>9, <1>10, ListCardsStep DEF CardNext

-----------------------------------------------------------------------------
(* Session cards: the theorem *)

LEMMA CardInvariance == CardSpec => []CardInv
BY CardInvInit, CardStep, PTL DEF CardSpec

\* The uses of a card add up on the card and in the log, and no card is
\* overdrawn or active when it is used up, whatever consumptions, expiry,
\* issues and edits interleave (sessioncard/store.go, Issue and Consume).
THEOREM CardsStayInOrder == CardSpec => []CardsAddUp
<1>1. CardInv => CardsAddUp
  BY DEF CardInv, CardsAddUp, UsesAddUp, CardOK, LogOf, ExhaustedIsEmpty, ConsumedInItsShop,
         LogOK, CardCounterIsRows, CardCounterOK
<1> QED
  BY CardInvariance, <1>1, PTL

-----------------------------------------------------------------------------
(* Settlements: what always holds *)

Document ==
    [stage : {"idle", "claim", "pay", "deduct", "done"}, holder : Nat, total : Nat,
     coupon : Nat, useBalance : BOOLEAN, discount : Nat, used : Nat, lost : SUBSET Nat,
     failures : Nat]

\* Apply is past its coupon.
Claimed(d) == settlement[d].stage \in {"pay", "deduct", "done"}

\* The coupons redeemed for a document are those the settlement knows of.
CouponPart(d) ==
    LET s == settlement[d] IN
    /\ RedeemedFor(d) = s.lost \cup IF Claimed(d) THEN {s.coupon} \ {0} ELSE {}
    /\ Claimed(d) /\ s.coupon # 0 =>
          s.coupon \notin s.lost /\ coupon[s.coupon].amount = s.discount
    /\ doing[d].op = "claim" <=> s.stage = "claim"
    /\ s.stage = "claim" => doing[d].coupon = s.coupon /\ doing[d].ref = d

\* The balance is asked for what is left, and a document has one row at most.
BalancePart(d) ==
    LET s == settlement[d] IN
    /\ s.stage # "idle" => s.holder \in Holders
    /\ saving[d].op = "spend" <=> s.stage = "deduct"
    /\ saving[d].op = "recharge" => saving[d].ref = RechargeRef
    /\ s.stage = "deduct" => /\ saving[d].holder = s.holder /\ saving[d].ref = d
                             /\ saving[d].amount = Payable(d) /\ Payable(d) > 0
                             /\ saving[d].seen.balance >= 0
    /\ s.stage # "done" => s.used = 0
    /\ IF s.stage = "done" /\ s.used # 0
       THEN /\ s.used <= Payable(d)
            /\ \E k \in DOMAIN ledger : /\ SpentFor(d) = {k}
                                        /\ ledger[k].amount = s.used
                                        /\ ledger[k].holder = s.holder
       ELSE SpentFor(d) = {}

DocumentsOK ==
    /\ settlement \in [Callers -> Document]
    /\ \A d \in Callers : CouponPart(d) /\ BalancePart(d)

SettleInv == CouponInv /\ MInv /\ DocumentsOK

-----------------------------------------------------------------------------
(* Settlements: what the steps of Coupon and Member leave alone *)

AmountsStay ==
    \A i \in DOMAIN coupon : i \in DOMAIN coupon' /\ coupon'[i].amount = coupon[i].amount

RowsStay == \A k \in DOMAIN ledger : k \in DOMAIN ledger' /\ ledger'[k] = ledger[k]

\* A claim in flight goes on; nothing else in flight is or becomes a claim.
ClaimStays(d) ==
    doing'[d] = doing[d] \/ (doing[d].op # "claim" /\ doing'[d].op # "claim")

SpendStays(d) ==
    \/ saving'[d] = saving[d]
    \/ /\ saving[d].op # "spend" /\ saving'[d].op # "spend"
       /\ saving'[d].op = "recharge" => saving'[d].ref = RechargeRef

LEMMA SettleInvInit == CouponInit /\ MemberInit /\ SettleInit => SettleInv
<1> SUFFICES ASSUME CouponInit, MemberInit, SettleInit PROVE SettleInv
  OBVIOUS
<1>1. CouponInv /\ MInv
  BY CouponInvInit, MemberInvInit
<1>2. settlement \in [Callers -> Document]
  BY DEF SettleInit, NotSettled, Document
<1>3. ASSUME NEW d \in Callers
      PROVE  CouponPart(d) /\ BalancePart(d)
  <2>1. settlement[d] = NotSettled /\ doing[d] = Idle /\ saving[d] = NoSaving
        /\ coupon = <<>> /\ ledger = <<>>
    BY DEF SettleInit, CouponInit, MemberInit
  <2>2. RedeemedFor(d) = {} /\ SpentFor(d) = {}
    BY <2>1 DEF RedeemedFor, SpentFor
  <2> QED
    BY <2>1, <2>2 DEF CouponPart, BalancePart, Claimed, NotSettled, Idle, NoSaving
<1> QED
  BY <1>1, <1>2, <1>3 DEF SettleInv, DocumentsOK

LEMMA CouponPartStays ==
    ASSUME NEW d \in Callers, CouponPart(d), settlement'[d] = settlement[d],
           RedeemedFor(d)' = RedeemedFor(d), AmountsStay, ClaimStays(d)
    PROVE  CouponPart(d)'
<1>1. PICK s : s = settlement[d] /\ s = settlement'[d]
  OBVIOUS
<1>2. Claimed(d)' <=> Claimed(d)
  BY DEF Claimed
<1>3. Claimed(d) /\ s.coupon # 0 => coupon'[s.coupon].amount = coupon[s.coupon].amount
  <2>1. Claimed(d) /\ s.coupon # 0 => s.coupon \in RedeemedFor(d)
    BY <1>1 DEF CouponPart
  <2> QED
    BY <2>1 DEF RedeemedFor, AmountsStay
<1> QED
  BY <1>1, <1>2, <1>3 DEF CouponPart, ClaimStays

LEMMA BalancePartStays ==
    ASSUME NEW d \in Callers, BalancePart(d), settlement'[d] = settlement[d],
           SpentFor(d)' = SpentFor(d), RowsStay, SpendStays(d)
    PROVE  BalancePart(d)'
<1>1. PICK s : s = settlement[d] /\ s = settlement'[d]
  OBVIOUS
<1>2. Payable(d)' = Payable(d)
  BY DEF Payable
<1>3. s.stage = "done" /\ s.used # 0 =>
         /\ s.used <= Payable(d)
         /\ \E k \in DOMAIN ledger' : /\ SpentFor(d)' = {k}
                                      /\ ledger'[k].amount = s.used
                                      /\ ledger'[k].holder = s.holder
  BY <1>1 DEF BalancePart, RowsStay
<1>4. s.stage # "done" \/ s.used = 0 => SpentFor(d)' = {}
  BY <1>1 DEF BalancePart
<1>5. /\ s.stage # "idle" => s.holder \in Holders
      /\ s.stage # "done" => s.used = 0
      /\ saving'[d].op = "spend" <=> s.stage = "deduct"
      /\ saving'[d].op = "recharge" => saving'[d].ref = RechargeRef
      /\ s.stage = "deduct" => /\ saving'[d].holder = s.holder /\ saving'[d].ref = d
                               /\ saving'[d].amount = Payable(d) /\ Payable(d) > 0
                               /\ saving'[d].seen.balance >= 0
  BY <1>1 DEF BalancePart, SpendStays
<1> QED
  BY <1>1, <1>2, <1>3, <1>4, <1>5 DEF BalancePart

\* Administration redeems nothing and touches no claim in flight.
LEMMA AdministrationStays ==
    ASSUME CouponInv, Administration
    PROVE  /\ AmountsStay
           /\ \A d \in Callers : RedeemedFor(d)' = RedeemedFor(d) /\ ClaimStays(d)
<1>1. CouponTypeOK /\ doing \in [Callers -> {Idle} \cup Issuing \cup Deleting \cup Claiming]
      /\ coupon \in Seq(CouponModel)
  BY DEF CouponInv, CouponTypeOK
<1>2. AmountsStay /\ \A d \in Callers : RedeemedFor(d)' = RedeemedFor(d)
  <2>1. ASSUME NEW c \in Callers, IssueCommit(c)
        PROVE  AmountsStay /\ \A d \in Callers : RedeemedFor(d)' = RedeemedFor(d)
    <3>1. PICK n \in Nat : n = Len(coupon) /\ DOMAIN coupon = 1..n
      BY <1>1
    <3>2. PICK k \in Nat :
             /\ DOMAIN coupon' = (DOMAIN coupon) \cup (n + 1)..(n + k)
             /\ \A i \in DOMAIN coupon : coupon'[i] = coupon[i]
             /\ \A i \in (n + 1)..(n + k) : coupon'[i].status = "unused"
      BY <2>1, <3>1, IssuedRows
    <3> QED
      BY <3>2 DEF AmountsStay, RedeemedFor
  <2>2. CASE ListCoupons
    <3>1. \A i \in DOMAIN coupon :
             /\ i \in DOMAIN coupon'
             /\ coupon'[i].amount = coupon[i].amount /\ coupon'[i].ref = coupon[i].ref
             /\ coupon'[i].status = "used" <=> coupon[i].status = "used"
      BY <1>1, <2>2 DEF ListCoupons, Stale, CouponModel
    <3>2. DOMAIN coupon' = DOMAIN coupon
      BY <2>2 DEF ListCoupons
    <3> QED
      BY <3>1, <3>2 DEF AmountsStay, RedeemedFor
  <2>3. CASE coupon' = coupon
    BY <2>3 DEF AmountsStay, RedeemedFor
  <2>4. \/ \E c \in Callers : IssueCommit(c)
        \/ ListCoupons
        \/ coupon' = coupon
    BY DEF Administration, CreateTemplate, UpdateTemplate, DeleteTemplate, IssueCheck,
           StoreDelete, NextDay
  <2> QED
    BY <2>1, <2>2, <2>3, <2>4
<1>3. ASSUME NEW d \in Callers
      PROVE  ClaimStays(d)
  <2>1. Idle.op # "claim"
    BY DEF Idle
  <2>2. ASSUME NEW c \in Callers, NEW t \in Templates, DeleteTemplate(c, t)
        PROVE  ClaimStays(d)
    <3>1. PICK x : x = [op |-> "delete", template |-> t]
      OBVIOUS
    <3>2. x.op # "claim"
      BY <3>1
    <3> QED
      BY <1>1, <2>1, <2>2, <3>1, <3>2 DEF DeleteTemplate, Begin, ClaimStays
  <2>3. ASSUME NEW c \in Callers, NEW t \in Templates, NEW hs \in SUBSET Holders,
               IssueCheck(c, t, hs)
        PROVE  ClaimStays(d)
    <3>1. PICK x : x = [op |-> "issue", template |-> t, row |-> template[t],
                        holders |-> Recipients(hs)]
      OBVIOUS
    <3>2. x.op # "claim"
      BY <3>1
    <3> QED
      BY <1>1, <2>1, <2>3, <3>1, <3>2 DEF IssueCheck, Begin, ClaimStays
  <2>4. ASSUME NEW c \in Callers, StoreDelete(c) \/ IssueCommit(c)
        PROVE  ClaimStays(d)
    <3>1. doing[c].op # "claim" /\ doing' = [doing EXCEPT ![c] = Idle]
      BY <2>4 DEF StoreDelete, IssueCommit, Finish
    <3> QED
      BY <1>1, <2>1, <3>1 DEF ClaimStays
  <2>5. CASE doing' = doing
    BY <2>5 DEF ClaimStays
  <2>6. \/ \E c \in Callers, t \in Templates : DeleteTemplate(c, t)
        \/ \E c \in Callers, t \in Templates, hs \in SUBSET Holders : IssueCheck(c, t, hs)
        \/ \E c \in Callers : StoreDelete(c) \/ IssueCommit(c)
        \/ doing' = doing
    BY DEF Administration, CreateTemplate, UpdateTemplate, ListCoupons, NextDay
  <2> QED
    BY <2>2, <2>3, <2>4, <2>5, <2>6
<1> QED
  BY <1>2, <1>3

\* A claim redeems one coupon, which was not redeemed, for one document.
LEMMA ClaimRedeems ==
    ASSUME CouponInv, NEW c \in Callers, ClaimCommit(c),
           NEW i, i = doing[c].coupon, NEW r, r = doing[c].ref
    PROVE  /\ i \in DOMAIN coupon /\ coupon[i] \in CouponModel
           /\ coupon[i].status = "unused" /\ coupon'[i].amount = coupon[i].amount
           /\ AmountsStay
           /\ RedeemedFor(r)' = RedeemedFor(r) \cup {i}
           /\ \A d \in Callers \ {r} : RedeemedFor(d)' = RedeemedFor(d)
           /\ doing'[c].op # "claim"
           /\ \A d \in Callers \ {c} : ClaimStays(d)
<1>1. /\ doing[c] \in Claiming /\ doing[c].coupon \in DOMAIN coupon
      /\ doing \in [Callers -> {Idle} \cup Issuing \cup Deleting \cup Claiming]
      /\ coupon \in Seq(CouponModel)
  BY DoingTyped DEF CouponInv, CouponTypeOK, DoingOK, ClaimCommit
<1>2. i \in DOMAIN coupon
  BY <1>1
<1>3. coupon[i] \in CouponModel /\ coupon[i].status = "unused"
  BY <1>1, <1>2 DEF ClaimCommit, StillUnused
<1>4. coupon' = [coupon EXCEPT ![i].status = "used", ![i].ref = r]
      /\ doing' = [doing EXCEPT ![c] = Idle]
  BY DEF ClaimCommit, Finish
<1>5. /\ DOMAIN coupon' = DOMAIN coupon
      /\ coupon'[i].amount = coupon[i].amount
      /\ coupon'[i].status = "used" /\ coupon'[i].ref = r
      /\ \A j \in DOMAIN coupon : j # i => coupon'[j] = coupon[j]
  BY <1>1, <1>2, <1>3, <1>4 DEF CouponModel
<1>6. AmountsStay
  BY <1>5 DEF AmountsStay
<1>7. RedeemedFor(r)' = RedeemedFor(r) \cup {i}
  BY <1>2, <1>5 DEF RedeemedFor
<1>8. \A d \in Callers \ {r} : RedeemedFor(d)' = RedeemedFor(d)
  BY <1>3, <1>5 DEF RedeemedFor
<1>9. doing'[c].op # "claim" /\ \A d \in Callers \ {c} : ClaimStays(d)
  BY <1>1, <1>4 DEF ClaimStays, Idle
<1> QED
  BY <1>2, <1>3, <1>5, <1>6, <1>7, <1>8, <1>9

\* A row of the ledger is spent for its own document only.
LEMMA RowSpends ==
    ASSUME MInv, NEW row, ledger' = Append(ledger, row)
    PROVE  /\ RowsStay
           /\ Len(ledger) + 1 \in DOMAIN ledger' /\ ledger'[Len(ledger) + 1] = row
           /\ \A d : d # row.ref => SpentFor(d)' = SpentFor(d)
           /\ SpentFor(row.ref)' = SpentFor(row.ref) \cup {Len(ledger) + 1}
<1>1. ledger \in Seq(MemberTransaction)
  BY DEF MInv, LedgerExplainsBalance, MemberTypeOK
<1>2. PICK n \in Nat : n = Len(ledger) /\ DOMAIN ledger = 1..n
  BY <1>1
<1>3. /\ DOMAIN ledger' = (1..n) \cup {n + 1} /\ ledger'[n + 1] = row
      /\ \A k \in 1..n : ledger'[k] = ledger[k]
  BY <1>1, <1>2
<1> QED
  BY <1>2, <1>3 DEF RowsStay, SpentFor

-----------------------------------------------------------------------------
(* Settlements: the steps *)

\* A step of one settlement leaves the documents of all others as they are.
LEMMA OneDocument ==
    ASSUME DocumentsOK, NEW d \in Callers, NEW x \in Document,
           settlement' = [settlement EXCEPT ![d] = x],
           AmountsStay, RowsStay, CouponPart(d)', BalancePart(d)',
           \A e \in Callers \ {d} : /\ RedeemedFor(e)' = RedeemedFor(e) /\ ClaimStays(e)
                                    /\ SpentFor(e)' = SpentFor(e) /\ SpendStays(e)
    PROVE  DocumentsOK'
<1>1. /\ settlement' \in [Callers -> Document]
      /\ \A e \in Callers \ {d} : settlement'[e] = settlement[e]
  BY DEF DocumentsOK
<1>2. ASSUME NEW e \in Callers, e # d
      PROVE  CouponPart(e)' /\ BalancePart(e)'
  BY <1>1, <1>2, CouponPartStays, BalancePartStays DEF DocumentsOK
<1> QED
  BY <1>1, <1>2 DEF DocumentsOK

\* A step of no settlement.
LEMMA NoDocument ==
    ASSUME DocumentsOK, UNCHANGED settlement, AmountsStay, RowsStay,
           \A d \in Callers : /\ RedeemedFor(d)' = RedeemedFor(d) /\ ClaimStays(d)
                              /\ SpentFor(d)' = SpentFor(d) /\ SpendStays(d)
    PROVE  DocumentsOK'
<1>1. ASSUME NEW d \in Callers
      PROVE  CouponPart(d)' /\ BalancePart(d)'
  BY <1>1, CouponPartStays, BalancePartStays DEF DocumentsOK
<1> QED
  BY <1>1 DEF DocumentsOK

LEMMA CouponSideStays ==
    ASSUME UNCHANGED <<coupon, doing>>
    PROVE  AmountsStay /\ \A d \in Callers : RedeemedFor(d)' = RedeemedFor(d) /\ ClaimStays(d)
BY DEF AmountsStay, RedeemedFor, ClaimStays

LEMMA LedgerSideStays ==
    ASSUME UNCHANGED ledger
    PROVE  RowsStay /\ \A d \in Callers : SpentFor(d)' = SpentFor(d)
BY DEF RowsStay, SpentFor

LEMMA SavingSideStays ==
    ASSUME UNCHANGED saving
    PROVE  \A d \in Callers : SpendStays(d)
BY DEF SpendStays

\* What Starts makes of a document.
LEMMA StartedDocument ==
    ASSUME DocumentsOK, NEW d \in Callers, NEW h \in Holders \ {0}, NEW total \in Totals,
           NEW i \in Nat, NEW b \in BOOLEAN, Starts(d, h, total, i, b)
    PROVE  \E x \in Document :
              /\ settlement' = [settlement EXCEPT ![d] = x]
              /\ settlement'[d] = x
              /\ x.stage = IF i > 0 THEN "claim" ELSE "pay"
              /\ x.holder \in Holders /\ x.coupon = i /\ x.total = total
              /\ x.used = settlement[d].used /\ x.lost = settlement[d].lost
              /\ settlement[d].stage = "idle"
<1>1. settlement \in [Callers -> Document] /\ settlement[d] \in Document
  BY DEF DocumentsOK
<1>2. h \in Nat /\ total \in Nat /\ h \in Holders
  BY MarketingAssumption, TotalsAssumption
<1>3. PICK x : x = [settlement[d] EXCEPT !.stage = IF i > 0 THEN "claim" ELSE "pay",
                        !.holder = h, !.total = total, !.coupon = i, !.useBalance = b]
  OBVIOUS
<1>4. /\ x \in Document
      /\ x.stage = IF i > 0 THEN "claim" ELSE "pay"
      /\ x.holder = h /\ x.coupon = i /\ x.total = total
      /\ x.used = settlement[d].used /\ x.lost = settlement[d].lost
  BY <1>1, <1>2, <1>3 DEF Document
<1>5. settlement' = [settlement EXCEPT ![d] = x] /\ settlement[d].stage = "idle"
  BY <1>3 DEF Starts
<1> QED
  BY <1>1, <1>2, <1>4, <1>5

LEMMA WithoutCouponStep ==
    ASSUME SettleInv, NEW d \in Callers, NEW h \in Holders \ {0}, NEW total \in Totals,
           NEW b \in BOOLEAN, ApplyWithoutCoupon(d, h, total, b)
    PROVE  SettleInv'
<1>1. CouponInv' /\ MInv'
  BY CouponUnchanged, MemberUnchanged DEF SettleInv, ApplyWithoutCoupon
<1>2. UNCHANGED <<coupon, doing, ledger, saving>>
  BY DEF ApplyWithoutCoupon, couponVars, memberVars
<1>3. PICK x \in Document :
         /\ settlement' = [settlement EXCEPT ![d] = x] /\ settlement'[d] = x
         /\ x.stage = "pay" /\ x.holder \in Holders /\ x.coupon = 0
         /\ x.lost = settlement[d].lost /\ x.used = settlement[d].used
         /\ settlement[d].stage = "idle"
  BY StartedDocument DEF ApplyWithoutCoupon, SettleInv
<1>4. RedeemedFor(d)' = RedeemedFor(d) /\ SpentFor(d)' = SpentFor(d)
  BY <1>2, CouponSideStays, LedgerSideStays
<1>5. CouponPart(d) /\ BalancePart(d)
  BY DEF SettleInv, DocumentsOK
<1>6. CouponPart(d)'
  <2>1. RedeemedFor(d) = x.lost
    BY <1>3, <1>5 DEF CouponPart, Claimed
  <2>2. doing'[d].op # "claim"
    BY <1>2, <1>3, <1>5 DEF CouponPart
  <2> QED
    BY <1>3, <1>4, <2>1, <2>2 DEF CouponPart, Claimed
<1>7. BalancePart(d)'
  BY <1>2, <1>3, <1>4, <1>5 DEF BalancePart
<1>8. DocumentsOK'
  BY <1>2, <1>3, <1>6, <1>7, OneDocument, CouponSideStays, LedgerSideStays, SavingSideStays
  DEF SettleInv
<1> QED
  BY <1>1, <1>8 DEF SettleInv

LEMMA WithCouponStep ==
    ASSUME SettleInv, NEW d \in Callers, NEW h \in Holders \ {0}, NEW total \in Totals,
           NEW i \in 1..MaxCoupons, NEW b \in BOOLEAN, ApplyWithCoupon(d, h, total, i, b)
    PROVE  SettleInv'
<1>1. CouponInv' /\ MInv'
  <2>1. \E r \in Refs : ClaimCheck(d, h, i, total, AnyShop, r)
    BY DocumentsAssumption DEF ApplyWithCoupon
  <2>2. CouponInv'
    BY <2>1, BeginOrEndStep DEF SettleInv
  <2> QED
    BY <2>2, MemberUnchanged DEF SettleInv, ApplyWithCoupon
<1>2. /\ UNCHANGED <<coupon, ledger, saving>>
      /\ doing[d] = Idle
      /\ doing' = [doing EXCEPT ![d] = [op |-> "claim", coupon |-> i, ref |-> d]]
  BY DEF ApplyWithCoupon, ClaimCheck, Begin, memberVars
<1>3. doing \in [Callers -> {Idle} \cup Issuing \cup Deleting \cup Claiming]
  BY DEF SettleInv, CouponInv, CouponTypeOK
<1>4. /\ doing'[d].op = "claim" /\ doing'[d].coupon = i /\ doing'[d].ref = d
      /\ \A e \in Callers \ {d} : ClaimStays(e)
  BY <1>2, <1>3 DEF ClaimStays
<1>5. i \in Nat /\ i > 0
  BY BoundsAssumption
<1>6. PICK x \in Document :
         /\ settlement' = [settlement EXCEPT ![d] = x] /\ settlement'[d] = x
         /\ x.stage = "claim" /\ x.holder \in Holders /\ x.coupon = i
         /\ x.lost = settlement[d].lost /\ x.used = settlement[d].used
         /\ settlement[d].stage = "idle"
  BY <1>5, StartedDocument DEF ApplyWithCoupon, SettleInv
<1>7. /\ AmountsStay /\ RowsStay
      /\ \A e \in Callers : RedeemedFor(e)' = RedeemedFor(e) /\ SpentFor(e)' = SpentFor(e)
  BY <1>2, LedgerSideStays DEF AmountsStay, RedeemedFor
<1>8. CouponPart(d) /\ BalancePart(d)
  BY DEF SettleInv, DocumentsOK
<1>9. CouponPart(d)'
  <2>1. RedeemedFor(d) = x.lost
    BY <1>6, <1>8 DEF CouponPart, Claimed
  <2> QED
    BY <1>4, <1>6, <1>7, <2>1 DEF CouponPart, Claimed
<1>10. BalancePart(d)'
  BY <1>2, <1>6, <1>7, <1>8 DEF BalancePart
<1>11. DocumentsOK'
  BY <1>2, <1>4, <1>6, <1>7, <1>9, <1>10, OneDocument, SavingSideStays DEF SettleInv
<1> QED
  BY <1>1, <1>11 DEF SettleInv

LEMMA ClaimedStep ==
    ASSUME SettleInv, NEW d \in Callers, ApplyClaimed(d)
    PROVE  SettleInv'
<1>1. CouponInv' /\ MInv'
  BY ClaimStep, MemberUnchanged DEF SettleInv, ApplyClaimed
<1>2. UNCHANGED <<ledger, saving>> /\ ClaimCommit(d) /\ settlement[d].stage = "claim"
  BY DEF ApplyClaimed, memberVars
<1>3. /\ CouponPart(d) /\ BalancePart(d)
      /\ settlement \in [Callers -> Document] /\ settlement[d] \in Document
  BY DEF SettleInv, DocumentsOK
<1>4. PICK i : i = doing[d].coupon
  OBVIOUS
<1>5. i = settlement[d].coupon /\ d = doing[d].ref
  BY <1>2, <1>3, <1>4 DEF CouponPart
<1>6. /\ i \in DOMAIN coupon /\ coupon[i] \in CouponModel
      /\ coupon[i].status = "unused" /\ coupon'[i].amount = coupon[i].amount
      /\ AmountsStay
      /\ RedeemedFor(d)' = RedeemedFor(d) \cup {i}
      /\ \A e \in Callers \ {d} : RedeemedFor(e)' = RedeemedFor(e) /\ ClaimStays(e)
      /\ doing'[d].op # "claim"
  BY <1>2, <1>4, <1>5, ClaimRedeems DEF SettleInv
<1>7. i # 0
  <2>1. coupon \in Seq(CouponModel)
    BY DEF SettleInv, CouponInv, CouponTypeOK
  <2> QED
    BY <1>6, <2>1
<1>8. PICK n \in Nat : n = coupon[i].amount
  BY <1>6 DEF CouponModel
<1>9. PICK x : x = [settlement[d] EXCEPT !.stage = "pay", !.discount = n]
  OBVIOUS
<1>10. /\ x \in Document /\ x.stage = "pay" /\ x.discount = n /\ x.coupon = i
       /\ x.lost = settlement[d].lost /\ x.holder = settlement[d].holder
       /\ x.used = settlement[d].used
  BY <1>3, <1>5, <1>9 DEF Document
<1>11. settlement' = [settlement EXCEPT ![d] = x] /\ settlement'[d] = x
  <2>1. settlement' = [settlement EXCEPT ![d].stage = "pay", ![d].discount = n]
    BY <1>5, <1>8 DEF ApplyClaimed
  <2> QED
    BY <1>3, <1>9, <2>1
<1>12. CouponPart(d)'
  <2>1. RedeemedFor(d) = x.lost
    BY <1>2, <1>3, <1>10 DEF CouponPart, Claimed
  <2>2. i \notin x.lost
    BY <1>6, <2>1 DEF RedeemedFor
  <2> QED
    BY <1>6, <1>7, <1>8, <1>10, <1>11, <2>1, <2>2 DEF CouponPart, Claimed
<1>13. RowsStay /\ \A e \in Callers : SpentFor(e)' = SpentFor(e) /\ SpendStays(e)
  BY <1>2, LedgerSideStays, SavingSideStays
<1>14. BalancePart(d)'
  BY <1>2, <1>3, <1>10, <1>11, <1>13 DEF BalancePart
<1>15. DocumentsOK'
  BY <1>6, <1>10, <1>11, <1>12, <1>13, <1>14, OneDocument DEF SettleInv
<1> QED
  BY <1>1, <1>15 DEF SettleInv

LEMMA DeductsStep ==
    ASSUME SettleInv, NEW d \in Callers, ApplyDeducts(d)
    PROVE  SettleInv'
<1>1. /\ UNCHANGED <<coupon, doing, ledger>> /\ UNCHANGED couponVars
      /\ DeductRead(d, settlement[d].holder, Payable(d), d) /\ settlement[d].stage = "pay"
      /\ settlement' = [settlement EXCEPT ![d].stage = "deduct"]
  BY DEF ApplyDeducts, DeductRead, Read, couponVars
<1>2. /\ CouponPart(d) /\ BalancePart(d)
      /\ settlement \in [Callers -> Document] /\ settlement[d] \in Document
  BY DEF SettleInv, DocumentsOK
<1>3. PICK h \in Holders : h = settlement[d].holder
  BY <1>1, <1>2 DEF BalancePart
<1>4. PICK a \in Int : a = Payable(d)
  BY <1>2 DEF Payable, Document
<1>5. a > 0 /\ Read(d, "spend", h, a, d)
  BY <1>1, <1>3, <1>4 DEF DeductRead
<1>6. CouponInv' /\ MInv'
  BY <1>1, <1>5, CouponUnchanged, ReadStep, DocumentsAssumption DEF SettleInv
<1>7. PICK x : x = [settlement[d] EXCEPT !.stage = "deduct"]
  OBVIOUS
<1>8. /\ x \in Document /\ x.stage = "deduct" /\ x.holder = h
      /\ x.coupon = settlement[d].coupon /\ x.discount = settlement[d].discount
      /\ x.total = settlement[d].total /\ x.lost = settlement[d].lost
      /\ x.used = settlement[d].used
  BY <1>2, <1>3, <1>7 DEF Document
<1>9. settlement' = [settlement EXCEPT ![d] = x] /\ settlement'[d] = x
  BY <1>1, <1>2, <1>7
<1>10. PICK b : b = account[h].balance /\ b >= 0
  BY DEF SettleInv, MInv, LedgerExplainsBalance, NeverOverdrawn
<1>11. /\ saving'[d].op = "spend" /\ saving'[d].holder = h /\ saving'[d].amount = a
       /\ saving'[d].ref = d /\ saving'[d].seen.balance = b
       /\ \A e \in Callers \ {d} : SpendStays(e)
  <2>1. saving \in [Callers -> Saving \cup {NoSaving}]
    BY DEF SettleInv, MInv, LedgerExplainsBalance, MemberTypeOK
  <2>2. PICK y : y = [op |-> "spend", holder |-> h, amount |-> a, seen |-> account[h],
                      ref |-> d]
    OBVIOUS
  <2>3. saving' = [saving EXCEPT ![d] = y]
    BY <1>5, <2>2 DEF Read
  <2> QED
    BY <1>10, <2>1, <2>2, <2>3 DEF SpendStays
<1>12. /\ AmountsStay /\ RowsStay
       /\ \A e \in Callers : /\ RedeemedFor(e)' = RedeemedFor(e) /\ ClaimStays(e)
                             /\ SpentFor(e)' = SpentFor(e)
  BY <1>1, CouponSideStays, LedgerSideStays
<1>13. CouponPart(d)'
  BY <1>1, <1>2, <1>8, <1>9, <1>12 DEF CouponPart, Claimed
<1>14. BalancePart(d)'
  <2>1. Payable(d)' = a
    BY <1>4, <1>8, <1>9 DEF Payable
  <2> QED
    BY <1>1, <1>2, <1>5, <1>8, <1>9, <1>10, <1>11, <1>12, <2>1 DEF BalancePart
<1>15. DocumentsOK'
  BY <1>8, <1>9, <1>11, <1>12, <1>13, <1>14, OneDocument DEF SettleInv
<1> QED
  BY <1>6, <1>15 DEF SettleInv

\* What a settlement's transaction has read and asks for.
LEMMA Asked ==
    ASSUME SettleInv, NEW d \in Callers, settlement[d].stage = "deduct"
    PROVE  \E a \in Int, b \in Int :
              /\ a = saving[d].amount /\ b = saving[d].seen.balance
              /\ a = Payable(d) /\ a > 0 /\ b >= 0
              /\ Deducted(d) = IF b > a THEN a ELSE b
              /\ saving[d].op = "spend" /\ saving[d].ref = d
              /\ saving[d].holder = settlement[d].holder
<1>1. BalancePart(d) /\ MemberTypeOK
  BY DEF SettleInv, DocumentsOK, MInv, LedgerExplainsBalance
<1>2. saving[d].op = "spend"
  BY <1>1 DEF BalancePart
<1>3. saving[d] \in Saving
  BY <1>1, <1>2, SavingTyped
<1>4. PICK a \in Int, b \in Int : a = saving[d].amount /\ b = saving[d].seen.balance
  BY <1>3 DEF Saving, MemberAccount
<1> QED
  BY <1>1, <1>2, <1>4 DEF BalancePart, Deducted

\* The balance part is done: one row for what was deducted, or none for nothing.
LEMMA DeductedStep ==
    ASSUME SettleInv, NEW d \in Callers, ApplyDeducted(d)
    PROVE  SettleInv'
<1>1. /\ UNCHANGED <<coupon, doing>> /\ UNCHANGED couponVars
      /\ settlement[d].stage = "deduct" /\ EndSaving(d)
      /\ settlement' = [settlement EXCEPT ![d].stage = "done", ![d].used = Deducted(d)]
  BY DEF ApplyDeducted, DeductCommit, DeductNothing, couponVars
<1>2. /\ CouponPart(d) /\ BalancePart(d)
      /\ settlement \in [Callers -> Document] /\ settlement[d] \in Document
  BY DEF SettleInv, DocumentsOK
<1>3. CouponInv' /\ MInv'
  BY <1>1, CouponUnchanged, DeductStep, NothingStep DEF SettleInv, ApplyDeducted
<1>4. PICK a \in Int, b \in Int :
         /\ a = Payable(d) /\ a > 0 /\ b >= 0
         /\ Deducted(d) = IF b > a THEN a ELSE b
         /\ saving[d].op = "spend" /\ saving[d].ref = d
         /\ saving[d].holder = settlement[d].holder
  BY <1>1, Asked
<1>5. PICK u \in Nat : u = Deducted(d) /\ u <= a
  BY <1>4
<1>6. PICK x : x = [settlement[d] EXCEPT !.stage = "done", !.used = u]
  OBVIOUS
<1>7. /\ x \in Document /\ x.stage = "done" /\ x.used = u
      /\ x.holder = settlement[d].holder
      /\ x.coupon = settlement[d].coupon /\ x.discount = settlement[d].discount
      /\ x.total = settlement[d].total /\ x.lost = settlement[d].lost
  BY <1>2, <1>6 DEF Document
<1>8. settlement' = [settlement EXCEPT ![d] = x] /\ settlement'[d] = x
  BY <1>1, <1>2, <1>5, <1>6
<1>9. saving'[d].op = "none" /\ \A e \in Callers \ {d} : SpendStays(e)
  <2>1. saving \in [Callers -> Saving \cup {NoSaving}]
    BY DEF SettleInv, MInv, LedgerExplainsBalance, MemberTypeOK
  <2> QED
    BY <1>1, <2>1 DEF EndSaving, SpendStays, NoSaving
<1>10. AmountsStay /\ \A e \in Callers : RedeemedFor(e)' = RedeemedFor(e) /\ ClaimStays(e)
  BY <1>1, CouponSideStays
<1>11. CouponPart(d)'
  BY <1>1, <1>2, <1>7, <1>8, <1>10 DEF CouponPart, Claimed
<1>12. Payable(d)' = a /\ SpentFor(d) = {} /\ x.holder \in Holders
  BY <1>1, <1>2, <1>4, <1>7, <1>8 DEF Payable, BalancePart
<1>13. /\ RowsStay /\ \A e \in Callers \ {d} : SpentFor(e)' = SpentFor(e)
       /\ BalancePart(d)'
  <2>1. CASE DeductCommit(d)
    <3>1. u > 0
      BY <1>5, <2>1 DEF DeductCommit
    <3>2. PICK row : row = Row(d, Deducted(d), account[saving[d].holder].balance - Deducted(d))
      OBVIOUS
    <3>3. row.ref = d /\ row.amount = u /\ row.holder = x.holder
      BY <1>4, <1>5, <1>7, <3>2 DEF Row
    <3>4. ledger' = Append(ledger, row)
      BY <2>1, <3>2 DEF DeductCommit
    <3>5. PICK k : k = Len(ledger) + 1
      OBVIOUS
    <3>6. /\ RowsStay /\ k \in DOMAIN ledger' /\ ledger'[k] = row
          /\ \A e \in Callers \ {d} : SpentFor(e)' = SpentFor(e)
          /\ SpentFor(d)' = SpentFor(d) \cup {k}
      BY <3>3, <3>4, <3>5, RowSpends DEF SettleInv
    <3>7. SpentFor(d)' = {k}
      BY <1>12, <3>6
    <3> QED
      BY <1>5, <1>7, <1>8, <1>9, <1>12, <3>1, <3>3, <3>6, <3>7 DEF BalancePart
  <2>2. CASE DeductNothing(d)
    <3>1. u = 0
      BY <1>4, <1>5, <2>2 DEF DeductNothing
    <3>2. RowsStay /\ \A e \in Callers : SpentFor(e)' = SpentFor(e)
      BY <2>2, LedgerSideStays DEF DeductNothing
    <3> QED
      BY <1>7, <1>8, <1>9, <1>12, <3>1, <3>2 DEF BalancePart
  <2> QED
    BY <2>1, <2>2 DEF ApplyDeducted
<1>14. DocumentsOK'
  BY <1>7, <1>8, <1>9, <1>10, <1>11, <1>13, OneDocument DEF SettleInv
<1> QED
  BY <1>3, <1>14 DEF SettleInv

LEMMA WithoutBalanceStep ==
    ASSUME SettleInv, NEW d \in Callers, ApplyWithoutBalance(d)
    PROVE  SettleInv'
<1>1. /\ UNCHANGED <<coupon, doing, ledger, saving>> /\ settlement[d].stage = "pay"
      /\ settlement' = [settlement EXCEPT ![d].stage = "done"]
  BY DEF ApplyWithoutBalance, couponVars, memberVars
<1>2. CouponInv' /\ MInv'
  BY CouponUnchanged, MemberUnchanged DEF SettleInv, ApplyWithoutBalance
<1>3. /\ CouponPart(d) /\ BalancePart(d)
      /\ settlement \in [Callers -> Document] /\ settlement[d] \in Document
  BY DEF SettleInv, DocumentsOK
<1>4. PICK x : x = [settlement[d] EXCEPT !.stage = "done"]
  OBVIOUS
<1>5. /\ x \in Document /\ x.stage = "done" /\ x.used = settlement[d].used
      /\ x.holder = settlement[d].holder
      /\ x.coupon = settlement[d].coupon /\ x.discount = settlement[d].discount
      /\ x.lost = settlement[d].lost
  BY <1>3, <1>4 DEF Document
<1>6. settlement' = [settlement EXCEPT ![d] = x] /\ settlement'[d] = x
  BY <1>1, <1>3, <1>4
<1>7. /\ AmountsStay /\ RowsStay
      /\ \A e \in Callers : /\ RedeemedFor(e)' = RedeemedFor(e) /\ ClaimStays(e)
                            /\ SpentFor(e)' = SpentFor(e) /\ SpendStays(e)
  BY <1>1, CouponSideStays, LedgerSideStays, SavingSideStays
<1>8. CouponPart(d)'
  BY <1>1, <1>3, <1>5, <1>6, <1>7 DEF CouponPart, Claimed
<1>9. BalancePart(d)'
  <2>1. x.used = 0
    BY <1>1, <1>3, <1>5 DEF BalancePart
  <2> QED
    BY <1>1, <1>3, <1>5, <1>6, <1>7, <2>1 DEF BalancePart
<1>10. DocumentsOK'
  BY <1>5, <1>6, <1>7, <1>8, <1>9, OneDocument DEF SettleInv
<1> QED
  BY <1>2, <1>10 DEF SettleInv

\* A failed attempt leaves its document as new, but for the coupon it lost.
LEMMA FailsStep ==
    ASSUME SettleInv, NEW d \in Callers, ApplyFails(d)
    PROVE  SettleInv'
<1> DEFINE stage == settlement[d].stage
           spoilt == IF stage = "deduct" THEN {settlement[d].coupon} \ {0} ELSE {}
<1>1. /\ CouponPart(d) /\ BalancePart(d)
      /\ settlement \in [Callers -> Document] /\ settlement[d] \in Document
  BY DEF SettleInv, DocumentsOK
<1>2. PICK n \in Nat, l \in SUBSET Nat :
         n = settlement[d].failures + 1 /\ l = settlement[d].lost \cup spoilt
  <2>1. /\ settlement[d].failures \in Nat /\ settlement[d].coupon \in Nat
        /\ settlement[d].lost \in SUBSET Nat
    BY <1>1 DEF Document
  <2>2. settlement[d].failures + 1 \in Nat /\ settlement[d].lost \cup spoilt \in SUBSET Nat
    BY <2>1
  <2> QED
    BY <2>2
<1>3. PICK x : x = [NotSettled EXCEPT !.failures = n, !.lost = l]
  OBVIOUS
<1>4. x \in Document /\ x.stage = "idle" /\ x.used = 0 /\ x.lost = l
  BY <1>3 DEF Document, NotSettled
<1>5. settlement' = [settlement EXCEPT ![d] = x] /\ settlement'[d] = x
  BY <1>1, <1>2, <1>3 DEF ApplyFails
<1>6. RedeemedFor(d) = l /\ SpentFor(d) = {} /\ stage \in {"claim", "deduct"}
  BY <1>1, <1>2 DEF CouponPart, BalancePart, Claimed, ApplyFails
<1>7. /\ CouponInv' /\ MInv' /\ UNCHANGED <<coupon, ledger>>
      /\ doing'[d].op # "claim" /\ saving'[d].op # "spend"
      /\ saving'[d].op = "recharge" => saving'[d].ref = RechargeRef
      /\ \A e \in Callers \ {d} : ClaimStays(e) /\ SpendStays(e)
  <2>1. CASE stage = "claim" /\ (ClaimRefused(d) \/ CouponAbort(d)) /\ UNCHANGED memberVars
    <3>1. UNCHANGED <<coupon, ledger, saving>> /\ doing' = [doing EXCEPT ![d] = Idle]
      BY <2>1 DEF ClaimRefused, CouponAbort, Finish, memberVars
    <3>2. CouponInv' /\ MInv'
      BY <2>1, BeginOrEndStep, MemberUnchanged DEF SettleInv
    <3>3. doing \in [Callers -> {Idle} \cup Issuing \cup Deleting \cup Claiming]
      BY DEF SettleInv, CouponInv, CouponTypeOK
    <3>4. doing'[d].op # "claim" /\ \A e \in Callers \ {d} : ClaimStays(e)
      BY <3>1, <3>3 DEF Idle, ClaimStays
    <3> QED
      BY <1>1, <2>1, <3>1, <3>2, <3>4, SavingSideStays DEF BalancePart
  <2>2. CASE stage = "deduct" /\ SavingFails(d) /\ UNCHANGED couponVars
    <3>1. UNCHANGED <<coupon, doing, ledger>> /\ saving' = [saving EXCEPT ![d] = NoSaving]
      BY <2>2 DEF SavingFails, EndSaving, couponVars
    <3>2. CouponInv' /\ MInv'
      BY <2>2, CouponUnchanged, FailStep DEF SettleInv
    <3>3. saving \in [Callers -> Saving \cup {NoSaving}]
      BY DEF SettleInv, MInv, LedgerExplainsBalance, MemberTypeOK
    <3>4. saving'[d].op = "none" /\ \A e \in Callers \ {d} : SpendStays(e)
      BY <3>1, <3>3 DEF NoSaving, SpendStays
    <3> QED
      BY <1>1, <2>2, <3>1, <3>2, <3>4, CouponSideStays DEF CouponPart
  <2> QED
    BY <2>1, <2>2 DEF ApplyFails
<1>8. /\ AmountsStay /\ RowsStay
      /\ \A e \in Callers : RedeemedFor(e)' = RedeemedFor(e) /\ SpentFor(e)' = SpentFor(e)
  BY <1>7, LedgerSideStays DEF AmountsStay, RedeemedFor
<1>9. CouponPart(d)'
  BY <1>4, <1>5, <1>6, <1>7, <1>8 DEF CouponPart, Claimed
<1>10. BalancePart(d)'
  BY <1>4, <1>5, <1>6, <1>7, <1>8 DEF BalancePart
<1>11. DocumentsOK'
  BY <1>4, <1>5, <1>7, <1>8, <1>9, <1>10, OneDocument DEF SettleInv
<1> QED
  BY <1>7, <1>11 DEF SettleInv

\* A recharge spends for no document.
LEMMA RechargesStep ==
    ASSUME SettleInv, NEW c \in Callers, UNCHANGED <<couponVars, settlement>>,
           \/ \E h \in Holders \ {0}, a \in Amounts : RechargeRead(c, h, a)
           \/ RechargeCommit(c) \/ (saving[c].op = "recharge" /\ SavingFails(c))
    PROVE  SettleInv'
<1>1. UNCHANGED <<coupon, doing>>
  BY DEF couponVars
<1>2. BalancePart(c) /\ saving \in [Callers -> Saving \cup {NoSaving}] /\ NoSaving.op = "none"
  BY DEF SettleInv, DocumentsOK, MInv, LedgerExplainsBalance, MemberTypeOK, NoSaving
<1>3. /\ MInv' /\ RowsStay /\ \A d \in Callers : SpentFor(d)' = SpentFor(d) /\ SpendStays(d)
  <2>1. ASSUME NEW h \in Holders \ {0}, NEW a \in Amounts, RechargeRead(c, h, a)
        PROVE  /\ MInv' /\ RowsStay
               /\ \A d \in Callers : SpentFor(d)' = SpentFor(d) /\ SpendStays(d)
    <3>1. a \in Int /\ a > 0
      BY <2>1, AmountsAssumption DEF RechargeRead, RechargeAllowed
    <3>2. MInv'
      BY <2>1, <3>1, ReadStep DEF RechargeRead, SettleInv
    <3>3. PICK y : y = [op |-> "recharge", holder |-> h, amount |-> a, seen |-> account[h],
                        ref |-> RechargeRef]
      OBVIOUS
    <3>4. saving[c] = NoSaving /\ saving' = [saving EXCEPT ![c] = y] /\ UNCHANGED ledger
      BY <2>1, <3>3 DEF RechargeRead, Read
    <3>5. \A d \in Callers : SpendStays(d)
      BY <1>2, <3>3, <3>4 DEF SpendStays
    <3> QED
      BY <3>2, <3>4, <3>5, LedgerSideStays
  <2>2. CASE RechargeCommit(c)
    <3>1. saving[c].op = "recharge" /\ saving[c].ref = RechargeRef
      BY <1>2, <2>2 DEF RechargeCommit, BalancePart
    <3>2. PICK row : row = Row(c, saving[c].amount, BalanceNow(c) + saving[c].amount)
      OBVIOUS
    <3>3. row.ref = RechargeRef
      BY <3>1, <3>2 DEF Row
    <3>4. ledger' = Append(ledger, row) /\ saving' = [saving EXCEPT ![c] = NoSaving]
      BY <2>2, <3>2 DEF RechargeCommit, EndSaving
    <3>5. RechargeRef \notin Callers
      BY LedgerAssumption, DocumentsAssumption
    <3>6. RowsStay /\ \A d \in Callers : SpentFor(d)' = SpentFor(d)
      BY <3>3, <3>4, <3>5, RowSpends DEF SettleInv
    <3>7. \A d \in Callers : SpendStays(d)
      BY <1>2, <3>1, <3>4 DEF SpendStays
    <3> QED
      BY <2>2, <3>6, <3>7, RechargeStep DEF SettleInv
  <2>3. CASE saving[c].op = "recharge" /\ SavingFails(c)
    <3>1. saving' = [saving EXCEPT ![c] = NoSaving] /\ UNCHANGED ledger
      BY <2>3 DEF SavingFails, EndSaving
    <3>2. \A d \in Callers : SpendStays(d)
      BY <1>2, <2>3, <3>1 DEF SpendStays
    <3> QED
      BY <2>3, <3>1, <3>2, FailStep, LedgerSideStays DEF SettleInv
  <2> QED
    BY <2>1, <2>2, <2>3
<1>4. AmountsStay /\ \A d \in Callers : RedeemedFor(d)' = RedeemedFor(d) /\ ClaimStays(d)
  BY <1>1, CouponSideStays
<1>5. DocumentsOK'
  BY <1>3, <1>4, NoDocument DEF SettleInv
<1> QED
  BY <1>3, <1>5, CouponUnchanged DEF SettleInv

LEMMA MeanwhileStep ==
    ASSUME SettleInv, Administration \/ UNCHANGED couponVars,
           UNCHANGED <<memberVars, settlement>>
    PROVE  SettleInv'
<1>1. UNCHANGED <<ledger, saving>>
  BY DEF memberVars
<1>2. AmountsStay /\ \A d \in Callers : RedeemedFor(d)' = RedeemedFor(d) /\ ClaimStays(d)
  <2>1. CASE UNCHANGED couponVars
    BY <2>1, CouponSideStays DEF couponVars
  <2>2. CASE Administration
    BY <2>2, AdministrationStays DEF SettleInv
  <2> QED
    BY <2>1, <2>2
<1>3. DocumentsOK'
  BY <1>1, <1>2, LedgerSideStays, SavingSideStays, NoDocument DEF SettleInv
<1> QED
  BY <1>3, AdministrationStep, CouponUnchanged, MemberUnchanged DEF SettleInv

LEMMA SettleStep == SettleInv /\ [SettleNext]_settleVars => SettleInv'
<1> SUFFICES ASSUME SettleInv, [SettleNext]_settleVars PROVE SettleInv'
  OBVIOUS
<1>1. ASSUME NEW d \in Callers, NEW h \in Holders \ {0}, NEW total \in Totals, NEW b \in BOOLEAN,
             ApplyWithoutCoupon(d, h, total, b)
      PROVE  SettleInv'
  BY <1>1, WithoutCouponStep
<1>2. ASSUME NEW d \in Callers, NEW h \in Holders \ {0}, NEW total \in Totals, NEW b \in BOOLEAN,
             NEW i \in 1..MaxCoupons, ApplyWithCoupon(d, h, total, i, b)
      PROVE  SettleInv'
  BY <1>2, WithCouponStep
<1>3. ASSUME NEW d \in Callers, ApplyClaimed(d)
      PROVE  SettleInv'
  BY <1>3, ClaimedStep
<1>4. ASSUME NEW d \in Callers, ApplyDeducts(d)
      PROVE  SettleInv'
  BY <1>4, DeductsStep
<1>5. ASSUME NEW d \in Callers, ApplyDeducted(d)
      PROVE  SettleInv'
  BY <1>5, DeductedStep
<1>6. ASSUME NEW d \in Callers, ApplyWithoutBalance(d)
      PROVE  SettleInv'
  BY <1>6, WithoutBalanceStep
<1>7. ASSUME NEW d \in Callers, ApplyFails(d)
      PROVE  SettleInv'
  BY <1>7, FailsStep
<1>8. ASSUME NEW c \in Callers, UNCHANGED <<couponVars, settlement>>,
             \/ \E h \in Holders \ {0}, a \in Amounts : RechargeRead(c, h, a)
             \/ RechargeCommit(c) \/ (saving[c].op = "recharge" /\ SavingFails(c))
      PROVE  SettleInv'
  BY <1>8, RechargesStep
<1>9. CASE Administration /\ UNCHANGED <<memberVars, settlement>>
  BY <1>9, MeanwhileStep
<1>10. CASE UNCHANGED settleVars
  BY <1>10, MeanwhileStep DEF settleVars
<1>11. Settlements => SettleInv'
  BY <1>1, <1>2, <1>3, <1>4, <1>5, <1>6, <1>7, <1>8 DEF Settlements
<1> QED
  BY <1>9, <1>10, <1>11 DEF SettleNext

-----------------------------------------------------------------------------
(* Settlements: the theorem *)

LEMMA SettleInvariance == SettleSpec => []SettleInv
BY SettleInvInit, SettleStep, PTL DEF SettleSpec

\* A settlement that is done is backed by the coupon it redeemed and the one
\* row it spent, and takes from the balance no more than is left to pay,
\* whatever other settlements, recharges, issues, expiry and failed attempts
\* come between its two transactions (settle.go, Apply).
THEOREM SettlementsAreBacked == SettleSpec => []SettlementsAreSound
<1>1. SettleInv => SettlementsAreSound
  <2> SUFFICES ASSUME SettleInv PROVE SettlementsAreSound
    OBVIOUS
  <2>1. ASSUME NEW d \in Callers
        PROVE  settlement[d] \in Document /\ CouponPart(d) /\ BalancePart(d)
    BY DEF SettleInv, DocumentsOK
  <2>2. SettledIsBacked
    BY <2>1 DEF SettledIsBacked, CouponPart, BalancePart, Claimed
  <2>3. BalancePaysAtMostTheRest
    BY <2>1 DEF BalancePaysAtMostTheRest, BalancePart, PaidAmount, Payable, Document
  <2> QED
    BY <2>2, <2>3 DEF SettlementsAreSound
<1> QED
  BY SettleInvariance, <1>1, PTL

LEMMA SettlementsKeepOutcomes == SettleInv /\ [SettleNext]_settleVars => [OutcomesStay]_coupon
<1> SUFFICES ASSUME SettleInv, SettleNext PROVE OutcomesStay \/ coupon' = coupon
  BY DEF settleVars, couponVars
<1>1. CASE Administration
  BY <1>1, AdministrationKeepsOutcomes DEF SettleInv
<1>2. ASSUME NEW d \in Callers, ApplyClaimed(d) PROVE OutcomesStay
  BY <1>2, ClaimKeepsOutcomes DEF SettleInv, ApplyClaimed
<1>3. Settlements => (\E d \in Callers : ApplyClaimed(d)) \/ coupon' = coupon
  BY DEF Settlements, ApplyWithoutCoupon, ApplyWithCoupon, ClaimCheck, ApplyDeducts,
         ApplyDeducted, ApplyWithoutBalance, ApplyFails, ClaimRefused, CouponAbort, couponVars
<1> QED
  BY <1>1, <1>2, <1>3 DEF SettleNext

\* Settlements keep what coupons and accounts promise when they are used alone.
COROLLARY SettlementsKeepTheRows ==
    SettleSpec => /\ [](LedgerExplainsBalance /\ CountersAreRows /\ OverIssueIsBounded)
                  /\ OutcomeIsFinal
<1>1. SettleInv => LedgerExplainsBalance /\ CountersAreRows
  BY DEF SettleInv, MInv, CouponInv, CountersAreRows, CounterOK, UsedOf
<1>2. SettleInv => OverIssueIsBounded
  BY LimitKept DEF SettleInv
<1>3. OutcomesStay <=>
         \A i \in DOMAIN coupon : coupon[i].status # "unused" => coupon'[i] = coupon[i]
  BY DEF OutcomesStay
<1> QED
  BY SettleInvariance, SettlementsKeepOutcomes, <1>1, <1>2, <1>3, PTL
  DEF SettleSpec, OutcomeIsFinal

-----------------------------------------------------------------------------
(* The catalogue of plans *)

\* plan/engine.go, model.go: the catalogue of plans.

AllPlans == PlanInputs \cup UNION SeedSets
PlanRow ==
    [code : {in.code : in \in AllPlans} \cup {Trimmed[in.code] : in \in AllPlans},
     price : {in.price : in \in AllPlans}, default : BOOLEAN, status : {0, 1}]
Written == [by : {"create", "update", "seed"}, in : AllPlans]

Creating == [op : {"create"}, in : AllPlans]
Updating == [op : {"update"}, in : AllPlans, id : Nat]
Seeding(defs) == [op : {"seed"}, defs : {defs}, found : [defs -> SUBSET Nat]]

\* What an editor that has begun may count on: rows it has seen do not go, and
\* a seed has found no row twice.
EditOK(e) ==
    /\ editing[e].op \in {"create", "update"} => ValidPlan(editing[e].in)
    /\ editing[e].op = "update" => editing[e].id \in DOMAIN catalog
    /\ editing[e].op = "seed" =>
          LET x == editing[e]
          IN  /\ \A d \in x.defs : ValidPlan(d) /\ x.found[d] \subseteq DOMAIN catalog
              /\ \A d, f \in x.defs : d # f => x.found[d] \cap x.found[f] = {}

RowFits(r) ==
    r.plan \in 0..Len(catalog) /\ r.limit \in Int /\ (r.type = "count" => r.limit >= 0)

CatalogTyped ==
    /\ catalog \in Seq(PlanRow) /\ wrote \in Seq(Written)
    /\ Len(wrote) = Len(catalog) /\ Len(catalog) <= MaxPlans
    /\ editing \in [Editors -> {NoEdit} \cup Creating \cup Updating
                                  \cup UNION {Seeding(defs) : defs \in SeedSets}]

\* A plan as it was written last.
PlanKept(p) ==
    LET in == wrote[p].in
    IN  /\ catalog[p].price = in.price
        /\ wrote[p].by = "create" => EntitlementsOf(p) = {} /\ catalog[p].status = 1
        /\ wrote[p].by # "create" => EntitlementsOf(p) = EntitlementRows(in, p)
        /\ wrote[p].by = "update" => catalog[p].status = NormalizeStatus(in.status)

CatalogInv ==
    /\ CatalogTyped
    /\ \A e \in Editors : EditOK(e)
    /\ \A r \in entitlement : RowFits(r)
    /\ \A p \in DOMAIN catalog : PlanKept(p)
    /\ OneDefaultPlan /\ StrayRowsAreUnique

LEMMA CatalogInitOK == CatalogInit => CatalogInv
<1> SUFFICES ASSUME CatalogInit PROVE CatalogInv
  OBVIOUS
<1>1. catalog = <<>> /\ entitlement = {} /\ wrote = <<>> /\ editing = [e \in Editors |-> NoEdit]
  BY DEF CatalogInit
<1>2. CatalogTyped
  BY <1>1, MaxPlansAssumption DEF CatalogTyped
<1>3. \A e \in Editors : EditOK(e)
  BY <1>1 DEF EditOK, NoEdit
<1>4. \A p \in DOMAIN catalog : FALSE
  BY <1>1
<1> QED
  BY <1>1, <1>2, <1>3, <1>4 DEF CatalogInv, OneDefaultPlan, StrayRowsAreUnique, EntitlementsOf

LEMMA EditAs ==
    ASSUME CatalogTyped, NEW e \in Editors
    PROVE  /\ editing[e].op = "create" => editing[e] \in Creating
           /\ editing[e].op = "update" => editing[e] \in Updating
           /\ editing[e].op = "seed" => \E defs \in SeedSets : editing[e] \in Seeding(defs)
<1>1. \/ editing[e] = NoEdit \/ editing[e] \in Creating \/ editing[e] \in Updating
      \/ \E defs \in SeedSets : editing[e] \in Seeding(defs)
  BY DEF CatalogTyped
<1>2. editing[e] \in Creating => editing[e].op = "create"
  BY DEF Creating
<1>3. editing[e] \in Updating => editing[e].op = "update"
  BY DEF Updating
<1>4. (\E defs \in SeedSets : editing[e] \in Seeding(defs)) => editing[e].op = "seed"
  BY DEF Seeding
<1>5. editing[e] = NoEdit => editing[e].op = "none"
  BY DEF NoEdit
<1> QED
  BY <1>1, <1>2, <1>3, <1>4, <1>5

\* The rows of an input are of its plan, and counted ones have a limit.
LEMMA RowsFit ==
    ASSUME NEW in \in AllPlans, ValidPlan(in), NEW p
    PROVE  \A r \in EntitlementRows(in, p) :
              r.plan = p /\ r.limit \in Int /\ (r.type = "count" => r.limit >= 0)
<1>1. \A i \in DOMAIN in.ents : in.ents[i].limit \in Int
  BY PlanInputsAssumption DEF AllPlans
<1> SUFFICES ASSUME NEW r \in EntitlementRows(in, p)
             PROVE  r.plan = p /\ r.limit \in Int /\ (r.type = "count" => r.limit >= 0)
  OBVIOUS
<1>2. PICK i \in DOMAIN in.ents :
          r.plan = p /\ r.limit = in.ents[i].limit /\ r.type = in.ents[i].type
  BY DEF EntitlementRows
<1>3. in.ents[i].type = "count" => in.ents[i].limit >= 0
  BY DEF ValidPlan
<1> QED
  BY <1>1, <1>2, <1>3

LEMMA RowIn ==
    ASSUME NEW in \in AllPlans
    PROVE  /\ NewPlan(in) \in PlanRow
           /\ NewPlan(in).price = in.price /\ NewPlan(in).status = 1
           /\ NewPlan(in).default = in.default
           /\ in.default \in BOOLEAN /\ NormalizeStatus(in.status) \in {0, 1}
<1>1. in.default \in BOOLEAN
  BY PlanInputsAssumption DEF AllPlans
<1> QED
  BY <1>1 DEF NewPlan, PlanRow, NormalizeStatus

\* Beginning an edit, or giving it up, changes no row.
LEMMA EditingStep ==
    ASSUME CatalogInv, NEW e \in Editors,
           NEW x \in {NoEdit} \cup Creating \cup Updating
                        \cup UNION {Seeding(defs) : defs \in SeedSets},
           editing' = [editing EXCEPT ![e] = x], EditOK(e)',
           UNCHANGED <<catalog, entitlement, wrote>>
    PROVE  CatalogInv'
<1>1. CatalogTyped'
  BY DEF CatalogInv, CatalogTyped
<1>2. \A f \in Editors : EditOK(f)'
  <2> SUFFICES ASSUME NEW f \in Editors, f # e PROVE EditOK(f)'
    OBVIOUS
  <2>1. editing'[f] = editing[f] /\ EditOK(f)
    BY DEF CatalogInv, CatalogTyped
  <2> QED
    BY <2>1 DEF EditOK
<1> QED
  BY <1>1, <1>2 DEF CatalogInv, RowFits, PlanKept, OneDefaultPlan, StrayRowsAreUnique,
                    EntitlementsOf

LEMMA CreateCheckStep ==
    ASSUME CatalogInv, NEW e \in Editors, NEW in \in PlanInputs, CreatePlanCheck(e, in)
    PROVE  CatalogInv'
<1> DEFINE x == [op |-> "create", in |-> in]
<1>1. x \in Creating
  BY DEF Creating, AllPlans
<1>2. editing' = [editing EXCEPT ![e] = x] /\ UNCHANGED <<catalog, entitlement, wrote>>
  BY DEF CreatePlanCheck, BeginEdit
<1>3. editing'[e] = x
  BY <1>2 DEF CatalogInv, CatalogTyped
<1>4. EditOK(e)'
  BY <1>3 DEF EditOK, CreatePlanCheck
<1> HIDE DEF x
<1> QED
  BY <1>1, <1>2, <1>4, EditingStep

LEMMA UpdateCheckStep ==
    ASSUME CatalogInv, NEW e \in Editors, NEW in \in PlanInputs, NEW id \in DOMAIN catalog,
           UpdatePlanCheck(e, id, in)
    PROVE  CatalogInv'
<1> DEFINE x == [op |-> "update", in |-> in, id |-> id]
<1>1. x \in Updating
  <2>1. id \in Nat
    BY DEF CatalogInv, CatalogTyped
  <2> QED
    BY <2>1 DEF Updating, AllPlans
<1>2. editing' = [editing EXCEPT ![e] = x] /\ UNCHANGED <<catalog, entitlement, wrote>>
  BY DEF UpdatePlanCheck, BeginEdit
<1>3. editing'[e] = x
  BY <1>2 DEF CatalogInv, CatalogTyped
<1>4. EditOK(e)'
  BY <1>2, <1>3 DEF EditOK, UpdatePlanCheck
<1> HIDE DEF x
<1> QED
  BY <1>1, <1>2, <1>4, EditingStep

LEMMA SeedCheckStep ==
    ASSUME CatalogInv, NEW e \in Editors, NEW defs \in SeedSets, SeedCheck(e, defs)
    PROVE  CatalogInv'
<1> DEFINE found == [d \in defs |-> {p \in DOMAIN catalog : catalog[p].code = d.code}]
           x == [op |-> "seed", defs |-> defs, found |-> found]
<1>1. DOMAIN catalog \subseteq Nat
  BY DEF CatalogInv, CatalogTyped
<1>2. x \in Seeding(defs)
  <2>1. found \in [defs -> SUBSET Nat]
    BY <1>1
  <2> HIDE DEF found
  <2> QED
    BY <2>1 DEF Seeding
<1>3. editing' = [editing EXCEPT ![e] = x] /\ UNCHANGED <<catalog, entitlement, wrote>>
  BY DEF SeedCheck, BeginEdit
<1>4. editing'[e] = x
  BY <1>3 DEF CatalogInv, CatalogTyped
<1>5. \A d \in defs : ValidPlan(d) /\ found[d] \subseteq DOMAIN catalog
  BY DEF SeedCheck
<1>6. \A d, f \in defs : d # f => found[d] \cap found[f] = {}
  BY SeedsAssumption
<1>7. EditOK(e)'
  <2> HIDE DEF found
  <2> QED
    BY <1>3, <1>4, <1>5, <1>6 DEF EditOK
<1>8. x \in UNION {Seeding(s) : s \in SeedSets}
  <2> HIDE DEF x
  <2> QED
    BY <1>2
<1> HIDE DEF x
<1> QED
  BY <1>3, <1>7, <1>8, EditingStep

LEMMA EditAbortStep ==
    ASSUME CatalogInv, NEW e \in Editors, EndEdit(e), UNCHANGED <<catalog, entitlement, wrote>>
    PROVE  CatalogInv'
<1>1. editing' = [editing EXCEPT ![e] = NoEdit] /\ editing'[e] = NoEdit
  BY DEF EndEdit, CatalogInv, CatalogTyped
<1>2. EditOK(e)'
  BY <1>1 DEF EditOK, NoEdit
<1> QED
  BY <1>1, <1>2, EditingStep

\* What a commit has to show, once the rows are there: the editors that go on
\* still see theirs.
LEMMA Committed ==
    ASSUME CatalogInv, NEW e \in Editors, EndEdit(e),
           catalog' \in Seq(PlanRow), wrote' \in Seq(Written), Len(wrote') = Len(catalog'),
           Len(catalog') <= MaxPlans, DOMAIN catalog \subseteq DOMAIN catalog',
           \A r \in entitlement' : RowFits(r)',
           \A p \in DOMAIN catalog' : PlanKept(p)',
           OneDefaultPlan', StrayRowsAreUnique'
    PROVE  CatalogInv'
<1>1. editing' = [editing EXCEPT ![e] = NoEdit] /\ editing'[e] = NoEdit
  BY DEF EndEdit, CatalogInv, CatalogTyped
<1>2. CatalogTyped'
  BY <1>1 DEF CatalogInv, CatalogTyped
<1>3. \A f \in Editors : EditOK(f)'
  <2> SUFFICES ASSUME NEW f \in Editors PROVE EditOK(f)'
    OBVIOUS
  <2>1. CASE f = e
    BY <1>1, <2>1 DEF EditOK, NoEdit
  <2>2. CASE f # e
    <3>1. editing'[f] = editing[f] /\ EditOK(f)
      BY <1>1, <2>2 DEF CatalogInv, CatalogTyped
    <3> QED
      BY <3>1 DEF EditOK
  <2> QED
    BY <2>1, <2>2
<1> QED
  BY <1>2, <1>3 DEF CatalogInv

LEMMA NotDefault ==
    ASSUME NEW row \in PlanRow
    PROVE  LET x == [row EXCEPT !.default = FALSE]
           IN  x \in PlanRow /\ x.price = row.price /\ x.status = row.status /\ ~ x.default
<1>1. row.default \in BOOLEAN
  BY DEF PlanRow
<1> QED
  BY <1>1 DEF PlanRow

LEMMA CreateCommitStep ==
    ASSUME CatalogInv, NEW e \in Editors, CreatePlanCommit(e)
    PROVE  CatalogInv'
<1>1. CatalogTyped /\ EditOK(e) /\ editing[e].op = "create" /\ EndEdit(e)
  BY DEF CreatePlanCommit, CatalogInv
<1>2. PICK in \in AllPlans : in = editing[e].in /\ ValidPlan(in)
  BY <1>1, EditAs DEF EditOK, Creating
<1>0. PICK n \in Nat : n = Len(catalog) /\ n < MaxPlans
  BY <1>1 DEF CatalogTyped, CreatePlanCommit
<1> DEFINE base == ClearOtherDefaults(catalog, in.default, 0)
<1>3. CASE UNCHANGED <<catalog, entitlement, wrote>>
  BY <1>1, <1>3, EditAbortStep
<1>4. CASE /\ catalog' = Append(base, NewPlan(in))
           /\ entitlement' = entitlement \cup EntitlementRows(in, 0)
           /\ wrote' = Append(wrote, [by |-> "create", in |-> in])
           /\ RowsUnique(entitlement')
  <2>1. /\ catalog \in Seq(PlanRow) /\ wrote \in Seq(Written) /\ Len(wrote) = n
        /\ n \in Nat /\ DOMAIN catalog = 1..n
    BY <1>0, <1>1 DEF CatalogTyped
  <2>2. /\ base \in Seq(PlanRow) /\ Len(base) = n
        /\ \A p \in 1..n : /\ base[p].price = catalog[p].price
                           /\ base[p].status = catalog[p].status
                           /\ base[p].default => catalog[p].default /\ ~ in.default
    <3>1. CASE in.default
      <4>1. base = [p \in 1..n |-> [catalog[p] EXCEPT !.default = FALSE]]
        BY <2>1, <3>1 DEF ClearOtherDefaults
      <4>2. \A p \in 1..n : /\ [catalog[p] EXCEPT !.default = FALSE] \in PlanRow
                            /\ [catalog[p] EXCEPT !.default = FALSE].price = catalog[p].price
                            /\ [catalog[p] EXCEPT !.default = FALSE].status = catalog[p].status
                            /\ ~ [catalog[p] EXCEPT !.default = FALSE].default
        BY <2>1, NotDefault
      <4>3. base \in [1..n -> PlanRow]
        BY <4>1, <4>2
      <4>4. \A p \in 1..n : base[p] = [catalog[p] EXCEPT !.default = FALSE]
        BY <4>1
      <4> HIDE DEF base
      <4>5. base \in Seq(PlanRow) /\ Len(base) = n
        BY <4>3
      <4> QED
        BY <3>1, <4>2, <4>4, <4>5
    <3>2. CASE ~ in.default
      BY <2>1, <3>2 DEF ClearOtherDefaults
    <3> QED
      BY <3>1, <3>2
  <2>3. NewPlan(in) \in PlanRow /\ NewPlan(in).price = in.price /\ NewPlan(in).status = 1
        /\ NewPlan(in).default = in.default
    BY <1>2, RowIn
  <2> HIDE DEF base
  <2>4. /\ catalog' \in Seq(PlanRow) /\ Len(catalog') = n + 1 /\ DOMAIN catalog' = 1..(n + 1)
        /\ \A p \in 1..n : catalog'[p] = base[p]
        /\ catalog'[n + 1] = NewPlan(in)
    BY <1>4, <2>1, <2>2, <2>3
  <2>5. [by |-> "create", in |-> in] \in Written
    BY <1>2 DEF Written
  <2>6. /\ wrote' \in Seq(Written) /\ Len(wrote') = n + 1
        /\ \A p \in 1..n : wrote'[p] = wrote[p]
        /\ wrote'[n + 1].by = "create" /\ wrote'[n + 1].in = in
    BY <1>4, <2>1, <2>5
  <2>7. \A r \in EntitlementRows(in, 0) :
           r.plan = 0 /\ r.limit \in Int /\ (r.type = "count" => r.limit >= 0)
    BY <1>2, RowsFit
  <2>8. \A r \in entitlement : RowFits(r) /\ r.plan \in 0..n
    BY <1>0 DEF CatalogInv, RowFits
  <2>9. \A r \in entitlement' : RowFits(r)'
    <3> SUFFICES ASSUME NEW r \in entitlement' PROVE RowFits(r)'
      OBVIOUS
    <3>1. r \in entitlement \/ r \in EntitlementRows(in, 0)
      BY <1>4
    <3> QED
      BY <2>1, <2>4, <2>7, <2>8, <3>1 DEF RowFits
  <2>10. \A p \in 1..n : EntitlementsOf(p)' = EntitlementsOf(p)
    BY <1>4, <2>7 DEF EntitlementsOf
  <2>11. EntitlementsOf(n + 1)' = {}
    <3>1. \A r \in entitlement' : r.plan \in 0..n
      BY <1>4, <2>1, <2>7, <2>8
    <3>2. n + 1 \notin 0..n
      BY <2>1
    <3> QED
      BY <3>1, <3>2 DEF EntitlementsOf
  <2>12. \A p \in DOMAIN catalog' : PlanKept(p)'
    <3> SUFFICES ASSUME NEW p \in 1..(n + 1) PROVE PlanKept(p)'
      BY <2>4
    <3>1. CASE p = n + 1
      BY <2>3, <2>4, <2>6, <2>11, <3>1 DEF PlanKept
    <3>2. CASE p \in 1..n
      <4>1. PlanKept(p)
        BY <2>1, <3>2 DEF CatalogInv
      <4> QED
        BY <2>2, <2>4, <2>6, <2>10, <3>2, <4>1 DEF PlanKept
    <3> QED
      BY <2>1, <3>1, <3>2
  <2>13. OneDefaultPlan'
    <3> SUFFICES ASSUME NEW p \in 1..(n + 1), NEW q \in 1..(n + 1), p # q,
                        catalog'[p].default, catalog'[q].default
                 PROVE  "seed" \in {wrote'[p].by, wrote'[q].by}
      BY <2>4 DEF OneDefaultPlan
    <3>1. p \in 1..n /\ q \in 1..n
      <4>1. p = n + 1 => in.default
        BY <2>3, <2>4
      <4>2. q = n + 1 => in.default
        BY <2>3, <2>4
      <4>3. p \in 1..n => ~ in.default
        BY <2>2, <2>4
      <4>4. q \in 1..n => ~ in.default
        BY <2>2, <2>4
      <4> QED
        BY <2>1, <4>1, <4>2, <4>3, <4>4
    <3>2. catalog[p].default /\ catalog[q].default
      BY <2>2, <2>4, <3>1
    <3> QED
      BY <2>1, <2>6, <3>1, <3>2 DEF CatalogInv, OneDefaultPlan
  <2>14. StrayRowsAreUnique'
    BY <1>4 DEF RowsUnique, StrayRowsAreUnique, EntitlementsOf
  <2>15. Len(catalog') <= MaxPlans
    BY <1>0, <2>4, MaxPlansAssumption
  <2>16. DOMAIN catalog \subseteq DOMAIN catalog' /\ Len(wrote') = Len(catalog')
    BY <2>1, <2>4, <2>6
  <2> QED
    BY <1>1, <2>4, <2>6, <2>9, <2>12, <2>13, <2>14, <2>15, <2>16, Committed
<1> QED
  BY <1>1, <1>2, <1>3, <1>4 DEF CreatePlanCommit, AfterCreate

LEMMA UpdateCommitStep ==
    ASSUME CatalogInv, NEW e \in Editors, UpdatePlanCommit(e)
    PROVE  CatalogInv'
<1>1. CatalogTyped /\ EditOK(e) /\ editing[e].op = "update" /\ EndEdit(e)
  BY DEF UpdatePlanCommit, CatalogInv
<1>2. PICK in \in AllPlans, id \in DOMAIN catalog :
          in = editing[e].in /\ id = editing[e].id /\ ValidPlan(in)
  BY <1>1, EditAs DEF EditOK, Updating
<1>0. PICK n \in Nat : n = Len(catalog)
  BY <1>1 DEF CatalogTyped
<1> DEFINE base == ClearOtherDefaults(catalog, in.default, id)
           row == [[base[id] EXCEPT !.price = in.price, !.default = in.default,
                                    !.status = NormalizeStatus(in.status)] EXCEPT !.code = in.code]
<1>3. CASE UNCHANGED <<catalog, entitlement, wrote>>
  BY <1>1, <1>3, EditAbortStep
<1>4. CASE /\ catalog' = [Updated(base, id, in) EXCEPT ![id].code = in.code]
           /\ entitlement' = RowsReplaced(in, id)
           /\ wrote' = [wrote EXCEPT ![id] = [by |-> "update", in |-> in]]
  <2>1. /\ catalog \in Seq(PlanRow) /\ wrote \in Seq(Written) /\ Len(wrote) = n
        /\ n \in Nat /\ DOMAIN catalog = 1..n /\ id \in 1..n /\ n <= MaxPlans
    BY <1>0, <1>1, <1>2 DEF CatalogTyped
  <2>2. /\ base \in [1..n -> PlanRow]
        /\ \A p \in 1..n : p # id => /\ base[p].price = catalog[p].price
                                     /\ base[p].status = catalog[p].status
                                     /\ base[p].default => catalog[p].default /\ ~ in.default
    <3>1. CASE in.default
      <4>1. base = [p \in 1..n |-> IF p = id THEN catalog[p]
                                   ELSE [catalog[p] EXCEPT !.default = FALSE]]
        BY <2>1, <3>1 DEF ClearOtherDefaults
      <4>2. \A p \in 1..n : /\ catalog[p] \in PlanRow
                            /\ [catalog[p] EXCEPT !.default = FALSE] \in PlanRow
                            /\ [catalog[p] EXCEPT !.default = FALSE].price = catalog[p].price
                            /\ [catalog[p] EXCEPT !.default = FALSE].status = catalog[p].status
                            /\ ~ [catalog[p] EXCEPT !.default = FALSE].default
        BY <2>1, NotDefault
      <4> QED
        BY <2>1, <4>1, <4>2
    <3>2. CASE ~ in.default
      BY <2>1, <3>2 DEF ClearOtherDefaults
    <3> QED
      BY <3>1, <3>2
  <2> HIDE DEF base
  <2>3. /\ row \in PlanRow /\ row.price = in.price /\ row.default = in.default
        /\ row.status = NormalizeStatus(in.status)
    <3>1. base[id] \in PlanRow
      BY <2>1, <2>2
    <3>2. in.default \in BOOLEAN /\ NormalizeStatus(in.status) \in {0, 1}
      BY <1>2, RowIn
    <3> QED
      BY <1>2, <3>1, <3>2 DEF PlanRow
  <2>4. catalog' = [base EXCEPT ![id] = row]
    BY <1>4, <2>1, <2>2 DEF Updated
  <2> HIDE DEF row
  <2>5. /\ catalog' \in Seq(PlanRow) /\ Len(catalog') = n /\ DOMAIN catalog' = 1..n
        /\ \A p \in 1..n : p # id => catalog'[p] = base[p]
        /\ catalog'[id] = row
    <3>1. catalog' \in [1..n -> PlanRow]
      BY <2>1, <2>2, <2>3, <2>4
    <3> QED
      BY <2>1, <2>2, <2>4, <3>1
  <2>6. [by |-> "update", in |-> in] \in Written
    BY <1>2 DEF Written
  <2>7. /\ wrote' \in Seq(Written) /\ Len(wrote') = n
        /\ \A p \in 1..n : p # id => wrote'[p] = wrote[p]
        /\ wrote'[id].by = "update" /\ wrote'[id].in = in
    BY <1>4, <2>1, <2>6
  <2>8. \A r \in EntitlementRows(in, id) :
           r.plan = id /\ r.limit \in Int /\ (r.type = "count" => r.limit >= 0)
    BY <1>2, RowsFit
  <2>9. \A r \in entitlement' : r.plan # id => r \in entitlement
    BY <1>4, <2>8 DEF RowsReplaced
  <2>10. \A r \in entitlement' : RowFits(r)'
    <3> SUFFICES ASSUME NEW r \in entitlement' PROVE RowFits(r)'
      OBVIOUS
    <3>1. CASE r \in entitlement
      BY <1>0, <2>5, <3>1 DEF CatalogInv, RowFits
    <3>2. CASE r \in EntitlementRows(in, id)
      BY <2>1, <2>5, <2>8, <3>2 DEF RowFits
    <3> QED
      BY <1>4, <3>1, <3>2 DEF RowsReplaced
  <2>11. \A p \in 0..n : p # id => EntitlementsOf(p)' = EntitlementsOf(p)
    BY <1>4, <2>8 DEF EntitlementsOf, RowsReplaced
  <2>12. EntitlementsOf(id)' = EntitlementRows(in, id)
    BY <1>4, <2>8 DEF EntitlementsOf, RowsReplaced
  <2>13. \A p \in DOMAIN catalog' : PlanKept(p)'
    <3> SUFFICES ASSUME NEW p \in 1..n PROVE PlanKept(p)'
      BY <2>5
    <3>1. CASE p = id
      BY <2>3, <2>5, <2>7, <2>12, <3>1 DEF PlanKept
    <3>2. CASE p # id
      <4>1. PlanKept(p)
        BY <2>1 DEF CatalogInv
      <4>2. EntitlementsOf(p)' = EntitlementsOf(p)
        BY <2>1, <2>11, <3>2
      <4> QED
        BY <2>2, <2>5, <2>7, <3>2, <4>1, <4>2 DEF PlanKept
    <3> QED
      BY <3>1, <3>2
  <2>14. OneDefaultPlan'
    <3> SUFFICES ASSUME NEW p \in 1..n, NEW q \in 1..n, p # q,
                        catalog'[p].default, catalog'[q].default
                 PROVE  "seed" \in {wrote'[p].by, wrote'[q].by}
      BY <2>5 DEF OneDefaultPlan
    <3>1. p # id /\ q # id
      <4>1. p = id \/ q = id => in.default
        BY <2>3, <2>5
      <4>2. p # id \/ q # id => ~ in.default
        BY <2>2, <2>5
      <4> QED
        BY <4>1, <4>2
    <3>2. catalog[p].default /\ catalog[q].default
      BY <2>2, <2>5, <3>1
    <3> QED
      BY <2>1, <2>7, <3>1, <3>2 DEF CatalogInv, OneDefaultPlan
  <2>15. StrayRowsAreUnique'
    <3>1. EntitlementsOf(0)' = EntitlementsOf(0)
      BY <2>1, <2>11
    <3> QED
      BY <3>1 DEF CatalogInv, StrayRowsAreUnique
  <2> QED
    BY <1>1, <2>1, <2>5, <2>7, <2>10, <2>13, <2>14, <2>15, Committed
<1> QED
  BY <1>1, <1>2, <1>3, <1>4 DEF UpdatePlanCommit

LEMMA Joined ==
    ASSUME NEW S, NEW a \in Seq(S), NEW b \in Seq(S)
    PROVE  /\ a \o b \in Seq(S) /\ Len(a \o b) = Len(a) + Len(b)
           /\ DOMAIN (a \o b) = 1..(Len(a) + Len(b))
           /\ \A p \in 1..Len(a) : (a \o b)[p] = a[p]
           /\ \A i \in 1..Len(b) : (a \o b)[Len(a) + i] = b[i]
<1>1. PICK n \in Nat, k \in Nat : Len(a) = n /\ Len(b) = k
  OBVIOUS
<1>2. a \o b \in Seq(S) /\ Len(a \o b) = n + k /\ DOMAIN (a \o b) = 1..(n + k)
  BY <1>1
<1>3. \A p \in 1..n : (a \o b)[p] = a[p]
  BY <1>1
<1>4. \A i \in 1..k : (a \o b)[n + i] = b[i]
  <2> SUFFICES ASSUME NEW i \in 1..k PROVE (a \o b)[n + i] = b[i]
    OBVIOUS
  <2>1. n + i \in 1..(n + k) /\ ~ (n + i <= n) /\ n + i - n = i
    OBVIOUS
  <2> QED
    BY <1>1, <2>1
<1> QED
  BY <1>1, <1>2, <1>3, <1>4

LEMMA SeedCommitStep ==
    ASSUME CatalogInv, NEW e \in Editors, SeedCommit(e)
    PROVE  CatalogInv'
<1>1. CatalogTyped /\ EditOK(e) /\ editing[e].op = "seed" /\ EndEdit(e)
  BY DEF SeedCommit, CatalogInv
<1> DEFINE defs == editing[e].defs
           found == editing[e].found
<1>3. defs \in SeedSets /\ found \in [defs -> SUBSET Nat]
  <2>1. PICK s \in SeedSets : editing[e] \in Seeding(s)
    BY <1>1, EditAs
  <2> QED
    BY <2>1 DEF Seeding
<1>4. PICK n \in Nat : n = Len(catalog)
  BY <1>1 DEF CatalogTyped
<1>5. /\ catalog \in Seq(PlanRow) /\ wrote \in Seq(Written) /\ Len(wrote) = n
      /\ DOMAIN catalog = 1..n /\ DOMAIN wrote = 1..n
  BY <1>1, <1>4 DEF CatalogTyped
<1>6. /\ \A d \in defs : ValidPlan(d) /\ found[d] \subseteq 1..n
      /\ \A d, f \in defs : d # f => found[d] \cap found[f] = {}
  BY <1>1, <1>5 DEF EditOK
<1>7. defs \subseteq AllPlans /\ IsFiniteSet(defs)
  BY <1>3, SeedsAssumption DEF AllPlans
<1> HIDE DEF defs, found
<1> DEFINE old == {d \in defs : found[d] # {}}
           IdOf(d) == CHOOSE p \in found[d] : TRUE
           Hit(p) == \E d \in old : IdOf(d) = p
           Of(p) == CHOOSE d \in old : IdOf(d) = p
           fresh == SetToSeq(defs \ old)
<1>8. \A d \in old : IdOf(d) \in found[d] /\ IdOf(d) \in 1..n
  BY <1>6
<1>9. \A p : Hit(p) => /\ Of(p) \in old /\ IdOf(Of(p)) = p
                       /\ \A d \in old : IdOf(d) = p => d = Of(p)
  <2> SUFFICES ASSUME NEW p, Hit(p)
               PROVE  /\ Of(p) \in old /\ IdOf(Of(p)) = p
                      /\ \A d \in old : IdOf(d) = p => d = Of(p)
    OBVIOUS
  <2>1. Of(p) \in old /\ IdOf(Of(p)) = p
    OBVIOUS
  <2> HIDE DEF Of, IdOf
  <2>2. \A d \in old : IdOf(d) = p => d = Of(p)
    <3> SUFFICES ASSUME NEW d \in old, IdOf(d) = p, d # Of(p) PROVE FALSE
      OBVIOUS
    <3>1. p \in found[d] /\ p \in found[Of(p)]
      BY <1>8, <2>1
    <3> QED
      BY <1>6, <2>1, <3>1
  <2> QED
    BY <2>1, <2>2
<1> HIDE DEF IdOf, Of
<1>10. PICK k \in Nat : fresh \in [1..k -> defs \ old] /\ DOMAIN fresh = 1..k /\ Len(fresh) = k
  <2>1. IsFiniteSet(defs \ old)
    BY <1>7, FS_Difference
  <2> HIDE DEF old
  <2>2. /\ SetToSeq(defs \ old) \in [1..Cardinality(defs \ old) -> defs \ old]
        /\ Cardinality(defs \ old) \in Nat
    BY <2>1, SetToSeqFacts
  <2> HIDE DEF fresh
  <2>3. fresh = SetToSeq(defs \ old)
    BY DEF fresh
  <2>4. PICK k \in Nat : k = Cardinality(defs \ old)
    BY <2>2
  <2>5. fresh \in [1..k -> defs \ old]
    BY <2>2, <2>3, <2>4
  <2> QED
    BY <2>5
<1>11. \A p : \A d \in AllPlans : ValidPlan(d) =>
          \A r \in EntitlementRows(d, p) :
             r.plan = p /\ r.limit \in Int /\ (r.type = "count" => r.limit >= 0)
  BY RowsFit
<1> HIDE DEF fresh
<1>12. CASE UNCHANGED <<catalog, entitlement, wrote>>
  BY <1>1, <1>12, EditAbortStep
<1>13. CASE /\ catalog' = [p \in DOMAIN catalog |->
                             IF Hit(p) THEN Updated(catalog, p, Of(p))[p] ELSE catalog[p]]
                          \o [i \in DOMAIN fresh |-> NewPlan(fresh[i])]
            /\ entitlement' = {r \in entitlement : \A d \in old : r.plan # IdOf(d)}
                          \cup (UNION {EntitlementRows(d, IdOf(d)) : d \in old})
                          \cup (UNION {EntitlementRows(fresh[i], Len(catalog) + i)
                                         : i \in DOMAIN fresh})
            /\ wrote' = [p \in DOMAIN catalog |->
                            IF Hit(p) THEN [by |-> "seed", in |-> Of(p)] ELSE wrote[p]]
                        \o [i \in DOMAIN fresh |-> [by |-> "seed", in |-> fresh[i]]]
            /\ Len(catalog) + Len(fresh) <= MaxPlans
  <2> HIDE DEF Hit
  <2>1. \A p \in 1..n : Hit(p) => Of(p) \in defs /\ Of(p) \in AllPlans
    BY <1>7, <1>9
  <2>2. \A i \in 1..k : fresh[i] \in defs /\ fresh[i] \in AllPlans /\ ValidPlan(fresh[i])
    BY <1>6, <1>7, <1>10
  <2> DEFINE kept == [p \in 1..n |-> IF Hit(p) THEN Updated(catalog, p, Of(p))[p] ELSE catalog[p]]
             made == [i \in 1..k |-> NewPlan(fresh[i])]
  <2>3. \A p \in 1..n : /\ kept[p] \in PlanRow
                        /\ Hit(p) => kept[p].price = Of(p).price
                        /\ ~ Hit(p) => kept[p] = catalog[p]
    <3> SUFFICES ASSUME NEW p \in 1..n, Hit(p)
                 PROVE  kept[p] \in PlanRow /\ kept[p].price = Of(p).price
      BY <1>5
    <3>1. PICK d \in AllPlans : d = Of(p)
      BY <2>1
    <3>2. d.default \in BOOLEAN /\ NormalizeStatus(d.status) \in {0, 1}
      BY RowIn
    <3>3. kept[p] = [catalog[p] EXCEPT !.price = d.price, !.default = d.default,
                                       !.status = NormalizeStatus(d.status)]
      BY <1>5, <3>1 DEF Updated
    <3>4. catalog[p] \in PlanRow
      BY <1>5
    <3> HIDE DEF kept
    <3> QED
      BY <3>1, <3>2, <3>3, <3>4 DEF PlanRow
  <2>4. \A i \in 1..k : made[i] \in PlanRow /\ made[i].price = fresh[i].price
    BY <2>2, RowIn
  <2>5. catalog' = kept \o made
    BY <1>5, <1>10, <1>13
  <2>6. kept \in Seq(PlanRow) /\ Len(kept) = n /\ made \in Seq(PlanRow) /\ Len(made) = k
    BY <2>3, <2>4
  <2> HIDE DEF kept, made
  <2>7. /\ catalog' \in Seq(PlanRow) /\ Len(catalog') = n + k /\ DOMAIN catalog' = 1..(n + k)
        /\ \A p \in 1..n : catalog'[p] = kept[p]
        /\ \A i \in 1..k : catalog'[n + i] = made[i]
    <3>1. PICK a \in Seq(PlanRow), b \in Seq(PlanRow) :
              a = kept /\ b = made /\ Len(a) = n /\ Len(b) = k
      BY <2>6
    <3>2. /\ a \o b \in Seq(PlanRow) /\ Len(a \o b) = Len(a) + Len(b)
          /\ DOMAIN (a \o b) = 1..(Len(a) + Len(b))
          /\ \A p \in 1..Len(a) : (a \o b)[p] = a[p]
          /\ \A i \in 1..Len(b) : (a \o b)[Len(a) + i] = b[i]
      <4> HIDE <3>1
      <4> QED
        BY Joined
    <3> QED
      BY <2>5, <3>1, <3>2
  <2> DEFINE wkept == [p \in 1..n |-> IF Hit(p) THEN [by |-> "seed", in |-> Of(p)] ELSE wrote[p]]
             wmade == [i \in 1..k |-> [by |-> "seed", in |-> fresh[i]]]
  <2>8. wrote' = wkept \o wmade
    BY <1>5, <1>10, <1>13
  <2>9. wkept \in Seq(Written) /\ Len(wkept) = n /\ wmade \in Seq(Written) /\ Len(wmade) = k
    <3>1. \A d \in AllPlans : [by |-> "seed", in |-> d] \in Written
      BY DEF Written
    <3>2. \A p \in 1..n : wkept[p] \in Written
      BY <1>5, <2>1, <3>1
    <3>3. \A i \in 1..k : wmade[i] \in Written
      BY <2>2, <3>1
    <3>4. wkept \in [1..n -> Written] /\ wmade \in [1..k -> Written]
      <4>1. wkept = [p \in 1..n |-> wkept[p]] /\ wmade = [i \in 1..k |-> wmade[i]]
        OBVIOUS
      <4> HIDE DEF wkept, wmade
      <4> QED
        BY <3>2, <3>3, <4>1
    <3> HIDE DEF wkept, wmade
    <3> QED
      BY <3>4
  <2>10. /\ wrote' \in Seq(Written) /\ Len(wrote') = n + k
         /\ \A p \in 1..n : wrote'[p] = wkept[p]
         /\ \A i \in 1..k : wrote'[n + i] = wmade[i]
    <3> HIDE DEF wkept, wmade
    <3> QED
      <4>1. /\ wkept \o wmade \in Seq(Written) /\ Len(wkept \o wmade) = n + k
            /\ \A p \in 1..n : (wkept \o wmade)[p] = wkept[p]
            /\ \A i \in 1..k : (wkept \o wmade)[n + i] = wmade[i]
        <5>1. PICK a \in Seq(Written), b \in Seq(Written) :
                  a = wkept /\ b = wmade /\ Len(a) = n /\ Len(b) = k
          BY <2>9
        <5>2. /\ a \o b \in Seq(Written) /\ Len(a \o b) = Len(a) + Len(b)
              /\ DOMAIN (a \o b) = 1..(Len(a) + Len(b))
              /\ \A p \in 1..Len(a) : (a \o b)[p] = a[p]
              /\ \A i \in 1..Len(b) : (a \o b)[Len(a) + i] = b[i]
          <6> HIDE <5>1
          <6> QED
            BY Joined
        <5> QED
          BY <5>1, <5>2
      <4> QED
        BY <2>8, <4>1
  <2>11. /\ \A p \in 1..n : /\ Hit(p) => wrote'[p].by = "seed" /\ wrote'[p].in = Of(p)
                            /\ ~ Hit(p) => wrote'[p] = wrote[p]
         /\ \A i \in 1..k : wrote'[n + i].by = "seed" /\ wrote'[n + i].in = fresh[i]
    <3>1. \A p \in 1..n : /\ Hit(p) => wkept[p].by = "seed" /\ wkept[p].in = Of(p)
                          /\ ~ Hit(p) => wkept[p] = wrote[p]
      OBVIOUS
    <3>2. \A i \in 1..k : wmade[i].by = "seed" /\ wmade[i].in = fresh[i]
      OBVIOUS
    <3> HIDE DEF wkept, wmade
    <3> QED
      <4>1. \A p \in 1..n : /\ Hit(p) => wrote'[p].by = "seed" /\ wrote'[p].in = Of(p)
                            /\ ~ Hit(p) => wrote'[p] = wrote[p]
        <5> SUFFICES ASSUME NEW p \in 1..n
                     PROVE  /\ Hit(p) => wrote'[p].by = "seed" /\ wrote'[p].in = Of(p)
                            /\ ~ Hit(p) => wrote'[p] = wrote[p]
          OBVIOUS
        <5>1. wrote'[p] = wkept[p]
          BY <2>10
        <5> QED
          BY <3>1, <5>1
      <4>2. \A i \in 1..k : wrote'[n + i].by = "seed" /\ wrote'[n + i].in = fresh[i]
        BY <2>10, <3>2
      <4> QED
        BY <4>1, <4>2
  <2> HIDE DEF wkept, wmade
  <2>12. \A p \in 1..(n + k) : p \in 1..n \/ \E i \in 1..k : p = n + i
    <3> SUFFICES ASSUME NEW p \in 1..(n + k), p \notin 1..n PROVE \E i \in 1..k : p = n + i
      OBVIOUS
    <3>1. p - n \in 1..k /\ p = n + (p - n)
      OBVIOUS
    <3> QED
      BY <3>1
  <2>13. \A r \in entitlement' :
            \/ r \in entitlement /\ ~ Hit(r.plan)
            \/ \E d \in old : r \in EntitlementRows(d, IdOf(d))
            \/ \E i \in 1..k : r \in EntitlementRows(fresh[i], n + i)
    <3> DEFINE A == {r \in entitlement : \A d \in old : r.plan # IdOf(d)}
               B == UNION {EntitlementRows(d, IdOf(d)) : d \in old}
               C == UNION {EntitlementRows(fresh[i], Len(catalog) + i) : i \in DOMAIN fresh}
    <3>1. entitlement' = A \cup B \cup C
      BY <1>13, Zenon
    <3> HIDE DEF old, A, B, C
    <3>3. \A r \in entitlement' : r \in A \/ r \in B \/ r \in C
      BY <3>1
    <3>4. \A r \in A : r \in entitlement /\ ~ Hit(r.plan)
      BY DEF Hit, A
    <3>5. \A r \in B : \E d \in old : r \in EntitlementRows(d, IdOf(d))
      BY Zenon DEF B
    <3>6. \A r \in C : \E i \in 1..k : r \in EntitlementRows(fresh[i], n + i)
      BY <1>4, <1>10 DEF C
    <3> QED
      BY <3>3, <3>4, <3>5, <3>6
  <2>14. /\ \A d \in old : EntitlementRows(d, IdOf(d)) \subseteq entitlement'
         /\ \A i \in 1..k : EntitlementRows(fresh[i], n + i) \subseteq entitlement'
         /\ \A r \in entitlement : ~ Hit(r.plan) => r \in entitlement'
    <3> DEFINE A == {r \in entitlement : \A d \in old : r.plan # IdOf(d)}
               B == UNION {EntitlementRows(d, IdOf(d)) : d \in old}
               C == UNION {EntitlementRows(fresh[i], Len(catalog) + i) : i \in DOMAIN fresh}
    <3>1. entitlement' = A \cup B \cup C
      BY <1>13, Zenon
    <3> HIDE DEF old, A, B, C
    <3>3. \A r : r \in A \/ r \in B \/ r \in C => r \in entitlement'
      BY <3>1
    <3>4. \A r \in entitlement : ~ Hit(r.plan) => r \in A
      BY DEF Hit, A
    <3>5. \A d \in old : EntitlementRows(d, IdOf(d)) \subseteq B
      BY Zenon DEF B
    <3>6. \A i \in 1..k : EntitlementRows(fresh[i], n + i) \subseteq C
      BY <1>4, <1>10 DEF C
    <3> QED
      BY <3>3, <3>4, <3>5, <3>6
  <2>15. \A d \in old : /\ d \in AllPlans /\ ValidPlan(d) /\ Hit(IdOf(d)) /\ Of(IdOf(d)) = d
                        /\ IdOf(d) \in 1..n
    BY <1>6, <1>7, <1>8, <1>9 DEF Hit
  <2>16. \A d \in old : \A r \in EntitlementRows(d, IdOf(d)) :
            r.plan = IdOf(d) /\ r.limit \in Int /\ (r.type = "count" => r.limit >= 0)
    BY <1>11, <2>15
  <2>17. \A i \in 1..k : \A r \in EntitlementRows(fresh[i], n + i) :
            r.plan = n + i /\ r.limit \in Int /\ (r.type = "count" => r.limit >= 0)
    BY <1>11, <2>2
  <2>18. \A r \in entitlement' : RowFits(r)'
    <3> SUFFICES ASSUME NEW r \in entitlement'
                 PROVE  /\ r.plan \in 0..(n + k) /\ r.limit \in Int
                        /\ r.type = "count" => r.limit >= 0
      BY <2>7 DEF RowFits
    <3>1. CASE r \in entitlement
      <4>1. RowFits(r)
        BY <3>1 DEF CatalogInv
      <4> QED
        BY <1>4, <4>1 DEF RowFits
    <3>2. CASE \E d \in old : r \in EntitlementRows(d, IdOf(d))
      BY <2>15, <2>16, <3>2
    <3>3. CASE \E i \in 1..k : r \in EntitlementRows(fresh[i], n + i)
      BY <2>17, <3>3
    <3> QED
      BY <2>13, <3>1, <3>2, <3>3
  <2>19. \A r \in entitlement : r.plan \in 0..n
    BY <1>4 DEF CatalogInv, RowFits
  <2>20. \A p \in 0..n : ~ Hit(p) => EntitlementsOf(p)' = EntitlementsOf(p)
    <3> SUFFICES ASSUME NEW p \in 0..n, ~ Hit(p)
                 PROVE  {r \in entitlement' : r.plan = p} = {r \in entitlement : r.plan = p}
      BY DEF EntitlementsOf
    <3>1. \A r \in entitlement' : r.plan = p => r \in entitlement
      <4> SUFFICES ASSUME NEW r \in entitlement', r.plan = p PROVE r \in entitlement
        OBVIOUS
      <4>1. ~ \E d \in old : r \in EntitlementRows(d, IdOf(d))
        BY <2>15, <2>16
      <4>2. ~ \E i \in 1..k : r \in EntitlementRows(fresh[i], n + i)
        BY <2>17
      <4> QED
        BY <2>13, <4>1, <4>2
    <3> QED
      BY <2>14, <3>1
  <2>21. \A p \in 1..n : Hit(p) => EntitlementsOf(p)' = EntitlementRows(Of(p), p)
    <3> SUFFICES ASSUME NEW p \in 1..n, Hit(p)
                 PROVE  {r \in entitlement' : r.plan = p} = EntitlementRows(Of(p), p)
      BY DEF EntitlementsOf
    <3>1. Of(p) \in old /\ IdOf(Of(p)) = p
      BY <1>9
    <3>2. \A r \in EntitlementRows(Of(p), p) : r \in entitlement' /\ r.plan = p
      BY <2>14, <2>16, <3>1
    <3>3. \A r \in entitlement' : r.plan = p => r \in EntitlementRows(Of(p), p)
      <4> SUFFICES ASSUME NEW r \in entitlement', r.plan = p PROVE r \in EntitlementRows(Of(p), p)
        OBVIOUS
      <4>1. ~ \E i \in 1..k : r \in EntitlementRows(fresh[i], n + i)
        BY <2>17
      <4>2. PICK d \in old : r \in EntitlementRows(d, IdOf(d))
        BY <2>13, <4>1
      <4>3. IdOf(d) = p /\ d = Of(p)
        BY <2>15, <2>16, <4>2
      <4> QED
        BY <4>2, <4>3
    <3> QED
      BY <3>2, <3>3
  <2>22. \A i \in 1..k : EntitlementsOf(n + i)' = EntitlementRows(fresh[i], n + i)
    <3> SUFFICES ASSUME NEW i \in 1..k
                 PROVE  {r \in entitlement' : r.plan = n + i} = EntitlementRows(fresh[i], n + i)
      BY <1>4 DEF EntitlementsOf
    <3>1. \A r \in EntitlementRows(fresh[i], n + i) : r \in entitlement' /\ r.plan = n + i
      BY <2>14, <2>17
    <3>2. \A r \in entitlement' : r.plan = n + i => r \in EntitlementRows(fresh[i], n + i)
      <4> SUFFICES ASSUME NEW r \in entitlement', r.plan = n + i
                   PROVE  r \in EntitlementRows(fresh[i], n + i)
        OBVIOUS
      <4>1. n + i \notin 0..n
        OBVIOUS
      <4>2. r \notin entitlement
        BY <2>19, <4>1
      <4>3. ~ \E d \in old : r \in EntitlementRows(d, IdOf(d))
        BY <2>15, <2>16, <4>1
      <4>4. PICK j \in 1..k : r \in EntitlementRows(fresh[j], n + j)
        BY <2>13, <4>2, <4>3
      <4>5. n + j = n + i
        BY <2>17, <4>4
      <4>6. j = i
        BY <4>5
      <4> QED
        BY <4>4, <4>6
    <3> QED
      BY <3>1, <3>2
  <2>23. \A p \in DOMAIN catalog' : PlanKept(p)'
    <3> SUFFICES ASSUME NEW p \in 1..(n + k) PROVE PlanKept(p)'
      BY <2>7
    <3>1. CASE p \in 1..n /\ Hit(p)
      BY <2>3, <2>7, <2>11, <2>21, <3>1 DEF PlanKept
    <3>2. CASE p \in 1..n /\ ~ Hit(p)
      <4>1. PlanKept(p)
        BY <1>5, <3>2 DEF CatalogInv
      <4>2. EntitlementsOf(p)' = EntitlementsOf(p)
        BY <2>20, <3>2
      <4>3. catalog'[p] = catalog[p] /\ wrote'[p] = wrote[p]
        BY <2>3, <2>7, <2>11, <3>2
      <4> QED
        BY <4>1, <4>2, <4>3 DEF PlanKept
    <3>3. CASE \E i \in 1..k : p = n + i
      <4>1. PICK i \in 1..k : p = n + i
        BY <3>3
      <4>2. EntitlementsOf(p)' = EntitlementRows(fresh[i], p)
        BY <2>22, <4>1
      <4>3. /\ catalog'[p].price = fresh[i].price
            /\ wrote'[p].by = "seed" /\ wrote'[p].in = fresh[i]
        BY <2>4, <2>7, <2>11, <4>1
      <4> QED
        BY <4>2, <4>3 DEF PlanKept
    <3> QED
      BY <2>12, <3>1, <3>2, <3>3
  <2>24. OneDefaultPlan'
    <3> SUFFICES ASSUME NEW p \in 1..(n + k), NEW q \in 1..(n + k), p # q,
                        catalog'[p].default, catalog'[q].default,
                        wrote'[p].by # "seed", wrote'[q].by # "seed"
                 PROVE  FALSE
      BY <2>7 DEF OneDefaultPlan
    <3>1. \A s \in 1..(n + k) : wrote'[s].by # "seed" =>
             s \in 1..n /\ ~ Hit(s) /\ catalog'[s] = catalog[s] /\ wrote'[s] = wrote[s]
      <4> SUFFICES ASSUME NEW s \in 1..(n + k), wrote'[s].by # "seed"
                   PROVE  s \in 1..n /\ ~ Hit(s) /\ catalog'[s] = catalog[s]
                          /\ wrote'[s] = wrote[s]
        OBVIOUS
      <4>1. s \in 1..n
        BY <2>11, <2>12
      <4>2. ~ Hit(s)
        BY <2>11, <4>1
      <4> QED
        BY <2>3, <2>7, <2>11, <4>1, <4>2
    <3> QED
      BY <1>5, <3>1 DEF CatalogInv, OneDefaultPlan
  <2>25. StrayRowsAreUnique'
    <3>1. ~ Hit(0)
      <4>1. \A d \in old : IdOf(d) # 0
        BY <1>8
      <4> QED
        BY <4>1 DEF Hit
    <3>2. EntitlementsOf(0)' = EntitlementsOf(0)
      BY <2>20, <3>1
    <3> QED
      BY <3>2 DEF CatalogInv, StrayRowsAreUnique
  <2>26. DOMAIN catalog \subseteq DOMAIN catalog' /\ Len(catalog') <= MaxPlans
    BY <1>4, <1>5, <1>10, <1>13, <2>7
  <2> QED
    BY <1>1, <2>7, <2>10, <2>18, <2>23, <2>24, <2>25, <2>26, Committed
<1> QED
  BY <1>12, <1>13 DEF SeedCommit, old, IdOf, Hit, Of, fresh, defs, found

LEMMA CatalogStep == CatalogInv /\ [CatalogNext]_catalogVars => CatalogInv'
<1> SUFFICES ASSUME CatalogInv, [CatalogNext]_catalogVars PROVE CatalogInv'
  OBVIOUS
<1>1. CASE UNCHANGED catalogVars
  <2>1. UNCHANGED <<catalog, entitlement, editing, wrote>>
    BY <1>1 DEF catalogVars
  <2> QED
    BY <2>1 DEF CatalogInv, CatalogTyped, EditOK, RowFits, PlanKept, OneDefaultPlan,
                StrayRowsAreUnique, EntitlementsOf
<1>2. CASE CatalogNext
  <2>1. PICK e \in Editors :
            \/ \E in \in PlanInputs : CreatePlanCheck(e, in)
            \/ \E id \in DOMAIN catalog, in \in PlanInputs : UpdatePlanCheck(e, id, in)
            \/ \E defs \in SeedSets : SeedCheck(e, defs)
            \/ CreatePlanCommit(e) \/ UpdatePlanCommit(e) \/ SeedCommit(e) \/ EditAbort(e)
    BY <1>2 DEF CatalogNext
  <2>2. CASE \E in \in PlanInputs : CreatePlanCheck(e, in)
    BY <2>2, CreateCheckStep
  <2>3. CASE \E id \in DOMAIN catalog, in \in PlanInputs : UpdatePlanCheck(e, id, in)
    BY <2>3, UpdateCheckStep
  <2>4. CASE \E defs \in SeedSets : SeedCheck(e, defs)
    BY <2>4, SeedCheckStep
  <2>5. CASE CreatePlanCommit(e)
    BY <2>5, CreateCommitStep
  <2>6. CASE UpdatePlanCommit(e)
    BY <2>6, UpdateCommitStep
  <2>7. CASE SeedCommit(e)
    BY <2>7, SeedCommitStep
  <2>8. CASE EditAbort(e)
    BY <2>8, EditAbortStep DEF EditAbort
  <2> QED
    BY <2>1, <2>2, <2>3, <2>4, <2>5, <2>6, <2>7, <2>8
<1> QED
  BY <1>1, <1>2

\* The plans in the order of their ids.
LEMMA ViewsAre ==
    ASSUME catalog \in Seq(PlanRow), NEW all \in BOOLEAN
    PROVE  LET ids == {p \in DOMAIN catalog : all \/ catalog[p].status = 1}
               n == Cardinality(ids)
           IN  /\ n \in Nat /\ Len(PlanViews(all)) = n /\ DOMAIN PlanViews(all) = 1..n
               /\ \A i \in 1..n : \E p \in ids : PlanViews(all)[i] = PlanView(p)
               /\ \A p \in ids : \E i \in 1..n : PlanViews(all)[i] = PlanView(p)
               /\ \A i, j \in 1..n : i # j => PlanViews(all)[i] # PlanViews(all)[j]
<1> DEFINE ids == {p \in DOMAIN catalog : all \/ catalog[p].status = 1}
           order == OldestFirst(ids)
<1>1. IsFiniteSet(ids) /\ Numbered(ids)
  <2>1. ids \in SUBSET DOMAIN catalog
    OBVIOUS
  <2> HIDE DEF ids
  <2> QED
    BY <2>1, ListedIn
<1> HIDE DEF ids
<1>2. PICK n \in Nat : n = Cardinality(ids)
  BY <1>1, FS_CardinalityType
<1>3. /\ order \in Seq(ids) /\ Len(order) = n
      /\ \A i, j \in 1..n : i < j => order[i] < order[j]
      /\ \A x \in ids : \E i \in 1..n : order[i] = x
  BY <1>1, <1>2, OldestFirstIs
<1>4. \A i, j \in 1..n : i # j => order[i] # order[j]
  <2> SUFFICES ASSUME NEW i \in 1..n, NEW j \in 1..n, i # j PROVE order[i] # order[j]
    OBVIOUS
  <2> HIDE DEF order
  <2>0. order[i] \in ids /\ order[j] \in ids
    BY <1>3
  <2>1. order[i] \in Int /\ order[j] \in Int
    BY <1>1, <2>0 DEF Numbered
  <2>2. order[i] < order[j] \/ order[j] < order[i]
    BY <1>3
  <2> QED
    BY <2>1, <2>2
<1>5. PlanViews(all) = [i \in DOMAIN order |-> PlanView(order[i])]
  BY DEF PlanViews, ids
<1> HIDE DEF order
<1>6. DOMAIN order = 1..n /\ \A i \in 1..n : order[i] \in ids
  BY <1>3
<1>7. DOMAIN PlanViews(all) = 1..n /\ \A i \in 1..n : PlanViews(all)[i] = PlanView(order[i])
  BY <1>5, <1>6
<1>8. Len(PlanViews(all)) = n
  BY <1>2, <1>5, <1>6
<1>9. \A p, q : PlanView(p) = PlanView(q) => p = q
  <2> SUFFICES ASSUME NEW p, NEW q, PlanView(p) = PlanView(q) PROVE p = q
    OBVIOUS
  <2>1. PlanView(p).id = p /\ PlanView(q).id = q
    BY DEF PlanView
  <2> QED
    BY <2>1
<1>10. /\ \A i \in 1..n : \E p \in ids : PlanViews(all)[i] = PlanView(p)
       /\ \A p \in ids : \E i \in 1..n : PlanViews(all)[i] = PlanView(p)
       /\ \A i, j \in 1..n : i # j => PlanViews(all)[i] # PlanViews(all)[j]
  BY <1>3, <1>4, <1>6, <1>7, <1>9
<1> QED
  BY <1>2, <1>7, <1>8, <1>10 DEF ids

LEMMA PlansAreShown ==
    ASSUME catalog \in Seq(PlanRow)
    PROVE  PlansAreListed
<1> DEFINE all == PlanViews(TRUE)
           ids == {p \in DOMAIN catalog : TRUE \/ catalog[p].status = 1}
           some == PlanViews(FALSE)
           open == {p \in DOMAIN catalog : FALSE \/ catalog[p].status = 1}
<1>1. PICK n \in Nat : /\ Len(all) = n /\ DOMAIN all = 1..n
                       /\ \A i \in 1..n : \E p \in ids : all[i] = PlanView(p)
                       /\ \A p \in ids : \E i \in 1..n : all[i] = PlanView(p)
                       /\ \A i, j \in 1..n : i # j => all[i] # all[j]
  BY ViewsAre
<1>2. PICK m \in Nat : /\ DOMAIN some = 1..m
                       /\ \A i \in 1..m : \E p \in open : some[i] = PlanView(p)
  BY ViewsAre
<1>3. ids = DOMAIN catalog /\ \A p \in open : catalog[p].status = 1
  OBVIOUS
<1>4. \A p : PlanView(p).id = p /\ PlanView(p).row = catalog[p]
  BY DEF PlanView
<1> HIDE DEF all, some, ids, open
<1>5. {v.id : v \in Range(all)} = DOMAIN catalog
  <2>0. Range(all) = {all[i] : i \in 1..n}
    BY <1>1 DEF Range
  <2>1. \A v \in Range(all) : v.id \in DOMAIN catalog
    BY <1>1, <1>3, <1>4, <2>0
  <2>2. \A p \in DOMAIN catalog : \E v \in Range(all) : v.id = p
    <3> SUFFICES ASSUME NEW p \in DOMAIN catalog PROVE \E v \in Range(all) : v.id = p
      OBVIOUS
    <3>1. PICK i \in 1..n : all[i] = PlanView(p)
      BY <1>1, <1>3
    <3> QED
      BY <1>4, <2>0, <3>1
  <2> QED
    BY <2>1, <2>2
<1>6. \A v \in Range(some) : v.row.status = 1
  BY <1>2, <1>3, <1>4 DEF Range
<1>7. Len(all) = Cardinality(Range(all))
  <2>1. all = [i \in 1..n |-> all[i]]
    BY <1>1 DEF all, PlanViews
  <2>2. \A i \in 1..n : all[i] \in Range(all)
    BY <1>1 DEF Range
  <2>3. all \in [1..n -> Range(all)]
    BY <2>1, <2>2
  <2>4. \A v \in Range(all) : \E i \in 1..n : all[i] = v
    BY <1>1 DEF Range
  <2>5. all \in Surjection(1..n, Range(all))
    BY <2>3, <2>4 DEF Surjection
  <2>6. all \in Injection(1..n, Range(all))
    BY <1>1, <2>3 DEF Injection, IsInjective
  <2>7. IsFiniteSet(1..n) /\ Cardinality(1..n) = n
    BY FS_Interval
  <2> QED
    BY <1>1, <2>5, <2>6, <2>7, FS_Surjection
<1> QED
  BY <1>5, <1>6, <1>7 DEF PlansAreListed, all, some

\* What is to be shown of the catalogue.
LEMMA CatalogHolds ==
    ASSUME CatalogInv
    PROVE  CatalogTypeOK /\ PlansHold
<1>1. /\ catalog \in Seq(PlanRow) /\ wrote \in Seq(Written) /\ Len(wrote) = Len(catalog)
      /\ DOMAIN catalog = DOMAIN wrote
  BY DEF CatalogInv, CatalogTyped
<1>2. CatalogTypeOK
  <2>1. \A p \in DOMAIN catalog : catalog[p] \in PlanRow
    BY <1>1
  <2>2. \A p \in DOMAIN catalog : DOMAIN catalog[p] = {"code", "price", "default", "status"}
                                  /\ catalog[p].status \in {0, 1}
    BY <2>1 DEF PlanRow
  <2>3. \A e \in Editors : editing[e].op \in {"none", "create", "update", "seed"}
    BY DEF CatalogInv, CatalogTyped, NoEdit, Creating, Updating, Seeding
  <2> QED
    BY <2>2, <2>3 DEF CatalogTypeOK, CatalogInv, CatalogTyped, RowFits
<1>3. PlansKeepTheirInput
  <2> SUFFICES ASSUME NEW p \in DOMAIN catalog
               PROVE  LET in == wrote[p].in
                      IN  /\ catalog[p].price = in.price
                          /\ wrote[p].by = "create" =>
                                /\ EntitlementsOf(p) = {} /\ catalog[p].status = 1
                                /\ \A i \in DOMAIN in.ents :
                                      /\ EnsureEnabled(p, Trimmed[in.ents[i].code])
                                            = "ErrEntitlementMiss"
                                      /\ EnforceCount(p, Trimmed[in.ents[i].code], 0)
                                            = "ErrEntitlementMiss"
                          /\ wrote[p].by # "create" => EntitlementsOf(p) = EntitlementRows(in, p)
                          /\ wrote[p].by = "update" =>
                                catalog[p].status = NormalizeStatus(in.status)
    BY DEF PlansKeepTheirInput
  <2>1. PlanKept(p)
    BY DEF CatalogInv
  <2>2. EntitlementsOf(p) = {} => \A code : /\ EnsureEnabled(p, code) = "ErrEntitlementMiss"
                                            /\ EnforceCount(p, code, 0) = "ErrEntitlementMiss"
    BY DEF EnsureEnabled, EnforceCount, HasRow
  <2> QED
    BY <2>1, <2>2 DEF PlanKept
<1> QED
  BY <1>1, <1>2, <1>3, PlansAreShown DEF PlansHold, CatalogInv

-----------------------------------------------------------------------------
(* catalog, billing: goods and their price tiers. *)

GoodsInv ==
    /\ \E S, T : goods \in Seq(S) /\ asked \in Seq(T) /\ Len(asked) = Len(goods)
    /\ ItemsAreTheirTenants
    /\ DOMAIN handling = Clerks /\ handling = [c \in Clerks |-> handling[c]]
    /\ \A c \in Clerks : handling[c] # NoItem =>
          LET h == handling[c]
          IN  /\ h.item \in DOMAIN goods /\ ValidItem(h.in)
              /\ goods[h.item] # NoItem => goods[h.item].seller = h.seller

LEMMA GoodsInitOK == GoodsInit => GoodsInv
<1> SUFFICES ASSUME GoodsInit PROVE GoodsInv
  OBVIOUS
<1>1. goods = <<>> /\ asked = <<>> /\ handling = [c \in Clerks |-> NoItem]
  BY DEF GoodsInit
<1>2. \E S, T : goods \in Seq(S) /\ asked \in Seq(T) /\ Len(asked) = Len(goods)
  <2>1. goods \in Seq({}) /\ asked \in Seq({}) /\ Len(asked) = Len(goods)
    BY <1>1
  <2> QED
    BY <2>1
<1> QED
  BY <1>1, <1>2 DEF GoodsInv, ItemsAreTheirTenants

LEMMA Appended ==
    ASSUME NEW S, NEW s \in Seq(S), NEW x
    PROVE  /\ Append(s, x) \in Seq(S \cup {x}) /\ Len(Append(s, x)) = Len(s) + 1
           /\ DOMAIN Append(s, x) = 1..(Len(s) + 1) /\ DOMAIN s = 1..Len(s) /\ Len(s) \in Nat
           /\ \A i \in 1..Len(s) : Append(s, x)[i] = s[i]
           /\ Append(s, x)[Len(s) + 1] = x
<1>1. s \in Seq(S \cup {x})
  OBVIOUS
<1> QED
  BY <1>1

LEMMA Replaced ==
    ASSUME NEW S, NEW s \in Seq(S), NEW i \in DOMAIN s, NEW x
    PROVE  /\ [s EXCEPT ![i] = x] \in Seq(S \cup {x})
           /\ Len([s EXCEPT ![i] = x]) = Len(s) /\ DOMAIN [s EXCEPT ![i] = x] = DOMAIN s
           /\ [s EXCEPT ![i] = x][i] = x
           /\ \A j \in DOMAIN s : j # i => [s EXCEPT ![i] = x][j] = s[j]
<1>1. s \in Seq(S \cup {x}) /\ x \in S \cup {x}
  OBVIOUS
<1> QED
  BY <1>1

LEMMA CreateItemStep ==
    ASSUME GoodsInv, NEW c \in Clerks, NEW s, NEW in, CreateItem(c, s, in)
    PROVE  GoodsInv'
<1>1. PICK S, T : goods \in Seq(S) /\ asked \in Seq(T) /\ Len(asked) = Len(goods)
  BY DEF GoodsInv
<1>2. /\ goods' = Append(goods, ItemRow(s, in)) /\ UNCHANGED handling /\ ValidItem(in)
      /\ asked' = Append(asked, [seller |-> s, in |-> in])
  BY DEF CreateItem
<1>3. PICK row, req : row = ItemRow(s, in) /\ req = [seller |-> s, in |-> in]
  OBVIOUS
<1>4. PICK n \in Nat : n = Len(goods)
  BY <1>1
<1>5. /\ goods' \in Seq(S \cup {row}) /\ Len(goods') = n + 1 /\ DOMAIN goods' = 1..(n + 1)
      /\ DOMAIN goods = 1..n /\ goods'[n + 1] = row
      /\ \A i \in 1..n : goods'[i] = goods[i]
  BY <1>1, <1>2, <1>3, <1>4, Appended
<1>6. /\ asked' \in Seq(T \cup {req}) /\ Len(asked') = n + 1 /\ asked'[n + 1] = req
      /\ \A i \in 1..n : asked'[i] = asked[i]
  BY <1>1, <1>2, <1>3, <1>4, Appended
<1>7. ItemsAreTheirTenants'
  <2> SUFFICES ASSUME NEW i \in 1..(n + 1), goods'[i] # NoItem
               PROVE  /\ goods'[i] = ItemRow(asked'[i].seller, asked'[i].in)
                      /\ ValidItem(asked'[i].in)
    BY <1>5 DEF ItemsAreTheirTenants
  <2>1. CASE i = n + 1
    BY <1>2, <1>3, <1>5, <1>6, <2>1
  <2>2. CASE i \in 1..n
    BY <1>5, <1>6, <2>2 DEF GoodsInv, ItemsAreTheirTenants
  <2> QED
    BY <1>4, <2>1, <2>2
<1>8. \E U, V : goods' \in Seq(U) /\ asked' \in Seq(V) /\ Len(asked') = Len(goods')
  BY <1>5, <1>6
<1> QED
  BY <1>2, <1>4, <1>5, <1>7, <1>8 DEF GoodsInv

LEMMA UpdateTakeStep ==
    ASSUME GoodsInv, NEW c \in Clerks, NEW s, NEW i \in DOMAIN goods, NEW in,
           UpdateTake(c, s, i, in)
    PROVE  GoodsInv'
<1> DEFINE h == [item |-> i, seller |-> s, in |-> in]
<1>1. /\ handling' = [handling EXCEPT ![c] = h] /\ UNCHANGED <<goods, asked>>
      /\ goods[i].seller = s /\ ValidItem(in)
  BY DEF UpdateTake, OwnItem
<1>2. /\ DOMAIN handling' = Clerks /\ handling' = [d \in Clerks |-> handling'[d]]
      /\ handling'[c] = h /\ \A d \in Clerks : d # c => handling'[d] = handling[d]
  <2> HIDE DEF h
  <2>1. handling = [d \in Clerks |-> handling[d]]
    BY DEF GoodsInv
  <2> QED
    BY <1>1, <2>1
<1>3. \A d \in Clerks : handling'[d] # NoItem =>
         /\ handling'[d].item \in DOMAIN goods /\ ValidItem(handling'[d].in)
         /\ goods[handling'[d].item] # NoItem =>
               goods[handling'[d].item].seller = handling'[d].seller
  <2> SUFFICES ASSUME NEW d \in Clerks, handling'[d] # NoItem
               PROVE  /\ handling'[d].item \in DOMAIN goods /\ ValidItem(handling'[d].in)
                      /\ goods[handling'[d].item] # NoItem =>
                            goods[handling'[d].item].seller = handling'[d].seller
    OBVIOUS
  <2>1. CASE d = c
    BY <1>1, <1>2, <2>1
  <2>2. CASE d # c
    BY <1>2, <2>2 DEF GoodsInv
  <2> QED
    BY <2>1, <2>2
<1> QED
  BY <1>1, <1>2, <1>3 DEF GoodsInv, ItemsAreTheirTenants

\* An item is put in its place, or taken away, with its tenant unchanged.
LEMMA ItemPut ==
    ASSUME GoodsInv, NEW i \in DOMAIN goods, NEW row, goods' = [goods EXCEPT ![i] = row],
           row # NoItem => row.seller = goods[i].seller /\ goods[i] # NoItem
    PROVE  /\ \E S : goods' \in Seq(S) /\ Len(goods') = Len(goods)
           /\ DOMAIN goods' = DOMAIN goods /\ goods'[i] = row
           /\ \A j \in DOMAIN goods : j # i => goods'[j] = goods[j]
           /\ \A c \in Clerks : handling[c] # NoItem =>
                 /\ handling[c].item \in DOMAIN goods' /\ ValidItem(handling[c].in)
                 /\ goods'[handling[c].item] # NoItem =>
                       goods'[handling[c].item].seller = handling[c].seller
<1>1. PICK S : goods \in Seq(S)
  BY DEF GoodsInv
<1>2. /\ goods' \in Seq(S \cup {row}) /\ Len(goods') = Len(goods) /\ DOMAIN goods' = DOMAIN goods
      /\ goods'[i] = row /\ \A j \in DOMAIN goods : j # i => goods'[j] = goods[j]
  BY <1>1, Replaced
<1>3. ASSUME NEW c \in Clerks, handling[c] # NoItem
      PROVE  /\ handling[c].item \in DOMAIN goods' /\ ValidItem(handling[c].in)
             /\ goods'[handling[c].item] # NoItem =>
                   goods'[handling[c].item].seller = handling[c].seller
  <2>1. /\ handling[c].item \in DOMAIN goods /\ ValidItem(handling[c].in)
        /\ goods[handling[c].item] # NoItem =>
              goods[handling[c].item].seller = handling[c].seller
    BY <1>3 DEF GoodsInv
  <2>2. CASE handling[c].item = i
    BY <1>2, <2>1, <2>2
  <2>3. CASE handling[c].item # i
    BY <1>2, <2>1, <2>3
  <2> QED
    BY <2>2, <2>3
<1> QED
  BY <1>2, <1>3

LEMMA UpdateWriteStep ==
    ASSUME GoodsInv, NEW c \in Clerks, UpdateWrite(c)
    PROVE  GoodsInv'
<1>1. PICK h : h = handling[c]
  OBVIOUS
<1>2. h # NoItem /\ handling' = [handling EXCEPT ![c] = NoItem]
  BY <1>1 DEF UpdateWrite
<1>3. /\ h.item \in DOMAIN goods /\ ValidItem(h.in)
      /\ goods[h.item] # NoItem => goods[h.item].seller = h.seller
  BY <1>1, <1>2 DEF GoodsInv
<1>4. /\ DOMAIN handling' = Clerks /\ handling' = [d \in Clerks |-> handling'[d]]
      /\ \A d \in Clerks : handling'[d] # NoItem => handling'[d] = handling[d]
  <2>1. handling = [d \in Clerks |-> handling[d]]
    BY DEF GoodsInv
  <2> QED
    BY <1>2, <2>1
<1>5. CASE UNCHANGED <<goods, asked>>
  <2>1. \A d \in Clerks : handling'[d] # NoItem =>
           /\ handling'[d].item \in DOMAIN goods /\ ValidItem(handling'[d].in)
           /\ goods[handling'[d].item] # NoItem =>
                 goods[handling'[d].item].seller = handling'[d].seller
    BY <1>4 DEF GoodsInv
  <2> QED
    BY <1>4, <1>5, <2>1 DEF GoodsInv, ItemsAreTheirTenants
<1>6. CASE /\ goods[h.item] # NoItem
           /\ goods' = [goods EXCEPT ![h.item] = ItemRow(goods[h.item].seller, h.in)]
           /\ asked' = [asked EXCEPT ![h.item] = [seller |-> h.seller, in |-> h.in]]
  <2>1. PICK i \in DOMAIN goods : i = h.item
    BY <1>3
  <2>2. PICK row, req : /\ row = ItemRow(goods[i].seller, h.in)
                        /\ req = [seller |-> h.seller, in |-> h.in]
    OBVIOUS
  <2>3. row.seller = goods[i].seller /\ goods[i] # NoItem
    BY <1>6, <2>1, <2>2 DEF ItemRow
  <2>4. /\ \E S : goods' \in Seq(S) /\ Len(goods') = Len(goods)
        /\ DOMAIN goods' = DOMAIN goods /\ goods'[i] = row
        /\ \A j \in DOMAIN goods : j # i => goods'[j] = goods[j]
        /\ \A d \in Clerks : handling[d] # NoItem =>
              /\ handling[d].item \in DOMAIN goods' /\ ValidItem(handling[d].in)
              /\ goods'[handling[d].item] # NoItem =>
                    goods'[handling[d].item].seller = handling[d].seller
    BY <1>6, <2>1, <2>2, <2>3, ItemPut
  <2>5. PICK T : asked \in Seq(T) /\ Len(asked) = Len(goods)
    BY DEF GoodsInv
  <2>6. i \in DOMAIN asked /\ DOMAIN asked = DOMAIN goods
    <3>1. \E S : goods \in Seq(S)
      BY DEF GoodsInv
    <3> QED
      BY <2>5, <3>1
  <2>7. /\ asked' \in Seq(T \cup {req}) /\ Len(asked') = Len(asked) /\ asked'[i] = req
        /\ \A j \in DOMAIN asked : j # i => asked'[j] = asked[j]
    BY <1>6, <2>1, <2>2, <2>5, <2>6, Replaced
  <2>8. ItemsAreTheirTenants'
    <3> SUFFICES ASSUME NEW j \in DOMAIN goods, goods'[j] # NoItem
                 PROVE  /\ goods'[j] = ItemRow(asked'[j].seller, asked'[j].in)
                        /\ ValidItem(asked'[j].in)
      BY <2>4 DEF ItemsAreTheirTenants
    <3>1. CASE j = i
      <4>1. goods[i].seller = h.seller
        BY <1>3, <2>1, <2>3
      <4> QED
        BY <1>3, <2>2, <2>4, <2>7, <3>1, <4>1
    <3>2. CASE j # i
      BY <2>4, <2>6, <2>7, <3>2 DEF GoodsInv, ItemsAreTheirTenants
    <3> QED
      BY <3>1, <3>2
  <2>9. \E U, V : goods' \in Seq(U) /\ asked' \in Seq(V) /\ Len(asked') = Len(goods')
    BY <2>4, <2>5, <2>7
  <2>10. \A d \in Clerks : handling'[d] # NoItem =>
           /\ handling'[d].item \in DOMAIN goods' /\ ValidItem(handling'[d].in)
           /\ goods'[handling'[d].item] # NoItem =>
                 goods'[handling'[d].item].seller = handling'[d].seller
    BY <1>4, <2>4
  <2> QED
    BY <1>4, <2>8, <2>9, <2>10 DEF GoodsInv
<1> QED
  BY <1>1, <1>5, <1>6 DEF UpdateWrite

LEMMA DeleteItemStep ==
    ASSUME GoodsInv, NEW c \in Clerks, NEW s, NEW i \in DOMAIN goods, DeleteItem(c, s, i)
    PROVE  GoodsInv'
<1>1. goods' = [goods EXCEPT ![i] = NoItem] /\ UNCHANGED <<asked, handling>>
  BY DEF DeleteItem
<1>2. PICK row : row = NoItem
  OBVIOUS
<1>3. /\ \E S : goods' \in Seq(S) /\ Len(goods') = Len(goods)
      /\ DOMAIN goods' = DOMAIN goods /\ goods'[i] = row
      /\ \A j \in DOMAIN goods : j # i => goods'[j] = goods[j]
      /\ \A d \in Clerks : handling[d] # NoItem =>
            /\ handling[d].item \in DOMAIN goods' /\ ValidItem(handling[d].in)
            /\ goods'[handling[d].item] # NoItem =>
                  goods'[handling[d].item].seller = handling[d].seller
  BY <1>1, <1>2, ItemPut
<1>4. ItemsAreTheirTenants'
  <2> SUFFICES ASSUME NEW j \in DOMAIN goods, goods'[j] # NoItem
               PROVE  /\ goods'[j] = ItemRow(asked[j].seller, asked[j].in)
                      /\ ValidItem(asked[j].in)
    BY <1>1, <1>3 DEF ItemsAreTheirTenants
  <2>1. goods'[j] = goods[j]
    BY <1>2, <1>3
  <2> QED
    BY <2>1 DEF GoodsInv, ItemsAreTheirTenants
<1>5. \E U, V : goods' \in Seq(U) /\ asked \in Seq(V) /\ Len(asked) = Len(goods')
  BY <1>3 DEF GoodsInv
<1> QED
  BY <1>1, <1>3, <1>4, <1>5 DEF GoodsInv

LEMMA GoodsStep == GoodsInv /\ [GoodsNext]_goodsVars => GoodsInv'
<1> SUFFICES ASSUME GoodsInv, [GoodsNext]_goodsVars PROVE GoodsInv'
  OBVIOUS
<1>1. CASE UNCHANGED goodsVars
  <2>1. UNCHANGED <<goods, handling, asked>>
    BY <1>1 DEF goodsVars
  <2> QED
    BY <2>1 DEF GoodsInv, ItemsAreTheirTenants
<1>2. CASE GoodsNext
  BY <1>2, CreateItemStep, UpdateTakeStep, UpdateWriteStep, DeleteItemStep DEF GoodsNext
<1> QED
  BY <1>1, <1>2

\* The pages of a shop's items.
LEMMA ItemsArePages ==
    ASSUME NEW S, goods \in Seq(S), NEW seller, NEW status, NEW size \in 1..2
    PROVE  LET page(n) == Items(seller, 0, status, n, size)
               all == FlattenSeq([n \in 1..(page(1).total \div size + 1) |-> page(n).items])
               ids == Matching(seller, 0, status)
           IN  /\ Len(all) = page(1).total /\ Range(all) = ids
               /\ \A i, j \in DOMAIN all : i < j => all[i] < all[j]
<1> DEFINE ids == Matching(seller, 0, status)
           rows == OldestFirst(ids)
           N == Cardinality(ids)
           K == N \div size + 1
           page(n) == Items(seller, 0, status, n, size)
           lists == [n \in 1..K |-> page(n).items]
<1>1. IsFiniteSet(ids) /\ Numbered(ids)
  <2>1. ids \in SUBSET DOMAIN goods
    BY DEF Matching
  <2> HIDE DEF ids
  <2> QED
    BY <2>1, ListedIn
<1> HIDE DEF ids
<1>2. /\ N \in Nat /\ rows \in Seq(ids) /\ Len(rows) = N
      /\ \A i, j \in 1..N : i < j => rows[i] < rows[j]
      /\ \A x \in ids : \E i \in 1..N : rows[i] = x
  BY <1>1, OldestFirstIs
<1>3. K \in Nat \ {0} /\ K * size >= N
  <2> HIDE DEF N
  <2>1. size \in Nat \ {0} /\ N \in Nat
    BY <1>2
  <2>2. N \div size \in Nat /\ (N \div size + 1) * size >= N
    BY <2>1, Division
  <2> QED
    BY <2>2
<1>4. \A n : page(n).total = Len(rows)
  BY DEF Items, ids
<1>5. \A n \in 1..K : page(n).items = SubSeq(rows, (n - 1) * size + 1, Cut(n, size, Len(rows)))
  <2> SUFFICES ASSUME NEW n \in 1..K
               PROVE  page(n).items = SubSeq(rows, (n - 1) * size + 1, Cut(n, size, Len(rows)))
    OBVIOUS
  <2>1. (n - 1) * size + size = n * size
    <3>1. n \in Int /\ size \in {1, 2}
      BY <1>3
    <3> HIDE DEF K
    <3> QED
      BY <3>1
  <2>2. page(n).items = SubSeq(rows, (n - 1) * size + 1,
                               IF (n - 1) * size + size < Len(rows)
                               THEN (n - 1) * size + size ELSE Len(rows))
    BY DEF Items, ids
  <2> HIDE DEF page, rows, K
  <2> QED
    BY <2>1, <2>2 DEF Cut
<1>6. lists = PagesIn(rows, size, K)
  <2> HIDE DEF page, rows, K
  <2> QED
    BY <1>5 DEF PagesIn
<1>7. FlattenSeq(lists) = rows
  <2> HIDE DEF lists, rows, K, N
  <2>1. rows \in Seq(ids) /\ size \in Nat \ {0} /\ K \in Nat \ {0} /\ K * size >= Len(rows)
    BY <1>2, <1>3
  <2> QED
    BY <1>6, <2>1, Flattened
<1>8. [n \in 1..(page(1).total \div size + 1) |-> page(n).items] = lists
  <2>1. page(1).total = N
    BY <1>2, <1>4
  <2> HIDE DEF page, N
  <2> QED
    BY <2>1
<1>9. Range(rows) = ids /\ \A i, j \in DOMAIN rows : i < j => rows[i] < rows[j]
  <2> HIDE DEF rows, N
  <2> QED
    BY <1>2 DEF Range
<1>10. LET all == FlattenSeq([n \in 1..(page(1).total \div size + 1) |-> page(n).items])
       IN  /\ Len(all) = page(1).total /\ Range(all) = ids
           /\ \A i, j \in DOMAIN all : i < j => all[i] < all[j]
  <2>1. page(1).total = Len(rows)
    BY <1>4
  <2> HIDE DEF page, rows, lists
  <2> QED
    BY <1>7, <1>8, <1>9, <2>1
<1> QED
  BY <1>10 DEF ids

LEMMA ItemsShown ==
    ASSUME GoodsInv
    PROVE  GoodsHold
<1>0. ~ (0 > 0)
  OBVIOUS
<1>1. PICK S : goods \in Seq(S)
  BY DEF GoodsInv
<1>2. ItemPagesHold
  <2> SUFFICES ASSUME NEW seller \in Sellers, NEW status \in {"", "enabled"}, NEW size \in 1..2
               PROVE  LET page(n) == Items(seller, 0, status, n, size)
                          all == FlattenSeq([n \in 1..(page(1).total \div size + 1)
                                                |-> page(n).items])
                      IN  /\ Len(all) = page(1).total
                          /\ Range(all) = {i \in DOMAIN goods :
                                             /\ goods[i].seller = seller
                                             /\ status # "" => goods[i].status = status}
                          /\ \A i, j \in DOMAIN all : i < j => all[i] < all[j]
    BY DEF ItemPagesHold
  <2>1. Matching(seller, 0, status) = {i \in DOMAIN goods :
                                          /\ goods[i].seller = seller
                                          /\ status # "" => goods[i].status = status}
    BY <1>0, Zenon DEF Matching
  <2> QED
    BY <1>1, <2>1, ItemsArePages
<1> QED
  BY <1>2 DEF GoodsHold, GoodsInv

\* Renewals, whatever the tiers.
LEMMA RenewalsAreRight == RenewalsHold
<1> SUFFICES ASSUME NEW list \in PriceLists, ValidatePriceTiers(list.kind, list.tiers),
                    NEW i \in DOMAIN list.tiers, NEW j \in DOMAIN list.tiers
             PROVE  LET first == ExpiredAt(list.tiers[i].days, 1)
                        next  == ExtendExpiredAt(first, list.tiers[j].days)
                    IN  /\ next >= first
                        /\ IsLongTerm(next) <=> list.tiers[i].days = 0
                        /\ list.tiers[j].days = 0 => next = first
                        /\ i # j => \/ CycleLabel(list.tiers[i].days) # ""
                                    \/ CycleLabel(list.tiers[j].days) # ""
                        /\ ExtendExpiredAt(next, list.tiers[i].days)
                             = ExtendExpiredAt(ExtendExpiredAt(first, list.tiers[i].days),
                                               list.tiers[j].days)
  BY DEF RenewalsHold
<1>1. PICK d, e : d = list.tiers[i].days /\ e = list.tiers[j].days
  OBVIOUS
<1>2. d \in Durations /\ e \in Durations
  <2>1. PICK T : T = [days : Durations, price : Int]
    OBVIOUS
  <2>2. list.tiers \in Seq(T) /\ \A tier \in T : tier.days \in Durations
    BY <2>1, PriceListsAssumption
  <2>3. list.tiers[i] \in T /\ list.tiers[j] \in T
    BY <2>2
  <2> QED
    BY <1>1, <2>2, <2>3
<1>3. d \in Int /\ e \in Int /\ d + e + 1 < LongTerm /\ d + d + 1 < LongTerm /\ LongTerm \in Nat
  BY <1>2, TimesAssumption
<1>4. d >= 0 /\ e >= 0
  BY <1>1 DEF ValidatePriceTiers
<1>5. i # j => d # e
  <2>1. PICK n \in Nat : DOMAIN list.tiers = 1..n
    <3>1. list.tiers \in Seq([days : Durations, price : Int])
      BY PriceListsAssumption
    <3> QED
      BY <3>1
  <2>2. i \in 1..n /\ j \in 1..n
    BY <2>1
  <2>3. CASE i < j
    <3>1. i \in 1..(j - 1)
      BY <2>2, <2>3
    <3> QED
      BY <1>1, <3>1 DEF ValidatePriceTiers
  <2>4. CASE j < i
    <3>1. j \in 1..(i - 1)
      BY <2>2, <2>4
    <3> QED
      BY <1>1, <3>1 DEF ValidatePriceTiers
  <2> QED
    BY <2>2, <2>3, <2>4
<1>6. \A x \in Int : x > 0 => CycleLabel(x) # ""
  <2> SUFFICES ASSUME NEW x \in Int, x > 0 PROVE CycleLabel(x) # ""
    OBVIOUS
  <2>1. CASE x >= YearCycleMinDays
    <3>1. CycleLabel(x) = "year"
      <4>1. ~ (x <= 0) /\ ~ (x > 0 /\ x <= MonthCycleMaxDays)
        BY <2>1, TimesAssumption
      <4> QED
        BY <2>1, <4>1 DEF CycleLabel
    <3> QED
      BY <3>1
  <2>2. CASE x <= MonthCycleMaxDays
    <3>1. CycleLabel(x) = "month"
      <4>1. ~ (x <= 0) /\ ~ (x >= YearCycleMinDays)
        BY <2>2, TimesAssumption
      <4> QED
        BY <2>2, <4>1 DEF CycleLabel
    <3> QED
      BY <3>1
  <2>3. CASE ~ (x >= YearCycleMinDays) /\ ~ (x <= MonthCycleMaxDays)
    <3>1. CycleLabel(x) = "days"
      <4>1. ~ (x <= 0)
        OBVIOUS
      <4> QED
        BY <2>3, <4>1 DEF CycleLabel
    <3> QED
      BY <3>1
  <2> QED
    BY <2>1, <2>2, <2>3
<1>7. i # j => CycleLabel(d) # "" \/ CycleLabel(e) # ""
  <2>1. i # j => d > 0 \/ e > 0
    BY <1>3, <1>4, <1>5
  <2> QED
    BY <1>3, <1>6, <2>1
<1>8. LET first == ExpiredAt(d, 1)
          next  == ExtendExpiredAt(first, e)
      IN  /\ next >= first
          /\ IsLongTerm(next) <=> d = 0
          /\ e = 0 => next = first
          /\ ExtendExpiredAt(next, d) = ExtendExpiredAt(ExtendExpiredAt(first, d), e)
  BY <1>3, <1>4 DEF ExpiredAt, ExtendExpiredAt, IsLongTerm
<1> QED
  BY <1>1, <1>7, <1>8

-----------------------------------------------------------------------------
(* The catalogues and the lists: the theorem *)

\* What each part keeps; the lists of a part are of rows it numbers.
PartsInv ==
    /\ part = "coupon" => CouponInv
    /\ part = "card" => CardInv
    /\ \E S : ledger \in Seq(S)
    /\ CatalogInv
    /\ GoodsInv

LEMMA PartsInitOK == Init => PartsInv
<1> SUFFICES ASSUME Init PROVE PartsInv
  OBVIOUS
<1>1. part = "coupon" => CouponInv
  BY CouponInvInit DEF Init
<1>2. CardInv /\ CatalogInv /\ GoodsInv
  BY CardInvInit, CatalogInitOK, GoodsInitOK DEF Init
<1>3. \E S : ledger \in Seq(S)
  <2>1. ledger \in Seq({})
    BY DEF Init, MemberInit
  <2> QED
    BY <2>1
<1> QED
  BY <1>1, <1>2, <1>3 DEF PartsInv

\* A settlement, a recharge or what fails of them adds a row to the ledger or none.
LEMMA LedgerGrows ==
    ASSUME SettleNext
    PROVE  ledger' = ledger \/ \E row : ledger' = Append(ledger, row)
<1>1. ASSUME NEW d \in Callers, DeductCommit(d) \/ RechargeCommit(d)
      PROVE  \E row : ledger' = Append(ledger, row)
  BY <1>1 DEF DeductCommit, RechargeCommit
<1>2. ASSUME NEW d \in Callers, ~ (DeductCommit(d) \/ RechargeCommit(d)),
             \/ ApplyClaimed(d) \/ ApplyDeducts(d) \/ ApplyDeducted(d)
             \/ ApplyWithoutBalance(d) \/ ApplyFails(d)
             \/ RechargeCommit(d) \/ SavingFails(d)
      PROVE  ledger' = ledger
  BY <1>2 DEF ApplyClaimed, ApplyDeducts, ApplyDeducted, ApplyWithoutBalance, ApplyFails,
              DeductRead, Read, DeductNothing, SavingFails, memberVars
<1>3. ASSUME NEW d \in Callers, NEW h \in Holders, NEW a \in Amounts, RechargeRead(d, h, a)
      PROVE  ledger' = ledger
  BY <1>3 DEF RechargeRead, Read
<1>4. ASSUME NEW d, NEW h, NEW total, NEW b,
             \/ ApplyWithoutCoupon(d, h, total, b)
             \/ \E i \in 1..MaxCoupons : ApplyWithCoupon(d, h, total, i, b)
      PROVE  ledger' = ledger
  BY <1>4 DEF ApplyWithoutCoupon, ApplyWithCoupon, memberVars
<1>5. ASSUME NEW d \in Callers, ApplyDeducted(d), DeductCommit(d)
      PROVE  \E row : ledger' = Append(ledger, row)
  BY <1>1, <1>5
<1>6. CASE Settlements
  BY <1>1, <1>2, <1>3, <1>4, <1>6 DEF Settlements
<1>7. CASE UNCHANGED <<memberVars, settlement>>
  BY <1>7 DEF memberVars
<1> QED
  BY <1>6, <1>7 DEF SettleNext

LEMMA PartsStep == PartsInv /\ [Next]_<<part, everything>> => PartsInv'
<1> SUFFICES ASSUME PartsInv, [Next]_<<part, everything>> PROVE PartsInv'
  OBVIOUS
<1>1. UNCHANGED part
  BY DEF Next
<1>2. part = "coupon" => [CouponNext]_couponVars
  BY DEF Next, Still, everything, settleVars
<1>3. part = "card" => [CardNext]_cardVars
  BY DEF Next, Still, everything
<1>4. [CatalogNext]_catalogVars
  BY DEF Next, Still, everything
<1>5. [GoodsNext]_goodsVars
  BY DEF Next, Still, everything
<1>6. SettleNext \/ UNCHANGED memberVars
  BY DEF Next, Still, everything, settleVars
<1>7. \E S : ledger' \in Seq(S)
  <2>1. PICK S : ledger \in Seq(S)
    BY DEF PartsInv
  <2>2. ledger' = ledger \/ \E row : ledger' = Append(ledger, row)
    BY <1>6, LedgerGrows DEF memberVars
  <2>3. CASE ledger' = ledger
    BY <2>1, <2>3
  <2>4. ASSUME NEW row, ledger' = Append(ledger, row)
        PROVE  \E T : ledger' \in Seq(T)
    <3>1. ledger' \in Seq(S \cup {row})
      BY <2>1, <2>4, Appended
    <3> QED
      BY <3>1
  <2> QED
    BY <2>2, <2>3, <2>4
<1>8. part = "coupon" => CouponInv'
  BY <1>2, CouponStep DEF PartsInv
<1>9. part = "card" => CardInv'
  BY <1>3, CardStep DEF PartsInv
<1>10. CatalogInv' /\ GoodsInv'
  BY <1>4, <1>5, CatalogStep, GoodsStep DEF PartsInv
<1> QED
  BY <1>1, <1>7, <1>8, <1>9, <1>10 DEF PartsInv

\* The rows of a list that are shown are all shown.
LEMMA ListIsShown ==
    ASSUME NEW S, NEW s \in Seq(S), NEW T \in SUBSET DOMAIN s
    PROVE  PagesAreTheList(T, 2)
<1>1. IsFiniteSet(T) /\ Numbered(T) /\ 2 \in 1..100
  BY ListedIn
<1> QED
  BY <1>1, PagesHold

LEMMA PartsAreShown == PartsInv => CataloguesHold
<1> SUFFICES ASSUME PartsInv PROVE CataloguesHold
  OBVIOUS
<1>1. CatalogTypeOK /\ PlansHold
  BY CatalogHolds DEF PartsInv
<1>2. GoodsHold /\ RenewalsHold
  BY ItemsShown, RenewalsAreRight DEF PartsInv
<1>3. ASSUME part = "coupon", NEW h, NEW s
      PROVE  PagesAreTheList(CouponsListed(h, s), 2)
  <2>1. coupon \in Seq(CouponModel)
    BY <1>3 DEF PartsInv, CouponInv, CouponTypeOK
  <2>2. CouponsListed(h, s) \in SUBSET DOMAIN coupon
    BY DEF CouponsListed
  <2> QED
    BY <2>1, <2>2, ListIsShown
<1>4. ASSUME part = "card", NEW h, NEW s
      PROVE  PagesAreTheList(CardsListed(h, s), 2)
  <2>1. \E S : card \in Seq(S)
    BY <1>4 DEF PartsInv, CardInv, CardTypeOK
  <2>2. CardsListed(h, s) \in SUBSET DOMAIN card
    BY DEF CardsListed
  <2> QED
    BY <2>1, <2>2, ListIsShown
<1>5. ASSUME NEW h, NEW s
      PROVE  PagesAreTheList(TransactionsListed(h, s), 2)
  <2>1. PICK S : ledger \in Seq(S)
    BY DEF PartsInv
  <2>2. TransactionsListed(h, s) \in SUBSET DOMAIN ledger
    BY DEF TransactionsListed
  <2> QED
    BY <2>1, <2>2, ListIsShown
<1> QED
  BY <1>1, <1>2, <1>3, <1>4, <1>5 DEF CataloguesHold

\* Whatever administrators and clerks ask for, and however their edits cross:
\* the catalogue of plans holds what was asked for, an item what its own
\* tenant asked for, no renewal shortens what was paid, and every list of the
\* engines, page by page, shows each of its rows once and in order
\* (plan/engine.go, catalog/engine.go, billing.go, member.NormalizeQuery).
THEOREM CataloguesAreRight == Spec => []CataloguesHold
BY PartsInitOK, PartsStep, PartsAreShown, PTL DEF Spec
=============================================================================
