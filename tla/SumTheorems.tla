---------------------------- MODULE SumTheorems -----------------------------
EXTENDS Integers, FiniteSetsExt, FiniteSetTheorems, WellFoundedInduction, TLAPS

Pick(s) == CHOOSE y \in s : TRUE

\* g adds up F over the subsets of S, as the fold of the community modules does.
Adds(g, F, S) ==
    g = [s \in SUBSET S |-> IF s = {} THEN 0 ELSE F[Pick(s)] + g[s \ {Pick(s)}]]

LEMMA LeastSet ==
    ASSUME NEW S, IsFiniteSet(S), NEW T \in SUBSET SUBSET S, T # {}
    PROVE  \E x \in T : \A y \in T : ~ (y \subseteq x /\ y # x)
<1>1. IsWellFoundedOn(StrictSubsetOrdering(S), SUBSET S)
  BY FS_StrictSubsetOrderingWellFounded, FS_FiniteSubsetsOfFinite
<1>2. \E x \in T : \A y \in T : ~ (<<y, x>> \in StrictSubsetOrdering(S))
  BY <1>1, WFMin
<1> QED
  BY <1>2 DEF StrictSubsetOrdering

LEMMA PickIn ==
    ASSUME NEW s, s # {}
    PROVE  Pick(s) \in s
BY DEF Pick

LEMMA AddsAt ==
    ASSUME NEW S, NEW F, NEW g, Adds(g, F, S), NEW s \in SUBSET S
    PROVE  /\ s = {} => g[s] = 0
           /\ s # {} => /\ g[s] = F[Pick(s)] + g[s \ {Pick(s)}]
                        /\ Pick(s) \in s
<1> DEFINE f(t) == IF t = {} THEN 0 ELSE F[Pick(t)] + g[t \ {Pick(t)}]
<1>1. g = [t \in SUBSET S |-> f(t)]
  BY DEF Adds
<1> HIDE DEF f
<1>2. g[s] = f(s)
  BY <1>1
<1> QED
  BY <1>2, PickIn DEF f

\* Where two functions agree, so do their sums.
LEMMA SumsAgree ==
    ASSUME NEW S, IsFiniteSet(S), NEW R, NEW F, NEW G, NEW g, NEW h,
           Adds(g, F, S), Adds(h, G, R),
           NEW u \in SUBSET S, u \subseteq R, \A x \in u : F[x] = G[x]
    PROVE  g[u] = h[u]
<1> DEFINE T == {s \in SUBSET u : g[s] # h[s]}
<1>1. SUFFICES ASSUME T # {} PROVE FALSE
  OBVIOUS
<1>2. IsFiniteSet(u)
  BY FS_Subset
<1>3. PICK s \in T : \A y \in T : ~ (y \subseteq s /\ y # s)
  <2>1. T \in SUBSET SUBSET u
    OBVIOUS
  <2> HIDE DEF T
  <2> QED
    BY <1>1, <1>2, <2>1, LeastSet
<1>4. s \in SUBSET S /\ s \in SUBSET R
  OBVIOUS
<1>5. s # {}
  <2>1. s = {} => g[s] = 0
    BY <1>4, AddsAt
  <2>2. s = {} => h[s] = 0
    BY <1>4, AddsAt
  <2> QED
    BY <2>1, <2>2
<1>6. /\ Pick(s) \in s
      /\ g[s] = F[Pick(s)] + g[s \ {Pick(s)}]
      /\ h[s] = G[Pick(s)] + h[s \ {Pick(s)}]
  <2>1. g[s] = F[Pick(s)] + g[s \ {Pick(s)}] /\ Pick(s) \in s
    BY <1>4, <1>5, AddsAt
  <2>2. h[s] = G[Pick(s)] + h[s \ {Pick(s)}]
    BY <1>4, <1>5, AddsAt
  <2> QED
    BY <2>1, <2>2
<1>7. g[s \ {Pick(s)}] = h[s \ {Pick(s)}]
  BY <1>3, <1>6
<1> QED
  BY <1>6, <1>7

\* The sums of a finite set exist.
LEMMA SumsExist ==
    ASSUME NEW S, IsFiniteSet(S), NEW F
    PROVE  \E g : Adds(g, F, S)
<1> DEFINE T == {s \in SUBSET S : ~ \E g : Adds(g, F, s)}
<1>1. SUFFICES ASSUME T # {} PROVE FALSE
  OBVIOUS
<1>2. PICK x \in T : \A y \in T : ~ (y \subseteq x /\ y # x)
  <2>1. T \in SUBSET SUBSET S
    OBVIOUS
  <2> HIDE DEF T
  <2> QED
    BY <1>1, <2>1, LeastSet
<1>3. \A y \in SUBSET x : y # x => \E g : Adds(g, F, y)
  BY <1>2
<1> DEFINE of(y) == CHOOSE g : Adds(g, F, y)
           val(y) == IF y = {} THEN 0 ELSE F[Pick(y)] + of(y \ {Pick(y)})[y \ {Pick(y)}]
           all == [y \in SUBSET x |-> val(y)]
<1>4. ASSUME NEW y \in SUBSET x, y # {}
      PROVE  all[y \ {Pick(y)}] = of(y \ {Pick(y)})[y \ {Pick(y)}]
  <2> DEFINE z == y \ {Pick(y)}
  <2>1. Pick(y) \in y
    BY <1>4, PickIn
  <2>2. z \in SUBSET x /\ z # x
    BY <2>1
  <2>3. Adds(of(z), F, z)
    BY <1>3, <2>2
  <2>4. all[z] = val(z)
    BY <2>2
  <2>5. of(z)[z] = val(z)
    <3>1. CASE z = {}
      BY <3>1, <2>3, AddsAt
    <3>2. CASE z # {}
      <4> DEFINE v == z \ {Pick(z)}
      <4>1. Pick(z) \in z /\ of(z)[z] = F[Pick(z)] + of(z)[v]
        BY <3>2, <2>3, AddsAt
      <4>2. v \in SUBSET x /\ v # x /\ v \in SUBSET z
        BY <2>2, <4>1
      <4>3. Adds(of(v), F, v)
        BY <1>3, <4>2
      <4>4. IsFiniteSet(z)
        BY <2>2, FS_Subset
      <4> HIDE DEF of, z, v
      <4>5. of(z)[v] = of(v)[v]
        BY <2>3, <4>3, <4>2, <4>4, SumsAgree
      <4> QED
        BY <3>2, <4>1, <4>5 DEF v
    <3> QED
      BY <3>1, <3>2
  <2> QED
    BY <2>4, <2>5
<1>5. \A y \in SUBSET x :
         val(y) = IF y = {} THEN 0 ELSE F[Pick(y)] + all[y \ {Pick(y)}]
  <2> SUFFICES ASSUME NEW y \in SUBSET x
               PROVE  val(y) = IF y = {} THEN 0 ELSE F[Pick(y)] + all[y \ {Pick(y)}]
    OBVIOUS
  <2>1. y # {} => all[y \ {Pick(y)}] = of(y \ {Pick(y)})[y \ {Pick(y)}]
    BY <1>4
  <2> HIDE DEF of, all
  <2> QED
    BY <2>1
<1> HIDE DEF val
<1>6. all = [y \in SUBSET x |-> IF y = {} THEN 0 ELSE F[Pick(y)] + all[y \ {Pick(y)}]]
  BY <1>5
<1> HIDE DEF all
<1>7. Adds(all, F, x)
  BY <1>6 DEF Adds
<1> QED
  BY <1>7, <1>2

\* The sum of a function that is typed is, and it may begin with any element.
LEMMA SumType ==
    ASSUME NEW S, IsFiniteSet(S), NEW F \in [S -> Int], NEW g, Adds(g, F, S),
           NEW u \in SUBSET S
    PROVE  g[u] \in Int
<1> DEFINE T == {s \in SUBSET S : g[s] \notin Int}
<1>1. SUFFICES ASSUME T # {} PROVE FALSE
  OBVIOUS
<1>3. PICK s \in T : \A y \in T : ~ (y \subseteq s /\ y # s)
  <2>1. T \in SUBSET SUBSET S
    OBVIOUS
  <2> HIDE DEF T
  <2> QED
    BY <1>1, <2>1, LeastSet
<1>5. s # {}
  <2>1. s = {} => g[s] = 0
    BY AddsAt
  <2> QED
    BY <2>1
<1>6. /\ Pick(s) \in s
      /\ g[s] = F[Pick(s)] + g[s \ {Pick(s)}]
  <2>1. s \in SUBSET S
    OBVIOUS
  <2> HIDE DEF T
  <2> QED
    BY <1>5, <2>1, AddsAt
<1>7. g[s \ {Pick(s)}] \in Int
  BY <1>3, <1>6
<1> QED
  BY <1>6, <1>7

LEMMA SumStep ==
    ASSUME NEW S, IsFiniteSet(S), NEW F \in [S -> Int], NEW g, Adds(g, F, S),
           NEW u \in SUBSET S, NEW a \in u
    PROVE  g[u] = F[a] + g[u \ {a}]
<1> DEFINE Bad(s) == \E b \in s : g[s] # F[b] + g[s \ {b}]
           T == {s \in SUBSET S : Bad(s)}
<1>1. SUFFICES ASSUME T # {} PROVE FALSE
  OBVIOUS
<1>2. PICK s \in T : \A y \in T : ~ (y \subseteq s /\ y # s)
  <2>1. T \in SUBSET SUBSET S
    OBVIOUS
  <2> HIDE DEF T
  <2> QED
    BY <1>1, <2>1, LeastSet
<1>3. PICK b \in s : g[s] # F[b] + g[s \ {b}]
  OBVIOUS
<1> DEFINE c == Pick(s)
<1>4. c \in s /\ g[s] = F[c] + g[s \ {c}]
  BY AddsAt
<1> HIDE DEF c
<1>5. b # c
  BY <1>3, <1>4
<1>6. s \ {c} \in SUBSET S /\ s \ {b} \in SUBSET S
  OBVIOUS
<1>7. g[s \ {c}] = F[b] + g[(s \ {c}) \ {b}]
  BY <1>2, <1>4, <1>5, <1>6
<1>8. g[s \ {b}] = F[c] + g[(s \ {b}) \ {c}]
  BY <1>2, <1>4, <1>5, <1>6
<1>9. (s \ {b}) \ {c} = (s \ {c}) \ {b}
  OBVIOUS
<1>10. PICK z \in Int : z = g[(s \ {c}) \ {b}]
  BY SumType
<1>11. PICK p \in Int, q \in Int : p = F[b] /\ q = F[c]
  BY <1>4
<1>12. g[s] = q + (p + z) /\ g[s \ {b}] = q + z
  BY <1>4, <1>7, <1>8, <1>9, <1>10, <1>11
<1> QED
  BY <1>3, <1>11, <1>12

\* The sum of a function over its whole finite domain.
Total(F) == (CHOOSE g : Adds(g, F, DOMAIN F))[DOMAIN F]

LEMMA TotalIs ==
    ASSUME NEW S, IsFiniteSet(S), NEW F \in [S -> Int], NEW R, IsFiniteSet(R), NEW G,
           NEW g, Adds(g, G, R), S \subseteq R, \A x \in S : F[x] = G[x]
    PROVE  Total(F) = g[S]
<1> DEFINE h == CHOOSE k : Adds(k, F, S)
<1>1. Adds(h, F, S)
  BY SumsExist
<1>2. DOMAIN F = S
  OBVIOUS
<1> HIDE DEF h
<1>3. h[S] = g[S]
  BY <1>1, SumsAgree
<1> QED
  BY <1>2, <1>3 DEF Total, h

LEMMA TotalOf ==
    ASSUME NEW S, IsFiniteSet(S), NEW F \in [S -> Int], NEW g, Adds(g, F, S)
    PROVE  Total(F) = g[S]
BY TotalIs

\* A sum of numbers that are not negative, of one more, of one fewer, of none.
LEMMA TotalStep ==
    ASSUME NEW S, IsFiniteSet(S), NEW F \in [S -> Int], NEW a \in S,
           NEW G \in [S \ {a} -> Int], \A x \in S \ {a} : G[x] = F[x]
    PROVE  Total(F) = F[a] + Total(G)
<1>1. PICK g : Adds(g, F, S)
  BY SumsExist
<1>2. Total(F) = g[S]
  BY <1>1, TotalIs
<1>3. IsFiniteSet(S \ {a})
  BY FS_Subset
<1>4. Total(G) = g[S \ {a}]
  BY <1>1, <1>3, TotalIs
<1> QED
  BY <1>1, <1>2, <1>4, SumStep

LEMMA TotalType ==
    ASSUME NEW S, IsFiniteSet(S), NEW F \in [S -> Int]
    PROVE  /\ Total(F) \in Int
           /\ S = {} => Total(F) = 0
<1>1. PICK g : Adds(g, F, S)
  BY SumsExist
<1>2. Total(F) = g[S]
  BY <1>1, TotalIs
<1>3. g[S] \in Int
  BY <1>1, SumType
<1>4. S = {} => g[S] = 0
  BY <1>1, AddsAt
<1> QED
  BY <1>2, <1>3, <1>4

LEMMA TotalNat ==
    ASSUME NEW S, IsFiniteSet(S), NEW F \in [S -> Nat]
    PROVE  Total(F) \in Nat /\ \A a \in S : F[a] <= Total(F)
<1> DEFINE Res(s) == [x \in s |-> F[x]]
           Bad(s) == Total(Res(s)) \notin Nat
           T == {s \in SUBSET S : Bad(s)}
<1>1. T = {}
  <2> SUFFICES ASSUME T # {} PROVE FALSE
    OBVIOUS
  <2>1. PICK s \in T : \A y \in T : ~ (y \subseteq s /\ y # s)
    <3>1. T \in SUBSET SUBSET S
      OBVIOUS
    <3> HIDE DEF T
    <3> QED
      BY <3>1, LeastSet
  <2>2. s \in SUBSET S /\ IsFiniteSet(s) /\ Bad(s)
    BY FS_Subset
  <2>3. Res(s) \in [s -> Int]
    BY <2>2
  <2> HIDE DEF Res
  <2>4. s # {}
    BY <2>2, <2>3, TotalType
  <2>5. PICK a \in s : TRUE
    BY <2>4
  <2>6. Res(s \ {a}) \in [s \ {a} -> Int] /\ \A x \in s \ {a} : Res(s \ {a})[x] = Res(s)[x]
    BY <2>2 DEF Res
  <2>7. Total(Res(s)) = Res(s)[a] + Total(Res(s \ {a}))
    <3> HIDE DEF Bad, T
    <3>1. s \in SUBSET S /\ IsFiniteSet(s) /\ a \in s
      BY <2>2
    <3> QED
      BY <3>1, <2>3, <2>6, TotalStep
  <2>8. Total(Res(s \ {a})) \in Nat
    BY <2>1, <2>2
  <2>9. Res(s)[a] \in Nat
    BY <2>2 DEF Res
  <2> QED
    BY <2>2, <2>7, <2>8, <2>9
<1>2. \A s \in SUBSET S : Total(Res(s)) \in Nat
  BY <1>1
<1>3. Res(S) = F
  OBVIOUS
<1> HIDE DEF Res
<1>4. ASSUME NEW a \in S PROVE F[a] <= Total(F)
  <2>1. Res(S \ {a}) \in [S \ {a} -> Int] /\ \A x \in S \ {a} : Res(S \ {a})[x] = F[x]
    BY DEF Res
  <2>2. F \in [S -> Int]
    OBVIOUS
  <2>3. Total(F) = F[a] + Total(Res(S \ {a}))
    BY <2>1, <2>2, TotalStep
  <2>4. Total(Res(S \ {a})) \in Nat
    BY <1>2
  <2>5. F[a] \in Nat
    OBVIOUS
  <2> QED
    BY <2>3, <2>4, <2>5
<1> QED
  BY <1>2, <1>3, <1>4

\* Two sums that differ in what one element adds.
LEMMA TotalChange ==
    ASSUME NEW S, IsFiniteSet(S), NEW F \in [S -> Int], NEW G \in [S -> Int], NEW a \in S,
           \A x \in S \ {a} : G[x] = F[x]
    PROVE  Total(G) = Total(F) - F[a] + G[a]
<1> DEFINE R == [x \in S \ {a} |-> F[x]]
<1>1. R \in [S \ {a} -> Int] /\ \A x \in S \ {a} : R[x] = F[x] /\ R[x] = G[x]
  OBVIOUS
<1> HIDE DEF R
<1>2. Total(F) = F[a] + Total(R)
  BY <1>1, TotalStep
<1>3. Total(G) = G[a] + Total(R)
  BY <1>1, TotalStep
<1>4. Total(R) \in Int /\ F[a] \in Int /\ G[a] \in Int
  BY <1>1, TotalType, FS_Subset
<1> QED
  BY <1>2, <1>3, <1>4

\* What adds nothing may be left out.
LEMMA TotalWhere ==
    ASSUME NEW S, IsFiniteSet(S), NEW T \in SUBSET S, NEW F \in [T -> Int], NEW G \in [S -> Int],
           \A x \in T : G[x] = F[x], \A x \in S \ T : G[x] = 0
    PROVE  Total(G) = Total(F)
<1> DEFINE Res(s) == [x \in s |-> G[x]]
           Bad(s) == T \subseteq s /\ Total(Res(s)) # Total(F)
           B == {s \in SUBSET S : Bad(s)}
<1>1. B = {}
  <2> SUFFICES ASSUME B # {} PROVE FALSE
    OBVIOUS
  <2>1. PICK s \in B : \A y \in B : ~ (y \subseteq s /\ y # s)
    <3>1. B \in SUBSET SUBSET S
      OBVIOUS
    <3> HIDE DEF B
    <3> QED
      BY <3>1, LeastSet
  <2>2. s \in SUBSET S /\ IsFiniteSet(s) /\ T \subseteq s /\ Total(Res(s)) # Total(F)
    BY FS_Subset
  <2>3. s # T
    <3>1. Res(T) = F
      OBVIOUS
    <3> HIDE DEF Res
    <3> QED
      BY <2>2, <3>1
  <2>4. PICK a \in s : a \notin T
    BY <2>2, <2>3
  <2>5. Res(s) \in [s -> Int] /\ Res(s \ {a}) \in [s \ {a} -> Int]
    BY <2>2
  <2>6. Res(s)[a] = 0 /\ \A x \in s \ {a} : Res(s \ {a})[x] = Res(s)[x]
    BY <2>2, <2>4
  <2>7. Total(Res(s)) = Res(s)[a] + Total(Res(s \ {a}))
    <3>1. PICK P \in [s -> Int], Q \in [s \ {a} -> Int] : P = Res(s) /\ Q = Res(s \ {a})
      BY <2>5
    <3>2. \A x \in s \ {a} : Q[x] = P[x]
      BY <2>6, <3>1
    <3>3. IsFiniteSet(s) /\ a \in s
      BY <2>2
    <3> HIDE DEF Res, B, Bad
    <3>4. Total(P) = P[a] + Total(Q)
      BY <3>2, <3>3, TotalStep
    <3> QED
      BY <3>1, <3>4
  <2>8. Total(Res(s \ {a})) = Total(F)
    BY <2>1, <2>2, <2>4
  <2>9. Total(Res(s \ {a})) \in Int
    <3>1. IsFiniteSet(s \ {a})
      BY <2>2, FS_Subset
    <3> HIDE DEF Res
    <3> QED
      BY <2>5, <3>1, TotalType
  <2> QED
    BY <2>2, <2>6, <2>7, <2>8, <2>9
<1>2. Res(S) = G
  OBVIOUS
<1> HIDE DEF Res
<1> QED
  BY <1>1, <1>2

LEMMA TotalZero ==
    ASSUME NEW S, IsFiniteSet(S), NEW F \in [S -> Int], \A x \in S : F[x] = 0
    PROVE  Total(F) = 0
<1> DEFINE N == [x \in {} |-> 0]
<1>1. N \in [{} -> Int]
  OBVIOUS
<1> HIDE DEF N
<1>2. Total(F) = Total(N)
  <2>1. {} \in SUBSET S /\ (\A x \in {} : F[x] = N[x]) /\ \A x \in S \ {} : F[x] = 0
    OBVIOUS
  <2>2. {} \in SUBSET S
    OBVIOUS
  <2>3. PICK T \in SUBSET S : T = {}
    BY <2>2
  <2>4. N \in [T -> Int] /\ (\A x \in T : F[x] = N[x]) /\ \A x \in S \ T : F[x] = 0
    BY <1>1, <2>3
  <2>5. Total(F) = Total(N)
    BY <2>4, TotalWhere
  <2> QED
    BY <2>5
<1> QED
  BY <1>1, <1>2, TotalType, FS_EmptySet

\* h adds f and g; p is f with one element less.
Plus(h, f, g, s) ==
    f \in [s -> Int] /\ g \in [s -> Int] /\ h \in [s -> Int] /\ \A x \in s : h[x] = f[x] + g[x]
Less(p, f, a, s) == p \in [s \ {a} -> Int] /\ \A x \in s \ {a} : p[x] = f[x]

LEMMA PlusOne ==
    ASSUME NEW s, IsFiniteSet(s), NEW a \in s, NEW f, NEW g, NEW h, NEW p, NEW q, NEW r,
           Plus(h, f, g, s), Less(p, f, a, s), Less(q, g, a, s), Less(r, h, a, s),
           Total(r) = Total(p) + Total(q)
    PROVE  Total(h) = Total(f) + Total(g)
<1>1. Total(f) = f[a] + Total(p)
  BY TotalStep DEF Plus, Less
<1>2. Total(g) = g[a] + Total(q)
  BY TotalStep DEF Plus, Less
<1>3. Total(h) = h[a] + Total(r)
  BY TotalStep DEF Plus, Less
<1>4. Total(p) \in Int /\ Total(q) \in Int
  BY FS_Subset, TotalType DEF Less
<1> QED
  BY <1>1, <1>2, <1>3, <1>4 DEF Plus

\* The sum of two functions is the sum of their sums.
LEMMA TotalPlus ==
    ASSUME NEW S, IsFiniteSet(S), NEW F \in [S -> Int], NEW G \in [S -> Int],
           NEW H \in [S -> Int], \A x \in S : H[x] = F[x] + G[x]
    PROVE  Total(H) = Total(F) + Total(G)
<1> DEFINE Res(K, s) == [x \in s |-> K[x]]
           Bad(s) == Total(Res(H, s)) # Total(Res(F, s)) + Total(Res(G, s))
           B == {s \in SUBSET S : Bad(s)}
<1>1. B = {}
  <2> SUFFICES ASSUME B # {} PROVE FALSE
    OBVIOUS
  <2>1. PICK s \in B : \A y \in B : ~ (y \subseteq s /\ y # s)
    <3>1. B \in SUBSET SUBSET S
      OBVIOUS
    <3> HIDE DEF B
    <3> QED
      BY <3>1, LeastSet
  <2>2. s \in SUBSET S /\ IsFiniteSet(s) /\ Bad(s)
    BY FS_Subset
  <2>3. PICK f \in [s -> Int], g \in [s -> Int], h \in [s -> Int] :
            f = Res(F, s) /\ g = Res(G, s) /\ h = Res(H, s)
    BY <2>2
  <2>4. \A x \in s : h[x] = f[x] + g[x]
    BY <2>2, <2>3
  <2>5. s # {}
    <3> SUFFICES ASSUME s = {} PROVE FALSE
      OBVIOUS
    <3>1. Total(f) = 0 /\ Total(g) = 0 /\ Total(h) = 0
      BY <2>2, TotalType
    <3> QED
      BY <2>2, <2>3, <3>1
  <2>6. PICK a \in s : TRUE
    BY <2>5
  <2>7. PICK z : z = s \ {a}
    OBVIOUS
  <2>8. z \in SUBSET S /\ z \notin B
    BY <2>1, <2>2, <2>7
  <2>9. PICK p \in [z -> Int], q \in [z -> Int], r \in [z -> Int] :
            p = Res(F, z) /\ q = Res(G, z) /\ r = Res(H, z)
    BY <2>8
  <2>10. Total(r) = Total(p) + Total(q)
    BY <2>8, <2>9
  <2>11. /\ \A x \in z : p[x] = f[x]
         /\ \A x \in z : q[x] = g[x]
         /\ \A x \in z : r[x] = h[x]
    BY <2>3, <2>7, <2>9
  <2> HIDE DEF Res, B, Bad
  <2>12. Plus(h, f, g, s)
    BY <2>4 DEF Plus
  <2>13. Less(p, f, a, s) /\ Less(q, g, a, s) /\ Less(r, h, a, s)
    BY <2>7, <2>11 DEF Less
  <2>14. Total(h) = Total(f) + Total(g)
    BY <2>2, <2>10, <2>12, <2>13, PlusOne
  <2> QED
    BY <2>2, <2>3, <2>14 DEF Bad
<1>2. Res(F, S) = F /\ Res(G, S) = G /\ Res(H, S) = H
  OBVIOUS
<1>3. ~ Bad(S)
  BY <1>1
<1> HIDE DEF Res, B
<1> QED
  BY <1>2, <1>3

\* A set of numbers.
Numbered(S) == S \subseteq Int

LEMMA LeastNumber ==
    ASSUME NEW S, IsFiniteSet(S), Numbered(S), S # {}
    PROVE  \E m \in S : \A x \in S : m <= x
<1> DEFINE T == {s \in SUBSET S : s # {} /\ ~ \E m \in s : \A x \in s : m <= x}
<1>1. SUFFICES ASSUME T # {} PROVE FALSE
  OBVIOUS
<1>2. PICK s \in T : \A y \in T : ~ (y \subseteq s /\ y # s)
  <2>1. T \in SUBSET SUBSET S
    OBVIOUS
  <2> HIDE DEF T
  <2> QED
    BY <1>1, <2>1, LeastSet
<1>3. PICK e : e \in s
  OBVIOUS
<1>4. s \ {e} \in SUBSET S /\ s \ {e} \notin T
  BY <1>2, <1>3
<1>5. CASE s = {e}
  <2>1. e <= e
    BY <1>3 DEF Numbered
  <2>2. \E m \in s : \A x \in s : m <= x
    BY <1>5, <2>1
  <2> QED
    BY <1>2, <2>2
<1>6. CASE s \ {e} # {}
  <2>1. PICK m \in s \ {e} : \A x \in s \ {e} : m <= x
    BY <1>4, <1>6
  <2>2. e \in Int /\ m \in Int /\ \A x \in s : x \in Int
    BY <1>3 DEF Numbered
  <2>3. CASE m <= e
    <3>1. \A x \in s : m <= x
      BY <2>1, <2>3
    <3> QED
      BY <2>1, <3>1, <1>2
  <2>4. CASE e <= m
    <3>1. \A x \in s : e <= x
      BY <2>1, <2>2, <2>4
    <3> QED
      BY <1>3, <3>1, <1>2
  <2> QED
    BY <2>2, <2>3, <2>4
<1> QED
  BY <1>3, <1>5, <1>6

LEMMA GreatestNumber ==
    ASSUME NEW S, IsFiniteSet(S), Numbered(S), S # {}
    PROVE  \E m \in S : \A x \in S : x <= m
<1> DEFINE T == {-x : x \in S}
<1>1. IsFiniteSet(T)
  <2>1. [x \in S |-> -x] \in Surjection(S, T)
    BY DEF Surjection
  <2> HIDE DEF T
  <2> QED
    BY <2>1, FS_Surjection
<1>2. Numbered(T) /\ T # {}
  <2>1. \A x \in S : x \in Int
    BY DEF Numbered
  <2>2. \A x \in S : -x \in Int
    BY <2>1
  <2>3. T \subseteq Int
    BY <2>2
  <2>4. T # {}
    OBVIOUS
  <2> HIDE DEF T
  <2> QED
    BY <2>3, <2>4 DEF Numbered
<1> HIDE DEF T
<1>3. PICK m \in T : \A x \in T : m <= x
  BY <1>1, <1>2, LeastNumber
<1>4. PICK n \in S : m = -n
  BY DEF T
<1>5. \A x \in S : -x \in T
  BY DEF T
<1>6. \A x \in S : x \in Int
  BY DEF Numbered
<1>7. \A x \in S : x <= n
  BY <1>3, <1>4, <1>5, <1>6
<1> QED
  BY <1>7
=============================================================================
