---------------------------- MODULE AnalysisProofs ----------------------------
(***************************************************************************)
(* Theorems about an analysis and the page that shows it.  About           *)
(* AnalysisRun, for every knowledge base, every input, any number of       *)
(* changes by others and either number of stages: the stages are announced *)
(* in order, the types, and what a result rests on.  About AnalyzePage,    *)
(* for every set of defects and of jobs: whose report the page shows.      *)
(***************************************************************************)
EXTENDS AnalysisRun, AnalyzePage, FiniteSetTheorems, FunctionTheorems, SequenceTheorems, TLAPS

------------------------------------------------------------------------------
(* Orders and the sequences they make.                                     *)

\* A strict order of the elements of S.
Strict(S, R) ==
    /\ \A x, y \in S : <<x, y>> \in R => <<y, x>> \notin R
    /\ \A x, y, z \in S : <<x, y>> \in R /\ <<y, z>> \in R => <<x, z>> \in R
    /\ \A x, y \in S : x = y \/ <<x, y>> \in R \/ <<y, x>> \in R

\* InOrder lists every element of the set once, in the order.
LEMMA InOrderSorts ==
    ASSUME NEW S, NEW R, IsFiniteSet(S), Strict(S, R)
    PROVE  /\ InOrder(S, R) \in [1..Cardinality(S) -> S]
           /\ \A x \in S : \E n \in 1..Cardinality(S) : InOrder(S, R)[n] = x
           /\ \A i, j \in 1..Cardinality(S) :
                i < j => <<InOrder(S, R)[i], InOrder(S, R)[j]>> \in R
<1> DEFINE n == Cardinality(S)
           P(x) == {y \in S : <<y, x>> \in R}
           before == [x \in S |-> Cardinality(P(x))]
           o == InOrder(S, R)
<1>1. n \in Nat
  BY FS_CardinalityType
<1>2. \A x \in S : IsFiniteSet(P(x)) /\ before[x] \in 0..(n - 1)
  <2> SUFFICES ASSUME NEW x \in S PROVE IsFiniteSet(P(x)) /\ before[x] \in 0..(n - 1)
    OBVIOUS
  <2>1. P(x) \in SUBSET S /\ x \notin P(x)
    BY DEF Strict
  <2>2. IsFiniteSet(P(x)) /\ Cardinality(P(x)) <= n /\ (n = Cardinality(P(x)) => S = P(x))
    BY <2>1, FS_Subset
  <2>3. Cardinality(P(x)) \in Nat
    BY <2>2, FS_CardinalityType
  <2>4. Cardinality(P(x)) # n
    BY <2>1, <2>2
  <2> HIDE DEF P, n
  <2>5. Cardinality(P(x)) \in 0..(n - 1)
    BY <1>1, <2>2, <2>3, <2>4
  <2>6. QED
    BY <2>2, <2>5
<1>3. \A x, y \in S : <<x, y>> \in R => before[x] < before[y]
  <2> SUFFICES ASSUME NEW x \in S, NEW y \in S, <<x, y>> \in R PROVE before[x] < before[y]
    OBVIOUS
  <2>1. P(x) \in SUBSET P(y) /\ x \in P(y) /\ x \notin P(x)
    BY DEF Strict
  <2>2. IsFiniteSet(P(y)) /\ before[x] \in Nat /\ before[y] \in Nat
    BY <1>1, <1>2
  <2>3. Cardinality(P(x)) <= Cardinality(P(y)) /\ Cardinality(P(x)) # Cardinality(P(y))
    <3>1. P(x) # P(y)
      BY <2>1
    <3> HIDE DEF P
    <3>2. QED
      BY <2>1, <2>2, <3>1, FS_Subset
  <2>4. QED
    BY <2>2, <2>3
<1>4. \A x, y \in S : before[x] = before[y] => x = y
  <2> SUFFICES ASSUME NEW x \in S, NEW y \in S, before[x] = before[y] PROVE x = y
    OBVIOUS
  <2>1. before[x] \in Int
    BY <1>2, <1>1
  <2>2. ~(before[x] < before[y]) /\ ~(before[y] < before[x])
    BY <2>1
  <2>3. QED
    BY <2>2, <1>3 DEF Strict
<1>5. \A k \in 0..(n - 1) : \E x \in S : before[x] = k
  <2>1. before \in Injection(S, 0..(n - 1))
    <3>1. before \in [S -> 0..(n - 1)]
      BY <1>2
    <3> HIDE DEF before, n
    <3>2. QED
      BY <1>4, <3>1, Fun_IsInj
  <2>2. IsFiniteSet(0..(n - 1)) /\ Cardinality(0..(n - 1)) = n
    BY <1>1, FS_Interval
  <2> HIDE DEF before
  <2>3. before \in Surjection(S, 0..(n - 1))
    BY <2>1, <2>2, FS_Injection
  <2>4. QED
    BY <2>3, Fun_SurjectionProperties
<1>6. o = [k \in 1..n |-> CHOOSE x \in S : before[x] = k - 1]
  BY DEF InOrder
<1> HIDE DEF o, before, P, n
<1>7. \A k \in 1..n : o[k] \in S /\ before[o[k]] = k - 1
  <2> SUFFICES ASSUME NEW k \in 1..n PROVE o[k] \in S /\ before[o[k]] = k - 1
    OBVIOUS
  <2>1. k - 1 \in 0..(n - 1)
    BY <1>1
  <2>2. \E x \in S : before[x] = k - 1
    BY <1>5, <2>1
  <2>3. QED
    BY <1>6, <2>2
<1>8. o \in [1..n -> S]
  BY <1>6, <1>7
<1>9. \A x \in S : \E k \in 1..n : o[k] = x
  <2> SUFFICES ASSUME NEW x \in S PROVE \E k \in 1..n : o[k] = x
    OBVIOUS
  <2>1. before[x] + 1 \in 1..n /\ (before[x] + 1) - 1 = before[x]
    BY <1>1, <1>2
  <2>2. o[before[x] + 1] = x
    BY <1>4, <1>7, <2>1
  <2>3. QED
    BY <2>1, <2>2
<1>10. \A i, j \in 1..n : i < j => <<o[i], o[j]>> \in R
  <2> SUFFICES ASSUME NEW i \in 1..n, NEW j \in 1..n, i < j PROVE <<o[i], o[j]>> \in R
    OBVIOUS
  <2>1. /\ o[i] \in S /\ o[j] \in S
        /\ before[o[i]] # before[o[j]] /\ ~(before[o[j]] < before[o[i]])
    BY <1>1, <1>7
  <2>2. o[i] # o[j] /\ <<o[j], o[i]>> \notin R
    BY <2>1, <1>3
  <2>3. QED
    BY <2>1, <2>2 DEF Strict
<1>11. QED
  BY <1>8, <1>9, <1>10 DEF o, n

\* A function on 1..n is a sequence.
LEMMA FunctionIsSeq ==
    ASSUME NEW T, NEW n \in Nat, NEW f \in [1..n -> T]
    PROVE  f \in Seq(T) /\ Len(f) = n
<1> DEFINE q == SubSeq(f, 1, n)
<1>1. /\ q \in Seq(T) /\ Len(q) = IF 1 <= n THEN n - 1 + 1 ELSE 0
      /\ \A i \in 1..(n - 1 + 1) : q[i] = f[1 + i - 1]
  BY SubSeqProperties
<1> HIDE DEF q
<1>2. Len(q) = n /\ \A i \in 1..n : q[i] = f[i]
  BY <1>1
<1>3. q \in [1..n -> T]
  BY <1>1, <1>2, LenProperties
<1>4. q = f
  BY <1>2, <1>3
<1>5. QED
  BY <1>1, <1>2, <1>4

\* What a set of places of a sequence is: finite, no larger than the sequence.
LEMMA IntervalFinite ==
    ASSUME NEW n \in Nat, NEW I \in SUBSET (1..n)
    PROVE  IsFiniteSet(I) /\ Cardinality(I) \in 0..n
<1>1. IsFiniteSet(1..n) /\ Cardinality(1..n) = n
  BY FS_Interval
<1>2. IsFiniteSet(I) /\ Cardinality(I) <= n
  BY <1>1, FS_Subset
<1>3. QED
  BY <1>2, FS_CardinalityType

\* q lists the elements of s at the indices I, in the order R of the indices.
Arranges(q, s, I, R) ==
    /\ Len(q) = Cardinality(I)
    /\ \A i \in I : \E n \in 1..Len(q) : q[n] = s[i]
    /\ \A n \in 1..Len(q) : \E i \in I : q[n] = s[i]
    /\ \A m, n \in 1..Len(q) :
         m < n => \E i, j \in I : <<i, j>> \in R /\ q[m] = s[i] /\ q[n] = s[j]

\* Kept and Sorted arrange the elements of a sequence.
LEMMA Arranged ==
    ASSUME NEW T, NEW s \in Seq(T), NEW I \in SUBSET (1..Len(s)), NEW R, Strict(I, R),
           NEW q, q = [n \in 1..Cardinality(I) |-> s[InOrder(I, R)[n]]]
    PROVE  q \in Seq(T) /\ Arranges(q, s, I, R)
<1>1. IsFiniteSet(I) /\ Cardinality(I) \in Nat
  BY IntervalFinite
<1> DEFINE o == InOrder(I, R)
<1>2. /\ o \in [1..Cardinality(I) -> I]
      /\ \A x \in I : \E n \in 1..Cardinality(I) : o[n] = x
      /\ \A i, j \in 1..Cardinality(I) : i < j => <<o[i], o[j]>> \in R
  BY <1>1, InOrderSorts
<1> HIDE DEF o
<1>3. q = [n \in 1..Cardinality(I) |-> s[o[n]]]
  BY DEF o
<1>4. q \in [1..Cardinality(I) -> T]
  <2>1. \A i \in I : s[i] \in T
    BY ElementOfSeq
  <2>2. QED
    BY <1>2, <1>3, <2>1
<1>5. q \in Seq(T) /\ Len(q) = Cardinality(I)
  BY <1>1, <1>4, FunctionIsSeq
<1>6. \A n \in 1..Len(q) : q[n] = s[o[n]] /\ o[n] \in I
  BY <1>2, <1>3, <1>5
<1>7. ASSUME NEW i \in I PROVE \E n \in 1..Len(q) : q[n] = s[i]
  <2>1. PICK n \in 1..Len(q) : o[n] = i
    BY <1>2, <1>5
  <2>2. QED
    BY <1>6, <2>1
<1>8. ASSUME NEW m \in 1..Len(q), NEW n \in 1..Len(q), m < n
      PROVE  \E i, j \in I : <<i, j>> \in R /\ q[m] = s[i] /\ q[n] = s[j]
  <2>1. <<o[m], o[n]>> \in R
    BY <1>2, <1>5, <1>8
  <2>2. QED
    BY <1>6, <2>1
<1>9. QED
  BY <1>5, <1>6, <1>7, <1>8 DEF Arranges

\* What Kept keeps, it keeps in its place.
LEMMA KeptElements ==
    ASSUME NEW T, NEW s \in Seq(T), NEW I \in SUBSET (1..Len(s))
    PROVE  /\ Kept(s, I) \in Seq(T)
           /\ Arranges(Kept(s, I), s, I, {r \in I \X I : r[1] < r[2]})
<1> DEFINE R == {r \in I \X I : FALSE \/ (~FALSE /\ r[1] < r[2])}
           L == {r \in I \X I : r[1] < r[2]}
           q == Kept(s, I)
<1>1. q = [n \in 1..Cardinality(I) |-> s[InOrder(I, R)[n]]]
  BY DEF Kept, Ranked
<1>2. R = L
  OBVIOUS
<1>3. \A x, y \in I : <<x, y>> \in L <=> x < y
  OBVIOUS
<1> HIDE DEF R, L, q
<1>4. Strict(I, L)
  BY <1>3 DEF Strict
<1>5. q \in Seq(T) /\ Arranges(q, s, I, L)
  BY <1>1, <1>2, <1>4, Arranged
<1>6. QED
  BY <1>5 DEF q, L

\* The first elements of a sequence are some of it.
LEMMA FirstOfElements ==
    ASSUME NEW T, NEW s \in Seq(T), NEW n \in Nat
    PROVE  /\ FirstOf(s, n) \in Seq(T) /\ Len(FirstOf(s, n)) <= Len(s)
           /\ Len(FirstOf(s, n)) <= n
           /\ \A i \in 1..Len(FirstOf(s, n)) : FirstOf(s, n)[i] = s[i]
<1> DEFINE m == Min({n, Len(s)})
<1>1. m \in Nat /\ m <= Len(s) /\ m <= n
  <2>1. n <= Len(s) \/ Len(s) <= n
    OBVIOUS
  <2>2. \E x \in {n, Len(s)} : \A y \in {n, Len(s)} : x <= y
    BY <2>1
  <2>3. QED
    BY <2>2 DEF Min
<1> HIDE DEF m
<1>2. \A i \in 1..m : s[i] \in T
  BY <1>1, ElementOfSeq
<1>3. /\ SubSeq(s, 1, m) \in Seq(T)
      /\ Len(SubSeq(s, 1, m)) = IF 1 <= m THEN m - 1 + 1 ELSE 0
      /\ \A i \in 1..(m - 1 + 1) : SubSeq(s, 1, m)[i] = s[1 + i - 1]
  BY <1>1, <1>2, SubSeqProperties
<1>4. FirstOf(s, n) = SubSeq(s, 1, m)
  BY DEF FirstOf, m
<1>5. Len(SubSeq(s, 1, m)) = m
  BY <1>1, <1>3
<1>6. \A i \in 1..m : SubSeq(s, 1, m)[i] = s[i]
  BY <1>1, <1>3
<1>7. QED
  BY <1>1, <1>3, <1>4, <1>5, <1>6

------------------------------------------------------------------------------
(* The search.                                                             *)

\* The least of a set of natural numbers.
LEMMA NatMin ==
    ASSUME NEW S \in SUBSET Nat, S # {}
    PROVE  Min(S) \in S
<1>1. PICK k \in S : TRUE
  OBVIOUS
<1> DEFINE T == {y \in S : y <= k}
           R == {r \in T \X T : r[1] < r[2]}
           o == InOrder(T, R)
<1>2. IsFiniteSet(T) /\ k \in T
  BY FS_BoundedSetOfNaturals
<1>3. Strict(T, R)
  BY DEF Strict
<1>4. Cardinality(T) \in Nat
  BY <1>2, FS_CardinalityType
<1> HIDE DEF T, R
<1>5. /\ o \in [1..Cardinality(T) -> T]
      /\ \A x \in T : \E n \in 1..Cardinality(T) : o[n] = x
      /\ \A i, j \in 1..Cardinality(T) : i < j => <<o[i], o[j]>> \in R
  BY <1>2, <1>3, InOrderSorts
<1> HIDE DEF o
<1>6. 1 \in 1..Cardinality(T)
  BY <1>2, <1>4, <1>5
<1>7. \A x \in T : o[1] <= x
  <2> SUFFICES ASSUME NEW x \in T PROVE o[1] <= x
    OBVIOUS
  <2>1. PICK n \in 1..Cardinality(T) : o[n] = x
    BY <1>5
  <2>2. CASE n = 1
    BY <1>5, <1>6, <2>1, <2>2 DEF T
  <2>3. CASE n # 1
    <3>1. 1 < n
      BY <1>4, <2>3
    <3>2. <<o[1], o[n]>> \in R
      BY <1>5, <1>6, <3>1
    <3>3. o[1] < o[n] /\ o[1] \in Nat /\ o[n] \in Nat
      BY <3>2 DEF R, T
    <3>4. QED
      BY <2>1, <3>3
  <2>4. QED
    BY <2>2, <2>3
<1>8. o[1] \in T
  <2> HIDE DEF Min
  <2>1. QED
    BY <1>5, <1>6
<1>9. o[1] \in S /\ \A x \in S : o[1] <= x
  <2>1. o[1] \in S /\ o[1] <= k
    BY <1>8 DEF T
  <2>2. ASSUME NEW x \in S PROVE o[1] <= x
    <3> HIDE DEF T
    <3>0. S \subseteq Int
      OBVIOUS
    <3>1. o[1] \in Int /\ x \in Int /\ k \in Int
      BY <2>1, <3>0
    <3>2. CASE x <= k
      BY <1>7, <3>2 DEF T
    <3>3. CASE k < x
      BY <2>1, <3>1, <3>3
    <3>4. QED
      BY <3>1, <3>2, <3>3
  <2>3. QED
    BY <2>1, <2>2
<1>10. QED
  BY <1>9 DEF Min

\* An order by up to three numbers, the greater first, and then by place.
Numbered(I, R, f, g, h) ==
    \A x, y \in I : <<x, y>> \in R <=>
        \/ f[x] > f[y]
        \/ f[x] = f[y] /\ g[x] > g[y]
        \/ f[x] = f[y] /\ g[x] = g[y] /\ h[x] > h[y]
        \/ f[x] = f[y] /\ g[x] = g[y] /\ h[x] = h[y] /\ x < y

\* No two places are equal in such an order.
LEMMA NumberedIsStrict ==
    ASSUME NEW I \in SUBSET Nat, NEW R,
           NEW f \in [I -> Int], NEW g \in [I -> Int], NEW h \in [I -> Int],
           Numbered(I, R, f, g, h)
    PROVE  Strict(I, R)
<1> USE DEF Numbered
<1>1. ASSUME NEW x \in I, NEW y \in I
      PROVE  f[x] \in Int /\ g[x] \in Int /\ h[x] \in Int /\ x \in Int
  OBVIOUS
<1>2. ASSUME NEW x \in I, NEW y \in I, <<x, y>> \in R PROVE <<y, x>> \notin R
  BY <1>2
<1>3. ASSUME NEW x \in I, NEW y \in I, NEW z \in I, <<x, y>> \in R, <<y, z>> \in R
      PROVE  <<x, z>> \in R
  BY <1>3
<1>4. ASSUME NEW x \in I, NEW y \in I PROVE x = y \/ <<x, y>> \in R \/ <<y, x>> \in R
  OBVIOUS
<1>5. QED
  BY <1>2, <1>3, <1>4 DEF Strict

\* The cases of a set by distance are the cases of that set.
LEMMA ByDistanceElements ==
    ASSUME NEW S \in SUBSET CaseIds, NEW distance, \A c \in S : distance[c] \in Nat
    PROVE  /\ IsFiniteSet(S) /\ Cardinality(S) \in Nat
           /\ ByDistance(S, distance) \in Seq(S) /\ Len(ByDistance(S, distance)) = Cardinality(S)
<1> DEFINE R == {r \in S \X S : \/ distance[r[1]] < distance[r[2]]
                                \/ distance[r[1]] = distance[r[2]] /\ r[1] < r[2]}
<1>1. IsFiniteSet(S) /\ Cardinality(S) \in Nat
  BY SearchAssumption, FS_Subset, FS_CardinalityType
<1>2. \A x, y \in S : <<x, y>> \in R <=> \/ distance[x] < distance[y]
                                         \/ distance[x] = distance[y] /\ x < y
  OBVIOUS
<1>3. S \subseteq Nat
  BY SearchAssumption
<1> HIDE DEF R
<1>4. Strict(S, R)
  BY <1>2, <1>3 DEF Strict
<1>5. ByDistance(S, distance) = InOrder(S, R)
  BY DEF ByDistance, R
<1>6. InOrder(S, R) \in [1..Cardinality(S) -> S]
  BY <1>1, <1>4, InOrderSorts
<1>7. QED
  BY <1>1, <1>5, <1>6, FunctionIsSeq

\* A vector search finds cases the database still has.
LEMMA VectorSearchElements ==
    ASSUME kb \in KnowledgeBase, near \in Nearness, NEW allowed \in SUBSET CaseIds
    PROVE  /\ VectorSearch(kb, near, allowed) \in Seq(Hit)
           /\ \A n \in 1..Len(VectorSearch(kb, near, allowed)) :
                VectorSearch(kb, near, allowed)[n].id \in DOMAIN kb
<1> DEFINE NearSet(distance) == {c \in allowed : distance[c] < NotNear}
           Nearest(distance) == ToSet(FirstOf(ByDistance(NearSet(distance), distance), TopK))
           hits == IF \A c \in CaseIds : near.description[c] = NotNear THEN {}
                   ELSE Nearest(near.description) \union Nearest(near.analysis)
           values(c) == (IF c \in Nearest(near.description) THEN {near.description[c]} ELSE {})
                        \union
                        (IF c \in Nearest(near.analysis) THEN {near.analysis[c]} ELSE {})
           best == [c \in hits |-> Min(values(c))]
           there == hits \cap DOMAIN kb
           all == [n \in 1..Cardinality(there) |->
                    LET c == ByDistance(there, best)[n] IN [id |-> c, distance |-> best[c]]]
<1>1. VectorSearch(kb, near, allowed) = FirstOf(all, TopK)
  BY DEF VectorSearch
<1>2. ASSUME NEW d \in [CaseIds -> Nat] PROVE Nearest(d) \subseteq allowed
  <2>1. NearSet(d) \in SUBSET CaseIds /\ \A c \in NearSet(d) : d[c] \in Nat
    OBVIOUS
  <2>2. ByDistance(NearSet(d), d) \in Seq(NearSet(d))
    BY <2>1, ByDistanceElements
  <2>3. FirstOf(ByDistance(NearSet(d), d), TopK) \in Seq(NearSet(d))
    BY <2>2, SearchAssumption, FirstOfElements
  <2> DEFINE q == FirstOf(ByDistance(NearSet(d), d), TopK)
  <2>4. ToSet(q) = {q[i] : i \in 1..Len(q)}
    BY <2>3, LenProperties DEF ToSet
  <2>5. \A i \in 1..Len(q) : q[i] \in NearSet(d)
    BY <2>3, ElementOfSeq
  <2>6. QED
    BY <2>4, <2>5
<1>3. near.description \in [CaseIds -> Nat] /\ near.analysis \in [CaseIds -> Nat]
  BY DEF Nearness
<1>4. Nearest(near.description) \subseteq allowed /\ Nearest(near.analysis) \subseteq allowed
  BY <1>2, <1>3
<1>5. hits \subseteq CaseIds
  BY <1>4
<1>6. \A c \in hits : values(c) \in SUBSET Nat /\ values(c) # {}
  <2> HIDE DEF Nearest
  <2>1. QED
    BY <1>3, <1>4
<1>7. \A c \in hits : best[c] \in Nat
  <2> HIDE DEF hits, values
  <2>1. QED
    BY <1>6, NatMin
<1> HIDE DEF best, hits
<1>8. there \in SUBSET CaseIds /\ \A c \in there : best[c] \in Nat
  BY <1>5, <1>7
<1>9. /\ Cardinality(there) \in Nat
      /\ ByDistance(there, best) \in Seq(there) /\ Len(ByDistance(there, best)) = Cardinality(there)
  BY <1>8, ByDistanceElements
<1> DEFINE Here == {h \in Hit : h.id \in DOMAIN kb}
<1>10. \A n \in 1..Cardinality(there) : all[n] \in Here
  <2>1. \A n \in 1..Cardinality(there) : ByDistance(there, best)[n] \in there
    BY <1>9, ElementOfSeq
  <2>2. QED
    BY <1>8, <2>1 DEF Hit
<1>11. all \in [1..Cardinality(there) -> Here]
  BY <1>10
<1> HIDE DEF all, there, Here
<1>12. all \in Seq(Here)
  BY <1>9, <1>11, FunctionIsSeq
<1>13. FirstOf(all, TopK) \in Seq(Here)
  BY <1>12, SearchAssumption, FirstOfElements
<1>14. FirstOf(all, TopK) \in Seq(Hit)
  BY <1>13, SeqMonotonic DEF Here
<1>15. \A n \in 1..Len(FirstOf(all, TopK)) : FirstOf(all, TopK)[n] \in Here
  BY <1>13, ElementOfSeq
<1>16. QED
  BY <1>1, <1>14, <1>15 DEF Here

\* So are the candidates of Stage 2.
LEMMA CandidatesType ==
    ASSUME kb \in KnowledgeBase, near \in Nearness, NEW picked, NEW chip
    PROVE  Candidates(kb, near, picked, chip) \in Seq(Hit)
<1> DEFINE allowed == AllowedCases(kb, picked)
           hits == VectorSearch(kb, near, allowed)
           I == {n \in DOMAIN hits : chip => hits[n].id \in OfChip}
<1>1. allowed \in SUBSET CaseIds
  BY DEF AllowedCases, KnowledgeBase
<1>2. hits \in Seq(Hit)
  BY <1>1, VectorSearchElements
<1>3. I \in SUBSET (1..Len(hits))
  BY <1>2, LenProperties
<1>4. Kept(hits, I) \in Seq(Hit)
  BY <1>2, <1>3, KeptElements
<1>5. QED
  BY <1>4 DEF Candidates

\* A case that is loaded has patterns and profiles, if none any more.
LEMMA LoadCaseType ==
    ASSUME kb \in KnowledgeBase, NEW c \in CaseIds, NEW relevance \in 0..100
    PROVE  LoadCase(kb, c, relevance) \in MatchedCase
BY DEF LoadCase, MatchedCase, KnowledgeBase

\* The score of an answer is a percentage.
LEMMA ScoreOfAnswer ==
    ASSUME NEW places
    PROVE  \A s \in {t \in [index : Int, score : 0..100] : t.index \in places} :
              s.score \in Int
OBVIOUS

\* The places of a sequence are finitely many, as many as it is long.
LEMMA LengthIsCardinality ==
    ASSUME NEW T, NEW s \in Seq(T)
    PROVE  /\ DOMAIN s = 1..Len(s) /\ Len(s) \in Nat /\ DOMAIN s \in SUBSET Nat
           /\ IsFiniteSet(DOMAIN s) /\ Cardinality(DOMAIN s) = Len(s)
<1>1. DOMAIN s = 1..Len(s) /\ Len(s) \in Nat
  BY LenProperties
<1>2. IsFiniteSet(1..Len(s)) /\ Cardinality(1..Len(s)) = Len(s)
  BY <1>1, FS_Interval
<1>3. QED
  BY <1>1, <1>2

\* What the reranker leaves are cases with the scores it gave them.
LEMMA RerankType ==
    ASSUME kb \in KnowledgeBase, candidates \in Seq(Hit),
           NEW scores \in Seq([index : Int, score : 0..100]), NEW threshold
    PROVE  Rerank(kb, candidates, scores, threshold) \in Seq(MatchedCase)
<1> DEFINE Score == [index : Int, score : 0..100]
           Passes(s) == s.index \in DOMAIN candidates /\ s.score >= threshold
           OnChip(s) == candidates[s.index].id \in OfChip
           Above(s, t) == \/ OnChip(s) /\ ~OnChip(t)
                          \/ OnChip(s) = OnChip(t) /\ s.score > t.score
           I == {n \in DOMAIN scores : Passes(scores[n])}
           kept == Kept(scores, I)
           R == {r \in (DOMAIN kept) \X (DOMAIN kept) :
                    \/ Above(kept[r[1]], kept[r[2]])
                    \/ ~Above(kept[r[2]], kept[r[1]]) /\ r[1] < r[2]}
           order == InOrder(DOMAIN kept, R)
           sorted == [n \in 1..Len(kept) |-> kept[order[n]]]
           passed == FirstOf(sorted, MaxCandidates)
           Load(n) == LoadCase(kb, candidates[passed[n].index].id, passed[n].score)
<1>1. Rerank(kb, candidates, scores, threshold) = [n \in DOMAIN passed |-> Load(n)]
  BY DEF Rerank, Sorted, Ranked
<1> DEFINE Fit == {s \in Score : s.index \in DOMAIN candidates}
<1>2. kept \in Seq(Fit)
  <2>1. I \in SUBSET (1..Len(scores))
    BY LenProperties
  <2>2. kept \in Seq(Score) /\ Arranges(kept, scores, I, {r \in I \X I : r[1] < r[2]})
    BY <2>1, KeptElements
  <2>3. \A n \in 1..Len(kept) : \E i \in I : kept[n] = scores[i]
    BY <2>2 DEF Arranges
  <2> HIDE DEF kept
  <2>4. \A n \in 1..Len(kept) : kept[n] \in Fit
    BY <2>1, <2>2, <2>3, ElementOfSeq
  <2>5. kept \in [1..Len(kept) -> Fit] /\ Len(kept) \in Nat
    BY <2>2, <2>4, LenProperties
  <2>6. QED
    BY <2>5, FunctionIsSeq
<1> HIDE DEF kept, I
<1>3. DOMAIN kept = 1..Len(kept) /\ Len(kept) \in Nat /\ \A n \in 1..Len(kept) : kept[n] \in Fit
  BY <1>2, LenProperties, ElementOfSeq
<1>4. \A x, y \in DOMAIN kept : <<x, y>> \in R <=>
            \/ Above(kept[x], kept[y])
            \/ ~Above(kept[y], kept[x]) /\ x < y
  OBVIOUS
<1>5. Strict(DOMAIN kept, R)
  <2> DEFINE chip == [n \in DOMAIN kept |-> IF OnChip(kept[n]) THEN 1 ELSE 0]
             score == [n \in DOMAIN kept |-> kept[n].score]
             none == [n \in DOMAIN kept |-> 0]
  <2>1. \A x \in DOMAIN kept : kept[x].score \in Int /\ x \in Nat
    <3>1. \A s \in Fit : s.score \in Int
      BY ScoreOfAnswer
    <3> HIDE DEF Fit
    <3>2. QED
      BY <1>3, <3>1
  <2>2. chip \in [DOMAIN kept -> Int] /\ score \in [DOMAIN kept -> Int]
        /\ none \in [DOMAIN kept -> Int]
    BY <2>1
  <2> HIDE DEF R
  <2>3. Numbered(DOMAIN kept, R, chip, score, none)
    <3> SUFFICES ASSUME NEW x \in DOMAIN kept, NEW y \in DOMAIN kept
                 PROVE  <<x, y>> \in R <=>
                    \/ chip[x] > chip[y]
                    \/ chip[x] = chip[y] /\ score[x] > score[y]
                    \/ chip[x] = chip[y] /\ score[x] = score[y] /\ none[x] > none[y]
                    \/ chip[x] = chip[y] /\ score[x] = score[y] /\ none[x] = none[y] /\ x < y
      BY Zenon DEF Numbered
    <3>1. PICK p \in BOOLEAN : p <=> OnChip(kept[x])
      OBVIOUS
    <3>2. PICK q \in BOOLEAN : q <=> OnChip(kept[y])
      OBVIOUS
    <3>3. Above(kept[x], kept[y]) <=> (p /\ ~q) \/ ((p <=> q) /\ kept[x].score > kept[y].score)
      BY <3>1, <3>2
    <3>4. Above(kept[y], kept[x]) <=> (q /\ ~p) \/ ((p <=> q) /\ kept[y].score > kept[x].score)
      BY <3>1, <3>2
    <3>5. /\ chip[x] = (IF p THEN 1 ELSE 0) /\ chip[y] = (IF q THEN 1 ELSE 0)
          /\ score[x] = kept[x].score /\ score[y] = kept[y].score
          /\ none[x] = 0 /\ none[y] = 0
      BY <3>1, <3>2
    <3>6. <<x, y>> \in R <=>
            Above(kept[x], kept[y]) \/ (~Above(kept[y], kept[x]) /\ x < y)
      BY <1>4
    <3> HIDE DEF Above, chip, score, none
    <3>7. QED
      BY <2>1, <3>3, <3>4, <3>5, <3>6
  <2>4. DOMAIN kept \in SUBSET Nat
    BY <1>3
  <2> HIDE DEF chip, score, none
  <2>5. QED
    BY <2>2, <2>3, <2>4, NumberedIsStrict
<1> HIDE DEF R
<1>6. sorted = [n \in 1..Cardinality(DOMAIN kept) |-> kept[InOrder(DOMAIN kept, R)[n]]]
  <2>1. Cardinality(DOMAIN kept) = Len(kept)
    BY <1>2, LengthIsCardinality
  <2>2. QED
    BY <2>1
<1> HIDE DEF sorted
<1>7. sorted \in Seq(Fit)
  <2>1. DOMAIN kept \in SUBSET (1..Len(kept))
    BY <1>3
  <2> HIDE DEF Fit
  <2>2. QED
    BY <1>2, <1>5, <1>6, <2>1, Arranged
<1>8. passed \in Seq(Fit)
  BY <1>7, SearchAssumption, FirstOfElements
<1> HIDE DEF passed
<1>9. /\ DOMAIN passed = 1..Len(passed) /\ Len(passed) \in Nat
      /\ \A n \in 1..Len(passed) : passed[n] \in Fit
  BY <1>8, LenProperties, ElementOfSeq
<1>10. \A i \in DOMAIN candidates : candidates[i].id \in CaseIds
  <2>1. DOMAIN candidates = 1..Len(candidates)
    BY LenProperties
  <2>2. \A i \in 1..Len(candidates) : candidates[i] \in Hit
    BY ElementOfSeq
  <2>3. QED
    BY <2>1, <2>2 DEF Hit
<1>11. \A n \in 1..Len(passed) : Load(n) \in MatchedCase
  BY <1>9, <1>10, LoadCaseType
<1> HIDE DEF Load
<1>12. [n \in DOMAIN passed |-> Load(n)] \in [1..Len(passed) -> MatchedCase]
  BY <1>9, <1>11
<1>13. QED
  BY <1>1, <1>9, <1>12, FunctionIsSeq

------------------------------------------------------------------------------
(* Weights and scores.                                                     *)

\* A sum of weights grows with the patterns, and is 0 for none only.
LEMMA WeightProperties ==
    ASSUME NEW ps \in SUBSET Patterns
    PROVE  /\ WeightOf(ps) \in Nat
           /\ WeightOf(ps) = 0 <=> ps = {}
           /\ \A qs \in SUBSET ps : WeightOf(qs) <= WeightOf(ps)
           /\ \A p \in ps : Weight[p] <= WeightOf(ps)
<1> DEFINE part(p) == {p} \X (1..Weight[p])
           parts == [p \in ps |-> part(p)]
           cells(qs) == UNION {{p} \X (1..Weight[p]) : p \in qs}
<1>1. ASSUME NEW p \in Patterns
      PROVE  Weight[p] \in Nat \ {0} /\ IsFiniteSet(part(p)) /\ Cardinality(part(p)) = Weight[p]
  <2>1. Weight[p] \in Nat \ {0}
    BY RunAssumption
  <2>2. IsFiniteSet(1..Weight[p]) /\ Cardinality(1..Weight[p]) = Weight[p]
    BY <2>1, FS_Interval
  <2>3. IsFiniteSet({p}) /\ Cardinality({p}) = 1
    BY FS_Singleton
  <2>4. IsFiniteSet(part(p)) /\ Cardinality(part(p)) = Cardinality({p}) * Cardinality(1..Weight[p])
    BY <2>2, <2>3, FS_Product
  <2>5. QED
    BY <2>1, <2>2, <2>3, <2>4
<1>2. IsFiniteSet(cells(ps))
  <2>1. IsFiniteSet(ps)
    BY SearchAssumption, FS_Subset
  <2>2. parts \in [ps -> {part(p) : p \in ps}]
    OBVIOUS
  <2>3. \A t \in {part(p) : p \in ps} : \E p \in ps : parts[p] = t
    OBVIOUS
  <2> HIDE DEF parts
  <2>4. parts \in Surjection(ps, {part(p) : p \in ps})
    BY <2>2, <2>3, Fun_IsSurj
  <2>5. IsFiniteSet({part(p) : p \in ps})
    BY <2>1, <2>4, FS_Surjection
  <2>6. \A t \in {part(p) : p \in ps} : IsFiniteSet(t)
    BY <1>1
  <2> HIDE DEF part
  <2>7. IsFiniteSet(UNION {part(p) : p \in ps})
    BY <2>5, <2>6, FS_UNION
  <2>8. QED
    BY <2>7 DEF part
<1>3. WeightOf(ps) = Cardinality(cells(ps))
  BY DEF WeightOf
<1>4. \A qs \in SUBSET ps : WeightOf(qs) <= WeightOf(ps)
  <2> SUFFICES ASSUME NEW qs \in SUBSET ps PROVE WeightOf(qs) <= WeightOf(ps)
    OBVIOUS
  <2>1. cells(qs) \in SUBSET cells(ps)
    OBVIOUS
  <2>2. WeightOf(qs) = Cardinality(cells(qs))
    BY DEF WeightOf
  <2> HIDE DEF cells
  <2>3. QED
    BY <1>2, <1>3, <2>1, <2>2, FS_Subset
<1>5. \A p \in ps : Weight[p] <= WeightOf(ps)
  <2> SUFFICES ASSUME NEW p \in ps PROVE Weight[p] <= WeightOf(ps)
    OBVIOUS
  <2>1. part(p) \in SUBSET cells(ps)
    OBVIOUS
  <2>2. Cardinality(part(p)) = Weight[p]
    BY <1>1
  <2> HIDE DEF cells, part
  <2>3. QED
    BY <1>2, <1>3, <2>1, <2>2, FS_Subset
<1>6. WeightOf(ps) \in Nat
  BY <1>2, <1>3, FS_CardinalityType
<1>7. WeightOf(ps) = 0 <=> ps = {}
  <2>1. ps = {} => cells(ps) = {}
    OBVIOUS
  <2>2. ps = {} => WeightOf(ps) = 0
    BY <1>3, <2>1, FS_EmptySet
  <2>3. ASSUME NEW p \in ps PROVE WeightOf(ps) # 0
    <3>1. Weight[p] \in Nat \ {0} /\ Weight[p] <= WeightOf(ps)
      BY <1>1, <1>5
    <3>2. QED
      BY <1>6, <3>1
  <2>4. QED
    BY <2>2, <2>3
<1>8. QED
  BY <1>4, <1>5, <1>6, <1>7

\* Division: what a quotient that is rounded down may be.
LEMMA Quotient ==
    ASSUME NEW n \in Nat, NEW d \in Nat \ {0}
    PROVE  /\ n \div d \in Nat
           /\ n < d => n \div d = 0
           /\ d <= n => n \div d >= 1
           /\ \A k \in Nat : n < (k + 1) * d => n \div d <= k
<1> DEFINE q == n \div d
           r == n % d
<1>1. q \in Int /\ r \in 0..(d - 1) /\ n = d * q + r
  BY Z3
<1> HIDE DEF q, r
<1>2. q \in Nat
  <2> SUFFICES ASSUME q <= -1 PROVE FALSE
    BY <1>1
  <2>1. d * q <= -d
    BY <1>1
  <2>2. QED
    BY <1>1, <2>1
<1>3. ASSUME NEW k \in Nat, n < (k + 1) * d PROVE q <= k
  <2> SUFFICES ASSUME k + 1 <= q PROVE FALSE
    BY <1>1
  <2>1. (k + 1) * d <= d * q
    BY <1>1
  <2>2. d * q \in Int /\ (k + 1) * d \in Int
    BY <1>1
  <2>3. QED
    BY <1>1, <1>3, <2>1, <2>2
<1>4. n < d => q = 0
  BY <1>2, <1>3
<1>5. ASSUME d <= n PROVE q >= 1
  <2> SUFFICES ASSUME q = 0 PROVE FALSE
    BY <1>2
  <2>1. QED
    BY <1>1, <1>5
<1>6. QED
  BY <1>2, <1>3, <1>4, <1>5 DEF q

\* A share of the weight lies between nothing and all of it.
LEMMA ShareProperties ==
    ASSUME NEW part \in Nat, NEW whole \in Nat \ {0}, part <= whole
    PROVE  /\ Share(part, whole) \in 0..Unit
           /\ part = 0 => Share(part, whole) = 0
           /\ 2 * Unit * part >= whole => Share(part, whole) >= 1
<1> DEFINE n == 2 * Unit * part + whole
           d == 2 * whole
<1>1. n \in Nat /\ d \in Nat \ {0} /\ Unit \in Nat
  BY DEF Unit
<1>2. n < (Unit + 1) * d
  BY DEF Unit
<1>3. part = 0 => n < d
  BY DEF Unit
<1>4. 2 * Unit * part >= whole => d <= n
  BY DEF Unit
<1>5. Share(part, whole) = n \div d
  BY DEF Share
<1> HIDE DEF n, d
<1>6. QED
  BY <1>1, <1>2, <1>3, <1>4, <1>5, Quotient

\* What a match of some patterns returns.
LEMMA ResultProperties ==
    ASSUME NEW all \in SUBSET Patterns, NEW matched \in SUBSET all
    PROVE  /\ Result(matched, all) \in Results
           /\ Result(matched, all).matched = matched /\ Result(matched, all).all = all
           /\ matched = {} => Result(matched, all).score = 0
           /\ NeverRoundedAway /\ matched # {} => Result(matched, all).score >= 1
<1> DEFINE score == IF all = {} THEN 0 ELSE Share(WeightOf(matched), WeightOf(all))
<1>1. Result(matched, all) = [matched |-> matched, all |-> all, score |-> score]
  BY DEF Result
<1>2. /\ WeightOf(matched) \in Nat /\ WeightOf(all) \in Nat
      /\ WeightOf(matched) <= WeightOf(all)
      /\ WeightOf(all) = 0 <=> all = {}
      /\ WeightOf(matched) = 0 <=> matched = {}
      /\ \A p \in matched : Weight[p] <= WeightOf(matched)
  BY WeightProperties
<1>3. all # {} =>
        /\ Share(WeightOf(matched), WeightOf(all)) \in 0..Unit
        /\ WeightOf(matched) = 0 => Share(WeightOf(matched), WeightOf(all)) = 0
        /\ 2 * Unit * WeightOf(matched) >= WeightOf(all) =>
              Share(WeightOf(matched), WeightOf(all)) >= 1
  BY <1>2, ShareProperties
<1>4. score \in 0..Unit
  BY <1>3 DEF Unit
<1>5. matched = {} => score = 0
  BY <1>2, <1>3
<1>6. ASSUME NeverRoundedAway, matched # {} PROVE score >= 1
  <2>1. PICK p \in matched : TRUE
    BY <1>6
  <2>2. /\ Weight[p] \in Nat /\ Weight[p] <= WeightOf(matched)
        /\ 2 * Unit * Weight[p] >= WeightOf(Patterns)
    BY <1>2, <1>6, RunAssumption DEF NeverRoundedAway
  <2>3. WeightOf(all) <= WeightOf(Patterns) /\ WeightOf(Patterns) \in Nat
    BY WeightProperties
  <2>4. 2 * Unit * WeightOf(matched) >= WeightOf(all)
    BY <1>2, <2>2, <2>3 DEF Unit
  <2>5. QED
    BY <1>3, <1>6, <2>4
<1> HIDE DEF score
<1>7. QED
  BY <1>1, <1>4, <1>5, <1>6 DEF Results

------------------------------------------------------------------------------
(* What the steps compute, by its type and what it rests on.               *)

\* A result of a case that rests on patterns of that case only.
Evidenced ==
    {f \in Finds : /\ f.id # NoCase /\ f.result.all = f.patterns
                   /\ f.result.matched \subseteq f.patterns
                   /\ f.result.matched = {} => f.result.score = 0}

\* What the simple patterns find in the logs.
Finding == [Views -> [CaseIds \union {NoCase} -> SUBSET Simple]]

\* The inputs are what they are said to be.
LEMMA InputFacts ==
    Founds \subseteq Finding /\ Nears \subseteq Nearness /\ KBs \subseteq KnowledgeBase
<1>1. Founds \subseteq Finding /\ Nears \subseteq Nearness
  BY InputAssumption DEF Finding
<1>2. ASSUME NEW k \in KBs PROVE k \in KnowledgeBase
  <2>1. PICK S \in SUBSET CaseIds : k \in [S -> [patterns : SUBSET Patterns, refs : SUBSET Profiles]]
    BY InputAssumption
  <2>2. QED
    BY <2>1 DEF KnowledgeBase
<1>3. QED
  BY <1>1, <1>2

\* What is found with the patterns of a case is evidence of that case.
LEMMA FoundProperties ==
    ASSUME found \in Finding,
           NEW c \in MatchedCase, NEW v \in Views, NEW expert \in Named
    PROVE  /\ Found(c, v, expert) \in Evidenced
           /\ Found(c, v, expert).id = c.id
           /\ Found(c, v, expert).result = CaseResult(c, v)
           /\ NeverRoundedAway /\ Found(c, v, expert).result.matched # {}
                => Found(c, v, expert).result.score >= 1
<1> DEFINE m == Matched(c.patterns, found[v][c.id])
           r == CaseResult(c, v)
<1>1. /\ c.id \in CaseIds /\ c.relevance \in 0..100
      /\ c.patterns \in SUBSET Patterns /\ c.refs \in SUBSET Profiles
  BY DEF MatchedCase
<1>2. /\ r \in Results /\ r.matched = m /\ r.all = c.patterns
      /\ m = {} => r.score = 0
      /\ NeverRoundedAway /\ m # {} => r.score >= 1
  <2>1. m \subseteq c.patterns
    BY DEF Matched
  <2>2. r = Result(m, c.patterns)
    BY DEF CaseResult
  <2> HIDE DEF r, m
  <2>3. QED
    BY <1>1, <2>1, <2>2, ResultProperties
<1>3. c.id # NoCase
  BY <1>1, SearchAssumption DEF NoCase
<1>4. /\ {expert.name} \ {Everyone} \in SUBSET Profiles /\ expert.score \in Int
  BY DEF Named, Views
<1> HIDE DEF r, m
<1>5. Found(c, v, expert) =
        [id |-> c.id, relevance |-> c.relevance, patterns |-> c.patterns, refs |-> c.refs,
         result |-> r, view |-> v,
         experts |-> {expert.name} \ {Everyone}, router |-> expert.score]
  BY DEF Found, r
<1>6. Found(c, v, expert) \in Finds
  BY <1>1, <1>2, <1>4, <1>5 DEF Finds
<1> DEFINE f == Found(c, v, expert)
<1>7. f.id = c.id /\ f.patterns = c.patterns /\ f.result = r
  BY <1>5
<1> HIDE DEF f
<1>8. f.result.matched \subseteq f.patterns
  <2>1. m \subseteq c.patterns
    BY DEF m, Matched
  <2>2. QED
    BY <1>2, <1>7, <2>1
<1>9. f \in Evidenced
  BY <1>2, <1>3, <1>6, <1>7, <1>8 DEF Evidenced, f
<1>10. QED
  BY <1>2, <1>7, <1>9 DEF r, f

\* A result of no case.
LEMMA NothingType ==
    ASSUME NEW result \in Results, NEW v \in Views
    PROVE  Nothing(result, v) \in Finds
BY DEF Nothing, Finds, NoCase, NoScore

\* What is found with all patterns.
LEMMA GlobalResultProperties ==
    ASSUME found \in Finding, NEW v \in Views
    PROVE  /\ GlobalResult(v) \in Results
           /\ GlobalResult(v).matched = {} => GlobalResult(v).score = 0
           /\ NeverRoundedAway /\ GlobalResult(v).matched # {} => GlobalResult(v).score >= 1
<1> DEFINE entries == found[v][NoCase] \union Talked
           m == Matched(entries, found[v][NoCase])
<1>1. entries \in SUBSET Patterns
  BY RunAssumption DEF Finding, Simple
<1>2. m \subseteq entries
  BY DEF Matched
<1>3. GlobalResult(v) = Result(m, entries)
  BY DEF GlobalResult
<1> HIDE DEF entries, m
<1>4. QED
  BY <1>1, <1>2, <1>3, ResultProperties

\* The global expert.
LEMMA NoExpertType == NoExpert \in Named
BY DEF NoExpert, Named, Views, NoScore

\* The other cases of a ranking.
LEMMA OthersProperties ==
    ASSUME NEW ranked \in Seq(Evidenced)
    PROVE  /\ Others(ranked) \subseteq Reports
           /\ \A m \in Others(ranked) :
                \E k \in 2..Len(ranked) :
                    /\ m.id = ranked[k].id /\ m.result = ranked[k].result
                    /\ m = Report(ranked[k]) /\ m.result.score > 0
<1>1. DOMAIN ranked = 1..Len(ranked) /\ Len(ranked) \in Nat
  BY LenProperties
<1>2. \A k \in 2..Len(ranked) : ranked[k] \in Finds
  BY <1>1, ElementOfSeq DEF Evidenced
<1>3. ASSUME NEW m \in Others(ranked)
      PROVE  \E k \in 2..Len(ranked) : m = Report(ranked[k]) /\ ranked[k].result.score > 0
  BY <1>3 DEF Others
<1>4. ASSUME NEW k \in 2..Len(ranked)
      PROVE  /\ Report(ranked[k]) \in Reports
             /\ Report(ranked[k]).id = ranked[k].id
             /\ Report(ranked[k]).result = ranked[k].result
  BY <1>2 DEF Report, Reports, Finds
<1>5. QED
  BY <1>3, <1>4

\* The numbers by which results are ranked.
LEMMA FindNumbers ==
    \A f \in Finds : f.result.score \in Int /\ f.relevance \in Int /\ f.router \in Int
<1>1. Unit \in Int
  BY DEF Unit
<1>2. \A r \in Results : r.score \in Int
  BY <1>1 DEF Results
<1>3. \A f \in Finds : f.result \in Results /\ f.relevance \in Int /\ f.router \in Int
  BY DEF Finds
<1>4. QED
  BY <1>2, <1>3

\* The order in which results are ranked is strict.
LEMMA RankedByNumbers ==
    ASSUME NEW s \in Seq(Finds), NEW I \in SUBSET (1..Len(s)), NEW R,
           NEW h \in [I -> Int], NEW g \in [I -> Int],
           \A x, y \in I : <<x, y>> \in R <=>
              \/ s[x].result.score > s[y].result.score
              \/ s[x].result.score = s[y].result.score /\ g[x] > g[y]
              \/ s[x].result.score = s[y].result.score /\ g[x] = g[y] /\ h[x] > h[y]
              \/ s[x].result.score = s[y].result.score /\ g[x] = g[y] /\ h[x] = h[y] /\ x < y
    PROVE  Strict(I, R)
<1> DEFINE f == [x \in I |-> s[x].result.score]
<1>1. \A x \in I : s[x] \in Finds
  BY ElementOfSeq
<1>2. \A x \in I : s[x].result.score \in Int
  BY <1>1, FindNumbers
<1>3. f \in [I -> Int]
  BY <1>2
<1>4. \A x \in I : f[x] = s[x].result.score
  OBVIOUS
<1> HIDE DEF f
<1>5. Numbered(I, R, f, g, h)
  <2> SUFFICES ASSUME NEW x \in I, NEW y \in I
               PROVE  <<x, y>> \in R <=>
                  \/ f[x] > f[y]
                  \/ f[x] = f[y] /\ g[x] > g[y]
                  \/ f[x] = f[y] /\ g[x] = g[y] /\ h[x] > h[y]
                  \/ f[x] = f[y] /\ g[x] = g[y] /\ h[x] = h[y] /\ x < y
    BY Zenon DEF Numbered
  <2>1. f[x] = s[x].result.score /\ f[y] = s[y].result.score
    BY <1>4
  <2>2. QED
    BY <2>1
<1>6. I \in SUBSET Nat
  OBVIOUS
<1>7. QED
  BY <1>3, <1>5, <1>6, NumberedIsStrict

\* The ranking of the single path: the best score first.
LEMMA RankCasesProperties ==
    ASSUME found \in Finding, view \in Views,
           NEW cs \in Seq(MatchedCase)
    PROVE  /\ RankCases(cs) \in Seq(Evidenced) /\ Len(RankCases(cs)) = Len(cs)
           /\ \A m, n \in 1..Len(RankCases(cs)) :
                m < n => RankCases(cs)[m].result.score >= RankCases(cs)[n].result.score
<1> DEFINE s == [i \in DOMAIN cs |-> Found(cs[i], view, NoExpert)]
           R == {r \in (DOMAIN s) \X (DOMAIN s) :
                    \/ s[r[1]].result.score > s[r[2]].result.score
                    \/ /\ ~(s[r[2]].result.score > s[r[1]].result.score)
                       /\ r[1] < r[2]}
           q == RankCases(cs)
           none == [i \in DOMAIN s |-> 0]
<1>1. q = [n \in 1..Len(s) |-> s[InOrder(DOMAIN s, R)[n]]]
  BY DEF RankCases, Sorted, Ranked
<1>2. s \in Seq(Evidenced) /\ Len(s) = Len(cs)
  <2>1. DOMAIN cs = 1..Len(cs) /\ Len(cs) \in Nat
    BY LenProperties
  <2>2. \A i \in 1..Len(cs) : Found(cs[i], view, NoExpert) \in Evidenced
    BY ElementOfSeq, FoundProperties, NoExpertType
  <2>3. s \in [1..Len(cs) -> Evidenced]
    BY <2>1, <2>2
  <2> HIDE DEF s
  <2>4. QED
    BY <2>1, <2>3, FunctionIsSeq
<1> HIDE DEF q
<1>3. \A x, y \in DOMAIN s : <<x, y>> \in R <=>
            \/ s[x].result.score > s[y].result.score
            \/ /\ ~(s[y].result.score > s[x].result.score)
               /\ x < y
  <2> HIDE DEF s
  <2>1. QED
    OBVIOUS
<1>4. \A x \in DOMAIN s : none[x] = 0
  OBVIOUS
<1>5. none \in [DOMAIN s -> Int]
  OBVIOUS
<1> HIDE DEF s, R, none
<1>6. s \in Seq(Finds)
  BY <1>2, SeqMonotonic DEF Evidenced
<1>7. /\ DOMAIN s = 1..Len(s) /\ Len(s) \in Nat /\ Cardinality(DOMAIN s) = Len(s)
      /\ DOMAIN s \in SUBSET (1..Len(s))
  BY <1>2, LengthIsCardinality
<1>8. \A x \in DOMAIN s : s[x].result.score \in Int
  <2>1. \A x \in DOMAIN s : s[x] \in Finds
    BY <1>6, <1>7, ElementOfSeq
  <2>2. QED
    BY <2>1, FindNumbers
<1>9. Strict(DOMAIN s, R)
  <2>1. \A x, y \in DOMAIN s : <<x, y>> \in R <=>
              \/ s[x].result.score > s[y].result.score
              \/ s[x].result.score = s[y].result.score /\ none[x] > none[y]
              \/ s[x].result.score = s[y].result.score /\ none[x] = none[y] /\ none[x] > none[y]
              \/ s[x].result.score = s[y].result.score /\ none[x] = none[y] /\ none[x] = none[y]
                    /\ x < y
    <3> SUFFICES ASSUME NEW x \in DOMAIN s, NEW y \in DOMAIN s
                 PROVE  <<x, y>> \in R <=>
              \/ s[x].result.score > s[y].result.score
              \/ s[x].result.score = s[y].result.score /\ none[x] > none[y]
              \/ s[x].result.score = s[y].result.score /\ none[x] = none[y] /\ none[x] > none[y]
              \/ s[x].result.score = s[y].result.score /\ none[x] = none[y] /\ none[x] = none[y]
                    /\ x < y
      BY Zenon
    <3>1. /\ s[x].result.score \in Int /\ s[y].result.score \in Int
          /\ none[x] = 0 /\ none[y] = 0
      BY <1>4, <1>8
    <3>2. QED
      BY <1>3, <3>1
  <2>2. QED
    BY <1>5, <1>6, <1>7, <2>1, RankedByNumbers
<1>10. q \in Seq(Evidenced) /\ Arranges(q, s, DOMAIN s, R)
  BY <1>1, <1>2, <1>7, <1>9, Arranged
<1>11. ASSUME NEW m \in 1..Len(q), NEW n \in 1..Len(q), m < n
       PROVE  q[m].result.score >= q[n].result.score
  <2>1. PICK i \in DOMAIN s, j \in DOMAIN s : <<i, j>> \in R /\ q[m] = s[i] /\ q[n] = s[j]
    BY <1>10, <1>11 DEF Arranges
  <2>2. s[i].result.score >= s[j].result.score
    BY <1>3, <1>8, <2>1
  <2>3. QED
    BY <2>1, <2>2
<1>12. Len(q) = Len(cs)
  BY <1>2, <1>7, <1>10 DEF Arranges
<1>13. QED
  BY <1>10, <1>11, <1>12 DEF q

\* One candidate per case: the best of those found of it.
LEMMA DeduplicatedProperties ==
    ASSUME NEW finds \in Seq(Evidenced)
    PROVE  /\ Deduplicated(finds) \in Seq(Evidenced)
           /\ finds # <<>> => Deduplicated(finds) # <<>>
           /\ \A m, n \in 1..Len(Deduplicated(finds)) :
                m # n => Deduplicated(finds)[m].id # Deduplicated(finds)[n].id
<1> DEFINE D == DOMAIN finds
           Same(i) == {j \in D : finds[j].id = finds[i].id}
           firsts == {i \in D : \A j \in Same(i) : i <= j}
           Above(a, b) == \/ a.result.score > b.result.score
                          \/ a.result.score = b.result.score /\ a.relevance > b.relevance
           R(i) == {r \in Same(i) \X Same(i) :
                       \/ Above(finds[r[1]], finds[r[2]])
                       \/ ~Above(finds[r[2]], finds[r[1]]) /\ r[1] < r[2]}
           o(i) == InOrder(Same(i), R(i))
           OfAll(i) == [finds[o(i)[1]] EXCEPT !.experts = UNION {finds[j].experts : j \in Same(i)}]
           s == [i \in D |-> OfAll(i)]
           q == Deduplicated(finds)
<1>1. q = Kept(s, firsts)
  BY DEF Deduplicated, Ranked
<1>2. /\ D = 1..Len(finds) /\ Len(finds) \in Nat
      /\ \A i \in D : finds[i] \in Evidenced /\ finds[i] \in Finds
  BY LenProperties, ElementOfSeq DEF Evidenced
<1>3. finds \in Seq(Finds)
  BY SeqMonotonic DEF Evidenced
<1> HIDE DEF D, q
<1>4. \A i \in D : o(i)[1] \in Same(i)
  <2> SUFFICES ASSUME NEW i \in D PROVE o(i)[1] \in Same(i)
    OBVIOUS
  <2> DEFINE I == Same(i)
             T == R(i)
             g == [x \in I |-> finds[x].relevance]
             none == [x \in I |-> 0]
  <2>1. I \in SUBSET (1..Len(finds)) /\ i \in I
    BY <1>2
  <2>2. \A x \in I : finds[x].result.score \in Int /\ finds[x].relevance \in Int
    BY <1>2, FindNumbers
  <2>3. g \in [I -> Int] /\ none \in [I -> Int]
    BY <2>2
  <2>4. \A x, y \in I : <<x, y>> \in T <=>
                \/ Above(finds[x], finds[y])
                \/ (~Above(finds[y], finds[x]) /\ x < y)
    <3> HIDE DEF Same, Above
    <3>1. QED
      OBVIOUS
  <2>5. \A x \in I : g[x] = finds[x].relevance /\ none[x] = 0
    OBVIOUS
  <2> HIDE DEF I, T, g, none
  <2>6. \A x, y \in I : <<x, y>> \in T <=>
              \/ finds[x].result.score > finds[y].result.score
              \/ finds[x].result.score = finds[y].result.score /\ g[x] > g[y]
              \/ finds[x].result.score = finds[y].result.score /\ g[x] = g[y] /\ none[x] > none[y]
              \/ finds[x].result.score = finds[y].result.score /\ g[x] = g[y] /\ none[x] = none[y]
                    /\ x < y
    <3> SUFFICES ASSUME NEW x \in I, NEW y \in I
                 PROVE  <<x, y>> \in T <=>
              \/ finds[x].result.score > finds[y].result.score
              \/ finds[x].result.score = finds[y].result.score /\ g[x] > g[y]
              \/ finds[x].result.score = finds[y].result.score /\ g[x] = g[y] /\ none[x] > none[y]
              \/ finds[x].result.score = finds[y].result.score /\ g[x] = g[y] /\ none[x] = none[y]
                    /\ x < y
      BY Zenon
    <3>1. /\ finds[x].result.score \in Int /\ finds[x].relevance \in Int
          /\ finds[y].result.score \in Int /\ finds[y].relevance \in Int
          /\ g[x] = finds[x].relevance /\ none[x] = 0
          /\ g[y] = finds[y].relevance /\ none[y] = 0
      BY <2>2, <2>5
    <3>2. QED
      BY <2>4, <3>1
  <2>7. Strict(I, T)
    BY <1>3, <2>1, <2>3, <2>6, RankedByNumbers
  <2>8. IsFiniteSet(I) /\ Cardinality(I) \in Nat
    BY <1>2, <2>1, IntervalFinite
  <2>9. /\ InOrder(I, T) \in [1..Cardinality(I) -> I]
        /\ \E n \in 1..Cardinality(I) : InOrder(I, T)[n] = i
    BY <2>1, <2>7, <2>8, InOrderSorts
  <2>10. InOrder(I, T)[1] \in I
    BY <2>8, <2>9
  <2>11. QED
    BY <2>10 DEF I, T
<1> HIDE DEF o, R
<1>5. \A i \in D : s[i] \in Evidenced /\ s[i].id = finds[i].id
  <2> SUFFICES ASSUME NEW i \in D PROVE s[i] \in Evidenced /\ s[i].id = finds[i].id
    OBVIOUS
  <2> DEFINE b == finds[o(i)[1]]
             names2 == UNION {finds[j].experts : j \in Same(i)}
  <2>1. b \in Finds /\ b \in Evidenced /\ b.id = finds[i].id
    BY <1>2, <1>4
  <2>2. \A j \in Same(i) : finds[j].experts \in SUBSET Profiles
    BY <1>2 DEF Finds
  <2>3. names2 \in SUBSET Profiles
    BY <2>2
  <2>4. s[i] = [b EXCEPT !.experts = names2]
    OBVIOUS
  <2> HIDE DEF b, names2, s
  <2>5. /\ s[i] \in Finds /\ s[i].id = b.id /\ s[i].result = b.result
        /\ s[i].patterns = b.patterns
    BY <2>1, <2>3, <2>4 DEF Finds
  <2>6. QED
    BY <2>1, <2>5 DEF Evidenced
<1> HIDE DEF OfAll
<1>6. s \in Seq(Evidenced) /\ Len(s) = Len(finds)
  <2>1. s \in [1..Len(finds) -> Evidenced]
    BY <1>2, <1>5
  <2> HIDE DEF s
  <2>2. QED
    BY <1>2, <2>1, FunctionIsSeq
<1> HIDE DEF s
<1>7. firsts \in SUBSET (1..Len(s))
  BY <1>2, <1>6
<1>8. \A i, j \in firsts : i < j => finds[i].id # finds[j].id
  BY <1>2
<1>9. finds # <<>> => 1 \in firsts
  <2> SUFFICES ASSUME finds # <<>> PROVE 1 \in firsts
    OBVIOUS
  <2>1. 1 \in D
    BY <1>2, EmptySeq
  <2>2. \A j \in D : 1 <= j
    BY <1>2
  <2>3. QED
    BY <2>1, <2>2
<1>10. firsts \subseteq D
  OBVIOUS
<1> HIDE DEF firsts
<1> DEFINE L == {r \in firsts \X firsts : r[1] < r[2]}
<1>11. q \in Seq(Evidenced) /\ Arranges(q, s, firsts, L)
  BY <1>1, <1>6, <1>7, KeptElements
<1>12. \A i, j \in firsts : <<i, j>> \in L => i < j
  OBVIOUS
<1> HIDE DEF L
<1>13. ASSUME NEW m \in 1..Len(q), NEW n \in 1..Len(q), m < n PROVE q[m].id # q[n].id
  <2>1. PICK i \in firsts, j \in firsts : <<i, j>> \in L /\ q[m] = s[i] /\ q[n] = s[j]
    BY <1>11, <1>13 DEF Arranges
  <2>2. finds[i].id # finds[j].id
    BY <1>8, <1>12, <2>1
  <2>3. QED
    BY <1>5, <1>10, <2>1, <2>2
<1>14. \A m, n \in 1..Len(q) : m # n => q[m].id # q[n].id
  <2> SUFFICES ASSUME NEW m \in 1..Len(q), NEW n \in 1..Len(q), m # n PROVE q[m].id # q[n].id
    OBVIOUS
  <2>1. m < n \/ n < m
    OBVIOUS
  <2>2. QED
    BY <1>13, <2>1
<1>15. finds # <<>> => q # <<>>
  <2> SUFFICES ASSUME finds # <<>> PROVE q # <<>>
    OBVIOUS
  <2>1. \E n \in 1..Len(q) : q[n] = s[1]
    BY <1>9, <1>11 DEF Arranges
  <2>2. Len(q) # 0
    BY <1>11, <2>1, LenProperties
  <2>3. QED
    BY <2>2, EmptySeq
<1>16. QED
  BY <1>11, <1>14, <1>15 DEF q

\* The ranking of the ensemble: the best score first, every case once.
LEMMA RankPoolProperties ==
    ASSUME found \in Finding, view \in Views,
           pool \in Seq([case : MatchedCase, expert : Named])
    PROVE  /\ RankPool \in Seq(Evidenced)
           /\ pool # <<>> => RankPool # <<>>
           /\ \A m, n \in 1..Len(RankPool) :
                m < n => /\ RankPool[m].result.score >= RankPool[n].result.score
                         /\ RankPool[m].id # RankPool[n].id
<1> DEFINE Find(c) == Found(c.case, ExpertView(c.expert.name), c.expert)
           finds == [i \in DOMAIN pool |-> Find(pool[i])]
           s == Deduplicated(finds)
           Above(a, b) ==
             \/ a.result.score > b.result.score
             \/ /\ a.result.score = b.result.score
                /\ \/ a.relevance > b.relevance
                   \/ a.relevance = b.relevance /\ a.router > b.router
           R == {r \in (DOMAIN s) \X (DOMAIN s) :
                    \/ Above(s[r[1]], s[r[2]])
                    \/ ~Above(s[r[2]], s[r[1]]) /\ r[1] < r[2]}
           q == RankPool
           g == [i \in DOMAIN s |-> s[i].relevance]
           h == [i \in DOMAIN s |-> s[i].router]
<1>1. q = [n \in 1..Len(s) |-> s[InOrder(DOMAIN s, R)[n]]]
  BY DEF RankPool, Sorted, Ranked
<1> HIDE DEF q
<1>2. finds \in Seq(Evidenced) /\ Len(finds) = Len(pool)
  <2>1. DOMAIN pool = 1..Len(pool) /\ Len(pool) \in Nat
    BY LenProperties
  <2>2. \A i \in 1..Len(pool) : pool[i] \in [case : MatchedCase, expert : Named]
    BY ElementOfSeq
  <2>3. ASSUME NEW c \in [case : MatchedCase, expert : Named] PROVE Find(c) \in Evidenced
    <3>1. c.case \in MatchedCase /\ c.expert \in Named /\ c.expert.name \in Views
      BY DEF Named
    <3>2. ExpertView(c.expert.name) \in Views
      BY <3>1 DEF ExpertView
    <3>3. QED
      BY <3>1, <3>2, FoundProperties
  <2> HIDE DEF Find
  <2>4. finds \in [1..Len(pool) -> Evidenced]
    BY <2>1, <2>2, <2>3
  <2> HIDE DEF finds
  <2>5. QED
    BY <2>1, <2>4, FunctionIsSeq
<1> HIDE DEF finds
<1>3. /\ s \in Seq(Evidenced)
      /\ finds # <<>> => s # <<>>
      /\ \A m, n \in 1..Len(s) : m # n => s[m].id # s[n].id
  BY <1>2, DeduplicatedProperties
<1> HIDE DEF s
<1>4. /\ DOMAIN s = 1..Len(s) /\ Len(s) \in Nat /\ Cardinality(DOMAIN s) = Len(s)
      /\ DOMAIN s \in SUBSET (1..Len(s))
  BY <1>3, LengthIsCardinality
<1>5. s \in Seq(Finds)
  BY <1>3, SeqMonotonic DEF Evidenced
<1>6. \A x \in DOMAIN s : /\ s[x].result.score \in Int /\ s[x].relevance \in Int
                          /\ s[x].router \in Int
  BY <1>4, <1>5, ElementOfSeq, FindNumbers
<1>7. \A x, y \in DOMAIN s : <<x, y>> \in R <=>
            \/ Above(s[x], s[y])
            \/ (~Above(s[y], s[x]) /\ x < y)
  <2> HIDE DEF Above
  <2>1. QED
    OBVIOUS
<1>8. g \in [DOMAIN s -> Int] /\ h \in [DOMAIN s -> Int]
  BY <1>6
<1>9. \A x \in DOMAIN s : g[x] = s[x].relevance /\ h[x] = s[x].router
  OBVIOUS
<1> HIDE DEF R, g, h
<1>10. \A x, y \in DOMAIN s : <<x, y>> \in R <=>
              \/ s[x].result.score > s[y].result.score
              \/ s[x].result.score = s[y].result.score /\ g[x] > g[y]
              \/ s[x].result.score = s[y].result.score /\ g[x] = g[y] /\ h[x] > h[y]
              \/ s[x].result.score = s[y].result.score /\ g[x] = g[y] /\ h[x] = h[y] /\ x < y
  <2> SUFFICES ASSUME NEW x \in DOMAIN s, NEW y \in DOMAIN s
               PROVE  <<x, y>> \in R <=>
              \/ s[x].result.score > s[y].result.score
              \/ s[x].result.score = s[y].result.score /\ g[x] > g[y]
              \/ s[x].result.score = s[y].result.score /\ g[x] = g[y] /\ h[x] > h[y]
              \/ s[x].result.score = s[y].result.score /\ g[x] = g[y] /\ h[x] = h[y] /\ x < y
    BY Zenon
  <2>1. /\ s[x].result.score \in Int /\ s[x].relevance \in Int /\ s[x].router \in Int
        /\ s[y].result.score \in Int /\ s[y].relevance \in Int /\ s[y].router \in Int
        /\ g[x] = s[x].relevance /\ h[x] = s[x].router
        /\ g[y] = s[y].relevance /\ h[y] = s[y].router
    BY <1>6, <1>9
  <2>2. QED
    BY <1>7, <2>1
<1>11. Strict(DOMAIN s, R)
  BY <1>4, <1>5, <1>8, <1>10, RankedByNumbers
<1>12. q \in Seq(Evidenced) /\ Arranges(q, s, DOMAIN s, R)
  BY <1>1, <1>3, <1>4, <1>11, Arranged
<1>13. \A i, j \in DOMAIN s : <<i, j>> \in R =>
            s[i].result.score >= s[j].result.score /\ i # j
  <2> SUFFICES ASSUME NEW i \in DOMAIN s, NEW j \in DOMAIN s, <<i, j>> \in R
               PROVE  s[i].result.score >= s[j].result.score /\ i # j
    BY Zenon
  <2>1. s[i].result.score >= s[j].result.score
    BY <1>6, <1>10
  <2>2. i # j
    BY <1>11 DEF Strict
  <2>3. QED
    BY <2>1, <2>2
<1>14. ASSUME NEW m \in 1..Len(q), NEW n \in 1..Len(q), m < n
       PROVE  q[m].result.score >= q[n].result.score /\ q[m].id # q[n].id
  <2>1. PICK i \in DOMAIN s, j \in DOMAIN s : <<i, j>> \in R /\ q[m] = s[i] /\ q[n] = s[j]
    BY <1>12, <1>14 DEF Arranges
  <2>2. QED
    BY <1>3, <1>4, <1>13, <2>1
<1>15. pool # <<>> => q # <<>>
  <2> SUFFICES ASSUME pool # <<>> PROVE q # <<>>
    OBVIOUS
  <2>1. finds # <<>> /\ Len(finds) # 0
    BY <1>2, EmptySeq
  <2>2. Len(s) # 0
    BY <1>3, <2>1, EmptySeq
  <2>3. Len(q) # 0
    BY <1>4, <1>12, <2>2 DEF Arranges
  <2>4. QED
    BY <2>3, EmptySeq
<1>16. QED
  BY <1>12, <1>14, <1>15 DEF q

------------------------------------------------------------------------------
(* The stages.                                                             *)

\* The last stage announced, by the place where the run stands.  The stages 4
\* and 5 share the places behind them, which the fallback may lead to or not,
\* and only a pipeline of seven stages reflects.
StageInv ==
    /\ announced \in Steps
    /\ pc = "asked"      => announced = 0
    /\ pc = "refined"    => announced = 1
    /\ pc \in {"normalized", "stage2"} => announced = 2
    /\ pc = "experts"    => announced \in {2, 3}
    /\ pc \in {"scoring", "selecting"} => announced = 3
    /\ pc = "matched"    => announced = 4
    /\ pc \in {"owning", "rescoring", "judging", "reporting"} => announced \in {4, 5}
    /\ pc = "reflecting" => announced = 6 /\ StageCount = 7

\* At first no stage is announced.
LEMMA StageInit == Init => StageInv /\ Stages!Init
BY StageAssumption DEF Init, StageInv, Steps, Stages!Init

\* What others change is nothing of the run.
LEMMA OthersAnnounceNothing == ByOthers => UNCHANGED <<pc, announced>>
BY DEF ByOthers, DeleteCase, Unlink, SetMode

\* The stages up to the search.
LEMMA EarlyStages ==
    ASSUME StageInv, RunStage1 \/ RunMasterRule \/ ChoosePath
    PROVE  StageInv' /\ (announced' = announced \/ announced' \in NextSteps(announced))
<1> USE StageAssumption DEF StageInv, Steps, NextSteps
<1>1. CASE RunStage1
  BY <1>1 DEF RunStage1
<1>2. CASE RunMasterRule
  BY <1>2 DEF RunMasterRule
<1>3. CASE ChoosePath
  BY <1>3 DEF ChoosePath
<1>4. QED
  BY <1>1, <1>2, <1>3

\* Stage 2: announced once, or once for each expert.
LEMMA SearchStages ==
    ASSUME StageInv,
           \/ LoadPinned \/ StartSearch \/ StartExpert \/ RerankerFails
           \/ \E answer \in Answers : ScoreCandidates(answer)
    PROVE  StageInv' /\ (announced' = announced \/ announced' \in NextSteps(announced))
<1> USE StageAssumption DEF StageInv, Steps, NextSteps
<1>1. CASE LoadPinned \/ StartSearch
  BY <1>1 DEF LoadPinned, StartSearch
<1>2. CASE StartExpert
  BY <1>2 DEF StartExpert, ExpertStage
<1>3. CASE RerankerFails
  BY <1>3 DEF RerankerFails
<1>4. CASE \E answer \in Answers : ScoreCandidates(answer)
  BY <1>4 DEF ScoreCandidates, Scored
<1>5. QED
  BY <1>1, <1>2, <1>3, <1>4

\* Stage 3/4 and the fallback.
LEMMA MatchStages ==
    ASSUME StageInv,
           \/ SelectCase \/ SelectFromPool \/ RunFallback \/ FindOwners
           \/ \E o \in Rescored(main.view) : RescoreMatches(o)
    PROVE  StageInv' /\ (announced' = announced \/ announced' \in NextSteps(announced))
<1> USE StageAssumption DEF StageInv, Steps, NextSteps
<1>1. CASE SelectCase \/ SelectFromPool
  BY <1>1 DEF SelectCase, SelectFromPool, TryAllPatterns, Choose
<1>2. CASE RunFallback
  BY <1>2 DEF RunFallback
<1>3. CASE FindOwners
  BY <1>3 DEF FindOwners
<1>4. CASE \E o \in Rescored(main.view) : RescoreMatches(o)
  BY <1>4 DEF RescoreMatches
<1>5. QED
  BY <1>1, <1>2, <1>3, <1>4

\* The verdict, the report and the reflection.
LEMMA LateStages ==
    ASSUME StageInv, Judge \/ WriteReport \/ Reflect \/ Finish \/ Cancel
    PROVE  StageInv' /\ (announced' = announced \/ announced' \in NextSteps(announced))
<1> USE StageAssumption DEF StageInv, Steps, NextSteps
<1>1. CASE Judge
  BY <1>1 DEF Judge
<1>2. CASE WriteReport
  BY <1>2 DEF WriteReport
<1>3. CASE Reflect
  BY <1>3 DEF Reflect
<1>4. CASE Finish \/ Cancel
  BY <1>4 DEF Finish, Cancel
<1>5. QED
  BY <1>1, <1>2, <1>3, <1>4

\* Every step keeps the stages in order.
LEMMA StageStep ==
    StageInv /\ [Next]_vars => StageInv' /\ [Stages!Next]_announced
<1> SUFFICES ASSUME StageInv, [Next]_vars
             PROVE  StageInv' /\ [Stages!Next]_announced
  OBVIOUS
<1>1. \/ UNCHANGED <<pc, announced>>
      \/ StageInv' /\ (announced' = announced \/ announced' \in NextSteps(announced))
  BY OthersAnnounceNothing, EarlyStages, SearchStages, MatchStages, LateStages
     DEF Next, Run, vars
<1>2. announced' \in NextSteps(announced) => Stages!Next
  BY DEF Stages!Next, Stages!NextSteps, Stages!Steps, NextSteps, Steps
<1>3. QED
  BY <1>1, <1>2 DEF StageInv

------------------------------------------------------------------------------
\* Where a run stands tells which stages it has announced.
THEOREM StagesAlwaysKnown == Spec => []StageInv
BY StageInit, StageStep, PTL DEF Spec

\* Every run of the pipeline announces its stages as StageProgress says, on the
\* path of one profile as on that of several, whatever is found, fails or is
\* changed by others: the percentages and the cancellation of the job server,
\* which take that order for granted, see no stage out of turn.
THEOREM PipelineImplementsStages == Spec => ImplementsStages
<1>1. Init => Stages!Init
  BY StageInit
<1>2. QED
  BY <1>1, StageStep, StagesAlwaysKnown, PTL DEF Spec, ImplementsStages, Stages!Spec


\* The experts of a run, in the order they are asked.
LEMMA ExpertsType ==
    ASSUME InputTypes, NEW ranking \in Rankings
    PROVE  Experts(ranking) \in Seq(Named)
<1>1. kb \in KnowledgeBase /\ near \in Nearness /\ asked \in Requests
  BY InputAssumption DEF InputTypes
<1>2. asked.profile \in Profiles \union {NoProfile}
  BY <1>1, InputAssumption
<1>3. DOMAIN kb \subseteq CaseIds /\ \A c \in DOMAIN kb : kb[c].refs \subseteq Profiles
  BY <1>1 DEF KnowledgeBase
<1>4. \A c \in Situation : c \in Hit /\ c.id \in DOMAIN kb
  <2> DEFINE q == VectorSearch(kb, near, CaseIds)
  <2>1. q \in Seq(Hit) /\ \A n \in 1..Len(q) : q[n].id \in DOMAIN kb
    BY <1>1, VectorSearchElements
  <2> HIDE DEF q
  <2>2. DOMAIN q = 1..Len(q) /\ \A n \in 1..Len(q) : q[n] \in Hit
    BY <2>1, LenProperties, ElementOfSeq
  <2>3. Situation \subseteq {q[n] : n \in DOMAIN q}
    BY DEF Situation, ToSet, q
  <2>4. QED
    BY <2>1, <2>2, <2>3
<1>5. RoutedProfiles \subseteq Profiles
  BY <1>3, <1>4 DEF RoutedProfiles, Cause
<1>6. \A p : Similarity(p) \in Int
  <2> SUFFICES ASSUME NEW p PROVE Similarity(p) \in Int
    OBVIOUS
  <2> DEFINE like == {c.distance : c \in {s \in Situation : p \in kb[s.id].refs}}
  <2>1. like \in SUBSET Nat
    BY <1>4 DEF Hit
  <2>2. like # {} => Min(like) \in Nat
    <3> HIDE DEF like
    <3>1. QED
      BY <2>1, NatMin
  <2>3. Similarity(p) = IF like = {} THEN NoScore ELSE 100 - Min(like)
    BY DEF Similarity
  <2> HIDE DEF like
  <2>4. QED
    BY <2>2, <2>3 DEF NoScore
<1>7. ranking \in Seq(Profiles)
  <2>1. IsFiniteSet(RoutedProfiles) /\ Cardinality(RoutedProfiles) \in Nat
    BY <1>5, SearchAssumption, FS_Subset, FS_CardinalityType
  <2>2. ranking \in [1..Cardinality(RoutedProfiles) -> Profiles]
    BY <1>5 DEF Rankings, SetToSeqs
  <2>3. QED
    BY <2>1, <2>2, FunctionIsSeq
<1> DEFINE own == IF asked.profile = NoProfile THEN <<>>
                  ELSE <<[name |-> asked.profile, score |-> NoScore]>>
           window == FirstOf(ranking, WindowSize)
           routed == [i \in DOMAIN window |->
                        [name |-> window[i], score |-> Similarity(window[i])]]
           last == IF \E c \in {s.id : s \in Situation} \union Cause : kb[c].refs = {}
                   THEN <<NoExpert>> ELSE <<>>
<1>8. own \in Seq(Named)
  <2>1. asked.profile # NoProfile => [name |-> asked.profile, score |-> NoScore] \in Named
    BY <1>2 DEF Named, Views, NoScore
  <2>2. QED
    BY <2>1, EmptySeq
<1>9. routed \in Seq(Named)
  <2>1. window \in Seq(Profiles)
    BY <1>7, RunAssumption, FirstOfElements
  <2> HIDE DEF window
  <2>2. /\ DOMAIN window = 1..Len(window) /\ Len(window) \in Nat
        /\ \A i \in 1..Len(window) : window[i] \in Profiles
    BY <2>1, LenProperties, ElementOfSeq
  <2>3. routed \in [1..Len(window) -> Named]
    BY <1>6, <2>2 DEF Named, Views
  <2> HIDE DEF routed
  <2>4. QED
    BY <2>2, <2>3, FunctionIsSeq
<1>10. last \in Seq(Named)
  BY NoExpertType, EmptySeq
<1>11. Experts(ranking) = own \o routed \o last
  BY DEF Experts
<1> HIDE DEF own, routed, last
<1>12. own \o routed \in Seq(Named)
  BY <1>8, <1>9, ConcatProperties
<1>13. QED
  BY <1>10, <1>11, <1>12, ConcatProperties

------------------------------------------------------------------------------
(* The types of the variables, and the path without experts.               *)

\* Before the experts are chosen there are none, and on the path of one
\* profile there never are.
NoExpertsYet == pc \in {"asked", "refined", "normalized", "stage2"} => active = <<>>

\* The types at first.
LEMMA TypeInit == Init => TypeOK /\ NoExpertsYet
<1> SUFFICES ASSUME Init PROVE TypeOK /\ NoExpertsYet
  OBVIOUS
<1>1. InputTypes
  BY RunAssumption, InputFacts DEF Init, InputTypes
<1>2. NoResult \in Results
  BY ResultProperties DEF NoResult
<1>3. Everyone \in Views
  BY DEF Views
<1>4. SearchTypes
  <2>1. /\ candidates \in Seq(Hit) /\ active \in Seq(Named) /\ cases \in Seq(MatchedCase)
        /\ pool \in Seq([case : MatchedCase, expert : Named])
    BY EmptySeq DEF Init
  <2>2. announced \in Steps /\ perExpert \in BOOLEAN /\ runMode \in Modes /\ view \in Views
    <3>1. announced \in Steps
      BY StageInit DEF StageInv
    <3>2. perExpert = FALSE /\ runMode = "single" /\ view = Everyone
      BY DEF Init
    <3>3. QED
      BY <1>3, <3>1, <3>2 DEF Modes
  <2>3. turn \in Nat /\ pc = "asked"
    BY DEF Init
  <2>4. QED
    BY <2>1, <2>2, <2>3 DEF SearchTypes
<1>5. OutcomeTypes
  BY <1>2, <1>3, NothingType DEF Init, OutcomeTypes, Verdicts
<1>6. QED
  BY <1>1, <1>4, <1>5 DEF TypeOK, NoExpertsYet, Init

\* What the deletion of a case or of a link leaves is a knowledge base.
LEMMA OthersTypes ==
    ASSUME TypeOK, NoExpertsYet, ByOthers
    PROVE  TypeOK' /\ NoExpertsYet'
<1>1. ASSUME NEW c \in DOMAIN kb, DeleteCase(c) PROVE TypeOK' /\ NoExpertsYet'
  <2>1. kb' \in KnowledgeBase
    BY <1>1 DEF TypeOK, InputTypes, DeleteCase, KnowledgeBase
  <2>2. changes' \in 0..MaxChanges
    BY <1>1, RunAssumption DEF TypeOK, InputTypes, DeleteCase, Change
  <2>3. QED
    BY <1>1, <2>1, <2>2 DEF TypeOK, InputTypes, SearchTypes, OutcomeTypes, NoExpertsYet,
                            DeleteCase, input, control, search, outcome, rescore, ending
<1>2. ASSUME NEW c \in DOMAIN kb, NEW p \in Patterns, Unlink(c, p) PROVE TypeOK' /\ NoExpertsYet'
  <2>1. kb' \in KnowledgeBase
    <3>1. PICK S \in SUBSET CaseIds :
                kb \in [S -> [patterns : SUBSET Patterns, refs : SUBSET Profiles]]
      BY DEF TypeOK, InputTypes, KnowledgeBase
    <3>2. kb[c] \in [patterns : SUBSET Patterns, refs : SUBSET Profiles]
      BY <3>1
    <3>3. [kb[c] EXCEPT !.patterns = @ \ {p}]
                \in [patterns : SUBSET Patterns, refs : SUBSET Profiles]
      BY <3>2
    <3>4. kb' = [kb EXCEPT ![c] = [kb[c] EXCEPT !.patterns = @ \ {p}]]
      BY <1>2 DEF Unlink
    <3>5. kb' \in [S -> [patterns : SUBSET Patterns, refs : SUBSET Profiles]]
      BY <3>1, <3>3, <3>4
    <3>6. QED
      BY <3>5 DEF KnowledgeBase
  <2>2. changes' \in 0..MaxChanges
    BY <1>2, RunAssumption DEF TypeOK, InputTypes, Unlink, Change
  <2>3. QED
    BY <1>2, <2>1, <2>2 DEF TypeOK, InputTypes, SearchTypes, OutcomeTypes, NoExpertsYet,
                            Unlink, input, control, search, outcome, rescore, ending
<1>3. ASSUME NEW m \in Modes, SetMode(m) PROVE TypeOK' /\ NoExpertsYet'
  <2>1. changes' \in 0..MaxChanges
    BY <1>3, RunAssumption DEF TypeOK, InputTypes, SetMode, Change
  <2>2. QED
    BY <1>3, <2>1 DEF TypeOK, InputTypes, SearchTypes, OutcomeTypes, NoExpertsYet,
                      SetMode, input, control, search, outcome, rescore, ending
<1>4. QED
  BY <1>1, <1>2, <1>3 DEF ByOthers

\* The steps up to the search and in it.
LEMMA SearchStepTypes ==
    ASSUME TypeOK, NoExpertsYet, announced' \in Steps,
           \/ RunStage1 \/ RunMasterRule \/ ChoosePath
           \/ LoadPinned \/ StartSearch \/ StartExpert
           \/ \E answer \in Answers : ScoreCandidates(answer)
           \/ RerankerFails
    PROVE  TypeOK' /\ NoExpertsYet'
<1> USE DEF input, base, control, search, outcome, rescore, ending
<1>0. /\ kb \in KnowledgeBase /\ near \in Nearness /\ asked \in Requests
      /\ found \in Finding
      /\ asked.profile \in Profiles \union {NoProfile}
      /\ Selected \in SUBSET Profiles
      /\ \A c \in DOMAIN kb : c \in CaseIds /\ kb[c].refs \subseteq Profiles
  <2>1. /\ kb \in KnowledgeBase /\ near \in Nearness /\ asked \in Requests
        /\ found \in Finding
    BY InputFacts DEF TypeOK, InputTypes
  <2>2. asked.profile \in Profiles \union {NoProfile}
    BY <2>1, InputAssumption
  <2>3. \A c \in DOMAIN kb : c \in CaseIds /\ kb[c].refs \subseteq Profiles
    BY <2>1 DEF KnowledgeBase
  <2>4. QED
    BY <2>1, <2>2, <2>3 DEF Selected
<1>1. ASSUME RunStage1 PROVE TypeOK' /\ NoExpertsYet'
  <2>1. view' \in Views
    BY <1>0, <1>1 DEF RunStage1, Views
  <2>2. SearchTypes' /\ NoExpertsYet'
    BY <1>1, <2>1 DEF RunStage1, TypeOK, SearchTypes, NoExpertsYet
  <2>3. InputTypes' /\ OutcomeTypes'
    BY <1>1 DEF RunStage1, TypeOK, InputTypes, OutcomeTypes
  <2>4. QED
    BY <2>2, <2>3 DEF TypeOK
<1>2. ASSUME RunMasterRule PROVE TypeOK' /\ NoExpertsYet'
  <2>1. SearchTypes' /\ NoExpertsYet'
    BY <1>2 DEF RunMasterRule, TypeOK, SearchTypes, NoExpertsYet
  <2>2. InputTypes' /\ OutcomeTypes'
    BY <1>2 DEF RunMasterRule, TypeOK, InputTypes, OutcomeTypes
  <2>3. QED
    BY <2>1, <2>2 DEF TypeOK
<1>3. ASSUME ChoosePath PROVE TypeOK' /\ NoExpertsYet'
  <2>1. InputTypes' /\ OutcomeTypes'
    BY <1>3 DEF ChoosePath, TypeOK, InputTypes, OutcomeTypes
  <2>2. active' \in Seq(Named) /\ (pc' = "stage2" => active' = <<>>)
    <3>1. CASE pc' = "experts"
      <4>1. PICK ranking \in Rankings : active' = Experts(ranking)
        BY <1>3, <3>1 DEF ChoosePath
      <4>2. QED
        BY <3>1, <4>1, ExpertsType DEF TypeOK
    <3>2. CASE pc' # "experts"
      BY <1>3, <3>2 DEF ChoosePath, TypeOK, SearchTypes, NoExpertsYet
    <3>3. QED
      BY <3>1, <3>2
  <2>3. active' # <<>> => 1 \in 1..Len(active')
    BY <2>2, EmptySeq
  <2>4. pc' \in {"stage2", "experts"} /\ turn' = 1 /\ runMode' \in Modes
    BY <1>3 DEF ChoosePath, TypeOK, InputTypes
  <2>5. SearchTypes' /\ NoExpertsYet'
    BY <1>3, <2>2, <2>3, <2>4 DEF ChoosePath, TypeOK, SearchTypes, NoExpertsYet
  <2>6. QED
    BY <2>1, <2>5 DEF TypeOK
<1>4. ASSUME LoadPinned PROVE TypeOK' /\ NoExpertsYet'
  <2>1. LoadCase(kb, asked.pinned, 100) \in MatchedCase
    BY <1>0, <1>4, LoadCaseType DEF LoadPinned
  <2>2. cases' \in Seq(MatchedCase)
    BY <1>4, <2>1 DEF LoadPinned
  <2>3. names' \subseteq Profiles
    BY <1>0, <1>4 DEF LoadPinned
  <2>4. InputTypes' /\ OutcomeTypes'
    BY <1>4, <2>3 DEF LoadPinned, TypeOK, InputTypes, OutcomeTypes
  <2>5. SearchTypes' /\ NoExpertsYet'
    BY <1>4, <2>2 DEF LoadPinned, TypeOK, SearchTypes, NoExpertsYet
  <2>6. QED
    BY <2>4, <2>5 DEF TypeOK
<1>5. ASSUME StartSearch PROVE TypeOK' /\ NoExpertsYet'
  <2>1. candidates' \in Seq(Hit)
    BY <1>0, <1>5, CandidatesType DEF StartSearch
  <2>2. active = <<>>
    BY <1>5 DEF StartSearch, NoExpertsYet
  <2>3. InputTypes' /\ OutcomeTypes'
    BY <1>5 DEF StartSearch, TypeOK, InputTypes, OutcomeTypes
  <2>4. SearchTypes' /\ NoExpertsYet'
    BY <1>5, <2>1, <2>2 DEF StartSearch, TypeOK, SearchTypes, NoExpertsYet
  <2>5. QED
    BY <2>3, <2>4 DEF TypeOK
<1>6. ASSUME StartExpert PROVE TypeOK' /\ NoExpertsYet'
  <2>1. candidates' \in Seq(Hit)
    BY <1>0, <1>6, CandidatesType DEF StartExpert
  <2>2. InputTypes' /\ OutcomeTypes'
    BY <1>6 DEF StartExpert, TypeOK, InputTypes, OutcomeTypes
  <2>3. SearchTypes' /\ NoExpertsYet'
    BY <1>6, <2>1 DEF StartExpert, TypeOK, SearchTypes, NoExpertsYet
  <2>4. QED
    BY <2>2, <2>3 DEF TypeOK
<1>7. ASSUME NEW answer \in Answers, ScoreCandidates(answer) PROVE TypeOK' /\ NoExpertsYet'
  <2> DEFINE matched == IF candidates = <<>> THEN <<>>
                        ELSE Rerank(kb, candidates, answer.scores, Thresholds[answer.by])
  <2>1. matched \in Seq(MatchedCase)
    <3>1. answer.scores \in Seq([index : Int, score : 0..100])
      BY InputAssumption
    <3>2. candidates \in Seq(Hit)
      BY DEF TypeOK, SearchTypes
    <3>3. Rerank(kb, candidates, answer.scores, Thresholds[answer.by]) \in Seq(MatchedCase)
      BY <1>0, <3>1, <3>2, RerankType
    <3>4. QED
      BY <3>3, EmptySeq
  <2>2. /\ pc = "scoring" /\ Scored(matched)
        /\ UNCHANGED <<kb, mode, changes, asked, found, near, announced, perExpert, runMode, view,
                       candidates, active, main, minority, unclassified, global, owners, orphans,
                       retry, verdict, references, saved>>
    BY <1>7 DEF ScoreCandidates
  <2> HIDE DEF matched
  <2>3. Expert \in Named
    <3>1. active # <<>> => active[turn] \in Named
      BY <2>2, ElementOfSeq DEF TypeOK, SearchTypes
    <3>2. QED
      BY <3>1, NoExpertType DEF Expert
  <2>4. CASE Single
    <3>1. matched # <<>> => matched[1].refs \in SUBSET Profiles
      <4>1. matched # <<>> => 1 \in 1..Len(matched)
        BY <2>1, EmptySeq
      <4>2. matched # <<>> => matched[1] \in MatchedCase
        BY <2>1, <4>1, ElementOfSeq
      <4>3. QED
        BY <4>2 DEF MatchedCase
    <3>2. names' \subseteq Profiles /\ cases' \in Seq(MatchedCase)
          /\ pc' = "selecting" /\ UNCHANGED <<pool, turn>>
      BY <1>0, <2>1, <2>2, <2>4, <3>1 DEF Scored
    <3>3. InputTypes' /\ OutcomeTypes'
      BY <2>2, <3>2 DEF TypeOK, InputTypes, OutcomeTypes
    <3>4. SearchTypes' /\ NoExpertsYet'
      BY <2>2, <3>2 DEF TypeOK, SearchTypes, NoExpertsYet
    <3>5. QED
      BY <3>3, <3>4 DEF TypeOK
  <2>5. CASE ~Single
    <3> DEFINE Pooled == [case : MatchedCase, expert : Named]
               more == [i \in DOMAIN matched |-> [case |-> matched[i], expert |-> Expert]]
    <3>1. more \in Seq(Pooled)
      <4>1. /\ DOMAIN matched = 1..Len(matched) /\ Len(matched) \in Nat
            /\ \A i \in 1..Len(matched) : matched[i] \in MatchedCase
        BY <2>1, LenProperties, ElementOfSeq
      <4>2. more \in [1..Len(matched) -> Pooled]
        BY <2>3, <4>1
      <4> HIDE DEF more, Pooled
      <4>3. QED
        BY <4>1, <4>2, FunctionIsSeq
    <3>2. pool' = pool \o more
      BY <2>2, <2>5 DEF Scored
    <3>3. pool \in Seq(Pooled)
      BY DEF TypeOK, SearchTypes
    <3> HIDE DEF more, Pooled
    <3>4. pool' \in Seq(Pooled)
      BY <3>1, <3>2, <3>3, ConcatProperties
    <3>5. /\ \/ pc' = "selecting" /\ turn' = turn
             \/ pc' = "experts" /\ turn' = turn + 1 /\ ~(turn >= Len(active))
          /\ UNCHANGED <<cases, names>>
      BY <2>2, <2>5 DEF Scored
    <3>6. turn' \in Nat /\ (pc' = "experts" => turn' \in 1..Len(active))
      <4>1. turn \in Nat /\ Len(active) \in Nat
        BY LenProperties DEF TypeOK, SearchTypes
      <4>2. QED
        BY <3>5, <4>1
    <3>7. InputTypes' /\ OutcomeTypes'
      BY <2>2, <3>5 DEF TypeOK, InputTypes, OutcomeTypes
    <3>8. SearchTypes' /\ NoExpertsYet'
      BY <2>2, <3>4, <3>5, <3>6 DEF TypeOK, SearchTypes, NoExpertsYet, Pooled
    <3>9. QED
      BY <3>7, <3>8 DEF TypeOK
  <2>6. QED
    BY <2>4, <2>5
<1>8. ASSUME RerankerFails PROVE TypeOK' /\ NoExpertsYet'
  <2>1. SearchTypes' /\ NoExpertsYet'
    BY <1>8 DEF RerankerFails, TypeOK, SearchTypes, NoExpertsYet
  <2>2. InputTypes' /\ OutcomeTypes'
    BY <1>8 DEF RerankerFails, TypeOK, InputTypes, OutcomeTypes
  <2>3. QED
    BY <2>1, <2>2 DEF TypeOK
<1>9. QED
  BY <1>1, <1>2, <1>3, <1>4, <1>5, <1>6, <1>7, <1>8

\* What is found again with the patterns of the owners, and of no case.
AgainOf(v) ==
    {r \in {Found(LoadCase(kb, c, 100), v, NoExpert) : c \in owners \cap DOMAIN kb} :
        r.result.matched # {}}

\* What is found of no case: each of the patterns that no case owns, alone.
AloneOf(v) == {[Nothing(Result({p}, {p}), v) EXCEPT !.patterns = {p}] : p \in orphans}

\* A result that none of the others beats.
Winner(w, v) ==
    /\ w \in AgainOf(v) \union AloneOf(v)
    /\ \A y \in AgainOf(v) \union AloneOf(v) :
            w.result.score > y.result.score \/ w.result.score = y.result.score

\* The three ways in which a match with all patterns ends.
OutcomeOfNone(o, v) ==
    /\ AgainOf(v) = {} /\ AloneOf(v) = {}
    /\ o = [result |-> global, minority |-> {}, unclassified |-> {}]

OutcomeOfOrphans(o, v) ==
    /\ AgainOf(v) = {} /\ AloneOf(v) # {}
    /\ o = [result |-> Result(orphans, orphans), minority |-> {}, unclassified |-> orphans]

OutcomeOf(w, o, v) ==
    /\ Winner(w, v)
    /\ o = [result |-> w.result, minority |-> {Report(c) : c \in AgainOf(v) \ {w}},
            unclassified |-> orphans \ (IF w.id = NoCase THEN w.patterns ELSE {})]

LEMMA RescoredCases ==
    ASSUME NEW v, NEW o \in Rescored(v)
    PROVE  OutcomeOfNone(o, v) \/ OutcomeOfOrphans(o, v) \/ \E w : OutcomeOf(w, o, v)
<1> DEFINE again == AgainOf(v)
           alone == AloneOf(v)
           all == again \union alone
           Outcome(result, cs, ps) ==
             [result |-> result, minority |-> {Report(c) : c \in cs}, unclassified |-> ps]
           Beats(a, b) == \/ a.result.score > b.result.score
                          \/ a.result.score = b.result.score /\ (a.id # NoCase \/ b.id = NoCase)
           Won(w) == Outcome(w.result, again \ {w},
                             orphans \ (IF w.id = NoCase THEN w.patterns ELSE {}))
           winners == {x \in all : \A y \in all : Beats(x, y)}
<1>1. Rescored(v) =
        IF all = {} THEN {Outcome(global, {}, {})}
        ELSE IF again = {} /\ Cardinality(alone) > 1
        THEN {Outcome(Result(orphans, orphans), {}, orphans)}
        ELSE {Won(w) : w \in winners}
  BY DEF Rescored, AgainOf, AloneOf
<1>2. /\ Outcome(global, {}, {}) = [result |-> global, minority |-> {}, unclassified |-> {}]
      /\ Outcome(Result(orphans, orphans), {}, orphans) =
            [result |-> Result(orphans, orphans), minority |-> {}, unclassified |-> orphans]
  OBVIOUS
<1> HIDE DEF again, alone, Outcome
<1>3. CASE all = {}
  <2>1. o = Outcome(global, {}, {}) /\ again = {} /\ alone = {}
    BY <1>1, <1>3
  <2>2. QED
    BY <1>2, <2>1 DEF OutcomeOfNone, again, alone
<1>4. CASE all # {} /\ again = {} /\ Cardinality(alone) > 1
  <2>1. o = Outcome(Result(orphans, orphans), {}, orphans) /\ again = {} /\ alone # {}
    BY <1>1, <1>4
  <2>2. QED
    BY <1>2, <2>1 DEF OutcomeOfOrphans, again, alone
<1>5. CASE all # {} /\ ~(again = {} /\ Cardinality(alone) > 1)
  <2> HIDE DEF Won, winners
  <2>1. o \in {Won(w) : w \in winners}
    BY <1>1, <1>5
  <2>2. PICK w \in winners : o = Won(w)
    BY <2>1
  <2>3. w \in all /\ \A y \in all : Beats(w, y)
    BY DEF winners
  <2>4. Winner(w, v)
    BY <2>3 DEF Winner, again, alone
  <2>5. OutcomeOf(w, o, v)
    BY <2>2, <2>4 DEF OutcomeOf, Won, Outcome, again
  <2>6. QED
    BY <2>5
<1>6. QED
  BY <1>3, <1>4, <1>5

\* What a result that was found again or alone is.
LEMMA RescoredFinds ==
    ASSUME kb \in KnowledgeBase, found \in Finding, NEW v \in Views,
           owners \subseteq CaseIds, orphans \subseteq Patterns
    PROVE  /\ \A r \in AgainOf(v) :
                /\ r \in Evidenced /\ r.result.matched # {}
                /\ NeverRoundedAway => r.result.score >= 1
           /\ \A c \in owners \cap DOMAIN kb :
                \/ CaseResult(LoadCase(kb, c, 100), v).matched = {}
                \/ \E r \in AgainOf(v) : r.result = CaseResult(LoadCase(kb, c, 100), v)
           /\ \A r \in AloneOf(v) :
                /\ r \in Finds /\ r.id = NoCase
                /\ NeverRoundedAway => r.result.score >= 1
                /\ \E p \in orphans : r.patterns = {p} /\ r.result.matched = {p}
<1> DEFINE Again(c) == Found(LoadCase(kb, c, 100), v, NoExpert)
           Alone(p) == [Nothing(Result({p}, {p}), v) EXCEPT !.patterns = {p}]
<1>1. ASSUME NEW c \in owners \cap DOMAIN kb
      PROVE  /\ Again(c) \in Evidenced
             /\ Again(c).result = CaseResult(LoadCase(kb, c, 100), v)
             /\ NeverRoundedAway /\ Again(c).result.matched # {} => Again(c).result.score >= 1
  <2> DEFINE l == LoadCase(kb, c, 100)
  <2>1. l \in MatchedCase
    BY LoadCaseType
  <2> HIDE DEF l
  <2>2. /\ Found(l, v, NoExpert) \in Evidenced
        /\ Found(l, v, NoExpert).result = CaseResult(l, v)
        /\ NeverRoundedAway /\ Found(l, v, NoExpert).result.matched # {}
                => Found(l, v, NoExpert).result.score >= 1
    BY <2>1, FoundProperties, NoExpertType
  <2>3. QED
    BY <2>2 DEF l
<1>2. ASSUME NEW p \in orphans
      PROVE  /\ Alone(p) \in Finds /\ Alone(p).id = NoCase /\ Alone(p).patterns = {p}
             /\ Alone(p).result.matched = {p}
             /\ NeverRoundedAway => Alone(p).result.score >= 1
  <2>1. {p} \in SUBSET Patterns
    OBVIOUS
  <2>2. /\ Result({p}, {p}) \in Results /\ Result({p}, {p}).matched = {p}
        /\ NeverRoundedAway => Result({p}, {p}).score >= 1
    BY <2>1, ResultProperties
  <2>3. Nothing(Result({p}, {p}), v) \in Finds
    BY <2>2, NothingType
  <2>4. /\ Nothing(Result({p}, {p}), v).id = NoCase
        /\ Nothing(Result({p}, {p}), v).result = Result({p}, {p})
    BY DEF Nothing
  <2>5. /\ Alone(p) \in Finds /\ Alone(p).patterns = {p}
        /\ Alone(p).id = NoCase /\ Alone(p).result = Result({p}, {p})
    BY <2>1, <2>3, <2>4 DEF Finds
  <2>6. QED
    BY <2>2, <2>5
<1>3. /\ AgainOf(v) = {r \in {Again(c) : c \in owners \cap DOMAIN kb} : r.result.matched # {}}
      /\ AloneOf(v) = {Alone(p) : p \in orphans}
  BY DEF AgainOf, AloneOf
<1> HIDE DEF Again, Alone
<1>4. ASSUME NEW r \in AgainOf(v)
      PROVE  /\ r \in Evidenced /\ r.result.matched # {}
             /\ NeverRoundedAway => r.result.score >= 1
  <2>1. PICK c \in owners \cap DOMAIN kb : r = Again(c) /\ r.result.matched # {}
    BY <1>3
  <2>2. QED
    BY <1>1, <2>1
<1>5. ASSUME NEW c \in owners \cap DOMAIN kb,
             CaseResult(LoadCase(kb, c, 100), v).matched # {}
      PROVE  \E r \in AgainOf(v) : r.result = CaseResult(LoadCase(kb, c, 100), v)
  <2>1. Again(c).result = CaseResult(LoadCase(kb, c, 100), v)
    BY <1>1
  <2>2. Again(c).result.matched # {}
    BY <1>5, <2>1
  <2>3. Again(c) \in AgainOf(v)
    BY <1>3, <2>2
  <2>4. QED
    BY <2>1, <2>3
<1>6. ASSUME NEW r \in AloneOf(v)
      PROVE  /\ r \in Finds /\ r.id = NoCase
             /\ NeverRoundedAway => r.result.score >= 1
             /\ \E p \in orphans : r.patterns = {p} /\ r.result.matched = {p}
  <2>1. PICK p \in orphans : r = Alone(p)
    BY <1>3
  <2>2. QED
    BY <1>2, <2>1
<1>7. QED
  BY <1>4, <1>5, <1>6

\* What an adopted outcome is made of.
Outcomes == [result : Results, minority : SUBSET Reports, unclassified : SUBSET Patterns]

\* An outcome of the match with all patterns is one of these.
LEMMA RescoredTypes ==
    ASSUME kb \in KnowledgeBase, found \in Finding, NEW v \in Views,
           owners \subseteq CaseIds, orphans \subseteq Patterns, global \in Results,
           NEW o \in Rescored(v)
    PROVE  o \in Outcomes
<1>1. AgainOf(v) \subseteq Finds /\ AloneOf(v) \subseteq Finds
  BY RescoredFinds DEF Evidenced
<1>2. \A cs \in SUBSET Finds : {Report(c) : c \in cs} \in SUBSET Reports
  BY DEF Report, Reports, Finds
<1>3. CASE OutcomeOfNone(o, v)
  BY <1>3 DEF OutcomeOfNone, Outcomes
<1>4. CASE OutcomeOfOrphans(o, v)
  <2>1. Result(orphans, orphans) \in Results
    BY ResultProperties
  <2>2. QED
    BY <1>4, <2>1 DEF OutcomeOfOrphans, Outcomes
<1>5. ASSUME NEW w, OutcomeOf(w, o, v) PROVE o \in Outcomes
  <2>1. w.result \in Results
    BY <1>1, <1>5 DEF OutcomeOf, Winner, Finds
  <2>2. {Report(c) : c \in AgainOf(v) \ {w}} \in SUBSET Reports
    <3>1. AgainOf(v) \ {w} \in SUBSET Finds
      BY <1>1
    <3>2. QED
      BY <1>2, <3>1
  <2>3. orphans \ (IF w.id = NoCase THEN w.patterns ELSE {}) \in SUBSET Patterns
    OBVIOUS
  <2>4. QED
    BY <1>5, <2>1, <2>2, <2>3 DEF OutcomeOf, Outcomes
<1>6. QED
  BY <1>3, <1>4, <1>5, RescoredCases

\* The steps behind the search.
LEMMA MatchStepTypes ==
    ASSUME TypeOK, NoExpertsYet, announced' \in Steps,
           \/ SelectCase \/ SelectFromPool \/ RunFallback \/ FindOwners
           \/ \E o \in Rescored(main.view) : RescoreMatches(o)
    PROVE  TypeOK' /\ NoExpertsYet'
<1> USE DEF input, base, control, search, outcome, rescore, ending
<1>0. /\ kb \in KnowledgeBase /\ found \in Finding
      /\ DOMAIN kb \subseteq CaseIds
      /\ view \in Views /\ main \in Finds /\ main.view \in Views /\ main.result \in Results
      /\ cases \in Seq(MatchedCase) /\ pool \in Seq([case : MatchedCase, expert : Named])
  BY InputFacts DEF TypeOK, InputTypes, SearchTypes, OutcomeTypes, Finds, KnowledgeBase
<1>1. ASSUME NEW ranked \in Seq(Evidenced), ranked # <<>>
      PROVE  ranked[1] \in Finds /\ Others(ranked) \subseteq Reports
  <2>1. 1 \in 1..Len(ranked)
    BY <1>1, EmptySeq
  <2>2. ranked[1] \in Evidenced
    BY <1>1, <2>1, ElementOfSeq
  <2>3. QED
    BY <1>1, <2>2, OthersProperties DEF Evidenced
<1>2. ASSUME NEW experts \in SUBSET Profiles, TryAllPatterns(experts),
             UNCHANGED <<base, input, control, search, ending>>
      PROVE  TypeOK' /\ NoExpertsYet'
  <2>1. global' \in Results /\ global' = GlobalResult(view)
    BY <1>0, <1>2, GlobalResultProperties DEF TryAllPatterns
  <2>2. main' \in Finds
    BY <1>0, <1>2, <2>1, NothingType DEF TryAllPatterns
  <2>3. InputTypes' /\ OutcomeTypes'
    BY <1>2, <2>1, <2>2 DEF TryAllPatterns, TypeOK, InputTypes, OutcomeTypes
  <2>4. SearchTypes' /\ NoExpertsYet'
    BY <1>2 DEF TryAllPatterns, TypeOK, SearchTypes, NoExpertsYet
  <2>5. QED
    BY <2>3, <2>4 DEF TypeOK
<1>3. ASSUME NEW ranked \in Seq(Evidenced), ranked # <<>>,
             NEW experts \in SUBSET Profiles, Choose(ranked, experts),
             UNCHANGED <<base, input, control, search, ending>>
      PROVE  TypeOK' /\ NoExpertsYet'
  <2>1. main' \in Finds /\ minority' \subseteq Reports
    BY <1>1, <1>3 DEF Choose
  <2>2. InputTypes' /\ OutcomeTypes'
    BY <1>3, <2>1 DEF Choose, TypeOK, InputTypes, OutcomeTypes
  <2>3. SearchTypes' /\ NoExpertsYet'
    BY <1>3 DEF Choose, TypeOK, SearchTypes, NoExpertsYet
  <2>4. QED
    BY <2>2, <2>3 DEF TypeOK
<1>4. ASSUME SelectCase PROVE TypeOK' /\ NoExpertsYet'
  <2>1. names \in SUBSET Profiles
    BY DEF TypeOK, OutcomeTypes
  <2>2. CASE cases = <<>>
    BY <1>2, <1>4, <2>1, <2>2 DEF SelectCase
  <2>3. CASE cases # <<>>
    <3>1. RankCases(cases) \in Seq(Evidenced) /\ RankCases(cases) # <<>>
      BY <1>0, <2>3, RankCasesProperties, EmptySeq
    <3>2. Choose(RankCases(cases), names)
      BY <1>4, <2>3 DEF SelectCase
    <3>3. QED
      BY <1>3, <1>4, <2>1, <3>1, <3>2 DEF SelectCase
  <2>4. QED
    BY <2>2, <2>3
<1>5. ASSUME SelectFromPool PROVE TypeOK' /\ NoExpertsYet'
  <2>1. CASE pool = <<>>
    BY <1>2, <1>5, <2>1 DEF SelectFromPool
  <2>2. CASE pool # <<>>
    <3>1. RankPool \in Seq(Evidenced) /\ RankPool # <<>>
      BY <1>0, <2>2, RankPoolProperties
    <3>2. RankPool[1].experts \in SUBSET Profiles
      BY <1>1, <3>1 DEF Finds
    <3>3. Choose(RankPool, RankPool[1].experts)
      BY <1>5, <2>2 DEF SelectFromPool
    <3>4. QED
      BY <1>3, <1>5, <3>1, <3>2, <3>3 DEF SelectFromPool
  <2>3. QED
    BY <2>1, <2>2
<1>6. ASSUME RunFallback PROVE TypeOK' /\ NoExpertsYet'
  <2>1. global' \in Results /\ retry' \in BOOLEAN
    BY <1>0, <1>6, GlobalResultProperties DEF RunFallback, TypeOK, OutcomeTypes
  <2>2. pc' \in {"judging", "owning"}
    BY <1>6 DEF RunFallback
  <2>3. InputTypes' /\ OutcomeTypes'
    BY <1>6, <2>1 DEF RunFallback, TypeOK, InputTypes, OutcomeTypes
  <2>4. SearchTypes' /\ NoExpertsYet'
    BY <1>6, <2>2 DEF RunFallback, TypeOK, SearchTypes, NoExpertsYet
  <2>5. QED
    BY <2>3, <2>4 DEF TypeOK
<1>7. ASSUME FindOwners PROVE TypeOK' /\ NoExpertsYet'
  <2>1. owners' \subseteq CaseIds /\ orphans' \subseteq Patterns
    BY <1>0, <1>7 DEF FindOwners, TypeOK, OutcomeTypes, Results
  <2>2. InputTypes' /\ OutcomeTypes'
    BY <1>7, <2>1 DEF FindOwners, TypeOK, InputTypes, OutcomeTypes
  <2>3. SearchTypes' /\ NoExpertsYet'
    BY <1>7 DEF FindOwners, TypeOK, SearchTypes, NoExpertsYet
  <2>4. QED
    BY <2>2, <2>3 DEF TypeOK
<1>8. ASSUME NEW o \in Rescored(main.view), RescoreMatches(o) PROVE TypeOK' /\ NoExpertsYet'
  <2>1. o \in Outcomes
    BY <1>0, RescoredTypes DEF TypeOK, OutcomeTypes
  <2>2. /\ o.result \in Results /\ o.minority \subseteq Reports
        /\ Unowned(o) \subseteq Patterns /\ Adopted(o) \in Finds
    BY <1>0, <2>1, NothingType DEF Outcomes, Unowned, Adopted
  <2>3. main' \in Finds /\ minority' \subseteq Reports /\ unclassified' \subseteq Patterns
    BY <1>8, <2>2 DEF RescoreMatches, TypeOK, OutcomeTypes
  <2>4. InputTypes' /\ OutcomeTypes'
    BY <1>8, <2>3 DEF RescoreMatches, TypeOK, InputTypes, OutcomeTypes
  <2>5. SearchTypes' /\ NoExpertsYet'
    BY <1>8 DEF RescoreMatches, TypeOK, SearchTypes, NoExpertsYet
  <2>6. QED
    BY <2>4, <2>5 DEF TypeOK
<1>9. QED
  BY <1>4, <1>5, <1>6, <1>7, <1>8

\* The verdict and what follows it.
LEMMA LateStepTypes ==
    ASSUME TypeOK, NoExpertsYet, announced' \in Steps,
           Judge \/ WriteReport \/ Reflect \/ Finish \/ Cancel
    PROVE  TypeOK' /\ NoExpertsYet'
<1> USE DEF input, base, control, search, outcome, rescore, ending
<1>1. ASSUME Judge PROVE TypeOK' /\ NoExpertsYet'
  <2>1. verdict' \in Verdicts
    BY <1>1 DEF Judge, Verdict, Verdicts
  <2>2. main' \in Finds /\ names' \subseteq Profiles
    <3>1. main.result \in Results /\ main.view \in Views /\ main \in Finds
          /\ names \subseteq Profiles
      BY DEF TypeOK, OutcomeTypes, Finds
    <3>2. Nothing(main.result, main.view) \in Finds
      BY <3>1, NothingType
    <3>3. QED
      BY <1>1, <3>1, <3>2 DEF Judge
  <2>3. pc' \in {"reporting", "ended"}
    BY <1>1 DEF Judge
  <2>4. InputTypes' /\ OutcomeTypes'
    BY <1>1, <2>1, <2>2 DEF Judge, TypeOK, InputTypes, OutcomeTypes
  <2>5. SearchTypes' /\ NoExpertsYet'
    BY <1>1, <2>3 DEF Judge, TypeOK, SearchTypes, NoExpertsYet
  <2>6. QED
    BY <2>4, <2>5 DEF TypeOK
<1>2. ASSUME WriteReport \/ Reflect \/ Cancel PROVE TypeOK' /\ NoExpertsYet'
  <2>1. /\ pc' \in {"reflecting", "finishing", "failed", "cancelled"}
        /\ UNCHANGED <<base, input, control, search, outcome, rescore, ending>>
    BY <1>2 DEF WriteReport, Reflect, Cancel
  <2>2. InputTypes' /\ OutcomeTypes'
    BY <2>1 DEF TypeOK, InputTypes, OutcomeTypes
  <2>3. SearchTypes' /\ NoExpertsYet'
    BY <2>1 DEF TypeOK, SearchTypes, NoExpertsYet
  <2>4. QED
    BY <2>2, <2>3 DEF TypeOK
<1>3. ASSUME Finish PROVE TypeOK' /\ NoExpertsYet'
  <2>1. references' \subseteq CaseIds /\ saved' \in BOOLEAN
    BY <1>3 DEF Finish, TypeOK, InputTypes, KnowledgeBase
  <2>2. InputTypes' /\ OutcomeTypes'
    BY <1>3, <2>1 DEF Finish, TypeOK, InputTypes, OutcomeTypes
  <2>3. SearchTypes' /\ NoExpertsYet'
    BY <1>3 DEF Finish, TypeOK, SearchTypes, NoExpertsYet
  <2>4. QED
    BY <2>2, <2>3 DEF TypeOK
<1>4. QED
  BY <1>1, <1>2, <1>3

\* Every step keeps the types.
LEMMA TypeStep ==
    ASSUME TypeOK, NoExpertsYet, announced' \in Steps, [Next]_vars
    PROVE  TypeOK' /\ NoExpertsYet'
<1>1. CASE Run
  BY <1>1, SearchStepTypes, MatchStepTypes, LateStepTypes DEF Run
<1>2. CASE ByOthers
  BY <1>2, OthersTypes
<1>3. CASE UNCHANGED vars
  BY <1>3 DEF vars, input, base, control, search, outcome, rescore, ending,
              TypeOK, InputTypes, SearchTypes, OutcomeTypes, NoExpertsYet
<1>4. QED
  BY <1>1, <1>2, <1>3 DEF Next

\* The types of the variables of a run.
THEOREM TypeCorrect == Spec => []TypeOK
<1>1. TypeOK /\ NoExpertsYet /\ StageInv' /\ [Next]_vars => TypeOK' /\ NoExpertsYet'
  BY TypeStep DEF StageInv
<1>2. QED
  BY <1>1, TypeInit, StagesAlwaysKnown, PTL DEF Spec

------------------------------------------------------------------------------
(* The evidence of a result, wherever the run stands.                      *)

\* A case has evidence of its own, no other case a better score, and where
\* nothing was found there is nothing else either.
EvidenceInv ==
    /\ main.id # NoCase =>
         main.result.all = main.patterns /\ main.result.matched \subseteq main.patterns
    /\ main.result.matched = {} => main.result.score = 0
    /\ \A m \in minority : m.result.score <= main.result.score
    /\ minority # {} \/ unclassified # {} => main.result.matched # {}

\* The places up to the choice of a case.
Early ==
    {"asked", "refined", "normalized", "stage2", "experts", "scoring", "selecting"}

\* What is known of the outcome where the run stands.
PlaceInv ==
    /\ pc \in Early =>
         /\ main.id = NoCase /\ minority = {} /\ unclassified = {}
         /\ global.matched = {} /\ ~retry
    /\ pc = "matched" =>
         /\ unclassified = {} /\ global.matched = {} /\ ~retry
         /\ main.id = NoCase => minority = {}
    /\ pc \in {"owning", "rescoring"} =>
         /\ global.matched # {} /\ unclassified = {} /\ global = GlobalResult(main.view)
         /\ ~retry => minority = {}
         /\ retry => main.id # NoCase
    /\ pc \in {"reporting", "reflecting", "finishing"} =>
         verdict = "similar problem" /\ main.result.score >= Definite
    /\ pc = "ended" =>
         /\ verdict = Verdict(main.result)
         /\ main.result.matched = {} => main.id = NoCase /\ names = {} /\ ~saved
    /\ pc # "ended" => ~saved

\* In an ensemble no case is listed twice.
OnceInv ==
    (~Single /\ main.id # NoCase) =>
        \A m, n \in minority : m.id # main.id /\ (m.id = n.id => m = n)

\* A case is chosen from a ranking.
Chosen(ranked) ==
    /\ ranked \in Seq(Evidenced) /\ ranked # <<>>
    /\ main' = ranked[1] /\ minority' = Others(ranked)
    /\ pc' = "matched" /\ UNCHANGED <<unclassified, global, owners, orphans, retry>>
    /\ \A m, n \in 1..Len(ranked) :
         m < n => /\ ranked[m].result.score >= ranked[n].result.score
                  /\ ~Single => ranked[m].id # ranked[n].id

\* Every pattern is tried without a case.
TriedAll ==
    /\ global' = GlobalResult(view) /\ main' = Nothing(global', view)
    /\ pc' = IF global'.matched = {} THEN "matched" ELSE "owning"
    /\ UNCHANGED <<minority, unclassified, owners, orphans, retry>>

\* How the selection of a case ends, on either path.
LEMMA Selections ==
    ASSUME TypeOK, SelectCase \/ SelectFromPool
    PROVE  /\ TriedAll \/ \E ranked : Chosen(ranked)
           /\ pc = "selecting"
           /\ UNCHANGED <<kb, changes, asked, found, runMode, view, verdict, saved>>
<1>0. /\ found \in Finding /\ view \in Views
      /\ cases \in Seq(MatchedCase) /\ pool \in Seq([case : MatchedCase, expert : Named])
  BY InputFacts DEF TypeOK, InputTypes, SearchTypes
<1>1. pc = "selecting" /\ UNCHANGED <<kb, changes, asked, found, runMode, view, verdict, saved>>
  BY DEF SelectCase, SelectFromPool, base, input, control, ending
<1>2. CASE (SelectCase /\ cases = <<>>) \/ (SelectFromPool /\ pool = <<>>)
  BY <1>1, <1>2 DEF SelectCase, SelectFromPool, TryAllPatterns, TriedAll
<1>3. CASE SelectCase /\ cases # <<>>
  <2>1. /\ RankCases(cases) \in Seq(Evidenced) /\ RankCases(cases) # <<>>
        /\ \A m, n \in 1..Len(RankCases(cases)) :
             m < n => RankCases(cases)[m].result.score >= RankCases(cases)[n].result.score
    BY <1>0, <1>3, RankCasesProperties, EmptySeq
  <2>2. Choose(RankCases(cases), names) /\ Single
    BY <1>3 DEF SelectCase
  <2>3. Chosen(RankCases(cases))
    BY <2>1, <2>2 DEF Choose, Chosen, rescore
  <2>4. QED
    BY <1>1, <2>3
<1>4. CASE SelectFromPool /\ pool # <<>>
  <2>1. /\ RankPool \in Seq(Evidenced) /\ RankPool # <<>>
        /\ \A m, n \in 1..Len(RankPool) :
             m < n => /\ RankPool[m].result.score >= RankPool[n].result.score
                      /\ RankPool[m].id # RankPool[n].id
    BY <1>0, <1>4, RankPoolProperties
  <2>2. Choose(RankPool, RankPool[1].experts)
    BY <1>4 DEF SelectFromPool
  <2>3. Chosen(RankPool)
    BY <2>1, <2>2 DEF Choose, Chosen, rescore
  <2>4. QED
    BY <1>1, <2>3
<1>5. QED
  BY <1>2, <1>3, <1>4

\* What the choice of a ranked case establishes.
LEMMA ChosenEvidence ==
    ASSUME NEW ranked, Chosen(ranked), unclassified = {}
    PROVE  /\ EvidenceInv' /\ main'.id # NoCase
           /\ ~Single => \A m, n \in minority' : m.id # main'.id /\ (m.id = n.id => m = n)
<1>1. ranked \in Seq(Evidenced) /\ ranked # <<>>
  BY DEF Chosen
<1>2. 1 \in 1..Len(ranked) /\ Len(ranked) \in Nat
  BY <1>1, EmptySeq, LenProperties
<1>3. main' = ranked[1] /\ ranked[1] \in Evidenced
  BY <1>1, <1>2, ElementOfSeq DEF Chosen
<1>4. /\ main'.id # NoCase /\ main'.result.all = main'.patterns
      /\ main'.result.matched \subseteq main'.patterns
      /\ main'.result.matched = {} => main'.result.score = 0
  BY <1>3 DEF Evidenced
<1>5. main'.result.score \in Int
  BY <1>3, FindNumbers DEF Evidenced
<1>6. \A m \in minority' :
        \E k \in 2..Len(ranked) :
            /\ m.id = ranked[k].id /\ m.result = ranked[k].result
            /\ m = Report(ranked[k]) /\ m.result.score > 0
  BY <1>1, OthersProperties DEF Chosen
<1>7. ASSUME NEW m \in minority'
      PROVE  /\ m.result.score <= main'.result.score
             /\ main'.result.matched # {}
  <2>1. PICK k \in 2..Len(ranked) : m.result = ranked[k].result /\ m.result.score > 0
    BY <1>6
  <2>2. ranked[k] \in Finds /\ ranked[k].result.score \in Int
    BY <1>1, <1>2, ElementOfSeq, FindNumbers DEF Evidenced
  <2>3. ranked[1].result.score >= ranked[k].result.score
    BY <1>2 DEF Chosen
  <2>4. m.result.score <= main'.result.score /\ main'.result.score > 0
    BY <1>3, <1>5, <2>1, <2>2, <2>3
  <2>5. QED
    BY <1>4, <1>5, <2>4
<1>8. unclassified' = {}
  BY DEF Chosen
<1>9. EvidenceInv'
  BY <1>4, <1>7, <1>8 DEF EvidenceInv
<1>10. ASSUME ~Single, NEW m \in minority', NEW n \in minority'
       PROVE  m.id # main'.id /\ (m.id = n.id => m = n)
  <2>1. PICK i \in 2..Len(ranked) : m.id = ranked[i].id /\ m = Report(ranked[i])
    BY <1>6
  <2>2. PICK j \in 2..Len(ranked) : n.id = ranked[j].id /\ n = Report(ranked[j])
    BY <1>6
  <2>3. i \in 1..Len(ranked) /\ j \in 1..Len(ranked) /\ 1 < i
    BY <1>2
  <2>4. \A a, b \in 1..Len(ranked) : a < b => ranked[a].id # ranked[b].id
    BY <1>10 DEF Chosen
  <2>5. ranked[1].id # ranked[i].id
    BY <1>2, <2>3, <2>4
  <2>6. ranked[i].id = ranked[j].id => i = j
    <3>1. i < j \/ j < i \/ i = j
      OBVIOUS
    <3>2. QED
      BY <2>3, <2>4, <3>1
  <2>7. QED
    BY <1>3, <2>1, <2>2, <2>5, <2>6
<1>11. QED
  BY <1>4, <1>9, <1>10

\* What the match with all patterns establishes when there is no case.
LEMMA TriedAllEvidence ==
    ASSUME found \in Finding, view \in Views,
           minority = {}, unclassified = {}, TriedAll
    PROVE  /\ EvidenceInv' /\ main'.id = NoCase /\ main'.view = view
           /\ main'.result = global' /\ minority' = {} /\ unclassified' = {}
<1>1. /\ GlobalResult(view) \in Results
      /\ GlobalResult(view).matched = {} => GlobalResult(view).score = 0
  BY GlobalResultProperties
<1>2. main' = Nothing(GlobalResult(view), view) /\ global' = GlobalResult(view)
      /\ minority' = {} /\ unclassified' = {}
  BY DEF TriedAll
<1>3. main'.id = NoCase /\ main'.view = view /\ main'.result = GlobalResult(view)
  BY <1>2 DEF Nothing
<1>4. QED
  BY <1>1, <1>2, <1>3 DEF EvidenceInv

\* What the winner of a match with all patterns is.
LEMMA AdoptedEvidence ==
    ASSUME TypeOK, EvidenceInv, PlaceInv, pc = "rescoring",
           NEW o \in Rescored(main.view)
    PROVE  /\ o \in Outcomes /\ o.result.matched # {}
           /\ NeverRoundedAway => o.result.score >= 1
           /\ \A m \in o.minority : m.result.score <= o.result.score
<1>0. /\ kb \in KnowledgeBase /\ found \in Finding
      /\ main \in Finds /\ main.view \in Views /\ owners \subseteq CaseIds
      /\ orphans \subseteq Patterns /\ global \in Results
  BY InputFacts DEF TypeOK, InputTypes, OutcomeTypes, Finds
<1>1. o \in Outcomes
  BY <1>0, RescoredTypes
<1> DEFINE v == main.view
<1>2. /\ \A r \in AgainOf(v) : /\ r \in Evidenced /\ r.result.matched # {}
                               /\ NeverRoundedAway => r.result.score >= 1
      /\ \A r \in AloneOf(v) : /\ r \in Finds
                               /\ NeverRoundedAway => r.result.score >= 1
                               /\ \E p \in orphans : r.result.matched = {p}
  BY <1>0, RescoredFinds
<1>3. /\ global.matched # {} /\ global = GlobalResult(v)
      /\ NeverRoundedAway => global.score >= 1
  BY <1>0, GlobalResultProperties DEF PlaceInv
<1>4. CASE OutcomeOfNone(o, v)
  <2>1. o.result = global /\ o.minority = {}
    BY <1>4 DEF OutcomeOfNone
  <2>2. QED
    BY <1>1, <1>3, <2>1
<1>5. CASE OutcomeOfOrphans(o, v)
  <2>1. o.result = Result(orphans, orphans) /\ o.minority = {}
    BY <1>5 DEF OutcomeOfOrphans
  <2>2. orphans # {}
    BY <1>5 DEF OutcomeOfOrphans, AloneOf
  <2>3. /\ Result(orphans, orphans).matched = orphans
        /\ NeverRoundedAway /\ orphans # {} => Result(orphans, orphans).score >= 1
    BY <1>0, ResultProperties
  <2>4. QED
    BY <1>1, <2>1, <2>2, <2>3
<1>6. ASSUME NEW w, OutcomeOf(w, o, v)
      PROVE  /\ o.result.matched # {}
             /\ NeverRoundedAway => o.result.score >= 1
             /\ \A m \in o.minority : m.result.score <= o.result.score
  <2>1. /\ o.result = w.result /\ o.minority = {Report(c) : c \in AgainOf(v) \ {w}}
        /\ w \in AgainOf(v) \union AloneOf(v)
        /\ \A y \in AgainOf(v) \union AloneOf(v) :
             w.result.score > y.result.score \/ w.result.score = y.result.score
    BY <1>6 DEF OutcomeOf, Winner
  <2>2. /\ w \in Finds /\ w.result.matched # {}
        /\ NeverRoundedAway => w.result.score >= 1
    BY <1>2, <2>1 DEF Evidenced
  <2>3. ASSUME NEW m \in o.minority PROVE m.result.score <= o.result.score
    <3>1. PICK c \in AgainOf(v) : m = Report(c)
      BY <2>1
    <3>2. m.result = c.result
      BY <3>1 DEF Report
    <3>3. c \in Finds /\ c.result.score \in Int /\ w.result.score \in Int
      BY <1>2, <2>2, FindNumbers DEF Evidenced
    <3>4. w.result.score > c.result.score \/ w.result.score = c.result.score
      BY <2>1
    <3>5. QED
      BY <2>1, <3>2, <3>3, <3>4
  <2>4. QED
    BY <2>1, <2>2, <2>3
<1>7. QED
  BY <1>1, <1>4, <1>5, <1>6, RescoredCases

\* The rest of the steps leave the outcome alone, or blank it.
Claims == <<main, minority, unclassified>>

\* The verdict leaves the result as it is, and blanks a case without evidence.
LEMMA JudgeProperties ==
    ASSUME TypeOK, EvidenceInv, PlaceInv, Judge
    PROVE  /\ pc = "judging" /\ UNCHANGED <<kb, changes, asked, found, runMode, minority,
                                            unclassified, global, owners, orphans, retry, saved>>
           /\ main'.result = main.result /\ main'.view = main.view
           /\ verdict' = Verdict(main.result)
           /\ pc' = IF verdict' = "similar problem" THEN "reporting" ELSE "ended"
           /\ IF main.result.matched = {} THEN main'.id = NoCase /\ names' = {}
                                          ELSE main' = main
<1>1. verdict' = "no similar problem" <=> main.result.matched = {}
  BY DEF Judge, Verdict
<1>2. /\ Nothing(main.result, main.view).id = NoCase
      /\ Nothing(main.result, main.view).result = main.result
      /\ Nothing(main.result, main.view).view = main.view
  BY DEF Nothing
<1>3. QED
  BY <1>1, <1>2 DEF Judge, Blank, base, input, control, rescore

\* The score of a result is a number.
LEMMA ResultNumbers == \A r \in Results : r.score \in Int
<1>1. Unit \in Int
  BY DEF Unit
<1>2. \A r \in Results : r.score \in 0..Unit
  BY DEF Results
<1>3. QED
  BY <1>1, <1>2

\* Every step keeps the evidence.
LEMMA EvidenceStep ==
    ASSUME TypeOK, EvidenceInv, PlaceInv, [Next]_vars
    PROVE  EvidenceInv'
<1>0. /\ found \in Finding /\ view \in Views /\ main \in Finds
      /\ \A m \in minority : m.result.score \in Int
  <2>1. Unit \in Int
    BY DEF Unit
  <2>2. \A m \in Reports : m.result.score \in Int
    BY <2>1 DEF Reports, Results
  <2>3. QED
    BY <2>2, InputFacts DEF TypeOK, InputTypes, SearchTypes, OutcomeTypes
<1>1. CASE UNCHANGED Claims
  BY <1>1 DEF Claims, EvidenceInv
<1>2. CASE SelectCase \/ SelectFromPool
  <2>1. minority = {} /\ unclassified = {}
    BY <1>2, Selections DEF PlaceInv, Early
  <2>2. CASE TriedAll
    BY <1>0, <2>1, <2>2, TriedAllEvidence
  <2>3. ASSUME NEW ranked, Chosen(ranked) PROVE EvidenceInv'
    BY <2>1, <2>3, ChosenEvidence
  <2>4. QED
    BY <1>2, <2>2, <2>3, Selections
<1>3. CASE Judge
  <2>1. /\ main'.result = main.result /\ UNCHANGED <<minority, unclassified>>
        /\ main' = main \/ main'.id = NoCase
    BY <1>3, JudgeProperties
  <2>2. QED
    BY <2>1 DEF EvidenceInv
<1>4. ASSUME NEW o \in Rescored(main.view), RescoreMatches(o) PROVE EvidenceInv'
  <2>1. pc = "rescoring"
    BY <1>4 DEF RescoreMatches
  <2>2. CASE ~Better(o)
    BY <1>1, <1>4, <2>2 DEF RescoreMatches, Claims
  <2>3. CASE Better(o)
    <3>1. /\ main' = Nothing(o.result, main.view) /\ minority' = minority \union o.minority
      BY <1>4, <2>3 DEF RescoreMatches, Adopted
    <3>2. main'.id = NoCase /\ main'.result = o.result
      BY <3>1 DEF Nothing
    <3>3. /\ o \in Outcomes /\ o.result.matched # {}
          /\ \A m \in o.minority : m.result.score <= o.result.score
      BY <2>1, AdoptedEvidence
    <3>4. o.result.score \in Int /\ main.result.score \in Int
      <4>1. o.result \in Results /\ main.result \in Results
        BY <1>0, <3>3 DEF Outcomes, Finds
      <4>2. QED
        BY <4>1, ResultNumbers
    <3>5. ASSUME NEW m \in minority PROVE m.result.score <= o.result.score
      <4>1. retry
        BY <2>1, <3>5 DEF PlaceInv
      <4>2. o.result.score > main.result.score
        BY <2>3, <4>1 DEF Better
      <4>3. m.result.score <= main.result.score
        BY DEF EvidenceInv
      <4>4. QED
        BY <1>0, <3>4, <4>2, <4>3
    <3>6. QED
      BY <3>1, <3>2, <3>3, <3>5 DEF EvidenceInv
  <2>4. QED
    BY <2>2, <2>3
<1>5. ASSUME RunStage1 \/ RunMasterRule \/ ChoosePath \/ LoadPinned \/ StartSearch \/ StartExpert
             \/ (\E answer \in Answers : ScoreCandidates(answer)) \/ RerankerFails
             \/ RunFallback \/ FindOwners \/ WriteReport \/ Reflect \/ Finish \/ Cancel
             \/ ByOthers \/ UNCHANGED vars
      PROVE  UNCHANGED Claims
  BY <1>5 DEF RunStage1, RunMasterRule, ChoosePath, LoadPinned, StartSearch, StartExpert,
       ScoreCandidates, RerankerFails, RunFallback, FindOwners, WriteReport, Reflect, Finish,
       Cancel, ByOthers, DeleteCase, Unlink, SetMode, vars, outcome, Claims
<1>6. QED
  BY <1>1, <1>2, <1>3, <1>4, <1>5 DEF Next, Run

\* Every step keeps what is known where the run stands.
LEMMA PlaceStep ==
    ASSUME TypeOK, EvidenceInv, PlaceInv, [Next]_vars
    PROVE  PlaceInv'
<1> USE DEF base, input, control, search, outcome, rescore, ending
<1>0. /\ found \in Finding /\ view \in Views /\ main \in Finds
      /\ main.view \in Views
  BY InputFacts DEF TypeOK, InputTypes, SearchTypes, OutcomeTypes, Finds
<1>1. CASE RunStage1 \/ RunMasterRule \/ ChoosePath \/ LoadPinned \/ StartSearch \/ StartExpert
           \/ (\E answer \in Answers : ScoreCandidates(answer)) \/ RerankerFails
  <2>1. /\ pc \in Early /\ pc' \in Early \union {"failed"}
        /\ UNCHANGED <<main, minority, unclassified, global, retry, saved>>
    BY <1>1 DEF RunStage1, RunMasterRule, ChoosePath, LoadPinned, StartSearch, StartExpert,
                ScoreCandidates, Scored, RerankerFails, Early
  <2>2. QED
    BY <2>1 DEF PlaceInv, Early
<1>2. CASE SelectCase \/ SelectFromPool
  <2>1. /\ pc = "selecting" /\ UNCHANGED saved
        /\ minority = {} /\ unclassified = {} /\ global.matched = {} /\ ~retry /\ ~saved
    BY <1>2, Selections DEF PlaceInv, Early
  <2>2. CASE TriedAll
    <3>1. /\ main'.id = NoCase /\ main'.view = view /\ minority' = {} /\ unclassified' = {}
      BY <1>0, <2>1, <2>2, TriedAllEvidence
    <3>2. /\ global' = GlobalResult(view) /\ ~retry' /\ found' = found
          /\ pc' = IF global'.matched = {} THEN "matched" ELSE "owning"
      BY <1>2, <2>1, <2>2, Selections DEF TriedAll
    <3>3. (GlobalResult(main.view))' = global'
      BY <3>1, <3>2 DEF GlobalResult
    <3>4. QED
      BY <2>1, <3>1, <3>2, <3>3 DEF PlaceInv, Early
  <2>3. ASSUME NEW ranked, Chosen(ranked) PROVE PlaceInv'
    <3>1. main'.id # NoCase
      BY <2>1, <2>3, ChosenEvidence
    <3>2. pc' = "matched" /\ UNCHANGED <<unclassified, global, retry>>
      BY <2>3 DEF Chosen
    <3>3. QED
      BY <2>1, <3>1, <3>2 DEF PlaceInv, Early
  <2>4. QED
    BY <1>2, <2>2, <2>3, Selections
<1>3. CASE RunFallback
  <2>1. /\ pc = "matched" /\ UNCHANGED <<main, minority, unclassified, saved, found>>
        /\ unclassified = {} /\ global.matched = {} /\ ~retry /\ ~saved
        /\ main.id = NoCase => minority = {}
    BY <1>3 DEF RunFallback, PlaceInv
  <2>2. CASE FallsBack
    <3>1. /\ global' = GlobalResult(main.view) /\ retry' = TRUE /\ main.id # NoCase
          /\ pc' = IF global'.matched = {} THEN "judging" ELSE "owning"
      BY <1>3, <2>2 DEF RunFallback, FallsBack
    <3>2. (GlobalResult(main.view))' = global'
      BY <2>1, <3>1 DEF GlobalResult
    <3>3. QED
      BY <2>1, <3>1, <3>2 DEF PlaceInv, Early
  <2>3. CASE ~FallsBack
    <3>1. pc' = "judging"
      BY <1>3, <2>3 DEF RunFallback
    <3>2. QED
      BY <2>1, <3>1 DEF PlaceInv, Early
  <2>4. QED
    BY <2>2, <2>3
<1>4. CASE FindOwners
  <2>1. /\ pc = "owning" /\ pc' = "rescoring"
        /\ UNCHANGED <<main, minority, unclassified, saved, found, global, retry>>
    BY <1>4 DEF FindOwners
  <2>2. (GlobalResult(main.view))' = GlobalResult(main.view)
    BY <2>1 DEF GlobalResult
  <2>3. QED
    BY <2>1, <2>2 DEF PlaceInv, Early
<1>5. CASE \E o \in Rescored(main.view) : RescoreMatches(o)
  <2>1. pc = "rescoring" /\ pc' = "judging" /\ UNCHANGED saved
    BY <1>5 DEF RescoreMatches
  <2>2. QED
    BY <2>1 DEF PlaceInv, Early
<1>6. CASE Judge
  <2>1. /\ pc = "judging" /\ UNCHANGED saved /\ main'.result = main.result
        /\ verdict' = Verdict(main.result)
        /\ pc' = IF verdict' = "similar problem" THEN "reporting" ELSE "ended"
        /\ main.result.matched = {} => main'.id = NoCase /\ names' = {}
    BY <1>6, JudgeProperties
  <2>2. verdict' = "similar problem" => main.result.score >= Definite
    BY <2>1 DEF Verdict
  <2>3. ~saved
    BY <2>1 DEF PlaceInv
  <2>4. (Verdict(main.result))' = Verdict(main.result)
    BY <2>1 DEF Verdict
  <2>5. QED
    BY <2>1, <2>2, <2>3, <2>4 DEF PlaceInv, Early
<1>7. CASE WriteReport \/ Reflect
  <2>1. /\ pc \in {"reporting", "reflecting"}
        /\ pc' \in {"reflecting", "finishing", "failed", "cancelled"}
        /\ UNCHANGED <<main, verdict, saved>>
    BY <1>7 DEF WriteReport, Reflect
  <2>2. QED
    BY <2>1 DEF PlaceInv, Early
<1>8. CASE Finish
  <2>1. /\ pc = "finishing" /\ pc' = "ended" /\ UNCHANGED <<main, verdict, names>>
        /\ verdict = "similar problem" /\ main.result.score >= Definite
    BY <1>8 DEF Finish, PlaceInv
  <2>2. Definite \in Int /\ Definite >= 1
    BY RunAssumption DEF Unit
  <2>3. main.result.matched # {}
    <3>1. main.result.score # 0
      <4>1. main.result \in Results
        BY <1>0 DEF Finds
      <4>2. main.result.score \in Int
        BY <4>1, ResultNumbers
      <4>3. main.result.score >= Definite
        BY <2>1
      <4>4. QED
        BY <2>2, <4>2, <4>3
    <3>2. QED
      BY <3>1 DEF EvidenceInv
  <2>4. (Verdict(main.result))' = verdict'
    BY <2>1, <2>3 DEF Verdict
  <2>5. QED
    BY <2>1, <2>3, <2>4 DEF PlaceInv, Early
<1>9. CASE Cancel
  <2>1. /\ pc' = "cancelled" /\ UNCHANGED saved
        /\ pc \in {"asked", "refined", "stage2", "experts", "selecting", "reporting",
                   "reflecting", "matched"}
    BY <1>9 DEF Cancel
  <2>2. QED
    BY <2>1 DEF PlaceInv, Early
<1>10. CASE ByOthers \/ UNCHANGED vars
  <2>1. UNCHANGED <<pc, main, minority, unclassified, names, global, retry, verdict, saved, found>>
    BY <1>10 DEF ByOthers, DeleteCase, Unlink, SetMode, vars
  <2>2. (Verdict(main.result))' = Verdict(main.result)
    BY <2>1 DEF Verdict
  <2>3. (GlobalResult(main.view))' = GlobalResult(main.view)
    BY <2>1 DEF GlobalResult
  <2>4. QED
    BY <2>1, <2>2, <2>3 DEF PlaceInv
<1>11. QED
  BY <1>1, <1>2, <1>3, <1>4, <1>5, <1>6, <1>7, <1>8, <1>9, <1>10 DEF Next, Run

\* Every step keeps the cases of an ensemble apart.
LEMMA OnceStep ==
    ASSUME TypeOK, EvidenceInv, PlaceInv, OnceInv, [Next]_vars
    PROVE  OnceInv'
<1> USE DEF base, input, control, search, outcome, rescore, ending
<1>1. CASE UNCHANGED <<main, minority, asked, runMode>>
  BY <1>1 DEF OnceInv, Single, SinglePath
<1>2. CASE ChoosePath
  <2>1. main'.id = NoCase
    BY <1>2 DEF ChoosePath, PlaceInv, Early
  <2>2. QED
    BY <2>1 DEF OnceInv
<1>3. CASE SelectCase \/ SelectFromPool
  <2>1. unclassified = {} /\ minority = {} /\ UNCHANGED <<asked, runMode>>
    BY <1>3, Selections DEF PlaceInv, Early
  <2>2. CASE TriedAll
    <3>1. main'.id = NoCase
      BY <2>2 DEF TriedAll, Nothing
    <3>2. QED
      BY <3>1 DEF OnceInv
  <2>3. ASSUME NEW ranked, Chosen(ranked) PROVE OnceInv'
    <3>1. ~Single => \A m, n \in minority' : m.id # main'.id /\ (m.id = n.id => m = n)
      BY <2>1, <2>3, ChosenEvidence
    <3>2. Single' <=> Single
      BY <2>1 DEF Single, SinglePath
    <3>3. QED
      BY <3>1, <3>2 DEF OnceInv
  <2>4. QED
    BY <1>3, <2>2, <2>3, Selections
<1>4. ASSUME NEW o \in Rescored(main.view), RescoreMatches(o) PROVE OnceInv'
  <2>1. CASE ~Better(o)
    BY <1>1, <1>4, <2>1 DEF RescoreMatches
  <2>2. CASE Better(o)
    <3>1. main'.id = NoCase
      BY <1>4, <2>2 DEF RescoreMatches, Adopted, Nothing
    <3>2. QED
      BY <3>1 DEF OnceInv
  <2>3. QED
    BY <2>1, <2>2
<1>5. CASE Judge
  <2>1. main'.id = NoCase \/ UNCHANGED <<main, minority, asked, runMode>>
    BY <1>5, JudgeProperties
  <2>2. QED
    BY <1>1, <2>1 DEF OnceInv
<1>6. ASSUME RunStage1 \/ RunMasterRule \/ LoadPinned \/ StartSearch \/ StartExpert
             \/ (\E answer \in Answers : ScoreCandidates(answer)) \/ RerankerFails
             \/ RunFallback \/ FindOwners \/ WriteReport \/ Reflect \/ Finish \/ Cancel
             \/ ByOthers \/ UNCHANGED vars
      PROVE  UNCHANGED <<main, minority, asked, runMode>>
  BY <1>6 DEF RunStage1, RunMasterRule, LoadPinned, StartSearch, StartExpert,
       ScoreCandidates, RerankerFails, RunFallback, FindOwners, WriteReport, Reflect, Finish,
       Cancel, ByOthers, DeleteCase, Unlink, SetMode, vars
<1>7. QED
  BY <1>1, <1>2, <1>3, <1>4, <1>5, <1>6 DEF Next, Run

\* The invariant holds at first.
LEMMA InvInit == Init => EvidenceInv /\ PlaceInv /\ OnceInv
<1> SUFFICES ASSUME Init PROVE EvidenceInv /\ PlaceInv /\ OnceInv
  OBVIOUS
<1>1. /\ NoResult.matched = {} /\ NoResult.score = 0
  BY ResultProperties DEF NoResult
<1>2. /\ main.id = NoCase /\ main.result = NoResult /\ minority = {} /\ unclassified = {}
      /\ global = NoResult /\ ~retry /\ ~saved /\ pc = "asked"
  BY DEF Init, Nothing
<1>3. QED
  BY <1>1, <1>2 DEF EvidenceInv, PlaceInv, OnceInv, Early

\* The inductive invariant of the outcome holds in every run.
THEOREM InvariantHolds == Spec => [](EvidenceInv /\ PlaceInv /\ OnceInv)
<1>1. /\ TypeOK /\ EvidenceInv /\ PlaceInv /\ OnceInv /\ [Next]_vars
         => EvidenceInv' /\ PlaceInv' /\ OnceInv'
  BY EvidenceStep, PlaceStep, OnceStep
<1>2. QED
  BY <1>1, InvInit, TypeCorrect, PTL DEF Spec

\* A result that names a case rests on evidence of the patterns of that case,
\* whatever the fallback tried in between.
THEOREM CaseAlwaysHasOwnEvidence == Spec => []CaseHasOwnEvidence
<1>1. EvidenceInv /\ PlaceInv => CaseHasOwnEvidence
  BY DEF EvidenceInv, PlaceInv, CaseHasOwnEvidence, Concluded
<1>2. QED
  BY <1>1, InvariantHolds, PTL

\* A run that found nothing claims nothing.
THEOREM NothingClaimedWithoutEvidence == Spec => []NothingWithoutEvidence
<1>1. EvidenceInv /\ PlaceInv => NothingWithoutEvidence
  BY DEF EvidenceInv, PlaceInv, NothingWithoutEvidence, Concluded, Verdict
<1>2. QED
  BY <1>1, InvariantHolds, PTL

\* The result has the best score of all that is shown, on either path and
\* after the fallback.
THEOREM MainAlwaysBest == Spec => []MainIsBest
<1>1. EvidenceInv => MainIsBest
  BY DEF EvidenceInv, MainIsBest
<1>2. QED
  BY <1>1, InvariantHolds, PTL

\* However many experts find a case, an ensemble shows it once.
THEOREM EnsembleAlwaysShowsOnce == Spec => []EnsembleShowsOnce
<1>1. OnceInv => EnsembleShowsOnce
  BY DEF OnceInv, EnsembleShowsOnce
<1>2. QED
  BY <1>1, InvariantHolds, PTL

------------------------------------------------------------------------------
(* Nothing that was found is lost.                                         *)

\* A pattern is shown, or none of the cases that own it finds it by itself.
Shown(p) ==
    \/ p \in main.result.matched \union unclassified
    \/ \E m \in minority : p \in m.result.matched
    \/ OwnersMiss(p)

\* What is shown stays so, as long as the result and the knowledge base do.
LEMMA ShownStays ==
    ASSUME NEW p, Shown(p), UNCHANGED <<kb, found, minority, unclassified>>,
           main'.result = main.result, main'.view = main.view
    PROVE  Shown(p)'
<1>1. OwnersMiss(p) => OwnersMiss(p)'
  BY DEF OwnersMiss, CaseResult
<1>2. QED
  BY <1>1 DEF Shown

\* The places behind the match.
Decided == {"judging", "reporting", "reflecting", "finishing", "ended"}

\* While nobody changes the knowledge base, the owners are those of the
\* patterns, and what they leave out is shown unless a case is kept.
LostInv ==
    changes = 0 =>
        /\ pc = "rescoring" =>
             /\ owners = {c \in DOMAIN kb : kb[c].patterns \cap global.matched # {}}
             /\ orphans = {p \in global.matched : \A c \in DOMAIN kb : p \notin kb[c].patterns}
        /\ pc \in Decided /\ global.matched # {} =>
             \/ \A p \in global.matched : Shown(p)
             \/ main.id # NoCase /\ main.result.matched # {}

\* Whatever _rescore_global_matches returns, no pattern is left out.
LEMMA RescoredShows ==
    ASSUME TypeOK, PlaceInv, LostInv, pc = "rescoring", changes = 0,
           NEW o \in Rescored(main.view), NEW p \in global.matched
    PROVE  \/ p \in o.result.matched \union o.unclassified
           \/ \E m \in o.minority : p \in m.result.matched
           \/ OwnersMiss(p)
<1> DEFINE v == main.view
<1>0. /\ kb \in KnowledgeBase /\ found \in Finding /\ v \in Views
      /\ owners \subseteq CaseIds /\ orphans \subseteq Patterns
  BY InputFacts DEF TypeOK, InputTypes, OutcomeTypes, Finds
<1>1. /\ owners = {c \in DOMAIN kb : kb[c].patterns \cap global.matched # {}}
      /\ orphans = {q \in global.matched : \A c \in DOMAIN kb : q \notin kb[c].patterns}
  BY DEF LostInv
<1>2. ASSUME NEW c \in DOMAIN kb
      PROVE  CaseResult(LoadCase(kb, c, 100), v).matched \subseteq kb[c].patterns
  <2>1. LoadCase(kb, c, 100).patterns = kb[c].patterns
    BY DEF LoadCase
  <2>2. QED
    BY <2>1 DEF CaseResult, Result, Matched
<1>3. /\ \A r \in AgainOf(v) : r.id # NoCase
      /\ \A c \in owners \cap DOMAIN kb :
           \/ CaseResult(LoadCase(kb, c, 100), v).matched = {}
           \/ \E r \in AgainOf(v) : r.result = CaseResult(LoadCase(kb, c, 100), v)
      /\ \A r \in AloneOf(v) : \E q \in orphans : r.patterns = {q} /\ r.result.matched = {q}
  BY <1>0, RescoredFinds DEF Evidenced
<1>4. CASE p \in orphans
  <2>1. AloneOf(v) # {}
    BY <1>4 DEF AloneOf
  <2>2. CASE OutcomeOfOrphans(o, v)
    BY <1>4, <2>2 DEF OutcomeOfOrphans
  <2>3. ASSUME NEW w, OutcomeOf(w, o, v) PROVE p \in o.result.matched \union o.unclassified
    <3>1. /\ o.result = w.result
          /\ o.unclassified = orphans \ (IF w.id = NoCase THEN w.patterns ELSE {})
          /\ w \in AgainOf(v) \union AloneOf(v)
      BY <2>3 DEF OutcomeOf, Winner
    <3>2. CASE w.id = NoCase
      <4>1. PICK q \in orphans : w.patterns = {q} /\ w.result.matched = {q}
        BY <1>3, <3>1, <3>2
      <4>2. QED
        BY <1>4, <3>1, <4>1
    <3>3. CASE w.id # NoCase
      BY <1>4, <3>1, <3>3
    <3>4. QED
      BY <3>2, <3>3
  <2>4. QED
    BY <2>1, <2>2, <2>3, RescoredCases DEF OutcomeOfNone
<1>5. CASE p \notin orphans
  <2>1. \E c \in DOMAIN kb : p \in kb[c].patterns
    BY <1>1, <1>5
  <2>2. CASE \A c \in DOMAIN kb : p \notin CaseResult(LoadCase(kb, c, 100), v).matched
    BY <2>1, <2>2 DEF OwnersMiss
  <2>3. ASSUME NEW c \in DOMAIN kb, p \in CaseResult(LoadCase(kb, c, 100), v).matched
        PROVE  \/ p \in o.result.matched \union o.unclassified
               \/ \E m \in o.minority : p \in m.result.matched
    <3>1. PICK r \in AgainOf(v) : r.result = CaseResult(LoadCase(kb, c, 100), v)
      <4>1. p \in kb[c].patterns
        BY <1>2, <2>3
      <4>2. c \in owners \cap DOMAIN kb
        BY <1>1, <4>1
      <4>3. QED
        BY <1>3, <2>3, <4>2
    <3>2. p \in r.result.matched
      BY <2>3, <3>1
    <3>3. ASSUME NEW w, OutcomeOf(w, o, v)
          PROVE  p \in o.result.matched \/ \E m \in o.minority : p \in m.result.matched
      <4>1. o.result = w.result /\ o.minority = {Report(x) : x \in AgainOf(v) \ {w}}
        BY <3>3 DEF OutcomeOf
      <4>2. Report(r).result = r.result
        BY DEF Report
      <4>3. r = w \/ Report(r) \in o.minority
        BY <4>1
      <4>4. QED
        BY <3>2, <4>1, <4>2, <4>3
    <3>4. QED
      BY <3>1, <3>3, RescoredCases DEF OutcomeOfNone, OutcomeOfOrphans
  <2>4. QED
    BY <2>2, <2>3
<1>6. QED
  BY <1>4, <1>5

\* Every step keeps what was found.
LEMMA LostStep ==
    ASSUME NeverRoundedAway, TypeOK, EvidenceInv, PlaceInv, LostInv, [Next]_vars
    PROVE  LostInv'
<1> USE DEF base, input, control, search, outcome, rescore, ending
<1>1. CASE RunStage1 \/ RunMasterRule \/ ChoosePath \/ LoadPinned \/ StartSearch \/ StartExpert
           \/ (\E answer \in Answers : ScoreCandidates(answer)) \/ RerankerFails
  <2>1. pc' \in Early \union {"failed"}
    BY <1>1 DEF RunStage1, RunMasterRule, ChoosePath, LoadPinned, StartSearch, StartExpert,
                ScoreCandidates, Scored, RerankerFails, Early
  <2>2. QED
    BY <2>1 DEF LostInv, Early, Decided
<1>2. CASE SelectCase \/ SelectFromPool
  <2>1. pc' \in {"matched", "owning"}
    BY <1>2, Selections DEF TriedAll, Chosen
  <2>2. QED
    BY <2>1 DEF LostInv, Decided
<1>3. CASE RunFallback
  <2>1. pc' = "owning" \/ (pc' = "judging" /\ global'.matched = {})
    BY <1>3 DEF RunFallback, PlaceInv
  <2>2. QED
    BY <2>1 DEF LostInv, Decided
<1>4. CASE FindOwners
  <2>1. /\ pc' = "rescoring" /\ UNCHANGED <<kb, changes, global>>
        /\ owners' = {c \in DOMAIN kb : kb[c].patterns \cap global.matched # {}}
        /\ orphans' = {p \in global.matched : \A c \in DOMAIN kb : p \notin kb[c].patterns}
    BY <1>4 DEF FindOwners
  <2>2. QED
    BY <2>1 DEF LostInv, Decided
<1>5. ASSUME NEW o \in Rescored(main.view), RescoreMatches(o), changes = 0
      PROVE  LostInv'
  <2>1. pc = "rescoring" /\ pc' = "judging" /\ UNCHANGED <<kb, changes, global, retry>>
    BY <1>5 DEF RescoreMatches
  <2>2. CASE Better(o)
    <3>1. /\ main' = Nothing(o.result, main.view) /\ minority' = minority \union o.minority
          /\ unclassified' = unclassified \union o.unclassified
      BY <1>5, <2>2 DEF RescoreMatches, Adopted, Unowned
    <3>2. main'.result = o.result
      BY <3>1 DEF Nothing
    <3>3. ASSUME NEW p \in global.matched PROVE Shown(p)'
      <4>1. \/ p \in o.result.matched \union o.unclassified
            \/ \E m \in o.minority : p \in m.result.matched
            \/ OwnersMiss(p)
        BY <1>5, <2>1, RescoredShows
      <4>2. OwnersMiss(p) => OwnersMiss(p)'
        <5>1. main'.view = main.view /\ UNCHANGED <<kb, found>>
          BY <1>5, <3>1 DEF Nothing, RescoreMatches
        <5>2. QED
          BY <5>1 DEF OwnersMiss, CaseResult
      <4>3. QED
        BY <2>1, <3>1, <3>2, <4>1, <4>2 DEF Shown
    <3>4. QED
      BY <2>1, <3>3 DEF LostInv, Decided
  <2>3. CASE ~Better(o)
    <3>1. retry /\ ~(o.result.score > main.result.score) /\ main' = main
      BY <1>5, <2>3 DEF RescoreMatches, Better
    <3>2. o \in Outcomes /\ o.result.score >= 1
      BY <2>1, AdoptedEvidence
    <3>3. o.result.score \in Int /\ main.result.score \in Int
      <4>1. o.result \in Results /\ main.result \in Results
        BY <3>2 DEF Outcomes, TypeOK, OutcomeTypes, Finds
      <4>2. QED
        BY <4>1, ResultNumbers
    <3>4. main.result.score # 0
      BY <3>1, <3>2, <3>3
    <3>5. main.result.matched # {}
      BY <3>4 DEF EvidenceInv
    <3>6. main.id # NoCase
      BY <2>1, <3>1 DEF PlaceInv
    <3>7. QED
      BY <2>1, <3>1, <3>5, <3>6 DEF LostInv, Decided
  <2>4. QED
    BY <2>2, <2>3
<1>6. CASE Judge
  <2>1. /\ pc = "judging" /\ UNCHANGED <<kb, found, changes, minority, unclassified, global>>
        /\ main'.result = main.result /\ main'.view = main.view /\ pc' # "rescoring"
        /\ main.result.matched # {} => main' = main
    BY <1>6, JudgeProperties
  <2>2. \A p : Shown(p) => Shown(p)'
    BY <2>1, ShownStays
  <2>3. QED
    BY <2>1, <2>2 DEF LostInv, Decided
<1>7. CASE WriteReport \/ Reflect \/ Finish \/ Cancel
  <2>1. /\ UNCHANGED <<kb, found, changes, main, minority, unclassified, global>>
        /\ pc' \in {"failed", "cancelled"} \/ (pc \in Decided /\ pc' \in Decided)
    BY <1>7 DEF WriteReport, Reflect, Finish, Cancel, Decided
  <2>2. \A p : Shown(p) => Shown(p)'
    BY <2>1, ShownStays
  <2>3. QED
    BY <2>1, <2>2 DEF LostInv, Decided
<1>8. CASE ByOthers
  <2>1. changes' = changes + 1
    BY <1>8 DEF ByOthers, DeleteCase, Unlink, SetMode, Change
  <2>2. changes \in Nat
    BY DEF TypeOK, InputTypes
  <2>3. changes' # 0
    BY <2>1, <2>2
  <2>4. QED
    BY <2>3 DEF LostInv
<1>9. CASE UNCHANGED vars
  <2>1. UNCHANGED <<kb, found, changes, pc, main, minority, unclassified, global, owners, orphans>>
    BY <1>9 DEF vars
  <2>2. \A p : Shown(p) => Shown(p)'
    BY <2>1, ShownStays
  <2>3. QED
    BY <2>1, <2>2 DEF LostInv
<1>10. CASE (\E o \in Rescored(main.view) : RescoreMatches(o)) /\ changes # 0
  <2>1. UNCHANGED changes
    BY <1>10 DEF RescoreMatches
  <2>2. QED
    BY <1>10, <2>1 DEF LostInv
<1>11. QED
  BY <1>1, <1>2, <1>3, <1>4, <1>5, <1>6, <1>7, <1>8, <1>9, <1>10 DEF Next, Run

\* No pattern that was found among all patterns is lost while nobody changes
\* the knowledge base, provided that a pattern alone is not rounded away.
THEOREM NothingFoundNeverLost ==
    ASSUME NeverRoundedAway
    PROVE  Spec => []NothingFoundIsLost
<1>1. Init => LostInv
  BY DEF Init, LostInv, Decided
<1>2. TypeOK /\ EvidenceInv /\ PlaceInv /\ LostInv /\ [Next]_vars => LostInv'
  BY LostStep
<1>3. EvidenceInv /\ LostInv => NothingFoundIsLost
  <2>1. SUFFICES ASSUME LostInv, Concluded, changes = 0, global.matched # {}, main.id = NoCase
                 PROVE  \A p \in global.matched : Shown(p)
    BY DEF NothingFoundIsLost, Shown
  <2>2. QED
    BY <2>1 DEF LostInv, Concluded, Decided
<1>4. QED
  BY <1>1, <1>2, <1>3, InvariantHolds, TypeCorrect, PTL DEF Spec

------------------------------------------------------------------------------
(* The page.                                                               *)

\* The one stream the page can close is the only one that is not stray, and
\* what is not stray was begun for the defect that is selected.
StreamInv ==
    /\ \A j \in posting \ stray : Belongs(j)
    /\ \A j \in open \ stray : subRef = j /\ Belongs(j)

PageInv == PageTypeOK /\ StreamInv /\ OutcomeBelongsUnlessStray

------------------------------------------------------------------------------
\* The server keeps the type of the life of a job.
LEMMA ServerType ==
    ASSUME PageTypeOK, Server!Next
    PROVE  life' \in [Jobs -> {"new", "expired"} \union Server!Open \union Server!Outcomes]
BY DEF PageTypeOK, Server!Next, Server!CancelAll, Server!Expire, Server!Submit, Server!Start,
       Server!End, Server!Open, Server!Outcomes

LEMMA PageStart == PageInit => PageInv
BY NoneAssumption DEF PageInit, Server!Init, PageInv, PageTypeOK, StreamInv,
                      OutcomeBelongsUnlessStray, Submitted, Server!Open, Server!Outcomes

\* The steps that turn the page to something else.
LEMMA TurnStep ==
    ASSUME PageInv, (\E d \in Defects : Select(d)) \/ Unselect \/ Remount \/ HandleCancel
    PROVE  PageInv'
<1> USE DEF PageInv, PageTypeOK, StreamInv, OutcomeBelongsUnlessStray, Submitted, Belongs,
            Show, calls, shown, refs
<1>1. ASSUME NEW d \in Defects, Select(d)
      PROVE  PageInv'
  BY <1>1 DEF Select, StopSSE, Abandon
<1>2. CASE Unselect
  BY <1>2 DEF Unselect
<1>3. CASE Remount
  BY <1>3 DEF Remount
<1>4. CASE HandleCancel
  BY <1>4 DEF HandleCancel, StopSSE
<1>5. QED
  BY <1>1, <1>2, <1>3, <1>4

\* The steps of a request.
LEMMA RequestStep ==
    ASSUME PageInv, NEW j \in Jobs,
           Analyze(j) \/ Posted(j) \/ PostFails(j) \/ CancelAnswered(j)
    PROVE  PageInv'
<1> USE NoneAssumption DEF PageInv, PageTypeOK, StreamInv, OutcomeBelongsUnlessStray,
            Submitted, Belongs, Show, shown, refs
<1>1. CASE Analyze(j)
  <2>1. defectOf' \in [Jobs -> Defects \union {None}] /\ Submitted' = Submitted \union {j}
    BY <1>1 DEF Analyze
  <2>2. PageTypeOK'
    BY <1>1, <2>1 DEF Analyze, StopSSE, Abandon
  <2>3. open' \subseteq stray'
    BY <1>1 DEF Analyze, StopSSE, Abandon
  <2>4. \A i \in posting' \ stray' : i = j
    BY <1>1 DEF Analyze, Abandon
  <2>5. defectOf'[j] = selected' /\ status' = "running"
    BY <1>1 DEF Analyze
  <2>6. QED
    BY <2>2, <2>3, <2>4, <2>5
<1>2. CASE Posted(j)
  <2>1. PageTypeOK'
    BY <1>2 DEF Posted, Displace
  <2>2. StreamInv'
    BY <1>2 DEF Posted, Displace
  <2>3. OutcomeBelongsUnlessStray'
    BY <1>2 DEF Posted, Displace
  <2>4. QED
    BY <2>1, <2>2, <2>3
<1>3. CASE PostFails(j)
  BY <1>3 DEF PostFails
<1>4. CASE CancelAnswered(j)
  BY <1>4 DEF CancelAnswered
<1>5. QED
  BY <1>1, <1>2, <1>3, <1>4

\* The end of a stream: what it shows is of its own job, and the refs it clears
\* are its own unless their owner becomes stray.
LEMMA StreamEndStep ==
    ASSUME PageInv, NEW j \in Jobs,
           OnDone(j) \/ OnError(j) \/ OnCancelled(j) \/ OnBroken(j)
    PROVE  PageInv'
<1> USE NoneAssumption DEF PageInv, PageTypeOK, StreamInv, OutcomeBelongsUnlessStray,
            Submitted, Belongs, shown, refs, calls
<1>1. CloseStream(j) /\ (\/ Show("done", j) \/ Show("error", j) \/ Show("idle", None))
  BY DEF OnDone, OnError, OnCancelled, OnBroken
<1>2. PageTypeOK'
  BY <1>1 DEF CloseStream, Show, Displace
<1>3. StreamInv'
  BY <1>1 DEF CloseStream, Show, Displace
<1>4. OutcomeBelongsUnlessStray'
  BY <1>1 DEF CloseStream, Show, Displace
<1>5. QED
  BY <1>2, <1>3, <1>4

LEMMA PageStep == PageInv /\ [PageNext]_pageVars => PageInv'
<1> SUFFICES ASSUME PageInv, [PageNext]_pageVars
             PROVE  PageInv'
  OBVIOUS
<1>1. CASE UNCHANGED pageVars
  BY <1>1 DEF pageVars, page, shown, refs, calls, PageInv, PageTypeOK, StreamInv,
              OutcomeBelongsUnlessStray, Submitted, Belongs
<1>2. CASE Serve
  <2>1. life' \in [Jobs -> {"new", "expired"} \union Server!Open \union Server!Outcomes]
    BY <1>2, ServerType DEF Serve, PageInv
  <2>2. QED
    BY <1>2, <2>1 DEF Serve, page, shown, refs, calls, PageInv, PageTypeOK, StreamInv,
                      OutcomeBelongsUnlessStray, Submitted, Belongs
<1>3. QED
  BY <1>1, <1>2, TurnStep, RequestStep, StreamEndStep DEF PageNext

\* The streams of the page are under its control unless they are stray.
THEOREM PageInvariantHolds == PageSpec => []PageInv
<1>1. PageInit => PageInv
  BY PageStart
<1>2. PageInv /\ [PageNext]_pageVars => PageInv'
  BY PageStep
<1>3. QED
  BY <1>1, <1>2, PTL DEF PageSpec

\* The variables of the page keep their types.
THEOREM PageTypeCorrect == PageSpec => []PageTypeOK
<1>1. PageInv => PageTypeOK
  BY DEF PageInv
<1>2. QED
  BY <1>1, PageInvariantHolds, PTL

\* A report or an error on the page is of the selected defect, unless its job is
\* stray (App.jsx, stopSSE and the callbacks of subscribeAnalysis).
THEOREM OutcomeAlwaysBelongs == PageSpec => []OutcomeBelongsUnlessStray
<1>1. PageInv => OutcomeBelongsUnlessStray
  BY DEF PageInv
<1>2. QED
  BY <1>1, PageInvariantHolds, PTL

==============================================================================
