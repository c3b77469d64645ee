-------------------------- MODULE LogAnalysisProofs --------------------------
(***************************************************************************)
(* Theorems about LogAnalysis, for every set of messages, every request of *)
(* any number of files of any length, every configuration, any master      *)
(* rules and any patterns.                                                 *)
(***************************************************************************)
EXTENDS LogAnalysis, FiniteSetTheorems, FunctionTheorems, SequenceTheorems, TLAPS

------------------------------------------------------------------------------
(* Orders and the sequences they make.                                     *)

\* A strict order of the elements of S.
Strict(S, R) ==
    /\ \A x, y \in S : <<x, y>> \in R => <<y, x>> \notin R
    /\ \A x, y, z \in S : <<x, y>> \in R /\ <<y, z>> \in R => <<x, z>> \in R
    /\ \A x, y \in S : x = y \/ <<x, y>> \in R \/ <<y, x>> \in R

\* InOrder lists every element of the set once, in the order.
LEMMA InOrderSorts ==
    ASSUME NEW S, NEW R, IsFiniteSet(S), Strict(S, R)
    PROVE  /\ InOrder(S, R) \in [1..Cardinality(S) -> S]
           /\ \A x \in S : \E n \in 1..Cardinality(S) : InOrder(S, R)[n] = x
           /\ \A i, j \in 1..Cardinality(S) :
                i < j => <<InOrder(S, R)[i], InOrder(S, R)[j]>> \in R
<1> DEFINE n == Cardinality(S)
           P(x) == {y \in S : <<y, x>> \in R}
           before == [x \in S |-> Cardinality(P(x))]
           o == InOrder(S, R)
<1>1. n \in Nat
  BY FS_CardinalityType
<1>2. \A x \in S : IsFiniteSet(P(x)) /\ before[x] \in 0..(n - 1)
  <2> SUFFICES ASSUME NEW x \in S PROVE IsFiniteSet(P(x)) /\ before[x] \in 0..(n - 1)
    OBVIOUS
  <2>1. P(x) \in SUBSET S /\ x \notin P(x)
    BY DEF Strict
  <2>2. IsFiniteSet(P(x)) /\ Cardinality(P(x)) <= n /\ (n = Cardinality(P(x)) => S = P(x))
    BY <2>1, FS_Subset
  <2>3. Cardinality(P(x)) \in Nat
    BY <2>2, FS_CardinalityType
  <2>4. Cardinality(P(x)) # n
    BY <2>1, <2>2
  <2> HIDE DEF P, n
  <2>5. Cardinality(P(x)) \in 0..(n - 1)
    BY <1>1, <2>2, <2>3, <2>4
  <2>6. QED
    BY <2>2, <2>5
<1>3. \A x, y \in S : <<x, y>> \in R => before[x] < before[y]
  <2> SUFFICES ASSUME NEW x \in S, NEW y \in S, <<x, y>> \in R PROVE before[x] < before[y]
    OBVIOUS
  <2>1. P(x) \in SUBSET P(y) /\ x \in P(y) /\ x \notin P(x)
    BY DEF Strict
  <2>2. IsFiniteSet(P(y)) /\ before[x] \in Nat /\ before[y] \in Nat
    BY <1>1, <1>2
  <2>3. Cardinality(P(x)) <= Cardinality(P(y)) /\ Cardinality(P(x)) # Cardinality(P(y))
    <3>1. P(x) # P(y)
      BY <2>1
    <3> HIDE DEF P
    <3>2. QED
      BY <2>1, <2>2, <3>1, FS_Subset
  <2>4. QED
    BY <2>2, <2>3
<1>4. \A x, y \in S : before[x] = before[y] => x = y
  <2> SUFFICES ASSUME NEW x \in S, NEW y \in S, before[x] = before[y] PROVE x = y
    OBVIOUS
  <2>1. before[x] \in Int
    BY <1>2, <1>1
  <2>2. ~(before[x] < before[y]) /\ ~(before[y] < before[x])
    BY <2>1
  <2>3. QED
    BY <2>2, <1>3 DEF Strict
<1>5. \A k \in 0..(n - 1) : \E x \in S : before[x] = k
  <2>1. before \in Injection(S, 0..(n - 1))
    <3>1. before \in [S -> 0..(n - 1)]
      BY <1>2
    <3> HIDE DEF before, n
    <3>2. QED
      BY <1>4, <3>1, Fun_IsInj
  <2>2. IsFiniteSet(0..(n - 1)) /\ Cardinality(0..(n - 1)) = n
    BY <1>1, FS_Interval
  <2> HIDE DEF before
  <2>3. before \in Surjection(S, 0..(n - 1))
    BY <2>1, <2>2, FS_Injection
  <2>4. QED
    BY <2>3, Fun_SurjectionProperties
<1>6. o = [k \in 1..n |-> CHOOSE x \in S : before[x] = k - 1]
  BY DEF InOrder
<1> HIDE DEF o, before, P, n
<1>7. \A k \in 1..n : o[k] \in S /\ before[o[k]] = k - 1
  <2> SUFFICES ASSUME NEW k \in 1..n PROVE o[k] \in S /\ before[o[k]] = k - 1
    OBVIOUS
  <2>1. k - 1 \in 0..(n - 1)
    BY <1>1
  <2>2. \E x \in S : before[x] = k - 1
    BY <1>5, <2>1
  <2>3. QED
    BY <1>6, <2>2
<1>8. o \in [1..n -> S]
  BY <1>6, <1>7
<1>9. \A x \in S : \E k \in 1..n : o[k] = x
  <2> SUFFICES ASSUME NEW x \in S PROVE \E k \in 1..n : o[k] = x
    OBVIOUS
  <2>1. before[x] + 1 \in 1..n /\ (before[x] + 1) - 1 = before[x]
    BY <1>1, <1>2
  <2>2. o[before[x] + 1] = x
    BY <1>4, <1>7, <2>1
  <2>3. QED
    BY <2>1, <2>2
<1>10. \A i, j \in 1..n : i < j => <<o[i], o[j]>> \in R
  <2> SUFFICES ASSUME NEW i \in 1..n, NEW j \in 1..n, i < j PROVE <<o[i], o[j]>> \in R
    OBVIOUS
  <2>1. /\ o[i] \in S /\ o[j] \in S
        /\ before[o[i]] # before[o[j]] /\ ~(before[o[j]] < before[o[i]])
    BY <1>1, <1>7
  <2>2. o[i] # o[j] /\ <<o[j], o[i]>> \notin R
    BY <2>1, <1>3
  <2>3. QED
    BY <2>1, <2>2 DEF Strict
<1>11. QED
  BY <1>8, <1>9, <1>10 DEF o, n

\* A function on 1..n is a sequence.
LEMMA FunctionIsSeq ==
    ASSUME NEW T, NEW n \in Nat, NEW f \in [1..n -> T]
    PROVE  f \in Seq(T) /\ Len(f) = n
<1> DEFINE q == SubSeq(f, 1, n)
<1>1. /\ q \in Seq(T) /\ Len(q) = IF 1 <= n THEN n - 1 + 1 ELSE 0
      /\ \A i \in 1..(n - 1 + 1) : q[i] = f[1 + i - 1]
  BY SubSeqProperties
<1> HIDE DEF q
<1>2. Len(q) = n /\ \A i \in 1..n : q[i] = f[i]
  BY <1>1
<1>3. q \in [1..n -> T]
  BY <1>1, <1>2, LenProperties
<1>4. q = f
  BY <1>2, <1>3
<1>5. QED
  BY <1>1, <1>2, <1>4

\* What a set of places of a sequence is: finite, no larger than the sequence.
LEMMA IntervalFinite ==
    ASSUME NEW n \in Nat, NEW I \in SUBSET (1..n)
    PROVE  IsFiniteSet(I) /\ Cardinality(I) \in 0..n
<1>1. IsFiniteSet(1..n) /\ Cardinality(1..n) = n
  BY FS_Interval
<1>2. IsFiniteSet(I) /\ Cardinality(I) <= n
  BY <1>1, FS_Subset
<1>3. QED
  BY <1>2, FS_CardinalityType

\* at leads from the elements of q to those of s at the indices I, in order.
Leads(at, q, s, I) ==
    /\ at \in [1..Len(q) -> I]
    /\ \A n \in 1..Len(q) : q[n] = s[at[n]]
    /\ \A m, n \in 1..Len(q) : m < n => at[m] < at[n]
    /\ \A i \in I : \E n \in 1..Len(q) : at[n] = i

\* Chosen takes the elements at the indices, each once and in order.
LEMMA ChosenLeads ==
    ASSUME NEW T, NEW s \in Seq(T), NEW I \in SUBSET (1..Len(s))
    PROVE  /\ Chosen(s, I) \in Seq(T) /\ Len(Chosen(s, I)) = Cardinality(I)
           /\ \E at : Leads(at, Chosen(s, I), s, I)
<1> DEFINE R == {r \in I \X I : r[1] < r[2]}
           o == InOrder(I, R)
           q == Chosen(s, I)
<1>1. Len(s) \in Nat /\ IsFiniteSet(I) /\ Cardinality(I) \in Nat
  BY IntervalFinite, LenProperties
<1>2. Strict(I, R)
  BY <1>1 DEF Strict
<1>3. q = [n \in 1..Cardinality(I) |-> s[o[n]]]
  BY DEF Chosen
<1> HIDE DEF q, o
<1>4. /\ o \in [1..Cardinality(I) -> I]
      /\ \A x \in I : \E n \in 1..Cardinality(I) : o[n] = x
      /\ \A i, j \in 1..Cardinality(I) : i < j => <<o[i], o[j]>> \in R
  BY <1>1, <1>2, InOrderSorts DEF o
<1>5. q \in [1..Cardinality(I) -> T]
  <2>1. \A i \in I : s[i] \in T
    BY ElementOfSeq
  <2>2. QED
    BY <1>3, <1>4, <2>1
<1>6. q \in Seq(T) /\ Len(q) = Cardinality(I)
  BY <1>1, <1>5, FunctionIsSeq
<1>7. Leads(o, q, s, I)
  BY <1>3, <1>4, <1>6 DEF Leads
<1>8. QED
  BY <1>6, <1>7 DEF q

------------------------------------------------------------------------------
(* Sums.                                                                   *)

SumStep(f, v, k) == v + f[k]
SumGood(f, v, k) == TRUE
Sums == INSTANCE Loops WITH Step <- SumStep, Good <- SumGood

\* SumTo adds one value after the other.
LEMMA SumRun ==
    ASSUME NEW n \in Nat, NEW f
    PROVE  \E s : Sums!Run(f, 0, n, s) /\ SumTo(n, f) = s[n]
<1>1. Sums!Defined(f, 0, n)
  BY Sums!LoopDefined
<1>2. PICK s : /\ s = [k \in 0..n |-> IF k = 0 THEN 0 ELSE s[k - 1] + f[k]]
               /\ SumTo(n, f) = s[n]
  BY <1>1 DEF Sums!Defined, SumTo, SumStep
<1>3. Sums!Run(f, 0, n, s)
  BY <1>2 DEF Sums!Run, SumStep
<1>4. QED
  BY <1>2, <1>3

LEMMA SumLaw ==
    ASSUME NEW n \in Nat, NEW f, \A k \in 1..n : f[k] \in Nat
    PROVE  /\ SumTo(0, f) = 0
           /\ \A k \in 1..n : SumTo(k, f) = SumTo(k - 1, f) + f[k]
           /\ \A k \in 0..n : SumTo(k, f) \in Nat
<1>1. PICK s : Sums!Run(f, 0, n, s) /\ SumTo(n, f) = s[n]
  BY SumRun
<1>2. \A m \in 0..n : SumTo(m, f) = s[m]
  <2> SUFFICES ASSUME NEW m \in 0..n PROVE SumTo(m, f) = s[m]
    OBVIOUS
  <2>1. m \in Nat
    OBVIOUS
  <2>2. PICK t : Sums!Run(f, 0, m, t) /\ SumTo(m, f) = t[m]
    BY <2>1, SumRun
  <2>3. Sums!Run(f, 0, m, s)
    BY <1>1 DEF Sums!Run
  <2>4. \A k \in 0..m : t[k] = s[k]
    BY <2>1, <2>2, <2>3, Sums!LoopPrefix
  <2>5. QED
    BY <2>1, <2>2, <2>4
<1>3. s[0] = 0 /\ \A k \in 1..n : s[k] = s[k - 1] + f[k]
  BY <1>1 DEF Sums!Run, SumStep
<1>4. \A k \in 0..n : s[k] \in Nat
  <2> DEFINE G == {k \in 0..n : s[k] \in Nat}
  <2>1. 0 \in G /\ \A k \in 1..n : k - 1 \in G => k \in G
    BY <1>3
  <2> HIDE DEF G
  <2>2. \A k \in 0..n : k \in G
    BY <2>1, Sums!CountUp
  <2>3. QED
    BY <2>2 DEF G
<1>5. QED
  BY <1>2, <1>3, <1>4

LEMMA SumNat ==
    ASSUME NEW n \in Nat, NEW f, \A k \in 1..n : f[k] \in Nat
    PROVE  SumTo(n, f) \in Nat
<1>1. n \in 0..n
  OBVIOUS
<1>2. QED
  BY <1>1, SumLaw

LEMMA SumStart ==
    ASSUME NEW f
    PROVE  SumTo(0, f) = 0
<1>1. 0 \in Nat /\ \A k \in 1..0 : f[k] \in Nat
  OBVIOUS
<1>2. QED
  BY <1>1, SumLaw

\* Sums of equal values are equal.
LEMMA SumSame ==
    ASSUME NEW n \in Nat, NEW f, NEW g, \A k \in 1..n : f[k] \in Nat /\ g[k] = f[k]
    PROVE  SumTo(n, g) = SumTo(n, f)
<1> DEFINE G == {k \in 0..n : SumTo(k, g) = SumTo(k, f)}
<1>1. 0 \in G /\ \A k \in 1..n : k - 1 \in G => k \in G
  BY SumLaw
<1> HIDE DEF G
<1>2. \A k \in 0..n : k \in G
  BY <1>1, Sums!CountUp
<1>3. QED
  BY <1>2 DEF G

\* g is f but for c more at o.
More(n, f, g, o, c) ==
    /\ o \in 1..n /\ c \in Nat
    /\ \A k \in 1..n : f[k] \in Nat /\ g[k] = f[k] + (IF k = o THEN c ELSE 0)

\* So much more in one place is so much more in the sum.
LEMMA SumPoint ==
    ASSUME NEW n \in Nat, NEW f, NEW g, NEW o, NEW c, More(n, f, g, o, c)
    PROVE  SumTo(n, g) = SumTo(n, f) + c
<1> USE DEF More
<1> DEFINE G == {k \in 0..n : SumTo(k, g) = SumTo(k, f) + (IF k >= o THEN c ELSE 0)}
<1>1. \A k \in 1..n : g[k] \in Nat
  OBVIOUS
<1>2. 0 \in G
  BY <1>1, SumLaw
<1>3. \A k \in 1..n : k - 1 \in G => k \in G
  <2> SUFFICES ASSUME NEW k \in 1..n, k - 1 \in G PROVE k \in G
    OBVIOUS
  <2>1. SumTo(k, f) = SumTo(k - 1, f) + f[k] /\ SumTo(k - 1, f) \in Nat
    BY SumLaw
  <2>2. SumTo(k, g) = SumTo(k - 1, g) + g[k]
    BY <1>1, SumLaw
  <2>3. QED
    BY <2>1, <2>2
<1> HIDE DEF G
<1>4. \A k \in 0..n : k \in G
  BY <1>2, <1>3, Sums!CountUp
<1>5. QED
  BY <1>4, SumLaw DEF G

\* h is m values of f and then n of g.
Joined(m, n, f, g, h) ==
    /\ m \in Nat /\ n \in Nat
    /\ \A k \in 1..m : f[k] \in Nat /\ h[k] = f[k]
    /\ \A k \in 1..n : g[k] \in Nat /\ h[m + k] = g[k]

LEMMA SumJoin ==
    ASSUME NEW m, NEW n, NEW f, NEW g, NEW h, Joined(m, n, f, g, h)
    PROVE  SumTo(m + n, h) = SumTo(m, f) + SumTo(n, g)
<1> USE DEF Joined
<1> DEFINE G == {k \in 0..n : SumTo(m + k, h) = SumTo(m, f) + SumTo(k, g)}
<1>1. \A k \in 1..(m + n) : h[k] \in Nat
  <2> SUFFICES ASSUME NEW k \in 1..(m + n) PROVE h[k] \in Nat
    OBVIOUS
  <2>1. k \in 1..m \/ (k - m \in 1..n /\ m + (k - m) = k)
    OBVIOUS
  <2>2. QED
    BY <2>1
<1>2. 0 \in G
  <2>1. SumTo(m, h) = SumTo(m, f)
    BY SumSame
  <2>2. SumTo(0, g) = 0 /\ SumTo(m, f) \in Nat
    BY SumLaw
  <2>3. QED
    BY <2>1, <2>2
<1>3. \A k \in 1..n : k - 1 \in G => k \in G
  <2> SUFFICES ASSUME NEW k \in 1..n, k - 1 \in G PROVE k \in G
    OBVIOUS
  <2>1. /\ m + k \in 1..(m + n) /\ (m + k) - 1 = m + (k - 1)
        /\ SumTo(m, f) \in Nat
    BY SumLaw
  <2>2. SumTo(m + k, h) = SumTo(m + (k - 1), h) + h[m + k]
    <3>1. SumTo(m + k, h) = SumTo((m + k) - 1, h) + h[m + k]
      BY <1>1, <2>1, SumLaw
    <3>2. QED
      BY <2>1, <3>1
  <2>3. SumTo(k, g) = SumTo(k - 1, g) + g[k] /\ SumTo(k - 1, g) \in Nat
    BY SumLaw
  <2>4. QED
    BY <2>1, <2>2, <2>3
<1> HIDE DEF G
<1>4. \A k \in 0..n : k \in G
  BY <1>2, <1>3, Sums!CountUp
<1>5. QED
  BY <1>4 DEF G

\* Nothing but zeros adds up to zero.
LEMMA SumZero ==
    ASSUME NEW n \in Nat, NEW f, \A k \in 1..n : f[k] = 0
    PROVE  SumTo(n, f) = 0
<1> DEFINE G == {k \in 0..n : SumTo(k, f) = 0}
<1>1. 0 \in G /\ \A k \in 1..n : k - 1 \in G => k \in G
  BY SumLaw
<1> HIDE DEF G
<1>2. \A k \in 0..n : k \in G
  BY <1>1, Sums!CountUp
<1>3. QED
  BY <1>2 DEF G

\* The sum of a value that each k of 1..m collects from those it owns.
LEMMA SumParts ==
    ASSUME NEW n \in Nat, NEW m \in Nat, NEW f, \A i \in 1..n : f[i] \in Nat,
           NEW owner \in [1..n -> 1..m]
    PROVE  SumTo(m, [k \in 1..m |-> SumTo(n, [i \in 1..n |-> IF owner[i] = k THEN f[i] ELSE 0])])
           = SumTo(n, f)
<1> DEFINE own(k) == [i \in 1..n |-> IF owner[i] = k THEN f[i] ELSE 0]
           part(j) == [k \in 1..m |-> SumTo(j, own(k))]
           G == {j \in 0..n : SumTo(m, part(j)) = SumTo(j, f)}
<1>1. \A k \in 1..m : \A i \in 1..n : own(k)[i] \in Nat
  OBVIOUS
<1>2. \A k \in 1..m : /\ SumTo(0, own(k)) = 0
                      /\ \A j \in 1..n : SumTo(j, own(k)) = SumTo(j - 1, own(k)) + own(k)[j]
                      /\ \A j \in 0..n : SumTo(j, own(k)) \in Nat
  <2> HIDE DEF own
  <2>1. QED
    BY <1>1, SumLaw
<1>3. 0 \in G
  <2>1. \A k \in 1..m : part(0)[k] = 0
    BY <1>2
  <2>2. SumTo(m, part(0)) = 0 /\ SumTo(0, f) = 0
    <3> HIDE DEF part
    <3>1. QED
      BY <2>1, SumZero, SumLaw
  <2>3. QED
    BY <2>2
<1>4. \A j \in 1..n : j - 1 \in G => j \in G
  <2> SUFFICES ASSUME NEW j \in 1..n, j - 1 \in G PROVE j \in G
    OBVIOUS
  <2>1. owner[j] \in 1..m /\ f[j] \in Nat /\ j - 1 \in 0..n
    OBVIOUS
  <2>2. \A k \in 1..m : /\ part(j - 1)[k] \in Nat
                        /\ part(j)[k] = part(j - 1)[k] + (IF k = owner[j] THEN f[j] ELSE 0)
    <3> SUFFICES ASSUME NEW k \in 1..m
                 PROVE  /\ part(j - 1)[k] \in Nat
                        /\ part(j)[k] = part(j - 1)[k] + (IF k = owner[j] THEN f[j] ELSE 0)
      OBVIOUS
    <3>1. part(j)[k] = SumTo(j, own(k)) /\ part(j - 1)[k] = SumTo(j - 1, own(k))
      OBVIOUS
    <3>2. own(k)[j] = IF k = owner[j] THEN f[j] ELSE 0
      OBVIOUS
    <3> HIDE DEF own, part
    <3>3. QED
      BY <1>2, <2>1, <3>1, <3>2
  <2> HIDE DEF own, part
  <2>3. SumTo(m, part(j)) = SumTo(m, part(j - 1)) + f[j]
    <3>1. More(m, part(j - 1), part(j), owner[j], f[j])
      BY <2>1, <2>2 DEF More
    <3>2. QED
      BY <3>1, SumPoint
  <2>4. SumTo(j, f) = SumTo(j - 1, f) + f[j]
    BY SumLaw
  <2>5. QED
    BY <2>3, <2>4
<1>5. SumTo(m, part(n)) = SumTo(n, f)
  <2> HIDE DEF G
  <2>1. \A j \in 0..n : j \in G
    BY <1>3, <1>4, Sums!CountUp
  <2>2. QED
    BY <2>1 DEF G
<1>6. QED
  BY <1>5

------------------------------------------------------------------------------
(* Lines and the events they stand for.                                    *)

Counts(ls) == [i \in DOMAIN ls |-> ls[i].count]

Total(ls) == CountOf(ls, DOMAIN ls)

LEMMA LineCount ==
    ASSUME NEW ls \in Seq(LogLine)
    PROVE  /\ Len(ls) \in Nat /\ DOMAIN ls = 1..Len(ls)
           /\ \A i \in 1..Len(ls) :
                /\ ls[i] \in LogLine
                /\ ls[i].count \in Nat /\ ls[i].time \in Nat \union {NoTime}
                /\ Counts(ls)[i] = ls[i].count
<1>1. Len(ls) \in Nat /\ DOMAIN ls = 1..Len(ls) /\ \A i \in 1..Len(ls) : ls[i] \in LogLine
  BY LenProperties, ElementOfSeq
<1>2. QED
  BY <1>1 DEF LogLine, Counts

\* CountOf is the sum of the counts at the indices.
LEMMA CountIsSum ==
    ASSUME NEW ls \in Seq(LogLine), NEW I
    PROVE  /\ CountOf(ls, I)
              = SumTo(Len(ls), [i \in 1..Len(ls) |-> IF i \in I THEN ls[i].count ELSE 0])
           /\ CountOf(ls, I) \in Nat
<1> DEFINE f == [i \in 1..Len(ls) |-> IF i \in I THEN ls[i].count ELSE 0]
<1>1. Len(ls) \in Nat /\ DOMAIN ls = 1..Len(ls)
  BY LineCount
<1>2. CountOf(ls, I) = SumTo(Len(ls), f)
  BY <1>1 DEF CountOf
<1>3. \A i \in 1..Len(ls) : f[i] \in Nat
  BY LineCount
<1> HIDE DEF f
<1>4. SumTo(Len(ls), f) \in Nat
  BY <1>1, <1>3, SumNat
<1>5. QED
  BY <1>2, <1>4 DEF f

LEMMA TotalIsSum ==
    ASSUME NEW ls \in Seq(LogLine)
    PROVE  Total(ls) = SumTo(Len(ls), Counts(ls)) /\ Total(ls) \in Nat
<1> DEFINE f == [i \in 1..Len(ls) |-> IF i \in DOMAIN ls THEN ls[i].count ELSE 0]
<1>1. Total(ls) = SumTo(Len(ls), f) /\ Total(ls) \in Nat
  BY CountIsSum DEF Total
<1>2. Len(ls) \in Nat /\ \A i \in 1..Len(ls) : Counts(ls)[i] \in Nat /\ f[i] = Counts(ls)[i]
  BY LineCount
<1> HIDE DEF f
<1>3. SumTo(Len(ls), f) = SumTo(Len(ls), Counts(ls))
  BY <1>2, SumSame
<1>4. QED
  BY <1>1, <1>3

LEMMA TotalEmpty == << >> \in Seq(LogLine) /\ Total(<< >>) = 0
<1>1. << >> \in Seq(LogLine) /\ Len(<< >>) = 0
  OBVIOUS
<1>2. Total(<< >>) = SumTo(0, Counts(<< >>))
  BY <1>1, TotalIsSum
<1>3. QED
  BY <1>1, <1>2, SumStart

LEMMA TotalJoin ==
    ASSUME NEW ls \in Seq(LogLine), NEW ms \in Seq(LogLine)
    PROVE  ls \o ms \in Seq(LogLine) /\ Total(ls \o ms) = Total(ls) + Total(ms)
<1> DEFINE q == ls \o ms
<1>1. /\ q \in Seq(LogLine) /\ Len(q) = Len(ls) + Len(ms)
      /\ \A i \in 1..Len(ls) : q[i] = ls[i]
      /\ \A i \in 1..Len(ms) : q[Len(ls) + i] = ms[i]
  BY ConcatProperties
<1> HIDE DEF q
<1>2. \A k \in 1..Len(ls) : Counts(ls)[k] \in Nat /\ Counts(q)[k] = Counts(ls)[k]
  <2> SUFFICES ASSUME NEW k \in 1..Len(ls)
               PROVE  Counts(ls)[k] \in Nat /\ Counts(q)[k] = Counts(ls)[k]
    OBVIOUS
  <2>1. k \in 1..Len(q)
    BY <1>1, LineCount
  <2>2. QED
    BY <2>1, <1>1, LineCount
<1>3. \A k \in 1..Len(ms) : Counts(ms)[k] \in Nat /\ Counts(q)[Len(ls) + k] = Counts(ms)[k]
  <2> SUFFICES ASSUME NEW k \in 1..Len(ms)
               PROVE  Counts(ms)[k] \in Nat /\ Counts(q)[Len(ls) + k] = Counts(ms)[k]
    OBVIOUS
  <2>1. Len(ls) \in Nat /\ Len(ms) \in Nat
    BY LineCount
  <2>2. Len(ls) + k \in 1..Len(q)
    BY <1>1, <2>1
  <2>3. Counts(q)[Len(ls) + k] = q[Len(ls) + k].count
    BY <1>1, <2>2, LineCount
  <2>4. QED
    BY <2>3, <1>1, LineCount
<1>4. SumTo(Len(ls) + Len(ms), Counts(q))
      = SumTo(Len(ls), Counts(ls)) + SumTo(Len(ms), Counts(ms))
  <2>1. Joined(Len(ls), Len(ms), Counts(ls), Counts(ms), Counts(q))
    BY <1>2, <1>3, LineCount DEF Joined
  <2>2. QED
    BY <2>1, SumJoin
<1>5. QED
  BY <1>1, <1>4, TotalIsSum DEF q

LEMMA TotalAppend ==
    ASSUME NEW ls \in Seq(LogLine), NEW l \in LogLine
    PROVE  Append(ls, l) \in Seq(LogLine) /\ Total(Append(ls, l)) = Total(ls) + l.count
<1> DEFINE q == <<l>>
<1>1. q \in Seq(LogLine) /\ Len(q) = 1 /\ q[1] = l
  OBVIOUS
<1>2. Append(ls, l) = ls \o q
  BY AppendIsConcat
<1> HIDE DEF q
<1>3. Total(q) = l.count
  <2>1. Counts(q)[1] = l.count /\ l.count \in Nat
    <3>1. 1 \in 1..Len(q)
      BY <1>1
    <3>2. QED
      BY <1>1, <3>1, LineCount
  <2>2. More(1, [k \in 1..1 |-> 0], Counts(q), 1, l.count)
    BY <2>1 DEF More
  <2>3. SumTo(1, [k \in 1..1 |-> 0]) = 0
    <3>1. 1 \in Nat /\ \A k \in 1..1 : [j \in 1..1 |-> 0][k] = 0
      OBVIOUS
    <3>2. QED
      BY <3>1, SumZero
  <2>4. SumTo(1, Counts(q)) = SumTo(1, [k \in 1..1 |-> 0]) + l.count
    BY <2>2, SumPoint
  <2>5. Total(q) = SumTo(1, Counts(q))
    BY <1>1, TotalIsSum
  <2>6. QED
    BY <2>1, <2>3, <2>4, <2>5
<1>4. QED
  BY <1>1, <1>2, <1>3, TotalJoin

\* More of a count is all that changes in the line.
LEMMA LineAdd ==
    ASSUME NEW l \in LogLine, NEW n \in Nat
    PROVE  LET m == [l EXCEPT !.count = @ + n]
           IN  /\ m \in LogLine
               /\ m.msg = l.msg /\ m.time = l.time /\ m.shown = l.shown
               /\ m.count = l.count + n
<1>1. /\ l.msg \in Messages /\ l.time \in Nat \union {NoTime}
      /\ l.shown \in Nat \union {NoTime} /\ l.count \in Nat
      /\ l = [msg |-> l.msg, time |-> l.time, shown |-> l.shown, count |-> l.count]
  BY DEF LogLine
<1>2. l.count + n \in Nat
  BY <1>1
<1>3. [l EXCEPT !.count = @ + n]
      = [msg |-> l.msg, time |-> l.time, shown |-> l.shown, count |-> l.count + n]
  BY <1>1
<1>4. QED
  BY <1>1, <1>2, <1>3 DEF LogLine

\* AddToLast touches nothing but the count of the last line.
LEMMA TotalAdd ==
    ASSUME NEW ls \in Seq(LogLine), ls # << >>, NEW n \in Nat
    PROVE  /\ AddToLast(ls, n) \in Seq(LogLine)
           /\ Len(AddToLast(ls, n)) = Len(ls)
           /\ \A i \in 1..Len(ls) : AddToLast(ls, n)[i].time = ls[i].time
           /\ Total(AddToLast(ls, n)) = Total(ls) + n
<1> DEFINE q == AddToLast(ls, n)
<1>1. Len(ls) \in Nat \ {0}
  BY EmptySeq, LineCount
<1>2. /\ q \in [1..Len(ls) -> LogLine]
      /\ \A i \in 1..Len(ls) :
            /\ q[i].time = ls[i].time
            /\ q[i].count = ls[i].count + (IF i = Len(ls) THEN n ELSE 0)
  <2>1. Len(ls) \in 1..Len(ls) /\ ls[Len(ls)] \in LogLine
    BY <1>1, LineCount
  <2>2. [ls[Len(ls)] EXCEPT !.count = @ + n] \in LogLine
    BY <2>1, LineAdd
  <2>3. q = [i \in 1..Len(ls) |-> IF i = Len(ls) THEN [ls[i] EXCEPT !.count = @ + n]
                                    ELSE ls[i]]
    BY <2>1, LineCount DEF AddToLast
  <2>4. q \in [1..Len(ls) -> LogLine]
    BY <2>2, <2>3, LineCount
  <2>5. ASSUME NEW i \in 1..Len(ls)
        PROVE  /\ q[i].time = ls[i].time
               /\ q[i].count = ls[i].count + (IF i = Len(ls) THEN n ELSE 0)
    <3>1. ls[i] \in LogLine /\ ls[i].count \in Nat
      BY LineCount
    <3>2. q[i] = IF i = Len(ls) THEN [ls[i] EXCEPT !.count = @ + n] ELSE ls[i]
      BY <2>3
    <3> HIDE DEF q
    <3>3. QED
      BY <3>1, <3>2, LineAdd
  <2>6. QED
    BY <2>4, <2>5
<1> HIDE DEF q
<1>3. q \in Seq(LogLine) /\ Len(q) = Len(ls)
  BY <1>1, <1>2, FunctionIsSeq
<1>4. More(Len(ls), Counts(ls), Counts(q), Len(ls), n)
  <2>1. Len(ls) \in 1..Len(ls)
    BY <1>1
  <2>2. \A k \in 1..Len(ls) : /\ Counts(ls)[k] = ls[k].count /\ ls[k].count \in Nat
                               /\ Counts(q)[k] = q[k].count
    BY <1>3, LineCount
  <2>3. QED
    BY <1>2, <2>1, <2>2 DEF More
<1>5. Total(q) = Total(ls) + n
  <2>1. SumTo(Len(ls), Counts(q)) = SumTo(Len(ls), Counts(ls)) + n
    BY <1>4, SumPoint
  <2>2. QED
    BY <1>3, <2>1, TotalIsSum
<1>6. QED
  BY <1>2, <1>3, <1>5 DEF q

------------------------------------------------------------------------------
(* The order of time.                                                      *)

\* Line l is not after line m: a line without a time is after every other.
NotAfter(l, m) == m.time = NoTime \/ (l.time # NoTime /\ l.time <= m.time)

TimeOrdered(ls) == \A i, j \in DOMAIN ls : i < j => NotAfter(ls[i], ls[j])

\* What is taken out of lines in order is in order.
LEMMA ChosenOrdered ==
    ASSUME NEW ls \in Seq(LogLine), NEW I \in SUBSET (1..Len(ls)), TimeOrdered(ls)
    PROVE  Chosen(ls, I) \in Seq(LogLine) /\ TimeOrdered(Chosen(ls, I))
<1> DEFINE q == Chosen(ls, I)
<1>1. q \in Seq(LogLine) /\ \E at : Leads(at, q, ls, I)
  BY ChosenLeads
<1>2. PICK at : Leads(at, q, ls, I)
  BY <1>1
<1> HIDE DEF q
<1>3. DOMAIN q = 1..Len(q) /\ DOMAIN ls = 1..Len(ls) /\ Len(ls) \in Nat
  BY <1>1, LineCount
<1>4. ASSUME NEW i \in DOMAIN q, NEW j \in DOMAIN q, i < j PROVE NotAfter(q[i], q[j])
  <2>1. at[i] \in 1..Len(ls) /\ at[j] \in 1..Len(ls) /\ at[i] < at[j]
    BY <1>2, <1>3, <1>4 DEF Leads
  <2>2. NotAfter(ls[at[i]], ls[at[j]])
    BY <1>3, <2>1 DEF TimeOrdered
  <2>3. QED
    BY <1>2, <1>3, <2>2 DEF Leads
<1>5. QED
  BY <1>1, <1>4 DEF TimeOrdered, q

\* Stage 1 leaves the lines in order of time, and each stands for itself.
LEMMA SortLeads ==
    ASSUME NEW ls \in Seq(LogLine)
    PROVE  /\ SortByTime(ls) \in Seq(LogLine) /\ Len(SortByTime(ls)) = Len(ls)
           /\ TimeOrdered(SortByTime(ls))
           /\ \E at : /\ at \in [1..Len(ls) -> 1..Len(ls)]
                      /\ \A i, j \in 1..Len(ls) : at[i] = at[j] => i = j
                      /\ \A i \in 1..Len(ls) : \E n \in 1..Len(ls) : at[n] = i
                      /\ \A n \in 1..Len(ls) : SortByTime(ls)[n] = ls[at[n]]
<1> DEFINE I == DOMAIN ls
           R == {r \in I \X I : \/ Earlier(ls[r[1]], ls[r[2]])
                                \/ ls[r[1]].time = ls[r[2]].time /\ r[1] < r[2]}
           o == InOrder(I, R)
           q == SortByTime(ls)
<1>1. /\ I = 1..Len(ls) /\ Len(ls) \in Nat /\ IsFiniteSet(I) /\ Cardinality(I) = Len(ls)
      /\ \A i \in I : ls[i] \in LogLine /\ ls[i].time \in Nat \union {NoTime}
  <2>1. /\ I = 1..Len(ls) /\ Len(ls) \in Nat
        /\ \A i \in I : ls[i] \in LogLine /\ ls[i].time \in Nat \union {NoTime}
    BY LineCount
  <2>2. IsFiniteSet(1..Len(ls)) /\ Cardinality(1..Len(ls)) = Len(ls)
    BY <2>1, FS_Interval
  <2> HIDE DEF I
  <2>3. QED
    BY <2>1, <2>2
<1>2. Strict(I, R)
  BY <1>1 DEF Strict, Earlier, NoTime
<1>3. q = [n \in 1..Cardinality(I) |-> ls[o[n]]]
  BY DEF SortByTime
<1> HIDE DEF q, o
<1>4. /\ o \in [1..Cardinality(I) -> I]
      /\ \A x \in I : \E n \in 1..Cardinality(I) : o[n] = x
      /\ \A i, j \in 1..Cardinality(I) : i < j => <<o[i], o[j]>> \in R
  BY <1>1, <1>2, InOrderSorts DEF o
<1>5. q \in [1..Len(ls) -> LogLine] /\ \A n \in 1..Len(ls) : q[n] = ls[o[n]]
  BY <1>1, <1>3, <1>4
<1>6. q \in Seq(LogLine) /\ Len(q) = Len(ls)
  BY <1>1, <1>5, FunctionIsSeq
<1>7. \A i, j \in 1..Len(ls) : o[i] = o[j] => i = j
  <2> SUFFICES ASSUME NEW i \in 1..Len(ls), NEW j \in 1..Len(ls), i < j PROVE o[i] # o[j]
    BY <1>1
  <2>1. <<o[i], o[j]>> \in R /\ o[i] \in I
    BY <1>1, <1>4
  <2>2. QED
    BY <1>1, <2>1 DEF Earlier
<1>8. TimeOrdered(q)
  <2> SUFFICES ASSUME NEW i \in 1..Len(ls), NEW j \in 1..Len(ls), i < j
               PROVE  NotAfter(q[i], q[j])
    BY <1>5 DEF TimeOrdered
  <2>1. <<o[i], o[j]>> \in R /\ o[i] \in I /\ o[j] \in I
    BY <1>1, <1>4
  <2>2. NotAfter(ls[o[i]], ls[o[j]])
    BY <1>1, <2>1 DEF Earlier, NotAfter, NoTime
  <2>3. QED
    BY <1>5, <2>2
<1>9. o \in [1..Len(ls) -> 1..Len(ls)] /\ \A x \in 1..Len(ls) : \E n \in 1..Len(ls) : o[n] = x
  BY <1>1, <1>4
<1> HIDE DEF I, R
<1>10. QED
  BY <1>5, <1>6, <1>7, <1>8, <1>9 DEF q

------------------------------------------------------------------------------
(* Merging of lines.                                                       *)

\* After n lines of ls, v stands for their events.
Merged(ls, v, n) == v \in Seq(LogLine) /\ Total(v) = SumTo(n, Counts(ls))

\* v is in order of time and so are the lines of ls that follow it.
Ahead(ls, v, n) ==
    /\ TimeOrdered(v)
    /\ \A k \in DOMAIN v : \A j \in (n + 1)..Len(ls) : NotAfter(v[k], ls[j])

\* The line n of ls is added to the last of v, or put behind it.
Taking(ls, v, n, w) ==
    \/ v # << >> /\ w = AddToLast(v, ls[n].count)
    \/ w = Append(v, ls[n])

LEMMA TakingMerges ==
    ASSUME NEW ls \in Seq(LogLine), NEW n \in 1..Len(ls), NEW v, NEW w,
           Merged(ls, v, n - 1), Taking(ls, v, n, w)
    PROVE  Merged(ls, w, n)
<1>1. ls[n] \in LogLine /\ ls[n].count \in Nat /\ Counts(ls)[n] = ls[n].count
  BY LineCount
<1>2. SumTo(n, Counts(ls)) = SumTo(n - 1, Counts(ls)) + ls[n].count
  <2>1. Len(ls) \in Nat /\ \A k \in 1..Len(ls) : Counts(ls)[k] \in Nat
    BY LineCount
  <2>2. \A k \in 1..Len(ls) : SumTo(k, Counts(ls)) = SumTo(k - 1, Counts(ls)) + Counts(ls)[k]
    BY <2>1, SumLaw
  <2>3. QED
    BY <1>1, <2>2
<1>3. v \in Seq(LogLine) /\ Total(v) = SumTo(n - 1, Counts(ls))
  BY DEF Merged
<1>4. CASE v # << >> /\ w = AddToLast(v, ls[n].count)
  BY <1>1, <1>2, <1>3, <1>4, TotalAdd DEF Merged
<1>5. CASE w = Append(v, ls[n])
  BY <1>1, <1>2, <1>3, <1>5, TotalAppend DEF Merged
<1>6. QED
  BY <1>4, <1>5 DEF Taking

LEMMA TakingKeepsOrder ==
    ASSUME NEW ls \in Seq(LogLine), TimeOrdered(ls), NEW n \in 1..Len(ls),
           NEW v \in Seq(LogLine), NEW w, Ahead(ls, v, n - 1), Taking(ls, v, n, w)
    PROVE  Ahead(ls, w, n)
<1>1. /\ DOMAIN v = 1..Len(v) /\ Len(v) \in Nat /\ DOMAIN ls = 1..Len(ls) /\ Len(ls) \in Nat
      /\ ls[n] \in LogLine /\ ls[n].count \in Nat
  BY LineCount
<1>2. /\ \A i, j \in 1..Len(v) : i < j => NotAfter(v[i], v[j])
      /\ \A k \in 1..Len(v) : \A j \in n..Len(ls) : NotAfter(v[k], ls[j])
  BY <1>1 DEF Ahead, TimeOrdered
<1>3. CASE v # << >> /\ w = AddToLast(v, ls[n].count)
  <2>1. /\ w \in Seq(LogLine) /\ Len(w) = Len(v)
        /\ \A i \in 1..Len(v) : w[i].time = v[i].time
    BY <1>1, <1>3, TotalAdd
  <2>2. DOMAIN w = 1..Len(v)
    BY <2>1, LineCount
  <2>3. QED
    BY <1>1, <1>2, <2>1, <2>2 DEF Ahead, TimeOrdered, NotAfter
<1>4. CASE w = Append(v, ls[n])
  <2>1. /\ w \in Seq(LogLine) /\ Len(w) = Len(v) + 1
        /\ \A i \in 1..Len(v) : w[i] = v[i]
        /\ w[Len(v) + 1] = ls[n]
    BY <1>1, <1>4, AppendProperties
  <2>2. DOMAIN w = 1..(Len(v) + 1)
    BY <2>1, LineCount
  <2>3. \A j \in (n + 1)..Len(ls) : NotAfter(ls[n], ls[j])
    BY <1>1 DEF TimeOrdered
  <2>4. ASSUME NEW i \in DOMAIN w, NEW j \in DOMAIN w, i < j PROVE NotAfter(w[i], w[j])
    <3>1. i \in 1..Len(v) /\ (j \in 1..Len(v) \/ j = Len(v) + 1)
      BY <1>1, <2>2, <2>4
    <3>2. n \in n..Len(ls)
      BY <1>1
    <3>3. QED
      BY <1>2, <2>1, <2>4, <3>1, <3>2
  <2>5. ASSUME NEW k \in DOMAIN w, NEW j \in (n + 1)..Len(ls) PROVE NotAfter(w[k], ls[j])
    <3>1. (k \in 1..Len(v) \/ k = Len(v) + 1) /\ j \in n..Len(ls)
      BY <1>1, <2>2
    <3>2. QED
      BY <1>2, <2>1, <2>3, <3>1
  <2>6. QED
    BY <2>4, <2>5 DEF Ahead, TimeOrdered
<1>5. QED
  BY <1>3, <1>4 DEF Taking

CombineStep(ls, v, n) == Combine(v, ls[n])
Combines == INSTANCE Loops WITH Step <- CombineStep, Good <- Merged

\* Equal messages in a row become one that stands for all of them.
LEMMA CombineKeeps ==
    ASSUME NEW ls \in Seq(LogLine)
    PROVE  CollapseConsecutive(ls) \in Seq(LogLine) /\ Total(CollapseConsecutive(ls)) = Total(ls)
<1>1. Len(ls) \in Nat
  BY LineCount
<1>2. Combines!Defined(ls, << >>, Len(ls))
  BY <1>1, Combines!LoopDefined
<1>3. PICK f : /\ f = [n \in 0..Len(ls) |-> IF n = 0 THEN << >> ELSE Combine(f[n - 1], ls[n])]
               /\ CollapseConsecutive(ls) = f[Len(ls)]
  BY <1>2 DEF Combines!Defined, CollapseConsecutive, CombineStep
<1>4. Combines!Run(ls, << >>, Len(ls), f)
  BY <1>1, <1>3 DEF Combines!Run, CombineStep
<1>5. Merged(ls, << >>, 0)
  BY TotalEmpty, SumStart DEF Merged
<1>6. Combines!Kept(ls, Len(ls))
  <2> SUFFICES ASSUME NEW n \in 1..Len(ls), NEW v, Merged(ls, v, n - 1)
               PROVE  Merged(ls, CombineStep(ls, v, n), n)
    BY DEF Combines!Kept
  <2>1. Taking(ls, v, n, CombineStep(ls, v, n))
    BY DEF Taking, CombineStep, Combine
  <2>2. QED
    BY <2>1, TakingMerges
<1>7. Len(ls) \in 0..Len(ls) /\ \A n \in 0..Len(ls) : Merged(ls, f[n], n)
  BY <1>1, <1>4, <1>5, <1>6, Combines!LoopInvariant
<1>8. QED
  BY <1>3, <1>7, TotalIsSum DEF Merged

DedupStep(g, v, n) == Dedup(g.regex, v, g.lines[n])
DedupGood(g, v, n) == Merged(g.lines, v, n) /\ (TimeOrdered(g.lines) => Ahead(g.lines, v, n))
Dedups == INSTANCE Loops WITH Step <- DedupStep, Good <- DedupGood

\* A master rule loses no event and keeps the order of time.
LEMMA DedupKeeps ==
    ASSUME NEW ls \in Seq(LogLine), NEW regex
    PROVE  /\ DedupConsecutive(ls, regex) \in Seq(LogLine)
           /\ Total(DedupConsecutive(ls, regex)) = Total(ls)
           /\ TimeOrdered(ls) => TimeOrdered(DedupConsecutive(ls, regex))
<1> DEFINE g == [lines |-> ls, regex |-> regex]
<1>1. Len(ls) \in Nat /\ g.lines = ls /\ g.regex = regex
  BY LineCount
<1> HIDE DEF g
<1>2. Dedups!Defined(g, << >>, Len(ls))
  BY <1>1, Dedups!LoopDefined
<1>3. PICK f : /\ f = [n \in 0..Len(ls) |->
                         IF n = 0 THEN << >> ELSE Dedup(regex, f[n - 1], ls[n])]
               /\ DedupConsecutive(ls, regex) = f[Len(ls)]
  BY <1>1, <1>2 DEF Dedups!Defined, DedupConsecutive, DedupStep
<1>4. Dedups!Run(g, << >>, Len(ls), f)
  BY <1>1, <1>3 DEF Dedups!Run, DedupStep
<1>5. DedupGood(g, << >>, 0)
  <2>1. Merged(ls, << >>, 0)
    BY TotalEmpty, SumStart DEF Merged
  <2>2. Ahead(ls, << >>, 0)
    BY DEF Ahead, TimeOrdered
  <2>3. QED
    BY <1>1, <2>1, <2>2 DEF DedupGood
<1>6. Dedups!Kept(g, Len(ls))
  <2> SUFFICES ASSUME NEW n \in 1..Len(ls), NEW v, DedupGood(g, v, n - 1)
               PROVE  DedupGood(g, DedupStep(g, v, n), n)
    BY DEF Dedups!Kept
  <2>1. Taking(ls, v, n, DedupStep(g, v, n))
    BY <1>1 DEF Taking, DedupStep, Dedup
  <2>2. Merged(ls, v, n - 1) /\ v \in Seq(LogLine)
    BY <1>1 DEF DedupGood, Merged
  <2>3. Merged(ls, DedupStep(g, v, n), n)
    BY <2>1, <2>2, TakingMerges
  <2>4. ASSUME TimeOrdered(ls) PROVE Ahead(ls, DedupStep(g, v, n), n)
    <3>1. Ahead(ls, v, n - 1)
      BY <1>1, <2>4 DEF DedupGood
    <3>2. QED
      BY <2>1, <2>2, <2>4, <3>1, TakingKeepsOrder
  <2>5. QED
    BY <1>1, <2>3, <2>4 DEF DedupGood
<1>7. Len(ls) \in 0..Len(ls) /\ \A n \in 0..Len(ls) : DedupGood(g, f[n], n)
  BY <1>1, <1>4, <1>5, <1>6, Dedups!LoopInvariant
<1>8. DedupGood(g, f[Len(ls)], Len(ls))
  BY <1>7
<1>9. QED
  BY <1>1, <1>3, <1>8, TotalIsSum DEF DedupGood, Merged, Ahead

RulesStep(g, v, n) == DedupConsecutive(v, g.rules[n])
RulesGood(g, v, n) ==
    /\ v \in Seq(LogLine) /\ Total(v) = Total(g.lines)
    /\ TimeOrdered(g.lines) => TimeOrdered(v)
Rules == INSTANCE Loops WITH Step <- RulesStep, Good <- RulesGood

\* Nor do all the master rules, one after another.
LEMMA RulesKeep ==
    ASSUME NEW ls \in Seq(LogLine), NEW rules, Len(rules) \in Nat
    PROVE  /\ ApplyRules(ls, rules) \in Seq(LogLine)
           /\ Total(ApplyRules(ls, rules)) = Total(ls)
           /\ TimeOrdered(ls) => TimeOrdered(ApplyRules(ls, rules))
<1> DEFINE g == [lines |-> ls, rules |-> rules]
<1>1. g.lines = ls /\ g.rules = rules
  OBVIOUS
<1> HIDE DEF g
<1>2. Rules!Defined(g, ls, Len(rules))
  BY Rules!LoopDefined
<1>3. PICK f : /\ f = [n \in 0..Len(rules) |->
                         IF n = 0 THEN ls ELSE DedupConsecutive(f[n - 1], rules[n])]
               /\ ApplyRules(ls, rules) = f[Len(rules)]
  BY <1>1, <1>2 DEF Rules!Defined, ApplyRules, RulesStep
<1>4. Rules!Run(g, ls, Len(rules), f)
  BY <1>1, <1>3 DEF Rules!Run, RulesStep
<1>5. RulesGood(g, ls, 0)
  BY <1>1 DEF RulesGood
<1>6. Rules!Kept(g, Len(rules))
  BY DedupKeeps DEF Rules!Kept, RulesStep, RulesGood
<1>7. Len(rules) \in 0..Len(rules) /\ \A n \in 0..Len(rules) : RulesGood(g, f[n], n)
  BY <1>4, <1>5, <1>6, Rules!LoopInvariant
<1>8. RulesGood(g, f[Len(rules)], Len(rules))
  BY <1>7
<1>9. QED
  BY <1>1, <1>3, <1>8 DEF RulesGood

------------------------------------------------------------------------------
(* Markers, and what a parsed file tells of.                               *)

\* What each line of a parsed file stands for.
Standing(ls) ==
    [i \in DOMAIN ls |-> IF i > 1 /\ Repeats[ls[i].msg] > 0 THEN Repeats[ls[i].msg] ELSE 1]

\* A parsed file has well typed lines, each counted once.
LEMMA ParseGives ==
    ASSUME NEW file \in Seq(RawLine), NEW parsers
    PROVE  /\ Parse(file, parsers) \in Seq(LogLine)
           /\ \A i \in 1..Len(Parse(file, parsers)) : Parse(file, parsers)[i].count = 1
<1> DEFINE I == {i \in DOMAIN file : parsers = {} \/ file[i].format \in parsers}
           known == Chosen(file, I)
           q == Parse(file, parsers)
<1>1. known \in Seq(RawLine)
  <2>1. DOMAIN file = 1..Len(file) /\ I \in SUBSET (1..Len(file))
    BY LenProperties
  <2> HIDE DEF I
  <2>2. QED
    BY <2>1, ChosenLeads
<1>2. q = [i \in DOMAIN known |->
            [msg   |-> known[i].msg,
             time  |-> IF parsers = {} THEN NoTime ELSE known[i].time,
             shown |-> IF parsers = {} THEN known[i].time ELSE NoTime,
             count |-> 1]]
  BY DEF Parse
<1> HIDE DEF known, q
<1>3. DOMAIN known = 1..Len(known) /\ Len(known) \in Nat /\ \A i \in 1..Len(known) : known[i] \in RawLine
  BY <1>1, LenProperties, ElementOfSeq
<1>4. \A i \in 1..Len(known) : q[i] \in LogLine /\ q[i].count = 1
  BY <1>2, <1>3 DEF RawLine, LogLine
<1>5. q \in [1..Len(known) -> LogLine]
  BY <1>2, <1>3, <1>4
<1>6. q \in Seq(LogLine) /\ Len(q) = Len(known)
  BY <1>3, <1>5, FunctionIsSeq
<1>7. QED
  BY <1>4, <1>6 DEF q

AbsorbStep(ls, v, n) == Absorb(v, ls[n])
AbsorbGood(ls, v, n) ==
    v \in Seq(LogLine) /\ (v = << >> <=> n = 0) /\ Total(v) = SumTo(n, Standing(ls))
Absorbs == INSTANCE Loops WITH Step <- AbsorbStep, Good <- AbsorbGood

\* Markers go, and the events they stand for are with the lines before them.
LEMMA AbsorbKeeps ==
    ASSUME NEW ls \in Seq(LogLine), \A i \in 1..Len(ls) : ls[i].count = 1
    PROVE  /\ AbsorbMarkers(ls) \in Seq(LogLine)
           /\ Total(AbsorbMarkers(ls)) = SumTo(Len(ls), Standing(ls))
<1>1. Len(ls) \in Nat
  BY LineCount
<1>2. Absorbs!Defined(ls, << >>, Len(ls))
  BY <1>1, Absorbs!LoopDefined
<1>3. PICK f : /\ f = [n \in 0..Len(ls) |-> IF n = 0 THEN << >> ELSE Absorb(f[n - 1], ls[n])]
               /\ AbsorbMarkers(ls) = f[Len(ls)]
  BY <1>2 DEF Absorbs!Defined, AbsorbMarkers, AbsorbStep
<1>4. Absorbs!Run(ls, << >>, Len(ls), f)
  BY <1>1, <1>3 DEF Absorbs!Run, AbsorbStep
<1>5. AbsorbGood(ls, << >>, 0)
  BY TotalEmpty, SumStart DEF AbsorbGood
<1>6. Absorbs!Kept(ls, Len(ls))
  <2> SUFFICES ASSUME NEW n \in 1..Len(ls), NEW v, AbsorbGood(ls, v, n - 1)
               PROVE  AbsorbGood(ls, Absorb(v, ls[n]), n)
    BY DEF Absorbs!Kept, AbsorbStep
  <2>1. /\ ls[n] \in LogLine /\ ls[n].count = 1 /\ Repeats[ls[n].msg] \in Nat
        /\ Standing(ls)[n] = IF n > 1 /\ Repeats[ls[n].msg] > 0 THEN Repeats[ls[n].msg] ELSE 1
    BY RefinerAssumption, LineCount DEF LogLine, Standing
  <2>2. SumTo(n, Standing(ls)) = SumTo(n - 1, Standing(ls)) + Standing(ls)[n]
    <3>1. \A k \in 1..Len(ls) : Standing(ls)[k] \in Nat
      BY RefinerAssumption, LineCount DEF LogLine, Standing
    <3>2. \A k \in 1..Len(ls) :
            SumTo(k, Standing(ls)) = SumTo(k - 1, Standing(ls)) + Standing(ls)[k]
      BY <1>1, <3>1, SumLaw
    <3>3. QED
      BY <3>2
  <2>3. /\ v \in Seq(LogLine) /\ (v = << >> <=> n = 1)
        /\ Total(v) = SumTo(n - 1, Standing(ls))
    BY <1>1 DEF AbsorbGood
  <2>4. CASE Repeats[ls[n].msg] > 0 /\ v # << >>
    <3>1. /\ AddToLast(v, Repeats[ls[n].msg]) \in Seq(LogLine)
          /\ Len(AddToLast(v, Repeats[ls[n].msg])) = Len(v)
          /\ Total(AddToLast(v, Repeats[ls[n].msg])) = Total(v) + Repeats[ls[n].msg]
      BY <2>1, <2>3, <2>4, TotalAdd
    <3>2. AddToLast(v, Repeats[ls[n].msg]) # << >>
      <4>1. Len(v) # 0 /\ Len(<< >>) = 0
        BY <2>3, <2>4, EmptySeq
      <4>2. QED
        BY <3>1, <4>1
    <3>3. Absorb(v, ls[n]) = AddToLast(v, Repeats[ls[n].msg])
      BY <2>4 DEF Absorb
    <3>4. Standing(ls)[n] = Repeats[ls[n].msg]
      BY <1>1, <2>1, <2>3, <2>4
    <3>5. QED
      BY <1>1, <2>2, <2>3, <3>1, <3>2, <3>3, <3>4 DEF AbsorbGood
  <2>5. CASE ~(Repeats[ls[n].msg] > 0 /\ v # << >>)
    <3>1. Append(v, ls[n]) \in Seq(LogLine) /\ Total(Append(v, ls[n])) = Total(v) + 1
      BY <2>1, <2>3, TotalAppend
    <3>2. Append(v, ls[n]) # << >>
      BY <2>1, <2>3, AppendProperties
    <3>3. Absorb(v, ls[n]) = Append(v, ls[n])
      BY <2>5 DEF Absorb
    <3>4. Standing(ls)[n] = 1
      BY <1>1, <2>1, <2>3, <2>5
    <3>5. QED
      BY <1>1, <2>2, <2>3, <3>1, <3>2, <3>3, <3>4 DEF AbsorbGood
  <2>6. QED
    BY <2>4, <2>5
<1>7. Len(ls) \in 0..Len(ls) /\ \A n \in 0..Len(ls) : AbsorbGood(ls, f[n], n)
  BY <1>1, <1>4, <1>5, <1>6, Absorbs!LoopInvariant
<1>8. QED
  BY <1>3, <1>7 DEF AbsorbGood

------------------------------------------------------------------------------
(* Bursts.                                                                 *)

\* Lines that share out the lines of ls stand for as many events.
LEMMA Regroup ==
    ASSUME NEW ls \in Seq(LogLine), NEW q \in Seq(LogLine),
           NEW owner \in [1..Len(ls) -> 1..Len(q)],
           \A n \in 1..Len(q) : q[n].count = CountOf(ls, {j \in 1..Len(ls) : owner[j] = n})
    PROVE  Total(q) = Total(ls)
<1> DEFINE f == Counts(ls)
           part(k) == [i \in 1..Len(ls) |-> IF owner[i] = k THEN f[i] ELSE 0]
           parts == [k \in 1..Len(q) |-> SumTo(Len(ls), part(k))]
<1>1. /\ Len(ls) \in Nat /\ Len(q) \in Nat
      /\ \A i \in 1..Len(ls) : f[i] \in Nat /\ f[i] = ls[i].count
      /\ \A n \in 1..Len(q) : Counts(q)[n] = q[n].count /\ q[n].count \in Nat
  BY LineCount
<1>2. SumTo(Len(q), parts) = SumTo(Len(ls), f)
  <2> HIDE DEF f
  <2>1. QED
    BY <1>1, SumParts
<1>3. ASSUME NEW n \in 1..Len(q)
      PROVE  parts[n] = q[n].count
  <2> DEFINE I == {j \in 1..Len(ls) : owner[j] = n}
             g == [i \in 1..Len(ls) |-> IF i \in I THEN ls[i].count ELSE 0]
  <2>1. CountOf(ls, I) = SumTo(Len(ls), g)
    BY CountIsSum
  <2>2. \A k \in 1..Len(ls) : part(n)[k] \in Nat /\ g[k] = part(n)[k]
    BY <1>1
  <2>3. parts[n] = SumTo(Len(ls), part(n))
    OBVIOUS
  <2>4. q[n].count = CountOf(ls, I)
    OBVIOUS
  <2> HIDE DEF part, g, I, parts
  <2>5. SumTo(Len(ls), g) = SumTo(Len(ls), part(n))
    BY <1>1, <2>2, SumSame
  <2>6. QED
    BY <2>1, <2>3, <2>4, <2>5
<1>4. SumTo(Len(q), parts) = SumTo(Len(q), Counts(q))
  <2> HIDE DEF parts
  <2>1. QED
    BY <1>1, <1>3, SumSame
<1>5. QED
  BY <1>2, <1>4, TotalIsSum

LEMMA CountOfOne ==
    ASSUME NEW ls \in Seq(LogLine), NEW i \in 1..Len(ls)
    PROVE  CountOf(ls, {i}) = ls[i].count
<1> DEFINE g == [k \in 1..Len(ls) |-> IF k \in {i} THEN ls[k].count ELSE 0]
           z == [k \in 1..Len(ls) |-> 0]
<1>1. Len(ls) \in Nat /\ ls[i].count \in Nat
  BY LineCount
<1>2. CountOf(ls, {i}) = SumTo(Len(ls), g)
  BY CountIsSum
<1>3. More(Len(ls), z, g, i, ls[i].count)
  BY <1>1 DEF More
<1>4. \A k \in 1..Len(ls) : z[k] = 0
  OBVIOUS
<1> HIDE DEF g, z
<1>5. SumTo(Len(ls), z) = 0
  BY <1>1, <1>4, SumZero
<1>6. QED
  BY <1>1, <1>2, <1>3, <1>5, SumPoint

\* A burst is of lines from its first on; two that share a line are not both
\* the first of one.
LEMMA BurstsNest ==
    ASSUME NEW ls \in Seq(LogLine), NEW window, NEW i \in 1..Len(ls)
    PROVE  /\ i \in Burst(ls, i, window) /\ Burst(ls, i, window) \subseteq 1..Len(ls)
           /\ \A j \in Burst(ls, i, window) : i <= j
           /\ \A m \in 1..Len(ls) : \A j \in Burst(ls, i, window) :
                (i < m /\ ls[m].time # NoTime /\ j \in Burst(ls, m, window))
                => m \in Burst(ls, i, window)
<1>1. Len(ls) \in Nat
  BY LineCount
<1>2. i \in Burst(ls, i, window) /\ Burst(ls, i, window) \subseteq 1..Len(ls)
  BY <1>1 DEF Burst
<1>3. \A j \in Burst(ls, i, window) : i <= j
  BY <1>1 DEF Burst
<1>4. ASSUME NEW m \in 1..Len(ls), NEW j \in Burst(ls, i, window), i < m,
             ls[m].time # NoTime, j \in Burst(ls, m, window)
      PROVE  m \in Burst(ls, i, window)
  <2>1. CASE j = m
    BY <2>1, <1>4
  <2>2. CASE j # m
    <3>1. j > m /\ j \in 1..Len(ls) /\ FingerprintOf(ls[j]) = FingerprintOf(ls[m])
      BY <1>1, <2>2, <1>4 DEF Burst
    <3>2. /\ FingerprintOf(ls[j]) = FingerprintOf(ls[i])
          /\ \A k \in (i + 1)..j :
                ~(ls[k].time # NoTime /\ ls[k].time - ls[i].time > window)
      BY <1>1, <1>4, <3>1 DEF Burst
    <3>3. m \in (i + 1)..Len(ls) /\ \A k \in (i + 1)..m : k \in (i + 1)..j
      BY <1>1, <1>4, <3>1
    <3>4. QED
      BY <1>4, <3>1, <3>2, <3>3 DEF Burst
  <2>3. QED
    BY <2>1, <2>2
<1>5. QED
  BY <1>2, <1>3, <1>4

Bursts(g, i) == Burst(g.lines, i, g.window)
Starts(g, i) == Bursting(g.lines, i, g.window, g.threshold)

SkipStep(g, v, i) ==
    IF i \notin v /\ Bursting(g.lines, i, g.window, g.threshold)
    THEN v \union (Burst(g.lines, i, g.window) \ {i})
    ELSE v

\* The indices skipped after i lines are those of the bursts that start at
\* lines that are not skipped, up to i.
SkipGood(g, v, i) ==
    /\ v \subseteq 1..Len(g.lines)
    /\ \A j \in v : \E s \in 1..i : s < j /\ s \notin v /\ Starts(g, s) /\ j \in Bursts(g, s)
    /\ \A s \in 1..i : (s \notin v /\ Starts(g, s)) => Bursts(g, s) \ {s} \subseteq v
Skips == INSTANCE Loops WITH Step <- SkipStep, Good <- SkipGood

LEMMA SkipLaw ==
    ASSUME NEW g, g.lines \in Seq(LogLine)
    PROVE  SkipGood(g, Skip(g.lines, g.window, g.threshold), Len(g.lines))
<1> DEFINE N == Len(g.lines)
<1>1. N \in Nat
  BY LineCount
<1>2. Skips!Defined(g, {}, N)
  BY <1>1, Skips!LoopDefined
<1>3. PICK f : /\ f = [i \in 0..N |-> IF i = 0 THEN {} ELSE SkipStep(g, f[i - 1], i)]
               /\ Skip(g.lines, g.window, g.threshold) = f[N]
  BY <1>2 DEF Skips!Defined, Skip, SkipStep
<1>4. Skips!Run(g, {}, N, f)
  <2>1. f[0] = {}
    BY <1>1, <1>3
  <2>2. ASSUME NEW i \in 1..N PROVE f[i] = SkipStep(g, f[i - 1], i)
    <3>1. i \in 0..N /\ i # 0
      BY <1>1
    <3>2. QED
      BY <1>3, <3>1
  <2>3. QED
    BY <2>1, <2>2 DEF Skips!Run
<1>5. SkipGood(g, {}, 0)
  BY DEF SkipGood
<1>6. Skips!Kept(g, N)
  <2> SUFFICES ASSUME NEW i \in 1..N, NEW v, SkipGood(g, v, i - 1)
               PROVE  SkipGood(g, SkipStep(g, v, i), i)
    BY DEF Skips!Kept
  <2> DEFINE w == SkipStep(g, v, i)
  <2>1. /\ i \in Bursts(g, i) /\ Bursts(g, i) \subseteq 1..N
        /\ \A j \in Bursts(g, i) : i <= j
    BY BurstsNest DEF Bursts
  <2>2. CASE i \notin v /\ Starts(g, i)
    <3>1. w = v \union (Bursts(g, i) \ {i})
      BY <2>2 DEF SkipStep, Bursts, Starts
    <3> HIDE DEF w
    <3>2. \A s \in 1..i : s \in w <=> s \in v
      BY <1>1, <2>1, <2>2, <3>1
    <3>3. w \subseteq 1..N
      BY <2>1, <3>1 DEF SkipGood
    <3>4. ASSUME NEW j \in w
          PROVE  \E s \in 1..i : s < j /\ s \notin w /\ Starts(g, s) /\ j \in Bursts(g, s)
      <4>1. CASE j \in v
        <5>1. PICK s \in 1..(i - 1) : /\ s < j /\ s \notin v /\ Starts(g, s)
                                      /\ j \in Bursts(g, s)
          BY <4>1 DEF SkipGood
        <5>2. s \in 1..i
          BY <1>1
        <5>3. QED
          BY <3>2, <5>1, <5>2
      <4>2. CASE j \in Bursts(g, i) \ {i}
        <5>1. i \in 1..i /\ i < j
          BY <1>1, <2>1, <4>2
        <5>2. QED
          BY <2>2, <3>2, <4>2, <5>1
      <4>3. QED
        BY <3>1, <4>1, <4>2
    <3>5. ASSUME NEW s \in 1..i, s \notin w, Starts(g, s) PROVE Bursts(g, s) \ {s} \subseteq w
      <4>1. s \in 1..(i - 1) \/ s = i
        BY <1>1
      <4>2. QED
        BY <3>1, <3>2, <3>5, <4>1 DEF SkipGood
    <3>6. QED
      BY <3>3, <3>4, <3>5 DEF SkipGood, w
  <2>3. CASE ~(i \notin v /\ Starts(g, i))
    <3>1. w = v
      BY <2>3 DEF SkipStep, Starts
    <3>2. \A s \in 1..i : s \in 1..(i - 1) \/ s = i
      BY <1>1
    <3>3. \A s \in 1..(i - 1) : s \in 1..i
      BY <1>1
    <3> HIDE DEF w
    <3>4. SkipGood(g, w, i)
      BY <2>3, <3>1, <3>2, <3>3 DEF SkipGood
    <3>5. QED
      BY <3>4 DEF w
  <2>4. QED
    BY <2>2, <2>3
<1>7. N \in 0..N /\ \A i \in 0..N : SkipGood(g, f[i], i)
  <2> HIDE DEF N
  <2>1. QED
    BY <1>1, <1>4, <1>5, <1>6, Skips!LoopInvariant
<1>8. QED
  BY <1>3, <1>7

\* own gives each line a line outside S: those of a burst its first.
Shares(g, S, own) ==
    /\ own \in [1..Len(g.lines) -> 1..Len(g.lines) \ S]
    /\ \A i \in 1..Len(g.lines) \ S :
          {j \in 1..Len(g.lines) : own[j] = i}
          = IF Starts(g, i) THEN Bursts(g, i) ELSE {i}

\* Each line is in the burst of one line that is not skipped, or is such a line.
LEMMA BurstsPart ==
    ASSUME NEW g, g.lines \in Seq(LogLine), NEW S,
           SkipGood(g, S, Len(g.lines))
    PROVE  \E own : Shares(g, S, own)
<1> DEFINE N == Len(g.lines)
           First(s, j) == s \in 1..N /\ s \notin S /\ Starts(g, s) /\ j \in Bursts(g, s)
           own == [j \in 1..N |-> IF j \notin S THEN j ELSE CHOOSE s : First(s, j)]
<1>1. N \in Nat
  BY LineCount
<1>2. ASSUME NEW j \in S PROVE \E s : First(s, j)
  BY <1>2 DEF SkipGood
<1>3. ASSUME NEW i \in 1..N PROVE i \in Bursts(g, i) /\ Bursts(g, i) \subseteq 1..N
  BY <1>3, BurstsNest DEF Bursts
<1>4. ASSUME NEW s, NEW t, NEW j, First(s, j), First(t, j) PROVE ~(s < t)
  <2> SUFFICES ASSUME s < t PROVE FALSE
    OBVIOUS
  <2>1. g.lines[t].time # NoTime
    BY <1>4 DEF Starts, Bursting
  <2>2. t \in Bursts(g, s)
    BY <1>4, <2>1, BurstsNest DEF Bursts
  <2>3. t \in Bursts(g, s) \ {s}
    BY <1>1, <1>4, <2>2
  <2>4. Bursts(g, s) \ {s} \subseteq S
    BY <1>4 DEF SkipGood
  <2>5. QED
    BY <1>4, <2>3, <2>4
<1>5. ASSUME NEW s, NEW t, NEW j, First(s, j), First(t, j) PROVE s = t
  <2>1. s \in 1..N /\ t \in 1..N /\ ~(s < t) /\ ~(t < s)
    BY <1>4, <1>5
  <2>2. QED
    BY <1>1, <2>1
<1>6. \A j \in 1..N : own[j] = IF j \notin S THEN j ELSE CHOOSE s : First(s, j)
  OBVIOUS
<1>7. \A j \in 1..N : j \in S => First(own[j], j)
  <2> SUFFICES ASSUME NEW j \in 1..N, j \in S PROVE First(own[j], j)
    OBVIOUS
  <2> HIDE DEF First, own
  <2>1. First(CHOOSE s : First(s, j), j)
    BY <1>2
  <2>2. QED
    BY <1>6, <2>1
<1>8. own \in [1..N -> 1..N \ S]
  <2>1. \A j \in 1..N : own[j] \in 1..N \ S
    <3> HIDE DEF own
    <3>1. QED
      BY <1>6, <1>7
  <2>2. QED
    BY <2>1
<1> HIDE DEF own
<1>9. ASSUME NEW i \in 1..N \ S
      PROVE  {j \in 1..N : own[j] = i} = IF Starts(g, i) THEN Bursts(g, i) ELSE {i}
  <2>1. ASSUME NEW j \in 1..N, own[j] = i
        PROVE  j \in IF Starts(g, i) THEN Bursts(g, i) ELSE {i}
    <3>1. CASE j \notin S
      BY <1>3, <1>6, <2>1, <3>1
    <3>2. CASE j \in S
      BY <1>7, <2>1, <3>2
    <3>3. QED
      BY <3>1, <3>2
  <2>2. ASSUME NEW j \in 1..N, j \in IF Starts(g, i) THEN Bursts(g, i) ELSE {i}
        PROVE  own[j] = i
    <3>1. CASE j = i
      BY <1>6, <3>1
    <3>2. CASE j # i
      <4>1. Starts(g, i) /\ j \in Bursts(g, i) \ {i}
        BY <2>2, <3>2
      <4>2. j \in S
        BY <4>1 DEF SkipGood
      <4>3. First(i, j) /\ First(own[j], j)
        BY <1>7, <4>1, <4>2
      <4> HIDE DEF First
      <4>4. QED
        BY <1>5, <4>3
    <3>3. QED
      BY <3>1, <3>2
  <2>3. (IF Starts(g, i) THEN Bursts(g, i) ELSE {i}) \subseteq 1..N
    BY <1>3
  <2>4. QED
    BY <2>1, <2>2, <2>3
<1>10. Shares(g, S, own)
  BY <1>8, <1>9 DEF Shares
<1>11. QED
  BY <1>10

\* A burst leaves one line, and that stands for all of it.
LEMMA BurstsKeep ==
    ASSUME NEW ls \in Seq(LogLine), NEW window, NEW threshold
    PROVE  /\ CollapseBursts(ls, window, threshold) \in Seq(LogLine)
           /\ Total(CollapseBursts(ls, window, threshold)) = Total(ls)
<1> DEFINE N == Len(ls)
           g == [lines |-> ls, window |-> window, threshold |-> threshold]
           S == Skip(ls, window, threshold)
           I == 1..N \ S
           c == [i \in DOMAIN ls |->
                    IF Bursting(ls, i, window, threshold)
                    THEN [ls[i] EXCEPT !.count = CountOf(ls, Burst(ls, i, window))]
                    ELSE ls[i]]
           q == Chosen(c, I)
<1>1. SUFFICES ASSUME ~(threshold <= 0) PROVE q \in Seq(LogLine) /\ Total(q) = Total(ls)
  <2>1. DOMAIN ls = 1..N
    BY LineCount
  <2>2. QED
    BY <2>1 DEF CollapseBursts
<1>2. /\ N \in Nat /\ DOMAIN ls = 1..N
      /\ g.lines = ls /\ g.window = window /\ g.threshold = threshold
  BY LineCount
<1> HIDE DEF g
<1>3. SkipGood(g, S, N)
  BY <1>2, SkipLaw
<1> HIDE DEF S
<1>4. PICK own \in [1..N -> I] : \A i \in I :
        {j \in 1..N : own[j] = i}
        = IF Bursting(ls, i, window, threshold) THEN Burst(ls, i, window) ELSE {i}
  <2>1. g.lines \in Seq(LogLine) /\ SkipGood(g, S, Len(g.lines))
    BY <1>2, <1>3
  <2>2. PICK own : Shares(g, S, own)
    BY <2>1, BurstsPart
  <2>3. \A i \in I : {j \in 1..N : own[j] = i} = IF Starts(g, i) THEN Bursts(g, i) ELSE {i}
    BY <1>2, <2>2 DEF Shares
  <2>4. own \in [1..N -> I]
    BY <1>2, <2>2 DEF Shares
  <2>5. \A i : /\ Starts(g, i) <=> Bursting(ls, i, window, threshold)
               /\ Bursts(g, i) = Burst(ls, i, window)
    BY <1>2 DEF Starts, Bursts
  <2> HIDE DEF I, N
  <2>6. QED
    BY <2>3, <2>4, <2>5
<1>5. \A i \in 1..N : /\ c[i] \in LogLine
                      /\ c[i].count = IF Bursting(ls, i, window, threshold)
                                      THEN CountOf(ls, Burst(ls, i, window)) ELSE ls[i].count
  <2> SUFFICES ASSUME NEW i \in 1..N
               PROVE  /\ c[i] \in LogLine
                      /\ c[i].count = IF Bursting(ls, i, window, threshold)
                                      THEN CountOf(ls, Burst(ls, i, window)) ELSE ls[i].count
    OBVIOUS
  <2> DEFINE k == CountOf(ls, Burst(ls, i, window))
  <2>1. k \in Nat
    BY CountIsSum
  <2>2. c[i] = IF Bursting(ls, i, window, threshold) THEN [ls[i] EXCEPT !.count = k] ELSE ls[i]
    BY <1>2
  <2>3. ls[i] \in LogLine
    BY LineCount
  <2> HIDE DEF c, k
  <2>4. [ls[i] EXCEPT !.count = k] \in LogLine /\ [ls[i] EXCEPT !.count = k].count = k
    BY <2>1, <2>3 DEF LogLine
  <2>5. QED
    BY <2>2, <2>3, <2>4 DEF k
<1>6. c \in Seq(LogLine) /\ Len(c) = N
  <2>1. c \in [1..N -> LogLine]
    <3>1. c = [i \in 1..N |-> c[i]]
      BY <1>2
    <3> HIDE DEF c
    <3>2. QED
      BY <1>5, <3>1
  <2> HIDE DEF c
  <2>2. QED
    BY <1>2, <2>1, FunctionIsSeq
<1> HIDE DEF c
<1>7. I \in SUBSET (1..Len(c))
  BY <1>6
<1>8. q \in Seq(LogLine) /\ \E at : Leads(at, q, c, I)
  BY <1>6, <1>7, ChosenLeads
<1>9. PICK at : Leads(at, q, c, I)
  BY <1>8
<1> HIDE DEF q, I
<1>10. /\ at \in [1..Len(q) -> I]
       /\ \A n \in 1..Len(q) : q[n] = c[at[n]]
       /\ \A m, n \in 1..Len(q) : m < n => at[m] < at[n]
       /\ \A i \in I : \E n \in 1..Len(q) : at[n] = i
  BY <1>9 DEF Leads
<1>11. I \subseteq 1..N /\ Len(q) \in Nat
  BY <1>8, LineCount DEF I
<1>12. \A m, n \in 1..Len(q) : at[m] = at[n] => m = n
  <2> SUFFICES ASSUME NEW m \in 1..Len(q), NEW n \in 1..Len(q), at[m] = at[n] PROVE m = n
    OBVIOUS
  <2>1. at[m] \in Nat /\ at[n] \in Nat
    <3>1. at[m] \in 1..N /\ at[n] \in 1..N
      BY <1>10, <1>11
    <3>2. QED
      BY <1>2, <3>1
  <2>2. ~(m < n) /\ ~(n < m)
    BY <1>10, <2>1
  <2>3. QED
    BY <1>11, <2>2
<1> DEFINE owner == [j \in 1..N |-> CHOOSE n \in 1..Len(q) : at[n] = own[j]]
<1>13. \A j \in 1..N : owner[j] \in 1..Len(q) /\ at[owner[j]] = own[j]
  <2> SUFFICES ASSUME NEW j \in 1..N PROVE owner[j] \in 1..Len(q) /\ at[owner[j]] = own[j]
    OBVIOUS
  <2>1. \E n \in 1..Len(q) : at[n] = own[j]
    BY <1>4, <1>10
  <2>2. owner[j] = CHOOSE n \in 1..Len(q) : at[n] = own[j]
    OBVIOUS
  <2> HIDE DEF owner
  <2>3. QED
    BY <2>1, <2>2
<1>14. owner \in [1..Len(ls) -> 1..Len(q)]
  BY <1>13
<1> HIDE DEF owner
<1>15. ASSUME NEW n \in 1..Len(q)
       PROVE  q[n].count = CountOf(ls, {j \in 1..Len(ls) : owner[j] = n})
  <2>1. at[n] \in I /\ at[n] \in 1..N /\ q[n] = c[at[n]]
    BY <1>10, <1>11
  <2>2. {j \in 1..N : owner[j] = n} = {j \in 1..N : own[j] = at[n]}
    BY <1>12, <1>13
  <2>3. {j \in 1..N : own[j] = at[n]}
        = IF Bursting(ls, at[n], window, threshold) THEN Burst(ls, at[n], window) ELSE {at[n]}
    BY <1>4, <2>1
  <2>4. CountOf(ls, {at[n]}) = ls[at[n]].count
    BY <2>1, CountOfOne
  <2>5. c[at[n]].count = IF Bursting(ls, at[n], window, threshold)
                         THEN CountOf(ls, Burst(ls, at[n], window)) ELSE ls[at[n]].count
    BY <1>5, <2>1
  <2>6. CASE Bursting(ls, at[n], window, threshold)
    BY <2>1, <2>2, <2>3, <2>5, <2>6
  <2>7. CASE ~Bursting(ls, at[n], window, threshold)
    BY <2>1, <2>2, <2>3, <2>4, <2>5, <2>7
  <2>8. QED
    BY <2>6, <2>7
<1>16. Total(q) = Total(ls)
  BY <1>8, <1>14, <1>15, Regroup
<1>17. QED
  BY <1>8, <1>16 DEF q

\* Sorting loses no event.
LEMMA SortKeeps ==
    ASSUME NEW ls \in Seq(LogLine)
    PROVE  Total(SortByTime(ls)) = Total(ls)
<1> DEFINE q == SortByTime(ls)
           N == Len(ls)
<1>1. /\ q \in Seq(LogLine) /\ Len(q) = N
      /\ \E at : /\ at \in [1..N -> 1..N]
                 /\ \A i, j \in 1..N : at[i] = at[j] => i = j
                 /\ \A i \in 1..N : \E n \in 1..N : at[n] = i
                 /\ \A n \in 1..N : q[n] = ls[at[n]]
  BY SortLeads
<1>2. PICK at : /\ at \in [1..N -> 1..N]
                /\ \A i, j \in 1..N : at[i] = at[j] => i = j
                /\ \A i \in 1..N : \E n \in 1..N : at[n] = i
                /\ \A n \in 1..N : q[n] = ls[at[n]]
  BY <1>1
<1> HIDE DEF q
<1> DEFINE owner == [j \in 1..N |-> CHOOSE n \in 1..N : at[n] = j]
<1>3. \A j \in 1..N : owner[j] \in 1..N /\ at[owner[j]] = j
  <2> SUFFICES ASSUME NEW j \in 1..N PROVE owner[j] \in 1..N /\ at[owner[j]] = j
    OBVIOUS
  <2>1. \E n \in 1..N : at[n] = j
    BY <1>2
  <2>2. owner[j] = CHOOSE n \in 1..N : at[n] = j
    OBVIOUS
  <2> HIDE DEF owner
  <2>3. QED
    BY <2>1, <2>2
<1>4. owner \in [1..Len(ls) -> 1..Len(q)]
  BY <1>1, <1>3
<1> HIDE DEF owner
<1>5. ASSUME NEW n \in 1..Len(q)
      PROVE  q[n].count = CountOf(ls, {j \in 1..Len(ls) : owner[j] = n})
  <2>1. at[n] \in 1..Len(ls) /\ q[n] = ls[at[n]]
    BY <1>1, <1>2
  <2>2. {j \in 1..Len(ls) : owner[j] = n} = {at[n]}
    <3>1. n \in 1..N
      BY <1>1
    <3>2. ASSUME NEW j \in 1..N, owner[j] = n PROVE j = at[n]
      BY <1>3, <3>2
    <3>3. owner[at[n]] = n
      BY <1>2, <1>3, <2>1, <3>1
    <3>4. QED
      BY <2>1, <3>2, <3>3
  <2>3. QED
    BY <2>1, <2>2, CountOfOne
<1>6. QED
  BY <1>1, <1>4, <1>5, Regroup DEF q

------------------------------------------------------------------------------
(* A file, and the files of a request.                                     *)

\* The elements at every index are the sequence.
LEMMA ChosenAll ==
    ASSUME NEW T, NEW s \in Seq(T)
    PROVE  Chosen(s, DOMAIN s) = s
<1> DEFINE N == Len(s)
           I == 1..N
           R == {r \in I \X I : r[1] < r[2]}
           before == [x \in I |-> Cardinality({y \in I : <<y, x>> \in R})]
<1>1. N \in Nat /\ DOMAIN s = I /\ s = [n \in I |-> s[n]]
  BY LenProperties
<1>2. Cardinality(I) = N
  BY <1>1, FS_Interval
<1>3. \A x \in I : before[x] = x - 1
  <2> SUFFICES ASSUME NEW x \in I PROVE Cardinality({y \in I : <<y, x>> \in R}) = x - 1
    OBVIOUS
  <2>1. {y \in I : <<y, x>> \in R} = 1..(x - 1)
    BY <1>1
  <2>2. Cardinality(1..(x - 1)) = x - 1
    BY <1>1, FS_Interval
  <2>3. QED
    BY <2>1, <2>2
<1>4. InOrder(I, R) = [n \in 1..Cardinality(I) |-> CHOOSE x \in I : before[x] = n - 1]
  BY DEF InOrder
<1>5. \A n \in I : InOrder(I, R)[n] = n
  <2> SUFFICES ASSUME NEW n \in I PROVE InOrder(I, R)[n] = n
    OBVIOUS
  <2>1. InOrder(I, R)[n] = CHOOSE x \in I : before[x] = n - 1
    BY <1>2, <1>4
  <2>2. \A x \in I : before[x] = n - 1 <=> x = n
    <3> HIDE DEF before
    <3>1. QED
      BY <1>1, <1>3
  <2> HIDE DEF before
  <2>3. QED
    BY <2>1, <2>2
<1>6. Chosen(s, I) = [n \in 1..Cardinality(I) |-> s[InOrder(I, R)[n]]]
  BY DEF Chosen
<1> HIDE DEF R
<1>7. Chosen(s, I) = [n \in I |-> s[n]]
  BY <1>2, <1>5, <1>6
<1>8. QED
  BY <1>1, <1>7

\* What a file tells of, with these parsers.
Told(file, parsers) == SumTo(Len(Parse(file, parsers)), Standing(Parse(file, parsers)))

\* Nothing of the files is cut out or filtered.
Whole(cfg) ==
    /\ cfg.keywords = {} /\ cfg.conditions = {} /\ cfg.anchors = {}
    /\ cfg.start = NoTime /\ cfg.end = NoTime

LEMMA RefineKeeps ==
    ASSUME NEW file \in Seq(RawLine), NEW cfg
    PROVE  /\ Refine(file, cfg) \in Seq(LogLine)
           /\ Told(file, cfg.parsers) \in Nat
           /\ Whole(cfg) => Total(Refine(file, cfg)) = Told(file, cfg.parsers)
<1> DEFINE parsed == Parse(file, cfg.parsers)
           kept == Collapse(parsed, cfg)
<1>1. parsed \in Seq(LogLine) /\ \A i \in 1..Len(parsed) : parsed[i].count = 1
  BY ParseGives
<1>2. Told(file, cfg.parsers) = SumTo(Len(parsed), Standing(parsed))
  BY DEF Told
<1> HIDE DEF parsed
<1>3. kept \in Seq(LogLine) /\ Total(kept) = SumTo(Len(parsed), Standing(parsed))
  <2>1. /\ AbsorbMarkers(parsed) \in Seq(LogLine)
        /\ Total(AbsorbMarkers(parsed)) = SumTo(Len(parsed), Standing(parsed))
    BY <1>1, AbsorbKeeps
  <2>2. /\ CollapseConsecutive(AbsorbMarkers(parsed)) \in Seq(LogLine)
        /\ Total(CollapseConsecutive(AbsorbMarkers(parsed))) = Total(AbsorbMarkers(parsed))
    BY <2>1, CombineKeeps
  <2>3. QED
    BY <2>1, <2>2, BurstsKeep DEF Collapse
<1>4. Refine(file, cfg) = ApplyWindow(kept, cfg)
  BY DEF Refine, parsed
<1> HIDE DEF kept
<1>5. ApplyWindow(kept, cfg) \in Seq(LogLine)
  <2>1. PICK I \in SUBSET (DOMAIN kept) :
          ApplyWindow(kept, cfg) = IF Interval(kept, cfg).some THEN Chosen(kept, I) ELSE kept
    BY DEF ApplyWindow
  <2>2. I \in SUBSET (1..Len(kept))
    BY <1>3, LineCount
  <2>3. QED
    BY <1>3, <2>1, <2>2, ChosenLeads
<1>6. ASSUME Whole(cfg) PROVE ApplyWindow(kept, cfg) = kept
  <2>1. ~Interval(kept, cfg).some
    BY <1>6 DEF Whole, Interval, Matches
  <2>2. QED
    BY <2>1 DEF ApplyWindow
<1>7. Told(file, cfg.parsers) \in Nat
  BY <1>2, <1>3, TotalIsSum
<1>8. QED
  BY <1>2, <1>3, <1>4, <1>5, <1>6, <1>7

GatherStep(g, v, n) == v \o Refine(g.files[n], g.config)
GatherGood(g, v, n) ==
    /\ v \in Seq(LogLine)
    /\ Whole(g.config) =>
        Total(v) = SumTo(n, [i \in DOMAIN g.files |-> Told(g.files[i], g.config.parsers)])
Gathers == INSTANCE Loops WITH Step <- GatherStep, Good <- GatherGood

LEMMA GatherKeeps ==
    ASSUME NEW files \in Seq(Seq(RawLine)), NEW cfg
    PROVE  /\ Gather(files, cfg) \in Seq(LogLine)
           /\ Whole(cfg) =>
                Total(Gather(files, cfg))
                = SumTo(Len(files), [i \in DOMAIN files |-> Told(files[i], cfg.parsers)])
<1> DEFINE g == [files |-> files, config |-> cfg]
           told == [i \in DOMAIN files |-> Told(files[i], cfg.parsers)]
           N == Len(files)
<1>1. /\ N \in Nat /\ DOMAIN files = 1..N /\ g.files = files /\ g.config = cfg
      /\ \A i \in 1..N : files[i] \in Seq(RawLine)
  BY LenProperties, ElementOfSeq
<1> HIDE DEF g
<1>2. \A i \in 1..N : told[i] \in Nat /\ told[i] = Told(files[i], cfg.parsers)
  BY <1>1, RefineKeeps
<1>3. told = [i \in DOMAIN g.files |-> Told(g.files[i], g.config.parsers)]
  BY <1>1
<1> HIDE DEF told
<1>4. Gathers!Defined(g, << >>, N)
  BY <1>1, Gathers!LoopDefined
<1>5. PICK f : /\ f = [n \in 0..N |-> IF n = 0 THEN << >> ELSE f[n - 1] \o Refine(files[n], cfg)]
               /\ Gather(files, cfg) = f[N]
  BY <1>1, <1>4 DEF Gathers!Defined, Gather, GatherStep
<1>6. Gathers!Run(g, << >>, N, f)
  <2>1. f[0] = << >>
    BY <1>1, <1>5
  <2>2. ASSUME NEW n \in 1..N PROVE f[n] = GatherStep(g, f[n - 1], n)
    <3>1. n \in 0..N /\ n # 0
      BY <1>1
    <3>2. QED
      BY <1>1, <1>5, <3>1 DEF GatherStep
  <2>3. QED
    BY <2>1, <2>2 DEF Gathers!Run
<1>7. GatherGood(g, << >>, 0)
  BY <1>3, TotalEmpty, SumStart DEF GatherGood
<1>8. Gathers!Kept(g, N)
  <2> SUFFICES ASSUME NEW n \in 1..N, NEW v, GatherGood(g, v, n - 1)
               PROVE  GatherGood(g, v \o Refine(files[n], cfg), n)
    BY <1>1 DEF Gathers!Kept, GatherStep
  <2>1. /\ Refine(files[n], cfg) \in Seq(LogLine)
        /\ Whole(cfg) => Total(Refine(files[n], cfg)) = told[n]
    BY <1>1, <1>2, RefineKeeps
  <2>2. /\ v \in Seq(LogLine)
        /\ Whole(cfg) => Total(v) = SumTo(n - 1, told)
    BY <1>1, <1>3 DEF GatherGood
  <2>3. /\ v \o Refine(files[n], cfg) \in Seq(LogLine)
        /\ Total(v \o Refine(files[n], cfg)) = Total(v) + Total(Refine(files[n], cfg))
    BY <2>1, <2>2, TotalJoin
  <2>4. SumTo(n, told) = SumTo(n - 1, told) + told[n]
    BY <1>1, <1>2, SumLaw
  <2>5. QED
    BY <1>1, <1>3, <2>1, <2>2, <2>3, <2>4 DEF GatherGood
<1>9. N \in 0..N /\ \A n \in 0..N : GatherGood(g, f[n], n)
  BY <1>1, <1>6, <1>7, <1>8, Gathers!LoopInvariant
<1>10. GatherGood(g, f[N], N)
  BY <1>9
<1>11. QED
  BY <1>1, <1>3, <1>5, <1>10 DEF GatherGood, told

\* Choosing and filtering files leaves files.
LEMMA FilesStay ==
    ASSUME NEW files \in Seq(Seq(RawLine)), NEW keywords, NEW conditions
    PROVE  /\ SelectFiles(Prefilter(files, keywords), conditions) \in Seq(Seq(RawLine))
           /\ (keywords = {} /\ conditions = {})
                => SelectFiles(Prefilter(files, keywords), conditions) = files
<1> DEFINE pre == Prefilter(files, keywords)
<1>1. /\ DOMAIN files = 1..Len(files) /\ Len(files) \in Nat
      /\ \A i \in 1..Len(files) : files[i] \in Seq(RawLine)
  BY LenProperties, ElementOfSeq
<1>2. pre \in Seq(Seq(RawLine))
  <2> DEFINE With(f) == {i \in DOMAIN f : Matches(keywords, f[i])}
             kept == [i \in DOMAIN files |-> Chosen(files[i], With(files[i]))]
             I == {i \in DOMAIN files : With(files[i]) # {}}
  <2>1. \A i \in 1..Len(files) : kept[i] \in Seq(RawLine)
    <3> SUFFICES ASSUME NEW i \in 1..Len(files) PROVE Chosen(files[i], With(files[i])) \in Seq(RawLine)
      BY <1>1
    <3>1. files[i] \in Seq(RawLine)
      BY <1>1
    <3>2. With(files[i]) \in SUBSET (1..Len(files[i]))
      BY <3>1, LenProperties
    <3> HIDE DEF With
    <3>3. QED
      BY <3>1, <3>2, ChosenLeads
  <2>2. kept \in [1..Len(files) -> Seq(RawLine)]
    <3>1. kept = [i \in 1..Len(files) |-> kept[i]]
      BY <1>1
    <3> HIDE DEF kept
    <3>2. QED
      BY <2>1, <3>1
  <2>3. pre = IF keywords = {} THEN files ELSE Chosen(kept, I)
    BY DEF Prefilter
  <2>4. I \in SUBSET (1..Len(files))
    BY <1>1
  <2> HIDE DEF kept, pre, I
  <2>5. kept \in Seq(Seq(RawLine)) /\ Len(kept) = Len(files)
    BY <1>1, <2>2, FunctionIsSeq
  <2>6. Chosen(kept, I) \in Seq(Seq(RawLine))
    BY <2>4, <2>5, ChosenLeads
  <2>7. QED
    BY <2>3, <2>6
<1>3. PICK I \in SUBSET (DOMAIN pre) :
        /\ SelectFiles(pre, conditions) = Chosen(pre, I)
        /\ conditions = {} => I = DOMAIN pre
  BY DEF SelectFiles
<1>4. keywords = {} => pre = files
  BY DEF Prefilter
<1> HIDE DEF pre
<1>5. I \in SUBSET (1..Len(pre))
  BY <1>2, <1>3, LenProperties
<1>6. Chosen(pre, I) \in Seq(Seq(RawLine))
  BY <1>2, <1>5, ChosenLeads
<1>7. Chosen(files, DOMAIN files) = files
  BY ChosenAll
<1>8. QED
  BY <1>3, <1>4, <1>6, <1>7 DEF pre

\* What Stage 1 leaves: lines in order of time, no event lost.
LEMMA Stage1Gives ==
    ASSUME NEW files \in Seq(Seq(RawLine)), NEW cfg
    PROVE  /\ Stage1(files, cfg) \in Seq(LogLine) /\ TimeOrdered(Stage1(files, cfg))
           /\ Whole(cfg) =>
                Total(Stage1(files, cfg))
                = SumTo(Len(files), [i \in DOMAIN files |-> Told(files[i], cfg.parsers)])
<1> DEFINE chosen == SelectFiles(Prefilter(files, cfg.keywords), cfg.conditions)
<1>1. chosen \in Seq(Seq(RawLine)) /\ (Whole(cfg) => chosen = files)
  BY FilesStay DEF Whole
<1>2. Stage1(files, cfg) = SortByTime(Gather(chosen, cfg))
  BY DEF Stage1
<1> HIDE DEF chosen
<1>3. Gather(chosen, cfg) \in Seq(LogLine)
  BY <1>1, GatherKeeps
<1>4. /\ SortByTime(Gather(chosen, cfg)) \in Seq(LogLine)
      /\ TimeOrdered(SortByTime(Gather(chosen, cfg)))
      /\ Total(SortByTime(Gather(chosen, cfg))) = Total(Gather(chosen, cfg))
  BY <1>3, SortLeads, SortKeeps
<1>5. QED
  BY <1>1, <1>2, <1>4, GatherKeeps

------------------------------------------------------------------------------
(* The invariant.                                                          *)

\* Entries as the matcher gets them.
GoodEntries(es) ==
    /\ es \in Seq(ToSet(es))
    /\ \A i \in DOMAIN es :
        /\ WellFormed(es[i].pattern)
        /\ es[i].lines \in Seq(LogLine) /\ TimeOrdered(es[i].lines)
    /\ \A i, j \in DOMAIN es : es[i].pattern.name = es[j].pattern.name => i = j

\* The events of the request, when nothing of it is cut out or filtered.
EventsKept ==
    (stage # "asked" /\ Whole(config))
    => Total(lines) = SumTo(Len(request),
                            [i \in DOMAIN request |-> Told(request[i], config.parsers)])

IInv ==
    /\ request \in Seq(Seq(RawLine)) /\ config \in RefineConfig
    /\ lines \in Seq(LogLine) /\ TimeOrdered(lines)
    /\ EventsKept
    /\ GoodEntries(entries)
    /\ stage = "matched" => results = MatchEntries(entries)

\* Lines with a keyword, in their order.
LEMMA FilterGives ==
    ASSUME NEW ls \in Seq(LogLine), TimeOrdered(ls), NEW keywords
    PROVE  /\ FilterByKeywords(ls, keywords) \in Seq(LogLine)
           /\ TimeOrdered(FilterByKeywords(ls, keywords))
<1> DEFINE I == {i \in DOMAIN ls : Matches(keywords, ls[i])}
<1>1. I \in SUBSET (1..Len(ls))
  BY LineCount
<1>2. FilterByKeywords(ls, keywords) = IF keywords = {} THEN ls ELSE Chosen(ls, I)
  BY DEF FilterByKeywords
<1> HIDE DEF I
<1>3. QED
  BY <1>1, <1>2, ChosenOrdered

\* A function on 1..n is a sequence of its values.
LEMMA ValuesAreSeq ==
    ASSUME NEW n \in Nat, NEW f, f = [i \in 1..n |-> f[i]]
    PROVE  f \in Seq(ToSet(f)) /\ Len(f) = n /\ DOMAIN f = 1..n
<1>1. DOMAIN f = 1..n
  OBVIOUS
<1>2. f \in [1..n -> ToSet(f)]
  BY <1>1 DEF ToSet
<1>3. QED
  BY <1>1, <1>2, FunctionIsSeq

\* One entry for each pattern of a list.
EntriesOf(es, ps) ==
    /\ es = [i \in DOMAIN ps |-> es[i]]
    /\ \A i \in DOMAIN ps : \E keywords : es[i] = Entry(ps[i], keywords)

LEMMA ListEntries ==
    ASSUME lines \in Seq(LogLine), TimeOrdered(lines), NEW ps, Listed(ps),
           NEW es, EntriesOf(es, ps)
    PROVE  GoodEntries(es)
<1>1. DOMAIN ps = 1..Len(ps) /\ Len(ps) \in Nat
  BY LenProperties DEF Listed
<1>2. es \in Seq(ToSet(es)) /\ DOMAIN es = DOMAIN ps
  <2>1. es = [i \in 1..Len(ps) |-> es[i]]
    BY <1>1 DEF EntriesOf
  <2>2. QED
    BY <1>1, <2>1, ValuesAreSeq
<1>3. ASSUME NEW i \in DOMAIN ps
      PROVE  /\ es[i].pattern = ps[i]
             /\ es[i].lines \in Seq(LogLine) /\ TimeOrdered(es[i].lines)
  <2>1. PICK keywords : es[i] = Entry(ps[i], keywords)
    BY DEF EntriesOf
  <2>2. es[i].pattern = ps[i] /\ es[i].lines = FilterByKeywords(lines, keywords)
    BY <2>1 DEF Entry
  <2>3. QED
    BY <2>2, FilterGives
<1>4. QED
  BY <1>2, <1>3 DEF GoodEntries, Listed

\* Some of the entries are good entries too.
LEMMA SomeEntries ==
    ASSUME NEW es, GoodEntries(es), NEW I \in SUBSET (DOMAIN es)
    PROVE  GoodEntries(Chosen(es, I))
<1> DEFINE q == Chosen(es, I)
<1>1. DOMAIN es = 1..Len(es) /\ Len(es) \in Nat
  BY LenProperties DEF GoodEntries
<1>2. q \in Seq(ToSet(es)) /\ \E at : Leads(at, q, es, I)
  BY <1>1, ChosenLeads DEF GoodEntries
<1>3. PICK at : Leads(at, q, es, I)
  BY <1>2
<1> HIDE DEF q
<1>4. DOMAIN q = 1..Len(q) /\ Len(q) \in Nat
  BY <1>2, LenProperties
<1>5. \A n \in DOMAIN q : at[n] \in DOMAIN es /\ q[n] = es[at[n]]
  BY <1>3, <1>4 DEF Leads
<1>6. q \in Seq(ToSet(q))
  <2>1. q = [n \in 1..Len(q) |-> q[n]]
    BY <1>2, LenProperties
  <2>2. QED
    BY <1>4, <2>1, ValuesAreSeq
<1>7. ASSUME NEW m \in DOMAIN q, NEW n \in DOMAIN q, q[m].pattern.name = q[n].pattern.name
      PROVE  m = n
  <2>1. at[m] = at[n]
    BY <1>5, <1>7 DEF GoodEntries
  <2>2. at[m] \in Nat /\ at[n] \in Nat
    BY <1>1, <1>5
  <2>3. ~(m < n) /\ ~(n < m)
    BY <1>3, <1>4, <2>1, <2>2 DEF Leads
  <2>4. QED
    BY <1>4, <2>3
<1>8. QED
  BY <1>5, <1>6, <1>7 DEF GoodEntries, q

THEOREM InvariantHolds == Spec => []IInv
<1>1. Init => IInv
  <2> SUFFICES ASSUME Init PROVE IInv
    OBVIOUS
  <2>1. request \in Seq(Seq(RawLine)) /\ config \in RefineConfig
    BY RequestsAssumption DEF Init
  <2>2. << >> \in Seq(LogLine) /\ TimeOrdered(<< >>) /\ GoodEntries(<< >>)
    BY DEF TimeOrdered, GoodEntries, ToSet
  <2>3. QED
    BY <2>1, <2>2 DEF Init, IInv, EventsKept
<1>2. IInv /\ [Next]_vars => IInv'
  <2> SUFFICES ASSUME IInv, [Next]_vars PROVE IInv'
    OBVIOUS
  <2> USE DEF IInv
  <2>1. CASE RunStage1
    <3>1. /\ lines' \in Seq(LogLine) /\ TimeOrdered(lines')
          /\ Whole(config) =>
               Total(lines') = SumTo(Len(request),
                            [i \in DOMAIN request |-> Told(request[i], config.parsers)])
      BY <2>1, Stage1Gives DEF RunStage1
    <3>2. request' = request /\ config' = config /\ entries' = entries /\ stage' # "matched"
      BY <2>1 DEF RunStage1
    <3>3. QED
      BY <3>1, <3>2 DEF EventsKept
  <2>2. ASSUME NEW rules \in RuleSets, RunMasterRule(rules) PROVE IInv'
    <3>1. Len(rules) \in Nat
      BY RulesAssumption, LenProperties
    <3>2. /\ lines' \in Seq(LogLine) /\ TimeOrdered(lines') /\ Total(lines') = Total(lines)
      BY <2>2, <3>1, RulesKeep DEF RunMasterRule
    <3>3. /\ request' = request /\ config' = config /\ entries' = entries
          /\ stage # "asked" /\ stage' # "matched"
      BY <2>2 DEF RunMasterRule
    <3>4. QED
      BY <3>2, <3>3 DEF EventsKept
  <2>3. ASSUME NEW c \in Cases, RefineForCase(c) PROVE IInv'
    <3>1. Listed(c.patterns)
      BY PatternsAssumption
    <3>2. EntriesOf(entries', c.patterns)
      BY <2>3 DEF RefineForCase, EntriesOf
    <3>3. GoodEntries(entries')
      BY <3>1, <3>2, ListEntries
    <3>4. /\ request' = request /\ config' = config /\ lines' = lines
          /\ stage # "asked" /\ stage' # "matched"
      BY <2>3 DEF RefineForCase
    <3>5. QED
      BY <3>3, <3>4 DEF EventsKept
  <2>4. CASE RefineForPatterns
    <3> DEFINE all == [i \in DOMAIN AllPatterns |-> Entry(AllPatterns[i], AllPatterns[i].keywords)]
               I == {i \in DOMAIN all : all[i].lines # << >>}
    <3>1. EntriesOf(all, AllPatterns)
      BY DEF EntriesOf
    <3>2. entries' = Chosen(all, I) /\ I \in SUBSET (DOMAIN all)
      BY <2>4 DEF RefineForPatterns
    <3> HIDE DEF all, I
    <3>3. GoodEntries(all)
      BY <3>1, PatternsAssumption, ListEntries
    <3>4. GoodEntries(entries')
      BY <3>2, <3>3, SomeEntries
    <3>5. /\ request' = request /\ config' = config /\ lines' = lines
          /\ stage # "asked" /\ stage' # "matched"
      BY <2>4 DEF RefineForPatterns
    <3>6. QED
      BY <3>4, <3>5 DEF EventsKept
  <2>5. CASE Match
    BY <2>5 DEF Match, EventsKept
  <2>6. CASE UNCHANGED vars
    BY <2>6 DEF vars, EventsKept
  <2>7. QED
    BY <2>1, <2>2, <2>3, <2>4, <2>5, <2>6 DEF Next
<1>3. QED
  BY <1>1, <1>2, PTL DEF Spec

\* Collapsing loses no event: with no interval to cut out, the counts of what
\* Stage 1 and the master rules leave add up to the events of the files.
THEOREM CountsAreKept == Spec => []CountsKept
<1>1. IInv => CountsKept
  <2> SUFFICES ASSUME IInv, stage # "asked", Whole(config)
               PROVE  CountOf(lines, DOMAIN lines)
                      = SumTo(Len(request), [i \in DOMAIN request |-> Events(request[i])])
    BY DEF CountsKept, Whole
  <2>1. Total(lines) = SumTo(Len(request),
                             [i \in DOMAIN request |-> Told(request[i], config.parsers)])
    BY DEF IInv, EventsKept
  <2>2. \A i \in DOMAIN request : Events(request[i]) = Told(request[i], config.parsers)
    BY DEF Events, Told, Standing
  <2>3. [i \in DOMAIN request |-> Events(request[i])]
        = [i \in DOMAIN request |-> Told(request[i], config.parsers)]
    BY <2>2
  <2>4. QED
    BY <2>1, <2>3 DEF Total
<1>2. QED
  BY <1>1, InvariantHolds, PTL

------------------------------------------------------------------------------
(* What the matcher makes of the entries.                                  *)

Name(es, k) == es[k].pattern.name
EvidenceOf(e) == Evidence(e.pattern, e.lines)

\* r has the evidence of entry e, and whether that is a match.
Found(r, e) ==
    /\ e.pattern.name \in DOMAIN r
    /\ r[e.pattern.name].evidence = EvidenceOf(e)
    /\ r[e.pattern.name].matched = Matched(e.pattern, EvidenceOf(e))

MatchOneStep(es, v, n) == MatchOne(v, es[n])
MatchOneGood(es, v, n) ==
    /\ DOMAIN v = {Name(es, k) : k \in 1..n}
    /\ \A k \in 1..n : Found(v, es[k])
Ones == INSTANCE Loops WITH Step <- MatchOneStep, Good <- MatchOneGood

LEMMA MatchOneFinds ==
    ASSUME NEW v, NEW e
    PROVE  /\ Found(MatchOne(v, e), e)
           /\ DOMAIN MatchOne(v, e) = DOMAIN v \union {e.pattern.name}
           /\ \A c \in DOMAIN v \ {e.pattern.name} : MatchOne(v, e)[c] = v[c]
BY DEF Found, MatchOne, WithResult, EvidenceOf

LEMMA SimpleResults ==
    ASSUME NEW es, GoodEntries(es)
    PROVE  MatchOneGood(es, MatchSimple(es), Len(es))
<1> DEFINE N == Len(es)
<1>1. N \in Nat /\ DOMAIN es = 1..N
  BY LenProperties DEF GoodEntries
<1>2. Ones!Defined(es, << >>, N)
  BY <1>1, Ones!LoopDefined
<1>3. PICK f : /\ f = [n \in 0..N |-> IF n = 0 THEN << >> ELSE MatchOne(f[n - 1], es[n])]
               /\ MatchSimple(es) = f[N]
  BY <1>2 DEF Ones!Defined, MatchSimple, MatchOneStep
<1>4. Ones!Run(es, << >>, N, f)
  <2>1. f[0] = << >>
    BY <1>1, <1>3
  <2>2. ASSUME NEW n \in 1..N PROVE f[n] = MatchOneStep(es, f[n - 1], n)
    <3>1. n \in 0..N /\ n # 0
      BY <1>1
    <3>2. QED
      BY <1>3, <3>1 DEF MatchOneStep
  <2>3. QED
    BY <2>1, <2>2 DEF Ones!Run
<1>5. MatchOneGood(es, << >>, 0)
  BY DEF MatchOneGood
<1>6. Ones!Kept(es, N)
  <2> SUFFICES ASSUME NEW n \in 1..N, NEW v, MatchOneGood(es, v, n - 1)
               PROVE  MatchOneGood(es, MatchOne(v, es[n]), n)
    BY DEF Ones!Kept, MatchOneStep
  <2>1. /\ Found(MatchOne(v, es[n]), es[n])
        /\ DOMAIN MatchOne(v, es[n]) = DOMAIN v \union {Name(es, n)}
        /\ \A c \in DOMAIN v \ {Name(es, n)} : MatchOne(v, es[n])[c] = v[c]
    BY MatchOneFinds DEF Name
  <2>2. \A k \in 1..n : k \in 1..(n - 1) \/ k = n
    BY <1>1
  <2>3. \A k \in 1..(n - 1) : k \in 1..n /\ k # n /\ k \in DOMAIN es
    BY <1>1
  <2>4. n \in 1..n /\ n \in DOMAIN es
    BY <1>1
  <2>5. DOMAIN MatchOne(v, es[n]) = {Name(es, k) : k \in 1..n}
    BY <2>1, <2>2, <2>3, <2>4 DEF MatchOneGood
  <2>6. ASSUME NEW k \in 1..(n - 1) PROVE Found(MatchOne(v, es[n]), es[k])
    <3>1. Name(es, k) # Name(es, n)
      BY <2>3, <2>4 DEF GoodEntries, Name
    <3>2. Found(v, es[k]) /\ Name(es, k) \in DOMAIN v
      BY DEF MatchOneGood
    <3>3. MatchOne(v, es[n])[Name(es, k)] = v[Name(es, k)]
      BY <2>1, <3>1, <3>2
    <3>4. Name(es, k) \in DOMAIN MatchOne(v, es[n])
      BY <2>1, <3>2
    <3>5. QED
      BY <3>2, <3>3, <3>4 DEF Found, Name
  <2>7. QED
    BY <2>1, <2>2, <2>5, <2>6 DEF MatchOneGood
<1>7. N \in 0..N /\ \A n \in 0..N : MatchOneGood(es, f[n], n)
  <2> HIDE DEF N
  <2>1. QED
    BY <1>1, <1>4, <1>5, <1>6, Ones!LoopInvariant
<1>8. QED
  BY <1>3, <1>7

\* A composite whose components have their results in r says what they say.
Says(v, p, r) ==
    (\A c \in ToSet(p.components) : c \in DOMAIN r)
    => (v[p.name].matched <=> CompositeMatches(p, r))

CompositeStep(g, v, n) == MatchComposite(v, g.entries[n])
CompositeGood(g, v, n) ==
    /\ \A c \in DOMAIN g.simple : c \in DOMAIN v /\ v[c] = g.simple[c]
    /\ \A k \in 1..n : /\ Name(g.entries, k) \in DOMAIN v
                       /\ Says(v, g.entries[k].pattern, g.simple)
Composites == INSTANCE Loops WITH Step <- CompositeStep, Good <- CompositeGood

LEMMA CompositeAgrees ==
    ASSUME NEW p, p.components \in Seq(STRING), NEW v, NEW r,
           \A c \in ToSet(p.components) : c \in DOMAIN r,
           \A c \in DOMAIN r : c \in DOMAIN v /\ v[c] = r[c]
    PROVE  CompositeMatches(p, v) <=> CompositeMatches(p, r)
<1>1. ASSUME p.components # << >> PROVE p.components[1] \in ToSet(p.components)
  <2>1. Len(p.components) \in Nat \ {0} /\ DOMAIN p.components = 1..Len(p.components)
    BY <1>1, EmptySeq, LenProperties
  <2>2. QED
    BY <2>1 DEF ToSet
<1>2. \A c \in ToSet(p.components) : c \in DOMAIN r /\ c \in DOMAIN v /\ v[c] = r[c]
  OBVIOUS
<1>3. CASE p.operator = "AND"
  BY <1>2, <1>3 DEF CompositeMatches
<1>4. CASE p.operator = "OR"
  BY <1>2, <1>4 DEF CompositeMatches
<1>5. CASE p.operator = "NOT"
  BY <1>1, <1>2, <1>5 DEF CompositeMatches
<1>6. CASE p.operator \notin {"AND", "OR", "NOT"}
  BY <1>6 DEF CompositeMatches
<1>7. QED
  BY <1>3, <1>4, <1>5, <1>6

LEMMA MatchCompositeSays ==
    ASSUME NEW v, NEW e
    PROVE  LET w == MatchComposite(v, e)
               name == e.pattern.name
           IN  /\ name \in DOMAIN w
               /\ w[name].matched = CompositeMatches(e.pattern, v)
               /\ DOMAIN w = DOMAIN v \union {name}
               /\ \A c \in DOMAIN v \ {name} : w[c] = v[c]
BY DEF MatchComposite, WithResult

LEMMA CompositeResults ==
    ASSUME NEW es, GoodEntries(es), \A i \in DOMAIN es : IsComposite(es[i]),
           NEW s, \A i \in DOMAIN es : Name(es, i) \notin DOMAIN s
    PROVE  CompositeGood([entries |-> es, simple |-> s], MatchComposites(es, s), Len(es))
<1> DEFINE N == Len(es)
           g == [entries |-> es, simple |-> s]
<1>1. N \in Nat /\ DOMAIN es = 1..N /\ g.entries = es /\ g.simple = s
  BY LenProperties DEF GoodEntries
<1> HIDE DEF g
<1>2. Composites!Defined(g, s, N)
  BY <1>1, Composites!LoopDefined
<1>3. PICK f : /\ f = [n \in 0..N |-> IF n = 0 THEN s ELSE MatchComposite(f[n - 1], es[n])]
               /\ MatchComposites(es, s) = f[N]
  BY <1>1, <1>2 DEF Composites!Defined, MatchComposites, CompositeStep
<1>4. Composites!Run(g, s, N, f)
  <2>1. f[0] = s
    BY <1>1, <1>3
  <2>2. ASSUME NEW n \in 1..N PROVE f[n] = CompositeStep(g, f[n - 1], n)
    <3>1. n \in 0..N /\ n # 0
      BY <1>1
    <3>2. QED
      BY <1>1, <1>3, <3>1 DEF CompositeStep
  <2>3. QED
    BY <2>1, <2>2 DEF Composites!Run
<1>5. CompositeGood(g, s, 0)
  BY <1>1 DEF CompositeGood
<1>6. Composites!Kept(g, N)
  <2> SUFFICES ASSUME NEW n \in 1..N, NEW v, CompositeGood(g, v, n - 1)
               PROVE  CompositeGood(g, MatchComposite(v, es[n]), n)
    BY <1>1 DEF Composites!Kept, CompositeStep
  <2> DEFINE w == MatchComposite(v, es[n])
             p == es[n].pattern
  <2>1. /\ Name(es, n) \in DOMAIN w
        /\ w[Name(es, n)].matched = CompositeMatches(p, v)
        /\ DOMAIN w = DOMAIN v \union {Name(es, n)}
        /\ \A c \in DOMAIN v \ {Name(es, n)} : w[c] = v[c]
    BY MatchCompositeSays DEF Name
  <2> HIDE DEF w
  <2>2. /\ \A c \in DOMAIN s : c \in DOMAIN v /\ v[c] = s[c]
        /\ \A k \in 1..(n - 1) : Name(es, k) \in DOMAIN v /\ Says(v, es[k].pattern, s)
    BY <1>1 DEF CompositeGood
  <2>3. \A c \in DOMAIN s : c \in DOMAIN w /\ w[c] = s[c]
    BY <1>1, <2>1, <2>2
  <2>4. Says(w, p, s)
    <3> SUFFICES ASSUME \A c \in ToSet(p.components) : c \in DOMAIN s
                 PROVE  w[p.name].matched <=> CompositeMatches(p, s)
      BY DEF Says
    <3>1. p.components \in Seq(STRING)
      BY <1>1 DEF GoodEntries, WellFormed, IsComposite
    <3>2. CompositeMatches(p, v) <=> CompositeMatches(p, s)
      BY <2>2, <3>1, CompositeAgrees
    <3>3. p.name = Name(es, n)
      BY DEF Name
    <3> HIDE DEF p
    <3>4. QED
      BY <2>1, <3>2, <3>3
  <2>5. ASSUME NEW k \in 1..(n - 1) PROVE Name(es, k) \in DOMAIN w /\ Says(w, es[k].pattern, s)
    <3>1. Name(es, k) # Name(es, n)
      BY <1>1 DEF GoodEntries, Name
    <3>2. Name(es, k) \in DOMAIN v /\ w[Name(es, k)] = v[Name(es, k)] /\ Says(v, es[k].pattern, s)
      BY <2>1, <2>2, <3>1
    <3>3. QED
      BY <2>1, <3>2 DEF Says, Name
  <2>6. \A k \in 1..n : k \in 1..(n - 1) \/ k = n
    BY <1>1
  <2>7. QED
    BY <1>1, <2>1, <2>3, <2>4, <2>5, <2>6 DEF CompositeGood, w
<1>7. N \in 0..N /\ \A n \in 0..N : CompositeGood(g, f[n], n)
  <2> HIDE DEF N
  <2>1. QED
    BY <1>1, <1>4, <1>5, <1>6, Composites!LoopInvariant
<1>8. QED
  BY <1>3, <1>7 DEF g

\* Every entry has its result: the evidence of its own lines, or what its
\* components say when all of them are simple and were looked for.
LEMMA MatchFinds ==
    ASSUME NEW es, GoodEntries(es), NEW i \in DOMAIN es
    PROVE  LET r == MatchEntries(es)
           IN  /\ ~IsComposite(es[i]) => Found(r, es[i])
               /\ (/\ IsComposite(es[i])
                   /\ \A c \in ToSet(es[i].pattern.components) : \E j \in DOMAIN es :
                         ~IsComposite(es[j]) /\ Name(es, j) = c)
                  => (r[Name(es, i)].matched <=> CompositeMatches(es[i].pattern, r))
<1> DEFINE C == {k \in DOMAIN es : IsComposite(es[k])}
           D == DOMAIN es \ C
           ds == Chosen(es, D)
           cs == Chosen(es, C)
           s == MatchSimple(ds)
           r == MatchEntries(es)
<1>1. DOMAIN es = 1..Len(es) /\ Len(es) \in Nat
  BY LenProperties DEF GoodEntries
<1>2. C \in SUBSET (1..Len(es)) /\ D \in SUBSET (1..Len(es))
  BY <1>1
<1>3. r = MatchComposites(cs, s)
  BY DEF MatchEntries
<1>4. GoodEntries(ds) /\ GoodEntries(cs)
  BY <1>1, <1>2, SomeEntries
<1>5. /\ \A k \in D : IsComposite(es[k]) = FALSE
      /\ \A k \in C : IsComposite(es[k])
      /\ C \union D = DOMAIN es /\ C \intersect D = {}
  BY DEF IsComposite
<1> HIDE DEF C, D, r
<1>6. /\ \E at : Leads(at, ds, es, D)
      /\ \E at : Leads(at, cs, es, C)
  BY <1>2, ChosenLeads DEF GoodEntries
<1>7. PICK a : Leads(a, ds, es, D)
  BY <1>6
<1>8. PICK b : Leads(b, cs, es, C)
  BY <1>6
<1> HIDE DEF ds, cs
<1>9. MatchOneGood(ds, s, Len(ds))
  BY <1>4, SimpleResults
<1> HIDE DEF s
<1>10. DOMAIN ds = 1..Len(ds) /\ DOMAIN cs = 1..Len(cs)
  BY <1>4, LenProperties DEF GoodEntries
<1>11. \A c : c \in DOMAIN s <=> \E k \in D : Name(es, k) = c
  <2>1. \A c : c \in DOMAIN s <=> \E n \in 1..Len(ds) : Name(ds, n) = c
    BY <1>9 DEF MatchOneGood
  <2>2. \A n \in 1..Len(ds) : a[n] \in D /\ Name(ds, n) = Name(es, a[n])
    BY <1>7 DEF Leads, Name
  <2>3. \A k \in D : \E n \in 1..Len(ds) : a[n] = k
    BY <1>7 DEF Leads
  <2>4. QED
    BY <2>1, <2>2, <2>3
<1>12. \A n \in 1..Len(cs) : b[n] \in C /\ cs[n] = es[b[n]] /\ Name(cs, n) = Name(es, b[n])
  BY <1>8 DEF Leads, Name
<1>13. \A k \in C : \A m \in D : Name(es, k) # Name(es, m)
  BY <1>1, <1>2, <1>5 DEF GoodEntries, Name
<1>14. \A n \in DOMAIN cs : Name(cs, n) \notin DOMAIN s /\ IsComposite(cs[n])
  BY <1>5, <1>10, <1>11, <1>12, <1>13
<1>15. CompositeGood([entries |-> cs, simple |-> s], r, Len(cs))
  BY <1>3, <1>4, <1>14, CompositeResults
<1>16. /\ \A c \in DOMAIN s : c \in DOMAIN r /\ r[c] = s[c]
       /\ \A k \in 1..Len(cs) : Name(cs, k) \in DOMAIN r /\ Says(r, cs[k].pattern, s)
  BY <1>15 DEF CompositeGood
<1>17. ASSUME ~IsComposite(es[i]) PROVE Found(r, es[i])
  <2>1. i \in D
    BY <1>5, <1>17
  <2>2. PICK n \in 1..Len(ds) : a[n] = i /\ ds[n] = es[i]
    BY <1>7, <2>1 DEF Leads
  <2>3. Found(s, es[i])
    BY <1>9, <2>2 DEF MatchOneGood
  <2>4. QED
    BY <1>16, <2>3 DEF Found
<1>18. ASSUME IsComposite(es[i]),
              \A c \in ToSet(es[i].pattern.components) : \E j \in DOMAIN es :
                 ~IsComposite(es[j]) /\ Name(es, j) = c
       PROVE  r[Name(es, i)].matched <=> CompositeMatches(es[i].pattern, r)
  <2>1. i \in C
    BY <1>5, <1>18
  <2>2. PICK n \in 1..Len(cs) : b[n] = i /\ cs[n] = es[i]
    BY <1>8, <2>1 DEF Leads
  <2>3. \A c \in ToSet(es[i].pattern.components) : c \in DOMAIN s
    BY <1>5, <1>11, <1>18
  <2>4. r[Name(es, i)].matched <=> CompositeMatches(es[i].pattern, s)
    BY <1>16, <2>2, <2>3 DEF Says, Name
  <2>5. es[i].pattern.components \in Seq(STRING)
    BY <1>18 DEF GoodEntries, WellFormed, IsComposite
  <2>6. CompositeMatches(es[i].pattern, r) <=> CompositeMatches(es[i].pattern, s)
    BY <1>16, <2>3, <2>5, CompositeAgrees
  <2>7. QED
    BY <2>4, <2>6
<1>19. QED
  BY <1>17, <1>18 DEF r

------------------------------------------------------------------------------
(* PRESENCE.                                                               *)

LEMMA AppendSet ==
    ASSUME NEW q \in Seq(LogLine), NEW l \in LogLine
    PROVE  /\ Append(q, l) \in Seq(LogLine)
           /\ ToSet(Append(q, l)) = ToSet(q) \union {l}
<1>1. /\ Append(q, l) \in Seq(LogLine) /\ Len(Append(q, l)) = Len(q) + 1
      /\ \A i \in 1..Len(q) : Append(q, l)[i] = q[i]
      /\ Append(q, l)[Len(q) + 1] = l
  BY AppendProperties
<1>2. /\ DOMAIN q = 1..Len(q) /\ Len(q) \in Nat
      /\ DOMAIN Append(q, l) = 1..(Len(q) + 1)
  BY <1>1, LenProperties
<1>3. \A x : x \in ToSet(Append(q, l)) <=> x \in ToSet(q) \/ x = l
  <2> SUFFICES ASSUME NEW x
               PROVE  (\E i \in 1..(Len(q) + 1) : Append(q, l)[i] = x)
                      <=> (\E i \in 1..Len(q) : q[i] = x) \/ x = l
    BY <1>2 DEF ToSet
  <2>1. \A i \in 1..(Len(q) + 1) : i \in 1..Len(q) \/ i = Len(q) + 1
    BY <1>2
  <2>2. Len(q) + 1 \in 1..(Len(q) + 1) /\ \A i \in 1..Len(q) : i \in 1..(Len(q) + 1)
    BY <1>2
  <2>3. QED
    BY <1>1, <2>1, <2>2
<1>4. QED
  BY <1>1, <1>3

\* The hits are the lines whose message is in the regular expression.
LEMMA HitsAre ==
    ASSUME NEW ls \in Seq(LogLine), NEW regex
    PROVE  /\ Hits(regex, ls) \in Seq(LogLine)
           /\ Leads(CHOOSE at : Leads(at, Hits(regex, ls), ls,
                                      {i \in 1..Len(ls) : ls[i].msg \in regex}),
                    Hits(regex, ls), ls, {i \in 1..Len(ls) : ls[i].msg \in regex})
<1> DEFINE I == {i \in 1..Len(ls) : ls[i].msg \in regex}
<1>1. DOMAIN ls = 1..Len(ls)
  BY LineCount
<1>2. Hits(regex, ls) = Chosen(ls, I)
  BY <1>1 DEF Hits
<1>3. I \in SUBSET (1..Len(ls))
  OBVIOUS
<1> HIDE DEF I
<1>4. Hits(regex, ls) \in Seq(LogLine) /\ \E at : Leads(at, Hits(regex, ls), ls, I)
  BY <1>2, <1>3, ChosenLeads
<1>5. Leads(CHOOSE at : Leads(at, Hits(regex, ls), ls, I), Hits(regex, ls), ls, I)
  BY <1>4
<1>6. QED
  BY <1>4, <1>5 DEF I

\* A hit is shown by a line of its fingerprint at most the window before it.
Shown(p, evidence, l) ==
    \E k \in ToSet(evidence) :
        /\ FingerprintOf(k) = FingerprintOf(l)
        /\ \/ k = l
           \/ p.dedup # NoTime /\ Stamp(l) - Stamp(k) <= p.dedup

Noted(v, s) == \E k \in ToSet(v.evidence) : FingerprintOf(k) = s.fp /\ Stamp(k) = s.at

PresencesStep(g, v, n) == PresenceStep(g.pattern, v, g.lines[n])
PresenceGood(g, v, n) ==
    /\ v.evidence \in Seq(LogLine)
    /\ \A s \in v.seen : Noted(v, s)
    /\ \A i \in 1..n : g.lines[i].msg \in g.pattern.regex
                       => Shown(g.pattern, v.evidence, g.lines[i])
    /\ v.evidence # << >> => \E i \in 1..n : g.lines[i].msg \in g.pattern.regex
Presences == INSTANCE Loops WITH Step <- PresencesStep, Good <- PresenceGood

LEMMA PresenceShows ==
    ASSUME NEW ls \in Seq(LogLine), NEW p
    PROVE  /\ \A i \in 1..Len(ls) : ls[i].msg \in p.regex
                                    => Shown(p, PresenceEvidence(p, ls), ls[i])
           /\ PresenceEvidence(p, ls) # << >> => \E i \in 1..Len(ls) : ls[i].msg \in p.regex
<1> DEFINE g == [pattern |-> p, lines |-> ls]
           start == [seen |-> {}, evidence |-> << >>]
           N == Len(ls)
<1>1. /\ N \in Nat /\ g.pattern = p /\ g.lines = ls
      /\ start.seen = {} /\ start.evidence = << >>
  BY LineCount
<1> HIDE DEF g
<1>2. Presences!Defined(g, start, N)
  BY <1>1, Presences!LoopDefined
<1>3. PICK f : /\ f = [n \in 0..N |-> IF n = 0 THEN start ELSE PresenceStep(p, f[n - 1], ls[n])]
               /\ PresenceEvidence(p, ls) = f[N].evidence
  <2>1. \E f : f = [n \in 0..N |-> IF n = 0 THEN start ELSE PresenceStep(p, f[n - 1], ls[n])]
    <3> HIDE DEF start, N
    <3>1. QED
      BY <1>1, <1>2 DEF Presences!Defined, PresencesStep
  <2>2. QED
    BY <2>1 DEF PresenceEvidence
<1> HIDE DEF start
<1>4. Presences!Run(g, start, N, f)
  <2>1. f[0] = start
    BY <1>1, <1>3
  <2>2. ASSUME NEW n \in 1..N PROVE f[n] = PresencesStep(g, f[n - 1], n)
    <3>1. n \in 0..N /\ n # 0
      BY <1>1
    <3>2. QED
      BY <1>1, <1>3, <3>1 DEF PresencesStep
  <2>3. QED
    BY <2>1, <2>2 DEF Presences!Run
<1>5. PresenceGood(g, start, 0)
  BY <1>1, EmptySeq DEF PresenceGood
<1>6. Presences!Kept(g, N)
  <2> SUFFICES ASSUME NEW n \in 1..N, NEW v, PresenceGood(g, v, n - 1)
               PROVE  PresenceGood(g, PresenceStep(p, v, ls[n]), n)
    BY <1>1 DEF Presences!Kept, PresencesStep
  <2> DEFINE l == ls[n]
             fp == FingerprintOf(l)
             Repeated == \E s \in v.seen : s.fp = fp /\ Stamp(l) - s.at <= p.dedup
             w == PresenceStep(p, v, l)
  <2>1. /\ l \in LogLine
        /\ v.evidence \in Seq(LogLine) /\ \A s \in v.seen : Noted(v, s)
        /\ \A k \in 1..(n - 1) : ls[k].msg \in p.regex => Shown(p, v.evidence, ls[k])
        /\ v.evidence # << >> => \E k \in 1..(n - 1) : ls[k].msg \in p.regex
    BY <1>1, LineCount DEF PresenceGood
  <2>2. /\ \A k \in 1..n : k \in 1..(n - 1) \/ k = n
        /\ n \in 1..n /\ \A k \in 1..(n - 1) : k \in 1..n
    BY <1>1
  <2>3. CASE l.msg \notin p.regex \/ (p.dedup # NoTime /\ Repeated)
    <3>1. w = v
      BY <2>3 DEF PresenceStep
    <3>2. ASSUME l.msg \in p.regex PROVE Shown(p, v.evidence, l)
      <4>1. PICK s \in v.seen : s.fp = fp /\ Stamp(l) - s.at <= p.dedup
        BY <2>3, <3>2
      <4>2. PICK k \in ToSet(v.evidence) : FingerprintOf(k) = s.fp /\ Stamp(k) = s.at
        BY <2>1 DEF Noted
      <4>3. QED
        BY <2>3, <3>2, <4>1, <4>2 DEF Shown
    <3> HIDE DEF l, w
    <3>3. PresenceGood(g, w, n)
      BY <1>1, <2>1, <2>2, <3>1, <3>2 DEF PresenceGood, l
    <3>4. QED
      BY <3>3 DEF w, l
  <2>4. CASE ~(l.msg \notin p.regex \/ (p.dedup # NoTime /\ Repeated))
    <3>1. w = [seen     |-> {s \in v.seen : s.fp # fp} \union {[fp |-> fp, at |-> Stamp(l)]},
               evidence |-> Append(v.evidence, l)]
      BY <2>4 DEF PresenceStep
    <3>2. /\ w.evidence = Append(v.evidence, l)
          /\ \A s \in w.seen : s \in v.seen \/ (s.fp = fp /\ s.at = Stamp(l))
      BY <3>1
    <3> HIDE DEF l, w, fp
    <3>3. /\ w.evidence \in Seq(LogLine)
          /\ ToSet(w.evidence) = ToSet(v.evidence) \union {l}
      BY <2>1, <3>2, AppendSet
    <3>4. \A s \in w.seen : Noted(w, s)
      BY <2>1, <3>2, <3>3 DEF Noted, fp
    <3>5. Shown(p, w.evidence, l)
      BY <3>3 DEF Shown
    <3>6. \A k \in 1..(n - 1) : ls[k].msg \in p.regex => Shown(p, w.evidence, ls[k])
      BY <2>1, <3>3 DEF Shown
    <3>7. PresenceGood(g, w, n)
      BY <1>1, <2>2, <2>4, <3>3, <3>4, <3>5, <3>6 DEF PresenceGood, l
    <3>8. QED
      BY <3>7 DEF w, l
  <2>5. QED
    BY <2>3, <2>4
<1>7. N \in 0..N /\ \A n \in 0..N : PresenceGood(g, f[n], n)
  <2> HIDE DEF N
  <2>1. QED
    BY <1>1, <1>4, <1>5, <1>6, Presences!LoopInvariant
<1>8. PresenceGood(g, f[N], N)
  BY <1>7
<1>9. QED
  BY <1>1, <1>3, <1>8 DEF PresenceGood

\* The entries of the set are those at the indices, with their results.
LEMMA EntryAt ==
    ASSUME IInv, stage = "matched", NEW e \in ToSet(entries)
    PROVE  /\ \E i \in DOMAIN entries : e = entries[i]
           /\ WellFormed(e.pattern)
           /\ e.lines \in Seq(LogLine) /\ TimeOrdered(e.lines)
           /\ e.pattern.type # "COMPOSITE" =>
                /\ e.pattern.name \in DOMAIN results
                /\ results[e.pattern.name].evidence = Evidence(e.pattern, e.lines)
                /\ results[e.pattern.name].matched = Matched(e.pattern, Evidence(e.pattern, e.lines))
<1>1. PICK i \in DOMAIN entries : e = entries[i]
  BY DEF ToSet
<1>2. /\ GoodEntries(entries) /\ results = MatchEntries(entries)
  BY DEF IInv
<1>3. ASSUME e.pattern.type # "COMPOSITE" PROVE Found(results, e)
  BY <1>1, <1>2, <1>3, MatchFinds DEF IsComposite
<1>4. QED
  BY <1>1, <1>2, <1>3 DEF GoodEntries, Found, EvidenceOf

\* Every hit of PRESENCE is reported, by itself or by a line of the same
\* fingerprint at most the window before it.
THEOREM NoEventIsHidden == Spec => []NoEventHidden
<1>1. IInv => NoEventHidden
  <2> SUFFICES ASSUME IInv, stage = "matched", NEW e \in ToSet(entries),
                      e.pattern.type = "PRESENCE",
                      NEW l \in ToSet(Hits(e.pattern.regex, e.lines))
               PROVE  Shown(e.pattern, results[e.pattern.name].evidence, l)
    BY DEF NoEventHidden, Shown
  <2>1. /\ e.lines \in Seq(LogLine)
        /\ results[e.pattern.name].evidence = PresenceEvidence(e.pattern, e.lines)
    BY EntryAt DEF Evidence
  <2>2. \E i \in 1..Len(e.lines) : e.lines[i].msg \in e.pattern.regex /\ l = e.lines[i]
    <3> DEFINE q == Hits(e.pattern.regex, e.lines)
               I == {i \in 1..Len(e.lines) : e.lines[i].msg \in e.pattern.regex}
               at == CHOOSE a : Leads(a, q, e.lines, I)
    <3>1. q \in Seq(LogLine) /\ Leads(at, q, e.lines, I)
      BY <2>1, HitsAre
    <3> HIDE DEF q, at
    <3>2. PICK n \in 1..Len(q) : l = q[n]
      BY <3>1, LineCount DEF ToSet, q
    <3>3. at[n] \in I /\ l = e.lines[at[n]]
      BY <3>1, <3>2 DEF Leads
    <3>4. QED
      BY <3>3
  <2>3. QED
    BY <2>1, <2>2, PresenceShows
<1>2. QED
  BY <1>1, InvariantHolds, PTL

\* PRESENCE has evidence exactly when a line is a hit.
LEMMA PresenceMeans ==
    ASSUME NEW ls \in Seq(LogLine), NEW p, p.type = "PRESENCE"
    PROVE  Evidence(p, ls) # << >> <=> Means(p, ls)
<1> DEFINE evidence == PresenceEvidence(p, ls)
<1>1. /\ Evidence(p, ls) = evidence
      /\ Means(p, ls) <=> \E i \in DOMAIN ls : ls[i].msg \in p.regex
  BY DEF Evidence, Means
<1>2. /\ \A i \in 1..Len(ls) : ls[i].msg \in p.regex => Shown(p, evidence, ls[i])
      /\ evidence # << >> => \E i \in 1..Len(ls) : ls[i].msg \in p.regex
      /\ DOMAIN ls = 1..Len(ls)
  BY PresenceShows, LineCount
<1>3. evidence = << >> => ToSet(evidence) = {}
  BY DEF ToSet
<1>4. QED
  BY <1>1, <1>2, <1>3 DEF Shown

------------------------------------------------------------------------------
(* ABSENCE.                                                                *)

\* Line i triggers p and no line from there to n answers it in time.
Open(p, ls, i, n) ==
    /\ ls[i].msg \in p.trigger
    /\ \A j \in (i + 1)..n :
          ~(ls[j].msg \in p.absent /\ ls[j].time \in 0..(ls[i].time + p.window))

\* The lines with a time among these triggered p and were never answered.
AllOpen(p, ls, evidence) ==
    \A l \in ToSet(evidence) :
        l.time # NoTime => \E i \in 1..Len(ls) : ls[i] = l /\ Open(p, ls, i, Len(ls))

AbsencesStep(g, v, n) == AbsenceStep(g.pattern, v, g.lines[n])
AbsenceGood(g, v, n) ==
    /\ v.evidence \in Seq(LogLine) /\ AllOpen(g.pattern, g.lines, v.evidence)
    /\ v.watched = << >> \/ \E i \in 1..n : /\ v.watched = <<g.lines[i]>>
                                            /\ Open(g.pattern, g.lines, i, n)
Absences == INSTANCE Loops WITH Step <- AbsencesStep, Good <- AbsenceGood

LEMMA OpenStays ==
    ASSUME NEW p, NEW ls, NEW evidence \in Seq(LogLine), AllOpen(p, ls, evidence),
           NEW i \in 1..Len(ls), ls[i] \in LogLine,
           ls[i].time # NoTime => Open(p, ls, i, Len(ls))
    PROVE  /\ evidence \o <<ls[i]>> \in Seq(LogLine)
           /\ AllOpen(p, ls, evidence \o <<ls[i]>>)
<1>1. evidence \o <<ls[i]>> = Append(evidence, ls[i])
  BY AppendIsConcat
<1>2. /\ Append(evidence, ls[i]) \in Seq(LogLine)
      /\ ToSet(Append(evidence, ls[i])) = ToSet(evidence) \union {ls[i]}
  BY AppendSet
<1>3. QED
  BY <1>1, <1>2 DEF AllOpen

LEMMA AbsenceStepKeeps ==
    ASSUME NEW ls \in Seq(LogLine), TimeOrdered(ls), NEW p, p.window \in Nat,
           NEW g, g.pattern = p, g.lines = ls,
           NEW n \in 1..Len(ls), NEW v, AbsenceGood(g, v, n - 1)
    PROVE  AbsenceGood(g, AbsenceStep(p, v, ls[n]), n)
<1> DEFINE l == ls[n]
           watching == v.watched # << >>
           expired  == watching /\ Over(p, v.watched[1], l)
           answered == watching /\ ~expired /\ l.msg \in p.absent
           w == AbsenceStep(p, v, l)
<1>1. /\ Len(ls) \in Nat /\ l \in LogLine /\ l.time \in Nat \union {NoTime}
      /\ DOMAIN ls = 1..Len(ls)
      /\ \A i \in 1..Len(ls) : ls[i] \in LogLine /\ ls[i].time \in Nat \union {NoTime}
  BY LineCount
<1>2. /\ v.evidence \in Seq(LogLine) /\ AllOpen(p, ls, v.evidence)
      /\ watching => \E i \in 1..(n - 1) : v.watched = <<ls[i]>> /\ Open(p, ls, i, n - 1)
  BY DEF AbsenceGood
<1>3. /\ w.watched = IF l.msg \in p.trigger /\ ~answered THEN <<l>>
                     ELSE IF expired \/ answered THEN << >>
                     ELSE v.watched
      /\ w.evidence = IF expired THEN v.evidence \o v.watched ELSE v.evidence
  BY DEF AbsenceStep
<1> HIDE DEF w, l
<1>4. ASSUME expired
      PROVE  v.evidence \o v.watched \in Seq(LogLine) /\ AllOpen(p, ls, v.evidence \o v.watched)
  <2>1. PICK i \in 1..(n - 1) : v.watched = <<ls[i]>> /\ Open(p, ls, i, n - 1)
    BY <1>2, <1>4
  <2>2. i \in 1..Len(ls) /\ v.watched[1] = ls[i] /\ i < n
    BY <1>1, <2>1
  <2>3. l.time # NoTime /\ ls[i].time # NoTime /\ l.time - ls[i].time > p.window
    BY <1>4, <2>2 DEF Over
  <2>4. Open(p, ls, i, Len(ls))
    <3> SUFFICES ASSUME NEW j \in (i + 1)..Len(ls), ls[j].msg \in p.absent,
                        ls[j].time \in 0..(ls[i].time + p.window)
                 PROVE  FALSE
      BY <2>1 DEF Open
    <3>1. ~(j \in (i + 1)..(n - 1))
      BY <2>1 DEF Open
    <3>2. j \in 1..Len(ls) /\ (j = n \/ n < j)
      BY <1>1, <2>2, <3>1
    <3>3. j = n \/ NotAfter(l, ls[j])
      BY <1>1, <3>2 DEF TimeOrdered, l
    <3>4. l.time <= ls[j].time
      BY <1>1, <3>2, <3>3 DEF NotAfter, NoTime, l
    <3>5. ls[j].time \in Nat /\ l.time \in Nat /\ ls[i].time \in Nat
          /\ ls[j].time <= ls[i].time + p.window
      BY <1>1, <2>2, <2>3, <3>2 DEF NoTime
    <3>6. QED
      BY <2>3, <3>4, <3>5
  <2>5. QED
    BY <1>1, <1>2, <2>1, <2>2, <2>4, OpenStays
<1>5. w.evidence \in Seq(LogLine) /\ AllOpen(p, ls, w.evidence)
  BY <1>2, <1>3, <1>4
<1>6. w.watched = << >> \/ \E i \in 1..n : w.watched = <<ls[i]>> /\ Open(p, ls, i, n)
  <2>1. CASE l.msg \in p.trigger /\ ~answered
    <3>1. n \in 1..n /\ Open(p, ls, n, n)
      BY <1>1, <2>1 DEF Open, l
    <3>2. w.watched = <<ls[n]>>
      BY <1>3, <2>1 DEF l
    <3>3. QED
      BY <3>1, <3>2
  <2>2. CASE ~(l.msg \in p.trigger /\ ~answered) /\ (expired \/ answered)
    BY <1>3, <2>2
  <2>3. CASE ~(l.msg \in p.trigger /\ ~answered) /\ ~(expired \/ answered) /\ watching
    <3>1. PICK i \in 1..(n - 1) : v.watched = <<ls[i]>> /\ Open(p, ls, i, n - 1)
      BY <1>2, <2>3
    <3>2. l.msg \notin p.absent
      BY <2>3
    <3>3. i \in 1..n /\ \A j \in (i + 1)..n : j \in (i + 1)..(n - 1) \/ j = n
      BY <1>1
    <3>4. Open(p, ls, i, n)
      BY <3>1, <3>2, <3>3 DEF Open, l
    <3>5. w.watched = <<ls[i]>>
      BY <1>3, <2>3, <3>1
    <3>6. QED
      BY <3>3, <3>4, <3>5
  <2>4. CASE ~(l.msg \in p.trigger /\ ~answered) /\ ~(expired \/ answered) /\ ~watching
    BY <1>3, <2>4
  <2>5. QED
    BY <2>1, <2>2, <2>3, <2>4
<1>7. AbsenceGood(g, w, n)
  BY <1>5, <1>6 DEF AbsenceGood
<1>8. QED
  BY <1>7 DEF w, l

LEMMA AbsenceOpen ==
    ASSUME NEW ls \in Seq(LogLine), TimeOrdered(ls), NEW p, p.window \in Nat
    PROVE  AllOpen(p, ls, AbsenceEvidence(p, ls))
<1> DEFINE g == [pattern |-> p, lines |-> ls]
           start == [watched |-> << >>, evidence |-> << >>]
           N == Len(ls)
<1>1. /\ N \in Nat /\ g.pattern = p /\ g.lines = ls
      /\ start.watched = << >> /\ start.evidence = << >>
  BY LineCount
<1> HIDE DEF g
<1>2. Absences!Defined(g, start, N)
  BY <1>1, Absences!LoopDefined
<1>3. PICK f : /\ f = [n \in 0..N |-> IF n = 0 THEN start ELSE AbsenceStep(p, f[n - 1], ls[n])]
               /\ AbsenceEvidence(p, ls) =
                    IF /\ f[N].watched # << >>
                       /\ \/ ls[N].time = NoTime
                          \/ f[N].watched[1].time = NoTime
                          \/ Over(p, f[N].watched[1], ls[N])
                    THEN f[N].evidence \o f[N].watched
                    ELSE f[N].evidence
  <2>1. \E f : f = [n \in 0..N |-> IF n = 0 THEN start ELSE AbsenceStep(p, f[n - 1], ls[n])]
    <3> HIDE DEF start, N
    <3>1. QED
      BY <1>1, <1>2 DEF Absences!Defined, AbsencesStep
  <2>2. QED
    BY <2>1 DEF AbsenceEvidence
<1> HIDE DEF start
<1>4. Absences!Run(g, start, N, f)
  <2>1. f[0] = start
    BY <1>1, <1>3
  <2>2. ASSUME NEW n \in 1..N PROVE f[n] = AbsencesStep(g, f[n - 1], n)
    <3>1. n \in 0..N /\ n # 0
      BY <1>1
    <3>2. QED
      BY <1>1, <1>3, <3>1 DEF AbsencesStep
  <2>3. QED
    BY <2>1, <2>2 DEF Absences!Run
<1>5. AbsenceGood(g, start, 0)
  BY <1>1, EmptySeq DEF AbsenceGood, AllOpen, ToSet
<1>6. Absences!Kept(g, N)
  BY <1>1, AbsenceStepKeeps DEF Absences!Kept, AbsencesStep
<1>7. N \in 0..N /\ \A n \in 0..N : AbsenceGood(g, f[n], n)
  <2> HIDE DEF N
  <2>1. QED
    BY <1>1, <1>4, <1>5, <1>6, Absences!LoopInvariant
<1>8. /\ f[N].evidence \in Seq(LogLine) /\ AllOpen(p, ls, f[N].evidence)
      /\ \/ f[N].watched = << >>
         \/ \E i \in 1..N : f[N].watched = <<ls[i]>> /\ Open(p, ls, i, N)
  BY <1>1, <1>7 DEF AbsenceGood
<1>9. CASE AbsenceEvidence(p, ls) = f[N].evidence
  BY <1>8, <1>9
<1>10. CASE f[N].watched # << >> /\ AbsenceEvidence(p, ls) = f[N].evidence \o f[N].watched
  <2>1. PICK i \in 1..N : f[N].watched = <<ls[i]>> /\ Open(p, ls, i, N)
    BY <1>8, <1>10
  <2>2. ls[i] \in LogLine
    BY LineCount
  <2>3. QED
    BY <1>8, <1>10, <2>1, <2>2, OpenStays
<1>11. QED
  BY <1>3, <1>9, <1>10

\* ABSENCE reports only triggers that were not answered in time.
THEOREM AbsencesAreSound == Spec => []AbsenceIsSound
<1>1. IInv => AbsenceIsSound
  <2> SUFFICES ASSUME IInv, stage = "matched", NEW e \in ToSet(entries),
                      e.pattern.type = "ABSENCE",
                      NEW l \in ToSet(results[e.pattern.name].evidence), l.time # NoTime
               PROVE  \E i \in DOMAIN e.lines : e.lines[i] = l /\ Unanswered(e.pattern, e.lines, i)
    BY DEF AbsenceIsSound
  <2>1. /\ e.lines \in Seq(LogLine) /\ TimeOrdered(e.lines) /\ e.pattern.window \in Nat
        /\ results[e.pattern.name].evidence = AbsenceEvidence(e.pattern, e.lines)
    BY EntryAt DEF Evidence, WellFormed
  <2>2. PICK i \in 1..Len(e.lines) : e.lines[i] = l /\ Open(e.pattern, e.lines, i, Len(e.lines))
    BY <2>1, AbsenceOpen DEF AllOpen
  <2>3. DOMAIN e.lines = 1..Len(e.lines)
    BY <2>1, LineCount
  <2>4. QED
    BY <2>2, <2>3 DEF Open, Unanswered
<1>2. QED
  BY <1>1, InvariantHolds, PTL

------------------------------------------------------------------------------
(* SEQUENCE.                                                               *)

\* The first m steps are found in turn in the first n lines.
Embeds(p, ls, m, n) ==
    \E at \in [1..m -> 1..n] :
        /\ \A k \in 1..m : ls[at[k]].msg \in p.steps[k]
        /\ \A k, j \in 1..m : k < j => at[k] < at[j]

\* A line more takes no embedding away.
LEMMA EmbedsLater ==
    ASSUME NEW p, NEW ls, NEW m \in Nat, NEW n \in Nat \ {0}, Embeds(p, ls, m, n - 1)
    PROVE  Embeds(p, ls, m, n)
<1>1. PICK at \in [1..m -> 1..(n - 1)] :
             /\ \A k \in 1..m : ls[at[k]].msg \in p.steps[k]
             /\ \A k, j \in 1..m : k < j => at[k] < at[j]
  BY DEF Embeds
<1>2. at \in [1..m -> 1..n]
  OBVIOUS
<1>3. QED
  BY <1>1, <1>2 DEF Embeds

\* A line of the next step extends an embedding.
LEMMA EmbedsNext ==
    ASSUME NEW p, NEW ls, NEW m \in Nat \ {0}, NEW n \in Nat \ {0},
           Embeds(p, ls, m - 1, n - 1), ls[n].msg \in p.steps[m]
    PROVE  Embeds(p, ls, m, n)
<1>1. PICK at \in [1..(m - 1) -> 1..(n - 1)] :
             /\ \A k \in 1..(m - 1) : ls[at[k]].msg \in p.steps[k]
             /\ \A k, j \in 1..(m - 1) : k < j => at[k] < at[j]
  BY DEF Embeds
<1> DEFINE to == [k \in 1..m |-> IF k = m THEN n ELSE at[k]]
<1>2. /\ to \in [1..m -> 1..n] /\ to[m] = n
      /\ \A k \in 1..m : k # m => k \in 1..(m - 1) /\ to[k] = at[k] /\ to[k] \in 1..(n - 1)
  OBVIOUS
<1> HIDE DEF to
<1>3. \A k \in 1..m : ls[to[k]].msg \in p.steps[k]
  BY <1>1, <1>2
<1>4. \A k, j \in 1..m : k < j => to[k] < to[j]
  <2> SUFFICES ASSUME NEW k \in 1..m, NEW j \in 1..m, k < j PROVE to[k] < to[j]
    OBVIOUS
  <2>1. k # m /\ k \in 1..(m - 1) /\ to[k] \in 1..(n - 1) /\ to[k] = at[k]
    BY <1>2
  <2>2. CASE j = m
    BY <1>2, <2>1, <2>2
  <2>3. CASE j # m
    BY <1>1, <1>2, <2>1, <2>3
  <2>4. QED
    BY <2>2, <2>3
<1>5. QED
  BY <1>2, <1>3, <1>4 DEF Embeds

\* Without its last step an embedding needs a line less.
LEMMA EmbedsBefore ==
    ASSUME NEW p, NEW ls, NEW m \in Nat \ {0}, NEW n \in Nat, Embeds(p, ls, m, n)
    PROVE  n # 0 /\ Embeds(p, ls, m - 1, n - 1)
<1>1. PICK at \in [1..m -> 1..n] :
             /\ \A k \in 1..m : ls[at[k]].msg \in p.steps[k]
             /\ \A k, j \in 1..m : k < j => at[k] < at[j]
  BY DEF Embeds
<1>2. m \in 1..m /\ at[m] \in 1..n /\ n # 0
  OBVIOUS
<1> DEFINE to == [k \in 1..(m - 1) |-> at[k]]
<1>3. \A k \in 1..(m - 1) : k \in 1..m /\ k < m /\ at[k] \in 1..n /\ at[k] < at[m]
  BY <1>1, <1>2
<1>4. \A k \in 1..(m - 1) : at[k] \in 1..(n - 1)
  BY <1>2, <1>3
<1>5. to \in [1..(m - 1) -> 1..(n - 1)] /\ \A k \in 1..(m - 1) : to[k] = at[k]
  BY <1>4
<1> HIDE DEF to
<1>6. /\ \A k \in 1..(m - 1) : ls[to[k]].msg \in p.steps[k]
      /\ \A k, j \in 1..(m - 1) : k < j => to[k] < to[j]
  BY <1>1, <1>3, <1>5
<1>7. QED
  BY <1>2, <1>5, <1>6 DEF Embeds

\* A last line that is not of the last step is not needed.
LEMMA EmbedsWithout ==
    ASSUME NEW p, NEW ls, NEW m \in Nat \ {0}, NEW n \in Nat \ {0}, Embeds(p, ls, m, n),
           ls[n].msg \notin p.steps[m]
    PROVE  Embeds(p, ls, m, n - 1)
<1>1. PICK at \in [1..m -> 1..n] :
             /\ \A k \in 1..m : ls[at[k]].msg \in p.steps[k]
             /\ \A k, j \in 1..m : k < j => at[k] < at[j]
  BY DEF Embeds
<1>2. m \in 1..m /\ at[m] \in 1..n /\ at[m] # n
  BY <1>1
<1>3. \A k \in 1..m : at[k] \in 1..n /\ (k = m \/ at[k] < at[m])
  BY <1>1, <1>2
<1>4. \A k \in 1..m : at[k] \in 1..(n - 1)
  BY <1>2, <1>3
<1>5. at \in [1..m -> 1..(n - 1)]
  BY <1>4
<1>6. QED
  BY <1>1, <1>5 DEF Embeds

\* The steps are a prefix of more steps.
LEMMA EmbedsFewer ==
    ASSUME NEW p, NEW ls, NEW m \in Nat, NEW j \in 0..m, NEW n \in Nat, Embeds(p, ls, m, n)
    PROVE  Embeds(p, ls, j, n)
<1>1. PICK at \in [1..m -> 1..n] :
             /\ \A k \in 1..m : ls[at[k]].msg \in p.steps[k]
             /\ \A k, i \in 1..m : k < i => at[k] < at[i]
  BY DEF Embeds
<1> DEFINE to == [k \in 1..j |-> at[k]]
<1>2. \A k \in 1..j : k \in 1..m
  OBVIOUS
<1>3. to \in [1..j -> 1..n] /\ \A k \in 1..j : to[k] = at[k]
  BY <1>2
<1> HIDE DEF to
<1>4. QED
  BY <1>1, <1>2, <1>3 DEF Embeds

SequencesStep(g, v, n) == SequenceStep(g.pattern, v, g.lines[n])
SequenceGood(g, v, n) ==
    LET p == g.pattern
        K == Len(p.steps)
    IN  /\ v = [step |-> v.step, current |-> v.current, used |-> v.used,
                evidence |-> v.evidence, barrier |-> v.barrier]
        /\ v.step \in 1..K
        /\ v.evidence \in Seq(LogLine) /\ v.current \in Seq(LogLine)
        /\ v.used = [i \in 1..K |-> v.used[i]]
        /\ v.evidence # << >> => Embeds(p, g.lines, K, n)
        /\ v.evidence = << >> =>
              /\ v.barrier = NoTime
              /\ \A i \in v.step..K : v.used[i] = {}
              /\ Embeds(p, g.lines, v.step - 1, n)
              /\ ~Embeds(p, g.lines, v.step, n)
Scans == INSTANCE Loops WITH Step <- SequencesStep, Good <- SequenceGood

\* Taking a step: evidence grows or the scan goes on behind it.
LEMMA SequenceStepKeeps ==
    ASSUME NEW ls \in Seq(LogLine), NEW p, NEW K \in Nat \ {0}, K = Len(p.steps),
           NEW g, g.pattern = p, g.lines = ls,
           NEW n \in 1..Len(ls), NEW v, SequenceGood(g, v, n - 1)
    PROVE  SequenceGood(g, SequenceStep(p, v, ls[n]), n)
<1> DEFINE l == ls[n]
           w == SequenceStep(p, v, l)
           behind == Append(v.current, l)
<1>1. /\ Len(ls) \in Nat /\ l \in LogLine /\ n \in Nat \ {0} /\ n - 1 \in Nat
  BY LineCount
<1>2. /\ v = [step |-> v.step, current |-> v.current, used |-> v.used,
              evidence |-> v.evidence, barrier |-> v.barrier]
      /\ v.step \in 1..K
      /\ v.evidence \in Seq(LogLine) /\ v.current \in Seq(LogLine)
      /\ v.used = [i \in 1..K |-> v.used[i]]
      /\ v.evidence # << >> => Embeds(p, ls, K, n - 1)
      /\ v.evidence = << >> => /\ v.barrier = NoTime
                               /\ \A i \in v.step..K : v.used[i] = {}
                               /\ Embeds(p, ls, v.step - 1, n - 1)
                               /\ ~Embeds(p, ls, v.step, n - 1)
  BY DEF SequenceGood
<1>3. /\ behind \in Seq(LogLine)
      /\ v.evidence \o behind \in Seq(LogLine) /\ v.evidence \o behind # << >>
  <2>1. behind \in Seq(LogLine) /\ Len(behind) = Len(v.current) + 1
    BY <1>1, <1>2, AppendProperties
  <2>2. /\ v.evidence \o behind \in Seq(LogLine)
        /\ Len(v.evidence \o behind) = Len(v.evidence) + Len(behind)
    BY <1>2, <2>1, ConcatProperties
  <2>3. Len(v.evidence) \in Nat /\ Len(v.current) \in Nat /\ Len(<< >>) = 0
    BY <1>2, LenProperties, EmptySeq
  <2> HIDE DEF behind
  <2>4. QED
    BY <2>1, <2>2, <2>3
<1> HIDE DEF l, behind
<1>4. CASE ~Taken(p, v, l)
  <2>1. w = v
    BY <1>4 DEF SequenceStep
  <2>2. ASSUME v.evidence # << >> PROVE Embeds(p, ls, K, n)
    BY <1>1, <1>2, <2>2, EmbedsLater
  <2>3. ASSUME v.evidence = << >>
        PROVE  Embeds(p, ls, v.step - 1, n) /\ ~Embeds(p, ls, v.step, n)
    <3>1. v.step \in 1..K /\ v.step \in v.step..K
      BY <1>2
    <3>2. l.msg \notin p.steps[v.step]
      BY <1>2, <1>4, <2>3, <3>1 DEF Taken
    <3>3. v.step \in Nat \ {0} /\ v.step - 1 \in Nat
      BY <3>1
    <3>4. QED
      BY <1>1, <1>2, <2>3, <3>2, <3>3, EmbedsLater, EmbedsWithout DEF l
  <2>4. SequenceGood(g, v, n)
    BY <1>2, <2>2, <2>3 DEF SequenceGood
  <2>5. QED
    BY <2>1, <2>4 DEF l
<1>5. CASE Taken(p, v, l) /\ v.step = K
  <2> DEFINE b == IF p.nonOverlapping THEN Stamp(l) ELSE v.barrier
  <2>1. w = SequenceStart(p, v.evidence \o behind, b)
    BY <1>5 DEF SequenceStep, behind, l
  <2> HIDE DEF b
  <2>2. /\ w.step = 1 /\ w.current = << >> /\ w.evidence = v.evidence \o behind
        /\ w.used = [i \in 1..K |-> {}]
    BY <2>1 DEF SequenceStart
  <2>3. Embeds(p, ls, K, n)
    <3>1. CASE v.evidence # << >>
      BY <1>1, <1>2, <3>1, EmbedsLater
    <3>2. CASE v.evidence = << >>
      <4>1. l.msg \in p.steps[K]
        BY <1>5 DEF Taken
      <4>2. QED
        BY <1>1, <1>2, <1>5, <3>2, <4>1, EmbedsNext DEF l
    <3>3. QED
      BY <3>1, <3>2
  <2>4. /\ w.used = [i \in 1..K |-> w.used[i]]
        /\ w = [step |-> w.step, current |-> w.current, used |-> w.used,
                evidence |-> w.evidence, barrier |-> w.barrier]
    BY <2>1, <2>2 DEF SequenceStart
  <2>5. 1 \in 1..K /\ << >> \in Seq(LogLine)
    BY EmptySeq
  <2> HIDE DEF w
  <2>6. SequenceGood(g, w, n)
    BY <1>3, <2>2, <2>3, <2>4, <2>5 DEF SequenceGood
  <2>7. QED
    BY <2>6 DEF w, l
<1>6. CASE Taken(p, v, l) /\ v.step # K
  <2> DEFINE u == [v.used EXCEPT ![v.step] = @ \union {FingerprintOf(l)}]
  <2>1. w = [v EXCEPT !.step = v.step + 1, !.current = behind, !.used = u]
    BY <1>6 DEF SequenceStep, behind, l
  <2>2. /\ u = [i \in 1..K |-> u[i]]
        /\ \A i \in 1..K : i # v.step => u[i] = v.used[i]
    BY <1>2
  <2> HIDE DEF u, w
  <2>3. w = [step |-> v.step + 1, current |-> behind, used |-> u,
             evidence |-> v.evidence, barrier |-> v.barrier]
    BY <1>2, <2>1
  <2>4. /\ w.step = v.step + 1 /\ w.current = behind /\ w.used = u
        /\ w.evidence = v.evidence /\ w.barrier = v.barrier
        /\ w = [step |-> w.step, current |-> w.current, used |-> w.used,
                evidence |-> w.evidence, barrier |-> w.barrier]
    BY <2>3
  <2>5. v.step \in Nat \ {0} /\ v.step \in 1..K /\ v.step + 1 \in 1..K
    BY <1>2, <1>6
  <2>6. ASSUME v.evidence # << >> PROVE Embeds(p, ls, K, n)
    BY <1>1, <1>2, <2>6, EmbedsLater
  <2>7. ASSUME v.evidence = << >>
        PROVE  /\ \A i \in (v.step + 1)..K : u[i] = {}
               /\ Embeds(p, ls, v.step, n) /\ ~Embeds(p, ls, v.step + 1, n)
    <3>1. \A i \in (v.step + 1)..K : i \in v.step..K /\ i \in 1..K /\ i # v.step
      BY <2>5
    <3>2. l.msg \in p.steps[v.step]
      BY <1>6 DEF Taken
    <3>3. Embeds(p, ls, v.step, n)
      BY <1>1, <1>2, <2>5, <2>7, <3>2, EmbedsNext DEF l
    <3>4. ~Embeds(p, ls, v.step + 1, n)
      <4>1. PICK m \in Nat \ {0} : m = v.step + 1 /\ v.step = m - 1
        BY <2>5
      <4>2. n \in Nat /\ ~Embeds(p, ls, m - 1, n - 1)
        BY <1>1, <1>2, <2>7, <4>1
      <4>3. ~Embeds(p, ls, m, n)
        BY <4>2, EmbedsBefore
      <4>4. QED
        BY <4>1, <4>3
    <3>5. QED
      BY <1>2, <2>2, <2>7, <3>1, <3>3, <3>4
  <2>8. w.step - 1 = v.step
    BY <2>4, <2>5
  <2>9. SequenceGood(g, w, n)
    BY <1>2, <1>3, <2>2, <2>4, <2>5, <2>6, <2>7, <2>8 DEF SequenceGood
  <2>10. QED
    BY <2>9 DEF w, l
<1>7. QED
  BY <1>4, <1>5, <1>6

\* SEQUENCE has evidence exactly when its steps are found in turn.
LEMMA SequenceMeans ==
    ASSUME NEW ls \in Seq(LogLine), NEW p, p.type = "SEQUENCE", WellFormed(p)
    PROVE  Evidence(p, ls) # << >> <=> Means(p, ls)
<1> DEFINE g == [pattern |-> p, lines |-> ls]
           start == SequenceStart(p, << >>, NoTime)
           N == Len(ls)
           K == Len(p.steps)
<1>1. /\ Evidence(p, ls) = SequenceEvidence(p, ls)
      /\ Means(p, ls) <=> p.steps # << >> /\ StepsInOrder(p, ls)
      /\ p.steps \in Seq(Regexes)
  BY DEF Evidence, Means, WellFormed
<1>2. CASE p.steps = << >>
  BY <1>1, <1>2 DEF SequenceEvidence
<1>3. CASE p.steps # << >>
  <2>1. /\ N \in Nat /\ g.pattern = p /\ g.lines = ls
        /\ DOMAIN ls = 1..N
    BY LineCount
  <2>2. K \in Nat \ {0} /\ DOMAIN p.steps = 1..K
    BY <1>1, <1>3, LenProperties, EmptySeq
  <2> HIDE DEF g
  <2>3. Scans!Defined(g, start, N)
    BY <2>1, Scans!LoopDefined
  <2>4. PICK f : /\ f = [n \in 0..N |->
                           IF n = 0 THEN start ELSE SequenceStep(p, f[n - 1], ls[n])]
                 /\ SequenceEvidence(p, ls) = f[N].evidence
    <3>1. \E f : f = [n \in 0..N |->
                        IF n = 0 THEN start ELSE SequenceStep(p, f[n - 1], ls[n])]
      <4> HIDE DEF start, N
      <4>1. QED
        BY <2>1, <2>3 DEF Scans!Defined, SequencesStep
    <3>2. QED
      BY <1>3, <3>1 DEF SequenceEvidence
  <2>5. SequenceGood(g, start, 0)
    <3>1. start = [step |-> 1, current |-> << >>, used |-> [i \in 1..K |-> {}],
                   evidence |-> << >>, barrier |-> NoTime]
      BY DEF SequenceStart
    <3> HIDE DEF start
    <3>2. /\ start.step = 1 /\ start.current = << >> /\ start.evidence = << >>
          /\ start.barrier = NoTime /\ start.used = [i \in 1..K |-> {}]
          /\ start = [step |-> start.step, current |-> start.current, used |-> start.used,
                      evidence |-> start.evidence, barrier |-> start.barrier]
      BY <3>1
    <3>3. start.used = [i \in 1..K |-> start.used[i]] /\ \A i \in 1..K : start.used[i] = {}
      BY <3>2
    <3>4. Embeds(p, ls, 0, 0)
      <4>1. [k \in 1..0 |-> 0] \in [1..0 -> 1..0]
        OBVIOUS
      <4>2. \A k \in 1..0 : FALSE
        OBVIOUS
      <4>3. QED
        BY <4>1, <4>2 DEF Embeds
    <3>5. ~Embeds(p, ls, 1, 0)
      <4>1. 1 \in Nat \ {0} /\ 0 \in Nat
        OBVIOUS
      <4>2. Embeds(p, ls, 1, 0) => 0 # 0
        BY ONLY <4>1, EmbedsBefore
      <4>3. QED
        BY <4>2
    <3>6. 1 \in 1..K /\ << >> \in Seq(LogLine)
      BY <2>2, EmptySeq
    <3>7. QED
      BY <2>1, <3>2, <3>3, <3>4, <3>5, <3>6 DEF SequenceGood
  <2> HIDE DEF start
  <2>6. Scans!Run(g, start, N, f)
    <3>1. f[0] = start
      BY <2>1, <2>4
    <3>2. ASSUME NEW n \in 1..N PROVE f[n] = SequencesStep(g, f[n - 1], n)
      <4>1. n \in 0..N /\ n # 0
        BY <2>1
      <4>2. QED
        BY <2>1, <2>4, <4>1 DEF SequencesStep
    <3>3. QED
      BY <3>1, <3>2 DEF Scans!Run
  <2>7. Scans!Kept(g, N)
    BY <2>1, <2>2, SequenceStepKeeps DEF Scans!Kept, SequencesStep
  <2>8. N \in 0..N /\ \A n \in 0..N : SequenceGood(g, f[n], n)
    <3> HIDE DEF N
    <3>1. QED
      BY <2>1, <2>5, <2>6, <2>7, Scans!LoopInvariant
  <2>9. StepsInOrder(p, ls) <=> Embeds(p, ls, K, N)
    BY <2>1, <2>2 DEF StepsInOrder, Embeds
  <2>10. SequenceGood(g, f[N], N)
    BY <2>8
  <2>11. /\ f[N].evidence # << >> => Embeds(p, ls, K, N)
         /\ f[N].evidence = << >> => f[N].step \in 1..K /\ ~Embeds(p, ls, f[N].step, N)
    BY <2>1, <2>10 DEF SequenceGood
  <2>12. ASSUME f[N].evidence = << >> PROVE ~Embeds(p, ls, K, N)
    <3>1. f[N].step \in 0..K
      BY <2>11, <2>12
    <3>2. QED
      BY <2>1, <2>2, <2>11, <2>12, <3>1, EmbedsFewer
  <2>13. QED
    BY <1>1, <1>3, <2>4, <2>9, <2>11, <2>12
<1>4. QED
  BY <1>2, <1>3

------------------------------------------------------------------------------
(* WINDOW.                                                                 *)

\* A set of naturals up to N that is not empty has a greatest element.
LEMMA Greatest ==
    ASSUME NEW N \in Nat, NEW S \in SUBSET (0..N), S # {}
    PROVE  \E m \in S : \A k \in S : k <= m
<1> DEFINE T == {k \in 0..N : N - k \in S}
<1>1. T \in SUBSET Nat /\ T # {}
  <2>1. PICK s \in S : TRUE
    OBVIOUS
  <2>2. s \in 0..N
    OBVIOUS
  <2>3. N - s \in T
    BY <2>2
  <2>4. QED
    BY <2>3
<1>2. PICK t \in T : \A k \in T : t <= k
  <2> HIDE DEF T
  <2>1. QED
    BY <1>1, Sums!Least
<1>3. \A k \in S : N - k \in T
  OBVIOUS
<1>4. \A k \in S : k <= N - t
  BY <1>2, <1>3
<1>5. QED
  BY <1>2, <1>4

\* Min is the least element of a set of naturals.
LEMMA MinIsLeast ==
    ASSUME NEW S \in SUBSET Nat, S # {}
    PROVE  Min(S) \in S /\ \A k \in S : Min(S) <= k
<1>1. \E m \in S : \A k \in S : m <= k
  BY Sums!Least
<1>2. QED
  BY <1>1 DEF Min

\* Lines with a time, in the order of time.
Timed(q) ==
    /\ q \in Seq(LogLine)
    /\ \A i \in 1..Len(q) : q[i].time \in Nat
    /\ \A i, j \in 1..Len(q) : i < j => q[i].time <= q[j].time

LeftsStep(g, v, r) == Min({k \in v..r : g.lines[r].time - g.lines[k].time <= g.window})
LeftGood(g, v, r) ==
    IF r = 0 THEN v = 1
    ELSE /\ v \in 1..r /\ g.lines[r].time - g.lines[v].time <= g.window
         /\ \A k \in 1..(v - 1) : g.lines[r].time - g.lines[k].time > g.window
Lefts == INSTANCE Loops WITH Step <- LeftsStep, Good <- LeftGood

\* The left pointer is at the first line that is within the window.
LEMMA LeftIs ==
    ASSUME NEW q, Timed(q), NEW window \in Nat, NEW r \in 1..Len(q)
    PROVE  LET v == LeftOf(q, window)[r]
           IN  /\ v \in 1..r /\ q[r].time - q[v].time <= window
               /\ \A k \in 1..(v - 1) : q[r].time - q[k].time > window
<1> DEFINE g == [lines |-> q, window |-> window]
           N == Len(q)
<1>1. /\ N \in Nat /\ g.lines = q /\ g.window = window
      /\ \A i \in 1..N : q[i].time \in Nat
      /\ \A i, j \in 1..N : i < j => q[i].time <= q[j].time
  BY LenProperties DEF Timed
<1> HIDE DEF g
<1>2. Lefts!Defined(g, 1, N)
  BY <1>1, Lefts!LoopDefined
<1>3. PICK f : /\ f = [n \in 0..N |-> IF n = 0 THEN 1
                          ELSE Min({k \in f[n - 1]..n : q[n].time - q[k].time <= window})]
               /\ LeftOf(q, window) = f
  <2>1. \E f : f = [n \in 0..N |-> IF n = 0 THEN 1
                          ELSE Min({k \in f[n - 1]..n : q[n].time - q[k].time <= window})]
    <3> HIDE DEF N
    <3>1. QED
      BY <1>1, <1>2 DEF Lefts!Defined, LeftsStep
  <2>2. QED
    BY <2>1 DEF LeftOf
<1>4. Lefts!Run(g, 1, N, f)
  <2>1. f[0] = 1
    BY <1>1, <1>3
  <2>2. ASSUME NEW n \in 1..N PROVE f[n] = LeftsStep(g, f[n - 1], n)
    <3>1. n \in 0..N /\ n # 0
      BY <1>1
    <3>2. QED
      BY <1>1, <1>3, <3>1 DEF LeftsStep
  <2>3. QED
    BY <2>1, <2>2 DEF Lefts!Run
<1>5. LeftGood(g, 1, 0)
  BY DEF LeftGood
<1>6. Lefts!Kept(g, N)
  <2> SUFFICES ASSUME NEW n \in 1..N, NEW v, LeftGood(g, v, n - 1)
               PROVE  LeftGood(g, LeftsStep(g, v, n), n)
    BY DEF Lefts!Kept
  <2> DEFINE S == {k \in v..n : q[n].time - q[k].time <= window}
             w == Min(S)
  <2>1. LeftsStep(g, v, n) = w
    BY <1>1 DEF LeftsStep
  <2>2. /\ v \in 1..n
        /\ \A k \in 1..(v - 1) : q[n].time - q[k].time > window
    <3>1. CASE n = 1
      BY <1>1, <3>1 DEF LeftGood
    <3>2. CASE n # 1
      <4>1. n - 1 \in 1..N /\ n \in 1..N /\ n - 1 < n /\ n - 1 # 0
        BY <1>1, <3>2
      <4>2. /\ v \in 1..(n - 1)
            /\ \A k \in 1..(v - 1) : q[n - 1].time - q[k].time > window
        BY <1>1, <4>1 DEF LeftGood
      <4>3. q[n - 1].time <= q[n].time /\ q[n - 1].time \in Nat /\ q[n].time \in Nat
        BY <1>1, <4>1
      <4>4. \A k \in 1..(v - 1) : k \in 1..N /\ q[k].time \in Nat
        BY <1>1, <4>1, <4>2
      <4>5. QED
        BY <4>1, <4>2, <4>3, <4>4
    <3>3. QED
      BY <3>1, <3>2
  <2>3. n \in S /\ S \in SUBSET Nat
    BY <1>1, <2>2
  <2> HIDE DEF S
  <2>4. w \in S /\ \A k \in S : w <= k
    BY <2>3, MinIsLeast
  <2>5. w \in v..n /\ q[n].time - q[w].time <= window
    BY <2>4 DEF S
  <2> HIDE DEF w
  <2>6. \A k \in 1..(w - 1) : q[n].time - q[k].time > window
    <3> SUFFICES ASSUME NEW k \in 1..(w - 1) PROVE q[n].time - q[k].time > window
      OBVIOUS
    <3>1. CASE k \in 1..(v - 1)
      BY <2>2, <3>1
    <3>2. CASE k \notin 1..(v - 1)
      <4>1. k \in v..n /\ k < w /\ k \in 1..N
        BY <1>1, <2>2, <2>5, <3>2
      <4>2. ~(q[n].time - q[k].time <= window)
        BY <2>4, <2>5, <4>1 DEF S
      <4>3. QED
        BY <1>1, <4>1, <4>2
    <3>3. QED
      BY <3>1, <3>2
  <2>7. w \in 1..n /\ n # 0
    BY <2>2, <2>5
  <2>8. QED
    BY <1>1, <2>1, <2>5, <2>6, <2>7 DEF LeftGood
<1>7. \A n \in 0..N : LeftGood(g, f[n], n)
  <2> HIDE DEF N
  <2>1. QED
    BY <1>1, <1>4, <1>5, <1>6, Lefts!LoopInvariant
<1>8. r \in 0..N /\ r # 0
  BY <1>1
<1>9. LeftGood(g, f[r], r)
  BY <1>7, <1>8
<1>10. QED
  BY <1>1, <1>3, <1>8, <1>9 DEF LeftGood

\* A choice of a choice is a choice.
LEMMA LeadsNest ==
    ASSUME NEW s, NEW h, NEW q, NEW H, NEW T \in SUBSET (1..Len(h)), NEW J \in SUBSET H,
           NEW a, NEW b, Leads(a, h, s, H), Leads(b, q, h, T),
           \A n \in 1..Len(h) : a[n] \in J <=> n \in T
    PROVE  Leads([n \in 1..Len(q) |-> a[b[n]]], q, s, J)
<1> DEFINE c == [n \in 1..Len(q) |-> a[b[n]]]
<1>1. /\ \A n \in 1..Len(q) : b[n] \in T /\ b[n] \in 1..Len(h) /\ q[n] = h[b[n]]
      /\ \A m, n \in 1..Len(q) : m < n => b[m] < b[n]
      /\ \A i \in T : \E n \in 1..Len(q) : b[n] = i
  BY DEF Leads
<1>2. /\ \A n \in 1..Len(h) : a[n] \in H /\ h[n] = s[a[n]]
      /\ \A m, n \in 1..Len(h) : m < n => a[m] < a[n]
      /\ \A i \in H : \E n \in 1..Len(h) : a[n] = i
  BY DEF Leads
<1>3. \A n \in 1..Len(q) : c[n] = a[b[n]]
  OBVIOUS
<1>4. c \in [1..Len(q) -> J]
  BY <1>1
<1> HIDE DEF c
<1>5. \A n \in 1..Len(q) : q[n] = s[c[n]]
  BY <1>1, <1>2, <1>3
<1>6. \A m, n \in 1..Len(q) : m < n => c[m] < c[n]
  BY <1>1, <1>2, <1>3
<1>7. \A i \in J : \E n \in 1..Len(q) : c[n] = i
  BY <1>1, <1>2, <1>3
<1>8. Leads(c, q, s, J)
  BY <1>4, <1>5, <1>6, <1>7 DEF Leads
<1>9. QED
  BY <1>8 DEF c

\* The places of the hits that have a time, and the lines of these places.
TimedAt(regex, ls) == {i \in 1..Len(ls) : ls[i].msg \in regex /\ ls[i].time # NoTime}
TimedHits(regex, ls) ==
    LET hits == Hits(regex, ls)
    IN  Chosen(hits, {i \in DOMAIN hits : hits[i].time # NoTime})

LEMMA TimedHitsAre ==
    ASSUME NEW ls \in Seq(LogLine), TimeOrdered(ls), NEW regex
    PROVE  /\ Timed(TimedHits(regex, ls))
           /\ \E at : Leads(at, TimedHits(regex, ls), ls, TimedAt(regex, ls))
<1> DEFINE h == Hits(regex, ls)
           H == {i \in 1..Len(ls) : ls[i].msg \in regex}
           T == {i \in 1..Len(h) : h[i].time # NoTime}
           J == TimedAt(regex, ls)
           q == TimedHits(regex, ls)
           a == CHOOSE at : Leads(at, h, ls, H)
<1>1. h \in Seq(LogLine) /\ Leads(a, h, ls, H)
  BY HitsAre
<1> HIDE DEF h, a
<1>2. DOMAIN h = 1..Len(h)
  BY <1>1, LineCount
<1>3. q = Chosen(h, T)
  BY <1>2 DEF TimedHits, h
<1>4. T \in SUBSET (1..Len(h)) /\ J \in SUBSET H
  BY DEF TimedAt
<1>5. \A n \in 1..Len(h) : a[n] \in J <=> n \in T
  <2> SUFFICES ASSUME NEW n \in 1..Len(h) PROVE a[n] \in J <=> n \in T
    OBVIOUS
  <2>1. a[n] \in H /\ h[n] = ls[a[n]]
    BY <1>1 DEF Leads
  <2>2. QED
    BY <2>1 DEF TimedAt
<1> HIDE DEF q, T, J, H
<1>6. q \in Seq(LogLine) /\ \E b : Leads(b, q, h, T)
  BY <1>1, <1>3, <1>4, ChosenLeads
<1>7. PICK b : Leads(b, q, h, T)
  BY <1>6
<1>8. Leads([n \in 1..Len(q) |-> a[b[n]]], q, ls, J)
  BY <1>1, <1>4, <1>5, <1>7, LeadsNest
<1>9. PICK at : Leads(at, q, ls, J)
  BY <1>8
<1>10. \A n \in 1..Len(q) : at[n] \in J /\ q[n] = ls[at[n]]
  BY <1>9 DEF Leads
<1>11. \A n \in 1..Len(q) : at[n] \in 1..Len(ls) /\ q[n].time \in Nat
  <2> SUFFICES ASSUME NEW n \in 1..Len(q) PROVE at[n] \in 1..Len(ls) /\ q[n].time \in Nat
    OBVIOUS
  <2>1. at[n] \in 1..Len(ls) /\ ls[at[n]].time # NoTime
    BY <1>10 DEF J, TimedAt
  <2>2. QED
    BY <1>10, <2>1, LineCount
<1>12. \A m, n \in 1..Len(q) : m < n => q[m].time <= q[n].time
  <2> SUFFICES ASSUME NEW m \in 1..Len(q), NEW n \in 1..Len(q), m < n
               PROVE  q[m].time <= q[n].time
    OBVIOUS
  <2>1. at[m] < at[n]
    BY <1>9 DEF Leads
  <2>2. NotAfter(q[m], q[n])
    BY <1>10, <1>11, <2>1, LineCount DEF TimeOrdered
  <2>3. q[n].time # NoTime
    BY <1>11 DEF NoTime
  <2>4. QED
    BY <2>2, <2>3 DEF NotAfter
<1>13. Timed(q)
  BY <1>6, <1>11, <1>12 DEF Timed
<1>14. QED
  BY <1>9, <1>13 DEF q, J

\* The places l to r lead to that many places of W, and W has no more than
\* the places that lead to it.
LEMMA SpanCounts ==
    ASSUME NEW N \in Nat, NEW M \in Nat, NEW at \in [1..N -> 1..M],
           \A m, n \in 1..N : m < n => at[m] < at[n],
           NEW W \in SUBSET (1..M), NEW l \in 1..N, NEW r \in l..N,
           \A k \in l..r : at[k] \in W
    PROVE  r - l + 1 <= Cardinality(W)
<1> DEFINE f == [k \in l..r |-> at[k]]
<1>1. IsFiniteSet(W) /\ Cardinality(W) \in Nat
  BY IntervalFinite
<1>2. f \in [l..r -> W]
  OBVIOUS
<1>3. \A a, b \in l..r : f[a] = f[b] => a = b
  <2> SUFFICES ASSUME NEW a \in l..r, NEW b \in l..r, f[a] = f[b], a # b PROVE FALSE
    OBVIOUS
  <2>1. a \in 1..N /\ b \in 1..N /\ at[a] = at[b]
    OBVIOUS
  <2>2. at[a] \in Int /\ at[b] \in Int /\ (a < b \/ b < a)
    BY <2>1
  <2>3. QED
    BY <2>1, <2>2
<1> HIDE DEF f
<1>4. f \in Injection(l..r, W)
  BY <1>2, <1>3, Fun_IsInj
<1>5. Cardinality(l..r) <= Cardinality(W)
  BY <1>1, <1>4, FS_Injection
<1>6. Cardinality(l..r) = r - l + 1
  BY FS_Interval
<1>7. QED
  BY <1>5, <1>6

LEMMA SpanBounds ==
    ASSUME NEW N \in Nat, NEW at, NEW W, NEW l \in 1..N, NEW r \in l..N,
           \A i \in W : \E k \in l..r : at[k] = i
    PROVE  Cardinality(W) <= r - l + 1
<1> DEFINE I == {k \in l..r : at[k] \in W}
           f == [k \in I |-> at[k]]
<1>1. IsFiniteSet(l..r) /\ Cardinality(l..r) = r - l + 1
  BY FS_Interval
<1>2. I \in SUBSET (l..r) /\ f \in [I -> W]
  OBVIOUS
<1>3. \A i \in W : \E k \in I : f[k] = i
  OBVIOUS
<1> HIDE DEF I, f
<1>4. IsFiniteSet(I) /\ Cardinality(I) <= r - l + 1
  BY <1>1, <1>2, FS_Subset
<1>5. f \in Surjection(I, W)
  BY <1>2, <1>3, Fun_IsSurj
<1>6. IsFiniteSet(W) /\ Cardinality(W) <= Cardinality(I)
  BY <1>4, <1>5, FS_Surjection
<1>7. Cardinality(I) \in Nat /\ Cardinality(W) \in Nat
  BY <1>4, <1>6, FS_CardinalityType
<1>8. QED
  BY <1>4, <1>6, <1>7

\* The hits within the window that ends with timed hit r.
Size(q, window, r) == r - LeftOf(q, window)[r] + 1

\* So many lines in one window are a run of that many timed hits.
LEMMA RunIsWindow ==
    ASSUME NEW ls \in Seq(LogLine), TimeOrdered(ls), NEW p, p.window \in Nat,
           p.threshold \in Nat \ {0}
    PROVE  LET q == TimedHits(p.regex, ls)
           IN  (\E r \in 1..Len(q) : Size(q, p.window, r) >= p.threshold) <=> InWindow(p, ls)
<1> DEFINE q == TimedHits(p.regex, ls)
           J == TimedAt(p.regex, ls)
           N == Len(q)
           M == Len(ls)
           left == LeftOf(q, p.window)
           W(f) == {i \in DOMAIN ls :
                       /\ ls[i].msg \in p.regex
                       /\ ls[i].time # NoTime
                       /\ ls[i].time \in ls[f].time..(ls[f].time + p.window)}
<1>1. Timed(q) /\ \E at : Leads(at, q, ls, J)
  BY TimedHitsAre
<1>2. PICK at : Leads(at, q, ls, J)
  BY <1>1
<1>3. M \in Nat /\ DOMAIN ls = 1..M
  BY LineCount
<1>4. J = {i \in 1..M : ls[i].msg \in p.regex /\ ls[i].time # NoTime}
  BY DEF TimedAt
<1> HIDE DEF q, J, left
<1>5. /\ N \in Nat
      /\ \A i \in 1..N : q[i].time \in Nat
      /\ \A i, j \in 1..N : i < j => q[i].time <= q[j].time
  BY <1>1, LenProperties DEF Timed
<1>6. /\ \A n \in 1..N : at[n] \in J /\ q[n] = ls[at[n]]
      /\ \A m, n \in 1..N : m < n => at[m] < at[n]
      /\ \A i \in J : \E n \in 1..N : at[n] = i
      /\ at \in [1..N -> 1..M]
  BY <1>2, <1>4 DEF Leads
<1>7. \A r \in 1..N : /\ left[r] \in 1..r /\ q[r].time - q[left[r]].time <= p.window
                      /\ \A k \in 1..(left[r] - 1) : q[r].time - q[k].time > p.window
  BY <1>1, LeftIs DEF left
<1>8. \A r \in 1..N : Size(q, p.window, r) = r - left[r] + 1
  BY DEF Size, left
<1>9. InWindow(p, ls) <=> \E f \in 1..M : ls[f].time # NoTime /\ Cardinality(W(f)) >= p.threshold
  BY <1>3 DEF InWindow
<1>10. \A f \in 1..M : W(f) \in SUBSET (1..M) /\ Cardinality(W(f)) \in Nat
  <2> SUFFICES ASSUME NEW f \in 1..M PROVE W(f) \in SUBSET (1..M) /\ Cardinality(W(f)) \in Nat
    OBVIOUS
  <2>1. W(f) \in SUBSET (1..M)
    BY <1>3
  <2> HIDE DEF W
  <2>2. QED
    BY <1>3, <2>1, IntervalFinite
<1>11. ASSUME NEW r \in 1..N, r - left[r] + 1 >= p.threshold PROVE InWindow(p, ls)
  <2> DEFINE l == left[r]
             f == at[l]
  <2>1. l \in 1..N /\ r \in l..N /\ f \in 1..M /\ q[r].time - q[l].time <= p.window
    BY <1>5, <1>6, <1>7
  <2> HIDE DEF l
  <2>2. ls[f].time = q[l].time /\ ls[f].time \in Nat
    BY <1>5, <1>6, <2>1
  <2> HIDE DEF f
  <2>3. ASSUME NEW k \in l..r PROVE at[k] \in W(f)
    <3>1. k \in 1..N /\ at[k] \in J /\ ls[at[k]] = q[k]
      BY <1>6, <2>1
    <3>2. q[l].time <= q[k].time /\ q[k].time <= q[r].time
      <4>1. (k = l \/ l < k) /\ (k = r \/ k < r)
        BY <2>1
      <4>2. QED
        BY <1>5, <2>1, <3>1, <4>1
    <3>3. q[k].time \in q[l].time..(q[l].time + p.window)
      BY <1>5, <2>1, <3>1, <3>2
    <3>4. at[k] \in 1..M /\ ls[at[k]].msg \in p.regex /\ ls[at[k]].time # NoTime
      BY <1>4, <3>1
    <3>5. QED
      BY <1>3, <2>2, <3>1, <3>3, <3>4
  <2>4. W(f) \in SUBSET (1..M) /\ Cardinality(W(f)) \in Nat
    BY <1>10, <2>1
  <2>5. r - l + 1 <= Cardinality(W(f))
    <3> HIDE DEF W, N, M
    <3>1. QED
      BY <1>3, <1>5, <1>6, <2>1, <2>3, <2>4, SpanCounts
  <2>6. ls[f].time # NoTime /\ Cardinality(W(f)) >= p.threshold
    <3> HIDE DEF W
    <3>1. QED
      BY <1>11, <2>1, <2>2, <2>4, <2>5 DEF l, NoTime
  <2>7. QED
    BY <1>9, <2>1, <2>6
<1>12. ASSUME InWindow(p, ls) PROVE \E r \in 1..N : r - left[r] + 1 >= p.threshold
  <2>1. PICK f \in 1..M : ls[f].time # NoTime /\ Cardinality(W(f)) >= p.threshold
    BY <1>9, <1>12
  <2> DEFINE V == W(f)
             I == {k \in 1..N : at[k] \in V}
  <2>2. \A i \in V : i \in J /\ ls[i].time \in ls[f].time..(ls[f].time + p.window)
    BY <1>3, <1>4
  <2>3. V # {} /\ Cardinality(V) \in Nat
    <3>1. \A S : S = {} => Cardinality(S) = 0
      BY FS_EmptySet
    <3>2. Cardinality(V) \in Nat
      BY <1>10
    <3> HIDE DEF V
    <3>3. Cardinality(V) >= p.threshold
      BY <2>1 DEF V
    <3>4. Cardinality(V) # 0
      BY <3>2, <3>3
    <3>5. QED
      BY <3>1, <3>2, <3>4
  <2>4. \A i \in V : \E k \in I : at[k] = i
    BY <1>6, <2>2
  <2>5. I \in SUBSET (0..N) /\ I # {}
    BY <2>3, <2>4
  <2> HIDE DEF I, V
  <2>6. PICK r \in I : \A k \in I : k <= r
    BY <1>5, <2>5, Greatest
  <2>7. r \in 1..N /\ at[r] \in V
    BY DEF I
  <2>8. ASSUME NEW k \in I PROVE k \in left[r]..r
    <3>1. k \in 1..N /\ at[k] \in V /\ k <= r
      BY <2>6 DEF I
    <3>2. /\ q[k].time \in ls[f].time..(ls[f].time + p.window)
          /\ q[r].time \in ls[f].time..(ls[f].time + p.window)
      BY <1>6, <2>2, <2>7, <3>1
    <3>3. ls[f].time \in Nat
      BY <2>1, LineCount
    <3>4. q[r].time - q[k].time <= p.window /\ q[r].time \in Nat /\ q[k].time \in Nat
      BY <1>5, <2>7, <3>1, <3>2, <3>3
    <3>5. ~(k \in 1..(left[r] - 1))
      BY <1>7, <2>7, <3>4
    <3>6. QED
      BY <1>7, <2>7, <3>1, <3>5
  <2>9. left[r] \in 1..N /\ r \in left[r]..N
    BY <1>5, <1>7, <2>7
  <2>10. \A i \in V : \E k \in left[r]..r : at[k] = i
    BY <2>4, <2>8
  <2>11. Cardinality(V) <= r - left[r] + 1
    <3> HIDE DEF N
    <3>1. QED
      BY <1>5, <2>9, <2>10, SpanBounds
  <2>12. Cardinality(V) >= p.threshold
    BY <2>1 DEF V
  <2>13. QED
    BY <2>3, <2>7, <2>9, <2>11, <2>12
<1>13. QED
  BY <1>8, <1>11, <1>12 DEF q

\* A part of a sequence that has a first place is not empty.
LEMMA PartNotEmpty ==
    ASSUME NEW q \in Seq(LogLine), NEW l \in 1..Len(q), NEW r \in l..Len(q)
    PROVE  SubSeq(q, l, r) # << >>
<1>1. \A i \in l..r : q[i] \in LogLine
  BY LineCount
<1>2. Len(SubSeq(q, l, r)) = r - l + 1
  BY <1>1, SubSeqProperties, LenProperties
<1>3. Len(<< >>) = 0
  BY EmptySeq
<1>4. r - l + 1 # 0
  BY LenProperties
<1> DEFINE s == SubSeq(q, l, r)
<1> HIDE DEF s
<1>5. Len(s) = r - l + 1
  BY <1>2 DEF s
<1>6. s # << >>
  BY <1>3, <1>4, <1>5
<1>7. QED
  BY <1>6 DEF s

\* WINDOW has evidence exactly when there are so many hits within a window,
\* or so many hits when none of them has a time.
LEMMA WindowEvidenceMeans ==
    ASSUME NEW ls \in Seq(LogLine), TimeOrdered(ls), NEW p, p.type = "WINDOW",
           WellFormed(p), ~p.unique, p.threshold > 0
    PROVE  Evidence(p, ls) # << >> <=> Means(p, ls)
<1> DEFINE h == Hits(p.regex, ls)
           q == TimedHits(p.regex, ls)
           J == TimedAt(p.regex, ls)
           left == LeftOf(q, p.window)
           N == Len(q)
           long == {r \in DOMAIN q : r - left[r] + 1 >= p.threshold}
           longest == {r \in long : \A x \in long : x - left[x] + 1 <= r - left[r] + 1}
           best == Min(longest)
<1>1. p.window \in Nat /\ p.threshold \in Nat \ {0}
  BY DEF WellFormed
<1>2. /\ Evidence(p, ls) = WindowEvidence(p, ls)
      /\ Means(p, ls) <=> IF Untimed(p, ls) THEN Len(h) >= p.threshold ELSE InWindow(p, ls)
  BY DEF Evidence, Means
<1>3. WindowEvidence(p, ls) =
        IF q = << >>
        THEN IF Len(h) >= p.threshold THEN SubSeq(h, 1, p.threshold) ELSE << >>
        ELSE IF long = {} THEN << >> ELSE SubSeq(q, left[best], best)
  <2>1. Slice(h, p.threshold) = SubSeq(h, 1, p.threshold)
    BY <1>1 DEF Slice
  <2>2. QED
    BY <2>1 DEF WindowEvidence, TimedHits
<1>4. Timed(q) /\ \E at : Leads(at, q, ls, J)
  BY TimedHitsAre
<1>5. PICK at : Leads(at, q, ls, J)
  BY <1>4
<1>6. h \in Seq(LogLine)
  BY HitsAre
<1>7. (\E r \in 1..N : Size(q, p.window, r) >= p.threshold) <=> InWindow(p, ls)
  BY <1>1, RunIsWindow
<1>8. \A r \in 1..N : left[r] \in 1..r /\ Size(q, p.window, r) = r - left[r] + 1
  BY <1>1, <1>4, LeftIs DEF Size
<1> HIDE DEF h, q, left
<1>9. q \in Seq(LogLine) /\ N \in Nat /\ DOMAIN q = 1..N
  BY <1>4, LineCount DEF Timed
<1>10. q = << >> <=> Untimed(p, ls)
  <2>1. q = << >> <=> N = 0
    BY <1>9, EmptySeq, LenProperties
  <2>2. N = 0 <=> J = {}
    <3>1. ASSUME N = 0 PROVE J = {}
      BY <1>5, <3>1 DEF Leads
    <3>2. ASSUME N # 0 PROVE J # {}
      <4>1. 1 \in 1..N
        BY <1>9, <3>2
      <4>2. at[1] \in J
        BY <1>5, <4>1 DEF Leads
      <4>3. QED
        BY <4>2
    <3>3. QED
      BY <3>1, <3>2
  <2>3. J = {} <=> Untimed(p, ls)
    BY LineCount DEF TimedAt, Untimed
  <2>4. QED
    BY <2>1, <2>2, <2>3
<1>11. CASE Untimed(p, ls)
  <2>1. WindowEvidence(p, ls) =
          IF Len(h) >= p.threshold THEN SubSeq(h, 1, p.threshold) ELSE << >>
    BY <1>3, <1>10, <1>11
  <2>2. Len(h) >= p.threshold => SubSeq(h, 1, p.threshold) # << >>
    <3> SUFFICES ASSUME Len(h) >= p.threshold PROVE SubSeq(h, 1, p.threshold) # << >>
      OBVIOUS
    <3>1. 1 \in 1..Len(h) /\ p.threshold \in 1..Len(h)
      BY <1>1, <1>6, LenProperties
    <3>2. QED
      BY <1>6, <3>1, PartNotEmpty
  <2>3. QED
    BY <1>2, <1>11, <2>1, <2>2
<1>12. CASE ~Untimed(p, ls)
  <2>1. WindowEvidence(p, ls) = IF long = {} THEN << >> ELSE SubSeq(q, left[best], best)
    BY <1>3, <1>10, <1>12
  <2>2. long # {} <=> InWindow(p, ls)
    BY <1>7, <1>8, <1>9
  <2>3. ASSUME long # {} PROVE SubSeq(q, left[best], best) # << >>
    <3> DEFINE Sizes == {s \in 0..N : \E r \in long : r - left[r] + 1 = s}
    <3>1. \A r \in long : r \in 1..N /\ r - left[r] + 1 \in Sizes
      BY <1>8, <1>9
    <3>2. Sizes \in SUBSET (0..N) /\ Sizes # {}
      BY <2>3, <3>1
    <3>3. \A s \in Sizes : \E r \in long : r - left[r] + 1 = s
      OBVIOUS
    <3> HIDE DEF Sizes, long
    <3>4. PICK s \in Sizes : \A t \in Sizes : t <= s
      BY <1>9, <3>2, Greatest
    <3>5. PICK r \in long : r - left[r] + 1 = s
      BY <3>3
    <3>6. r \in longest
      BY <3>1, <3>4, <3>5
    <3>7. longest \in SUBSET Nat /\ \A x \in longest : x \in 1..N
      BY <3>1
    <3> HIDE DEF longest
    <3>8. best \in longest
      BY <3>6, <3>7, MinIsLeast
    <3> HIDE DEF best
    <3>9. best \in 1..N /\ left[best] \in 1..N /\ best \in left[best]..N
      BY <1>8, <1>9, <3>7, <3>8
    <3>10. QED
      BY <1>9, <3>9, PartNotEmpty
  <2> HIDE DEF long, best
  <2>4. QED
    BY <1>2, <1>12, <2>1, <2>2, <2>3
<1>13. QED
  BY <1>11, <1>12

\* WINDOW matches exactly when there are so many, and always when none is
\* asked for.
LEMMA WindowMeans ==
    ASSUME NEW ls \in Seq(LogLine), TimeOrdered(ls), NEW p, p.type = "WINDOW",
           WellFormed(p), ~p.unique
    PROVE  Matched(p, Evidence(p, ls)) <=> Means(p, ls)
<1>1. p.threshold \in Int
  BY DEF WellFormed
<1>2. CASE p.threshold > 0
  <2>1. Evidence(p, ls) # << >> <=> Means(p, ls)
    BY <1>2, WindowEvidenceMeans
  <2>2. QED
    BY <1>1, <1>2, <2>1 DEF Matched
<1>3. CASE p.threshold <= 0
  <2>1. Matched(p, Evidence(p, ls))
    BY <1>3 DEF Matched
  <2>2. Means(p, ls) <=>
          IF Untimed(p, ls) THEN Len(Hits(p.regex, ls)) >= p.threshold ELSE InWindow(p, ls)
    BY DEF Means
  <2>3. Len(Hits(p.regex, ls)) \in Nat
    BY HitsAre, LineCount
  <2>4. ASSUME ~Untimed(p, ls) PROVE InWindow(p, ls)
    <3>1. PICK i \in DOMAIN ls : ls[i].time # NoTime
      BY <2>4 DEF Untimed
    <3> DEFINE W == {k \in DOMAIN ls :
                       /\ ls[k].msg \in p.regex
                       /\ ls[k].time # NoTime
                       /\ ls[k].time \in ls[i].time..(ls[i].time + p.window)}
    <3>2. IsFiniteSet(DOMAIN ls)
      <4>1. DOMAIN ls = 1..Len(ls) /\ Len(ls) \in Int /\ 1 \in Int
        BY LineCount
      <4>2. QED
        BY <4>1, FS_Interval
    <3>3. W \subseteq DOMAIN ls
      OBVIOUS
    <3>4. Cardinality(W) \in Nat
      BY <3>2, <3>3, FS_Subset, FS_CardinalityType
    <3>5. Cardinality(W) >= p.threshold
      BY <1>1, <1>3, <3>4
    <3>6. QED
      BY <3>1, <3>5 DEF InWindow
  <2>5. QED
    BY <1>1, <1>3, <2>1, <2>2, <2>3, <2>4
<1>4. QED
  BY <1>1, <1>2, <1>3

------------------------------------------------------------------------------
(* What the matches mean.                                                  *)

LEMMA MatchMeans ==
    ASSUME IInv, stage = "matched", NEW e \in ToSet(entries), Simple(e.pattern)
    PROVE  /\ e.pattern.name \in DOMAIN results
           /\ results[e.pattern.name].matched <=> Means(e.pattern, e.lines)
<1>1. /\ WellFormed(e.pattern) /\ e.lines \in Seq(LogLine) /\ TimeOrdered(e.lines)
      /\ e.pattern.name \in DOMAIN results
      /\ results[e.pattern.name].matched = Matched(e.pattern, Evidence(e.pattern, e.lines))
  BY EntryAt DEF Simple
<1>2. CASE e.pattern.type = "PRESENCE"
  BY <1>1, <1>2, PresenceMeans DEF Matched
<1>3. CASE e.pattern.type = "SEQUENCE"
  BY <1>1, <1>3, SequenceMeans DEF Matched
<1>4. CASE e.pattern.type = "WINDOW"
  BY <1>1, <1>4, WindowMeans DEF Simple
<1>5. e.pattern.type \in {"PRESENCE", "SEQUENCE", "WINDOW"}
  BY <1>1 DEF WellFormed, Simple
<1>6. QED
  BY <1>2, <1>3, <1>4, <1>5

\* A simple pattern matches exactly when its lines are what its type means:
\* neither the de-duplication of events or steps nor the barrier between
\* sequences makes a match appear or go.
THEOREM MatchesAreMeant == Spec => []MatchedIsMeant
<1>1. IInv => MatchedIsMeant
  BY MatchMeans DEF MatchedIsMeant
<1>2. QED
  BY <1>1, InvariantHolds, PTL

\* The entry of a simple pattern is found by its name.
LEMMA EntryOfName ==
    ASSUME IInv, stage = "matched", NEW c,
           \E f \in ToSet(entries) : f.pattern.name = c /\ Simple(f.pattern)
    PROVE  /\ EntryOf(c) \in ToSet(entries) /\ Simple(EntryOf(c).pattern)
           /\ c \in DOMAIN results
           /\ results[c].matched <=> Means(EntryOf(c).pattern, EntryOf(c).lines)
<1>1. PICK f \in ToSet(entries) : f.pattern.name = c /\ Simple(f.pattern)
  OBVIOUS
<1>2. EntryOf(c) \in ToSet(entries) /\ EntryOf(c).pattern.name = c
  BY <1>1 DEF EntryOf
<1>3. EntryOf(c) = f
  BY <1>1, <1>2 DEF IInv, GoodEntries, ToSet
<1>4. QED
  BY <1>1, <1>3, MatchMeans

\* A composite pattern says of its simple components what it should, when
\* all of them had lines to be looked for in.
THEOREM CompositesAreMeant == Spec => []CompositeIsMeant
<1>1. IInv => CompositeIsMeant
  <2> SUFFICES ASSUME IInv, stage = "matched", NEW e \in ToSet(entries),
                      e.pattern.type = "COMPOSITE", e.pattern.components # << >>,
                      \A c \in ToSet(e.pattern.components) :
                         \E f \in ToSet(entries) : f.pattern.name = c /\ Simple(f.pattern)
               PROVE  results[e.pattern.name].matched <=>
                        CASE e.pattern.operator = "AND" ->
                               \A c \in ToSet(e.pattern.components) :
                                  Means(EntryOf(c).pattern, EntryOf(c).lines)
                          [] e.pattern.operator = "OR"  ->
                               \E c \in ToSet(e.pattern.components) :
                                  Means(EntryOf(c).pattern, EntryOf(c).lines)
                          [] e.pattern.operator = "NOT" ->
                               ~Means(EntryOf(e.pattern.components[1]).pattern,
                                      EntryOf(e.pattern.components[1]).lines)
                          [] OTHER -> FALSE
    BY DEF CompositeIsMeant
  <2> DEFINE p == e.pattern
             names == ToSet(p.components)
             Holds(c) == Means(EntryOf(c).pattern, EntryOf(c).lines)
  <2>1. \A c \in names : c \in DOMAIN results /\ (results[c].matched <=> Holds(c))
    BY EntryOfName
  <2>2. results[p.name].matched <=> CompositeMatches(p, results)
    <3>1. GoodEntries(entries) /\ results = MatchEntries(entries)
      BY DEF IInv
    <3>2. PICK i \in DOMAIN entries : e = entries[i]
      BY DEF ToSet
    <3>3. IsComposite(entries[i]) /\ Name(entries, i) = p.name
      BY <3>2 DEF IsComposite, Name
    <3>4. \A c \in names : \E j \in DOMAIN entries :
             ~IsComposite(entries[j]) /\ Name(entries, j) = c
      <4> SUFFICES ASSUME NEW c \in names
                   PROVE  \E j \in DOMAIN entries :
                             ~IsComposite(entries[j]) /\ Name(entries, j) = c
        OBVIOUS
      <4>1. PICK f \in ToSet(entries) : f.pattern.name = c /\ Simple(f.pattern)
        OBVIOUS
      <4>2. PICK j \in DOMAIN entries : f = entries[j]
        BY DEF ToSet
      <4>3. QED
        BY <4>1, <4>2 DEF Simple, IsComposite, Name
    <3>5. QED
      BY <3>1, <3>2, <3>3, <3>4, MatchFinds
  <2>3. p.components[1] \in names
    <3>1. p.components \in Seq(STRING)
      BY EntryAt DEF WellFormed
    <3>2. 1 \in DOMAIN p.components
      BY <3>1, LenProperties, EmptySeq
    <3>3. QED
      BY <3>2 DEF ToSet
  <2>4. names # {}
    BY <2>3
  <2> HIDE DEF names, Holds
  <2>5. CompositeMatches(p, results) <=>
          CASE p.operator = "AND" -> \A c \in names : Holds(c)
            [] p.operator = "OR"  -> \E c \in names : Holds(c)
            [] p.operator = "NOT" -> ~Holds(p.components[1])
            [] OTHER -> FALSE
    BY <2>1, <2>3, <2>4 DEF CompositeMatches, names
  <2>6. QED
    BY <2>2, <2>5 DEF names, Holds
<1>2. QED
  BY <1>1, InvariantHolds, PTL
=============================================================================
