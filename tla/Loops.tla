-------------------------------- MODULE Loops --------------------------------
(***************************************************************************)
(* Induction over data, for the loops of the program that are written as   *)
(* recursive functions: a loop starts with some value and takes it, with   *)
(* element n, to Step(given, value, n), where given is what the loop reads *)
(* and does not change.  Good(given, value, n) is its invariant after n    *)
(* elements.  Step and Good are operators, so a proof takes an instance of *)
(* this module for each loop and cites the theorem of the instance.        *)
(***************************************************************************)
EXTENDS Integers, WellFoundedInduction, TLAPS

CONSTANTS Step(_, _, _), Good(_, _, _)

\* A set of naturals that is not empty has a least element.
LEMMA Least ==
    ASSUME NEW S \in SUBSET Nat, S # {}
    PROVE  \E m \in S : \A k \in S : m <= k
<1>1. PICK m \in S : \A k \in S : <<k, m>> \notin OpToRel(<, Nat)
  BY NatLessThanWellFounded, WFMin
<1>2. \A k \in S : ~(k < m)
  BY <1>1 DEF OpToRel
<1>3. QED
  BY <1>2

\* Induction up to N, for a set.
LEMMA CountUp ==
    ASSUME NEW N \in Nat, NEW S, 0 \in S, \A n \in 1..N : n - 1 \in S => n \in S
    PROVE  \A n \in 0..N : n \in S
<1> DEFINE T == {n \in 0..N : n \notin S}
<1>1. SUFFICES ASSUME T # {} PROVE FALSE
  OBVIOUS
<1>2. PICK m \in T : \A k \in T : m <= k
  <2>1. T \in SUBSET Nat
    OBVIOUS
  <2> HIDE DEF T
  <2>2. QED
    BY <1>1, <2>1, Least
<1>3. m \in 1..N /\ m - 1 \notin T
  BY <1>2
<1>4. QED
  BY <1>2, <1>3

\* f is a run of the loop over N elements.
Run(given, start, N, f) ==
    /\ f[0] = start
    /\ \A n \in 1..N : f[n] = Step(given, f[n - 1], n)

\* The loop is what its recursive function is: it has a value for every element.
Defined(given, start, N) ==
    \E f : f = [n \in 0..N |-> IF n = 0 THEN start ELSE Step(given, f[n - 1], n)]

\* Each step keeps the invariant, whatever the value before it.
Kept(given, N) ==
    \A n \in 1..N : \A v : Good(given, v, n - 1) => Good(given, Step(given, v, n), n)

\* Every loop is well defined.
THEOREM LoopDefined ==
    ASSUME NEW given, NEW start, NEW N \in Nat
    PROVE  Defined(given, start, N)
<1> DEFINE Loop(f, m) ==
             f = [n \in 0..m |-> IF n = 0 THEN start ELSE Step(given, f[n - 1], n)]
           S == {m \in 0..N : \E f : Loop(f, m)}
<1>1. 0 \in S
  <2>1. Loop([n \in 0..0 |-> start], 0)
    <3> DEFINE g == [n \in 0..0 |-> start]
               h == [n \in 0..0 |-> IF n = 0 THEN start ELSE Step(given, g[n - 1], n)]
    <3>1. \A n \in 0..0 : g[n] = h[n]
      OBVIOUS
    <3>2. QED
      BY <3>1
  <2> HIDE DEF Loop
  <2>2. QED
    BY <2>1
<1>2. ASSUME NEW n \in 1..N, n - 1 \in S PROVE n \in S
  <2>1. PICK g : Loop(g, n - 1)
    BY <1>2
  <2> DEFINE f == [k \in 0..n |-> IF k = n THEN Step(given, g[n - 1], n) ELSE g[k]]
             h == [k \in 0..n |-> IF k = 0 THEN start ELSE Step(given, f[k - 1], k)]
  <2>2. \A k \in 0..n : f[k] = h[k]
    BY <2>1
  <2>3. f = h
    BY <2>2
  <2>4. Loop(f, n)
    BY <2>3
  <2> HIDE DEF Loop, f, h
  <2>5. QED
    BY <2>4
<1>3. N \in S
  <2> HIDE DEF S
  <2>1. QED
    BY <1>1, <1>2, CountUp
<1>4. QED
  BY <1>3 DEF Defined

\* What holds at the start and is kept by each step holds after every element.
THEOREM LoopInvariant ==
    ASSUME NEW given, NEW start, NEW N \in Nat, NEW f,
           Run(given, start, N, f), Good(given, start, 0), Kept(given, N)
    PROVE  \A n \in 0..N : Good(given, f[n], n)
<1> DEFINE G == {n \in 0..N : Good(given, f[n], n)}
<1>1. 0 \in G /\ \A n \in 1..N : n - 1 \in G => n \in G
  BY DEF Run, Kept
<1> HIDE DEF G
<1>2. \A n \in 0..N : n \in G
  BY <1>1, CountUp
<1>3. QED
  BY <1>2 DEF G

\* Two runs of a loop agree as far as both go.
THEOREM LoopPrefix ==
    ASSUME NEW given, NEW start, NEW N \in Nat, NEW f, NEW g,
           Run(given, start, N, f), Run(given, start, N, g)
    PROVE  \A n \in 0..N : g[n] = f[n]
<1> DEFINE G == {n \in 0..N : g[n] = f[n]}
<1>1. 0 \in G /\ \A n \in 1..N : n - 1 \in G => n \in G
  BY DEF Run
<1> HIDE DEF G
<1>2. \A n \in 0..N : n \in G
  BY <1>1, CountUp
<1>3. QED
  BY <1>2 DEF G
=============================================================================
