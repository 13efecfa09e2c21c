------------------------------ MODULE SumProofs ------------------------------
(***************************************************************************)
(* Sums over finite sets, as MapThenSumSet computes them: the counters of  *)
(* the runtime budget are compared with such sums, and the telemetry of an *)
(* operation is one, over its actors. The library states no fact about     *)
(* them, so they are derived here from an induction over the cardinality   *)
(* of the set that is summed.                                              *)
(***************************************************************************)
EXTENDS Integers, FiniteSets, FiniteSetsExt, FiniteSetTheorems,
        WellFoundedInduction, NaturalsInduction, TLAPS

\* The element a sum takes out of a set first.
Pick(s) == CHOOSE x \in s : TRUE

\* One unfolding of the sum of f over s, the sums of smaller sets being h.
Unfold(f, h, s) == IF s = {} THEN 0 ELSE f[Pick(s)] + h[s \ {Pick(s)}]

\* h is the table of the sums of f over the subsets of S.
IsSum(h, f, S) == h = [s \in SUBSET S |-> Unfold(f, h, s)]

\* The sum of f over S is n.
SumsTo(f, n, S) == \E h : IsSum(h, f, S) /\ h[S] = n

\* f gives the members of S natural numbers.
NatOn(f, S) == \A x \in S : f[x] \in Nat

\* f and g give the members of S other than e the same value.
AlikeBut(f, g, S, e) == \A x \in S : x # e => g[x] = f[x]

\* A set of natural numbers that has a member has a least one.
LEMMA LeastMember ==
    ASSUME NEW B \in SUBSET Nat, B # {}
    PROVE  \E m \in B : \A j \in B : m <= j
  <1> DEFINE R == OpToRel(<, Nat)
  <1>1. \A i, j \in Nat : j < i => <<j, i>> \in {ss \in Nat \X Nat : ss[1] < ss[2]}
    OBVIOUS
  <1>2. IsWellFoundedOn(R, Nat)
    BY NatLessThanWellFounded, Zenon
  <1>3. \A i, j \in Nat : j < i => <<j, i>> \in R
    BY <1>1, Zenon DEF OpToRel
  <1> HIDE DEF R
  <1>4. PICK m \in B : \A j \in B : ~(<<j, m>> \in R)
    BY <1>2, WFMin
  <1>5. ASSUME NEW j \in B PROVE m <= j
    <2>1. m \in Nat /\ j \in Nat
      OBVIOUS
    <2>2. ~(j < m)
      BY <1>3, <1>4, <2>1
    <2> QED BY <2>1, <2>2
  <1> QED BY <1>5

\* Induction over the natural numbers, for a set instead of a predicate.
LEMMA SetInduction ==
    ASSUME NEW A, 0 \in A, \A n \in Nat : n \in A => n + 1 \in A
    PROVE  \A n \in Nat : n \in A
  <1> DEFINE B == {n \in Nat : n \notin A}
  <1> SUFFICES B = {}
    OBVIOUS
  <1> SUFFICES ASSUME B # {} PROVE FALSE
    OBVIOUS
  <1>1. PICK m \in B : \A j \in B : m <= j
    <2> HIDE DEF B
    <2>1. B \in SUBSET Nat
      BY DEF B
    <2> QED BY <2>1, LeastMember
  <1>2. m \in Nat /\ m # 0
    OBVIOUS
  <1>3. m - 1 \in Nat /\ m - 1 \in A
    BY <1>1, <1>2
  <1>4. (m - 1) + 1 \in A
    BY <1>3
  <1> QED BY <1>2, <1>4

\* What is taken out of a nonempty subset leaves a smaller one.
LEMMA PickFacts ==
    ASSUME NEW S, IsFiniteSet(S), NEW s \in SUBSET S
    PROVE  /\ IsFiniteSet(s) /\ Cardinality(s) \in Nat /\ Cardinality(s) <= Cardinality(S)
           /\ Cardinality(s) = 0 <=> s = {}
           /\ s # {} => /\ Pick(s) \in s /\ s \ {Pick(s)} \in SUBSET S
                        /\ Cardinality(s \ {Pick(s)}) = Cardinality(s) - 1
  <1>1. /\ IsFiniteSet(s) /\ Cardinality(s) \in Nat /\ Cardinality(s) <= Cardinality(S)
        /\ Cardinality(s) = 0 <=> s = {}
    BY FS_Subset, FS_CardinalityType, FS_EmptySet
  <1>2. s # {} => Pick(s) \in s
    BY DEF Pick
  <1>3. s # {} => Cardinality(s \ {Pick(s)}) = Cardinality(s) - 1
    BY <1>1, <1>2, FS_RemoveElement
  <1> QED BY <1>1, <1>2, <1>3

\* The table of sums exists: it is unfolded once for every size of a subset.
LEMMA SumExists ==
    ASSUME NEW S, IsFiniteSet(S), NEW f \in [S -> Int]
    PROVE  \E h \in [SUBSET S -> Int] : IsSum(h, f, S)
  <1> DEFINE Upto(h, n) == \A s \in SUBSET S : Cardinality(s) <= n => h[s] = Unfold(f, h, s)
             A == {n \in Nat : \E h \in [SUBSET S -> Int] : Upto(h, n)}
  <1>p. \A s \in SUBSET S :
            /\ Cardinality(s) \in Nat /\ Cardinality(s) <= Cardinality(S)
            /\ Cardinality(s) = 0 <=> s = {}
            /\ s # {} => /\ Pick(s) \in s /\ s \ {Pick(s)} \in SUBSET S
                         /\ Cardinality(s \ {Pick(s)}) = Cardinality(s) - 1
    BY PickFacts
  <1>1. 0 \in A
    <2> DEFINE z == [s \in SUBSET S |-> 0]
    <2>1. z \in [SUBSET S -> Int]
      OBVIOUS
    <2>2. ASSUME NEW s \in SUBSET S, Cardinality(s) <= 0 PROVE z[s] = Unfold(f, z, s)
      <3>1. Cardinality(s) \in Nat
        BY <1>p
      <3>2. Cardinality(s) = 0
        BY <2>2, <3>1
      <3>3. s = {}
        BY <1>p, <3>2
      <3> QED BY <3>3 DEF Unfold
    <2> QED BY <2>1, <2>2
  <1>2. ASSUME NEW n \in Nat, n \in A PROVE n + 1 \in A
    <2>1. PICK h \in [SUBSET S -> Int] : Upto(h, n)
      BY <1>2
    <2> DEFINE g == [s \in SUBSET S |-> Unfold(f, h, s)]
    <2>2. g \in [SUBSET S -> Int]
      <3>1. ASSUME NEW s \in SUBSET S PROVE Unfold(f, h, s) \in Int
        <4>1. CASE s = {}
          BY <4>1 DEF Unfold
        <4>2. CASE s # {}
          <5>1. Pick(s) \in S /\ s \ {Pick(s)} \in SUBSET S
            BY <1>p, <4>2
          <5>2. f[Pick(s)] \in Int /\ h[s \ {Pick(s)}] \in Int
            BY <5>1
          <5> QED BY <4>2, <5>2 DEF Unfold
        <4> QED BY <4>1, <4>2
      <3> QED BY <3>1
    <2>3. ASSUME NEW s \in SUBSET S, Cardinality(s) <= n + 1 PROVE g[s] = Unfold(f, g, s)
      <3>1. CASE s = {}
        BY <3>1 DEF Unfold
      <3>2. CASE s # {}
        <4> DEFINE r == s \ {Pick(s)}
        <4>1. r \in SUBSET S /\ Cardinality(r) <= n
          BY <2>3, <3>2, <1>p
        <4>2. h[r] = Unfold(f, h, r)
          BY <2>1, <4>1
        <4>3. g[r] = h[r]
          BY <4>1, <4>2
        <4>4. g[s] = f[Pick(s)] + h[r]
          BY <3>2 DEF Unfold
        <4> HIDE DEF g
        <4> QED BY <3>2, <4>3, <4>4 DEF Unfold
      <3> QED BY <3>1, <3>2
    <2>4. Upto(g, n + 1)
      BY <2>3
    <2> HIDE DEF g
    <2> QED BY <2>2, <2>4
  <1>3. \A n \in Nat : n \in A
    <2> HIDE DEF A
    <2> QED BY <1>1, <1>2, SetInduction
  <1>4. Cardinality(S) \in Nat
    BY FS_CardinalityType
  <1>5. PICK h \in [SUBSET S -> Int] : Upto(h, Cardinality(S))
    BY <1>3, <1>4
  <1>6. \A s \in SUBSET S : h[s] = Unfold(f, h, s)
    BY <1>5, PickFacts
  <1> QED BY <1>6 DEF IsSum

\* What the table says of the empty set and of every other subset.
Unfolds(h, f, S) ==
    /\ h[{}] = 0
    /\ \A s \in SUBSET S : s # {} => h[s] = f[Pick(s)] + h[s \ {Pick(s)}]

\* A table of sums unfolds.
LEMMA SumUnfolds ==
    ASSUME NEW S, IsFiniteSet(S), NEW f, NEW h, IsSum(h, f, S)
    PROVE  Unfolds(h, f, S)
  BY DEF IsSum, Unfold, Unfolds

\* Two tables of sums whose summands differ in one place, subset by subset.
LEMMA TablesDiffer ==
    ASSUME NEW S, IsFiniteSet(S), NEW f, NEW g, NEW e \in S,
           NatOn(f, S), NatOn(g, S), AlikeBut(f, g, S, e), NEW h, NEW k, IsSum(h, f, S), IsSum(k, g, S)
    PROVE  h[S] \in Nat /\ k[S] \in Nat /\ f[e] <= h[S] /\ k[S] = h[S] - f[e] + g[e]
  <1> DEFINE Fine(s) == /\ h[s] \in Nat /\ k[s] \in Nat
                        /\ e \in s => f[e] <= h[s] /\ k[s] = h[s] - f[e] + g[e]
                        /\ e \notin s => k[s] = h[s]
             A == {n \in Nat : \A s \in SUBSET S : Cardinality(s) = n => Fine(s)}
  <1>p. \A s \in SUBSET S :
            /\ Cardinality(s) \in Nat /\ Cardinality(s) <= Cardinality(S)
            /\ Cardinality(s) = 0 <=> s = {}
            /\ s # {} => /\ Pick(s) \in s /\ s \ {Pick(s)} \in SUBSET S
                         /\ Cardinality(s \ {Pick(s)}) = Cardinality(s) - 1
    BY PickFacts
  <1>u. Unfolds(h, f, S)
    BY SumUnfolds
  <1>v. Unfolds(k, g, S)
    BY SumUnfolds
  <1>1. 0 \in A
    <2>1. ASSUME NEW s \in SUBSET S, Cardinality(s) = 0 PROVE Fine(s)
      <3>1. s = {}
        BY <1>p, <2>1
      <3>2. h[s] = 0 /\ k[s] = 0 /\ e \notin s
        BY <1>u, <1>v, <3>1 DEF Unfolds
      <3> QED BY <3>2
    <2> QED BY <2>1
  <1>2. ASSUME NEW n \in Nat, n \in A PROVE n + 1 \in A
    <2>1. ASSUME NEW s \in SUBSET S, Cardinality(s) = n + 1 PROVE Fine(s)
      <3> DEFINE x == Pick(s)
                 r == s \ {x}
      <3>1. s # {} /\ x \in s /\ x \in S /\ r \in SUBSET S /\ Cardinality(r) = n
        BY <2>1, <1>p
      <3>2. h[s] = f[x] + h[r] /\ k[s] = g[x] + k[r]
        BY <3>1, <1>u, <1>v DEF Unfolds
      <3>3. Fine(r)
        BY <1>2, <3>1
      <3>4. /\ f[x] \in Nat /\ g[x] \in Nat /\ f[e] \in Nat /\ g[e] \in Nat
            /\ x # e => g[x] = f[x]
        BY <3>1 DEF AlikeBut, NatOn
      <3>5. e \in s <=> e = x \/ e \in r
        BY <3>1
      <3>6. e \in r => e # x
        OBVIOUS
      <3> HIDE DEF x, r
      <3> QED BY <3>2, <3>3, <3>4, <3>5, <3>6
    <2> QED BY <2>1
  <1>3. \A n \in Nat : n \in A
    <2> HIDE DEF A
    <2> QED BY <1>1, <1>2, SetInduction
  <1>4. Fine(S)
    BY <1>3, FS_CardinalityType
  <1> QED BY <1>4

\* A sum that differs in one summand differs by that difference, and the sum of
\* natural numbers is a natural number no summand exceeds.
LEMMA SumChange ==
    ASSUME NEW S, IsFiniteSet(S), NEW f, NEW g, NEW e \in S,
           NatOn(f, S), NatOn(g, S), AlikeBut(f, g, S, e), NEW m, NEW n, SumsTo(f, m, S), SumsTo(g, n, S)
    PROVE  m \in Nat /\ n \in Nat /\ f[e] <= m /\ n = m - f[e] + g[e]
  BY TablesDiffer DEF SumsTo

\* The sum of nothing but zeros is zero.
LEMMA SumZero ==
    ASSUME NEW S, IsFiniteSet(S), NEW f, \A x \in S : f[x] = 0, NEW n, SumsTo(f, n, S)
    PROVE  n = 0
  <1>0. PICK h : IsSum(h, f, S) /\ h[S] = n
    BY DEF SumsTo
  <1> DEFINE A == {i \in Nat : \A s \in SUBSET S : Cardinality(s) = i => h[s] = 0}
  <1>p. \A s \in SUBSET S :
            /\ Cardinality(s) \in Nat /\ Cardinality(s) <= Cardinality(S)
            /\ Cardinality(s) = 0 <=> s = {}
            /\ s # {} => /\ Pick(s) \in s /\ s \ {Pick(s)} \in SUBSET S
                         /\ Cardinality(s \ {Pick(s)}) = Cardinality(s) - 1
    BY PickFacts
  <1>u. Unfolds(h, f, S)
    BY <1>0, SumUnfolds
  <1>1. 0 \in A
    BY <1>p, <1>u DEF Unfolds
  <1>2. ASSUME NEW i \in Nat, i \in A PROVE i + 1 \in A
    <2>1. ASSUME NEW s \in SUBSET S, Cardinality(s) = i + 1 PROVE h[s] = 0
      <3>0. Cardinality(s) # 0 /\ Cardinality(s) - 1 = i
        BY <2>1
      <3>1. s # {} /\ Pick(s) \in S /\ s \ {Pick(s)} \in SUBSET S /\ Cardinality(s \ {Pick(s)}) = i
        BY <3>0, <1>p
      <3>2. h[s] = f[Pick(s)] + h[s \ {Pick(s)}]
        BY <3>1, <1>u DEF Unfolds
      <3>3. h[s \ {Pick(s)}] = 0
        BY <1>2, <3>1
      <3> QED BY <3>1, <3>2, <3>3
    <2> QED BY <2>1
  <1>3. \A i \in Nat : i \in A
    <2> HIDE DEF A
    <2> QED BY <1>1, <1>2, SetInduction
  <1> QED BY <1>0, <1>3, FS_CardinalityType

\* f gives the members of S integers.
IntOn(f, S) == \A x \in S : f[x] \in Int

\* Two tables of sums of integers whose summands differ in one place.
LEMMA IntTablesDiffer ==
    ASSUME NEW S, IsFiniteSet(S), NEW f, NEW g, NEW e \in S,
           IntOn(f, S), IntOn(g, S), AlikeBut(f, g, S, e), NEW h, NEW k, IsSum(h, f, S), IsSum(k, g, S)
    PROVE  h[S] \in Int /\ k[S] \in Int /\ k[S] = h[S] - f[e] + g[e]
  <1> DEFINE Fine(s) == /\ h[s] \in Int /\ k[s] \in Int
                        /\ e \in s => k[s] = h[s] - f[e] + g[e]
                        /\ e \notin s => k[s] = h[s]
             A == {n \in Nat : \A s \in SUBSET S : Cardinality(s) = n => Fine(s)}
  <1>p. \A s \in SUBSET S :
            /\ Cardinality(s) \in Nat /\ Cardinality(s) <= Cardinality(S)
            /\ Cardinality(s) = 0 <=> s = {}
            /\ s # {} => /\ Pick(s) \in s /\ s \ {Pick(s)} \in SUBSET S
                         /\ Cardinality(s \ {Pick(s)}) = Cardinality(s) - 1
    BY PickFacts
  <1>u. Unfolds(h, f, S)
    BY SumUnfolds
  <1>v. Unfolds(k, g, S)
    BY SumUnfolds
  <1>1. 0 \in A
    <2>1. ASSUME NEW s \in SUBSET S, Cardinality(s) = 0 PROVE Fine(s)
      <3>1. s = {}
        BY <1>p, <2>1
      <3>2. h[s] = 0 /\ k[s] = 0 /\ e \notin s
        BY <1>u, <1>v, <3>1 DEF Unfolds
      <3> QED BY <3>2
    <2> QED BY <2>1
  <1>2. ASSUME NEW n \in Nat, n \in A PROVE n + 1 \in A
    <2>1. ASSUME NEW s \in SUBSET S, Cardinality(s) = n + 1 PROVE Fine(s)
      <3> DEFINE x == Pick(s)
                 r == s \ {x}
      <3>1. s # {} /\ x \in s /\ x \in S /\ r \in SUBSET S /\ Cardinality(r) = n
        BY <2>1, <1>p
      <3>2. h[s] = f[x] + h[r] /\ k[s] = g[x] + k[r]
        BY <3>1, <1>u, <1>v DEF Unfolds
      <3>3. Fine(r)
        BY <1>2, <3>1
      <3>4. /\ f[x] \in Int /\ g[x] \in Int /\ f[e] \in Int /\ g[e] \in Int
            /\ x # e => g[x] = f[x]
        BY <3>1 DEF AlikeBut, IntOn
      <3>5. e \in s <=> e = x \/ e \in r
        BY <3>1
      <3>6. e \in r => e # x
        OBVIOUS
      <3> HIDE DEF x, r
      <3> QED BY <3>2, <3>3, <3>4, <3>5, <3>6
    <2> QED BY <2>1
  <1>3. \A n \in Nat : n \in A
    <2> HIDE DEF A
    <2> QED BY <1>1, <1>2, SetInduction
  <1>4. Fine(S)
    BY <1>3, FS_CardinalityType
  <1> QED BY <1>4

\* A sum of integers that differs in one summand differs by that difference.
LEMMA IntSumChange ==
    ASSUME NEW S, IsFiniteSet(S), NEW f, NEW g, NEW e \in S,
           IntOn(f, S), IntOn(g, S), AlikeBut(f, g, S, e), NEW m, NEW n, SumsTo(f, m, S), SumsTo(g, n, S)
    PROVE  m \in Int /\ n \in Int /\ n = m - f[e] + g[e]
  BY IntTablesDiffer DEF SumsTo
=============================================================================
