------------------------- MODULE FacadeHandleProofs -------------------------
(***************************************************************************)
(* Theorems about the handle of the facade, for every plan of batches,     *)
(* every capacity and every number of calls and search workers:            *)
(*  - the state, the queues and the counters keep their types;             *)
(*  - a batch that awaits a frame and a close that was promised are never  *)
(*    orphaned (AwaitedIsHeld);                                            *)
(*  - the bytes telemetry reports are those of the reader it reports       *)
(*    (BytesAreOfTheReader);                                               *)
(*  - no search is attempted once the facade is closing                    *)
(*    (NoSearchAfterClose).                                                *)
(*                                                                         *)
(* The first part says what the operators of the model compute: the frame  *)
(* cursor, the replacement frames, the tickets and the fold that settles a *)
(* drained queue. The second part shows that Good, the types with the      *)
(* shape of the commands and the place of the cursor, is inductive, one    *)
(* lemma per action. The third part relates the counters to the tickets    *)
(* they count: an account has the number of live tickets of every set of   *)
(* them, and each method of a ticket moves counters and account together   *)
(* (Balanced, Ledger).                                                     *)
(***************************************************************************)
EXTENDS FacadeHandle, SequenceTheorems, FunctionTheorems, SumProofs

(* The frames of a batch. *)

\* s lists the numbers of S in ascending order.
IsAscending(s, S) ==
    /\ s \in [1..Cardinality(S) -> S]
    /\ \A i, j \in 1..Cardinality(S) : i < j => s[i] < s[j]

\* A sequence without repetition that has exactly the members of I.
Lists(s, I) ==
    /\ s \in Seq(Nat)
    /\ \A i, j \in 1..Len(s) : s[i] = s[j] => i = j
    /\ \A k \in 1..Len(s) : s[k] \in I
    /\ \A i \in I : \E k \in 1..Len(s) : s[k] = i

\* The mutations of a frame are those of the records I of batch b, each once.
Carries(ms, b, I) ==
    /\ ms \in Seq(Mutations)
    /\ \A i, j \in 1..Len(ms) : ms[i] = ms[j] => i = j
    /\ \A k \in 1..Len(ms) : \E i \in I : ms[k] = Mutation(b, i)
    /\ \A i \in I : \E k \in 1..Len(ms) : ms[k] = Mutation(b, i)

\* Every set of record numbers can be listed in ascending order.
LEMMA AscendingExists ==
    ASSUME NEW n \in Nat
    PROVE  \A S \in SUBSET (1..n) : \E s : IsAscending(s, S)
  <1> DEFINE A == {m \in Nat : \A S \in SUBSET (1..m) : \E s : IsAscending(s, S)}
  <1>1. 0 \in A
    <2>1. ASSUME NEW S \in SUBSET (1..0) PROVE \E s : IsAscending(s, S)
      <3>0. S = {}
        OBVIOUS
      <3>1. S = {} /\ Cardinality(S) = 0
        BY <3>0, FS_EmptySet
      <3> DEFINE s == [i \in 1..0 |-> i]
      <3>2. IsAscending(s, S)
        BY <3>1 DEF IsAscending
      <3> QED BY <3>2
    <2> QED BY <2>1
  <1>2. ASSUME NEW m \in Nat, m \in A PROVE m + 1 \in A
    <2>1. ASSUME NEW S \in SUBSET (1..(m + 1)) PROVE \E s : IsAscending(s, S)
      <3>1. CASE m + 1 \notin S
        <4>1. S \in SUBSET (1..m)
          BY <3>1
        <4> QED BY <1>2, <4>1
      <3>2. CASE m + 1 \in S
        <4> DEFINE T == S \ {m + 1}
        <4>1. T \in SUBSET (1..m)
          OBVIOUS
        <4>2. PICK t : IsAscending(t, T)
          BY <1>2, <4>1
        <4>3. IsFiniteSet(1..(m + 1))
          BY FS_Interval
        <4>4. IsFiniteSet(S) /\ IsFiniteSet(T)
          BY <4>3, FS_Subset
        <4>5. Cardinality(T) \in Nat /\ Cardinality(S) = Cardinality(T) + 1
          <5>1. Cardinality(S) \in Nat /\ Cardinality(T) \in Nat
            BY <4>4, FS_CardinalityType
          <5>2. Cardinality(T) = Cardinality(S) - 1
            BY <3>2, <4>4, FS_RemoveElement
          <5> QED BY <5>1, <5>2
        <4> DEFINE c == Cardinality(T)
                   s == [i \in 1..(c + 1) |-> IF i = c + 1 THEN m + 1 ELSE t[i]]
        <4>6. \A i \in 1..c : t[i] \in T /\ t[i] \in 1..m
          BY <4>1, <4>2 DEF IsAscending
        <4>7. \A i, j \in 1..c : i < j => t[i] < t[j]
          BY <4>2 DEF IsAscending
        <4> HIDE DEF c
        <4>8. c \in Nat /\ Cardinality(S) = c + 1
          BY <4>5 DEF c
        <4>9. s \in [1..(c + 1) -> S]
          BY <4>6, <4>8, <3>2
        <4>10. ASSUME NEW i \in 1..(c + 1), NEW j \in 1..(c + 1), i < j
               PROVE  s[i] < s[j]
          <5>1. i \in 1..c
            BY <4>8, <4>10
          <5>2. s[i] = t[i] /\ t[i] < m + 1
            BY <4>6, <4>8, <5>1
          <5>3. CASE j = c + 1
            BY <5>2, <5>3
          <5>4. CASE j # c + 1
            <6>1. j \in 1..c
              BY <4>8, <5>4
            <6> QED BY <4>7, <4>10, <5>1, <5>2, <6>1
          <5> QED BY <5>3, <5>4
        <4> HIDE DEF s
        <4>11. IsAscending(s, S)
          BY <4>8, <4>9, <4>10 DEF IsAscending
        <4> QED BY <4>11
      <3> QED BY <3>1, <3>2
    <2> QED BY <2>1
  <1>3. \A m \in Nat : m \in A
    <2> HIDE DEF A
    <2> QED BY <1>1, <1>2, SetInduction
  <1> QED BY <1>3

\* What the cursor collects is every record of the set, once.
LEMMA AscendingFacts ==
    ASSUME NEW n \in Nat, NEW S \in SUBSET (1..n)
    PROVE  Lists(Ascending(S), S)
  <1> DEFINE s == Ascending(S)
             c == Cardinality(S)
  <1>1. IsFiniteSet(S) /\ c \in Nat
    <2>1. IsFiniteSet(1..n)
      BY FS_Interval
    <2> QED BY <2>1, FS_Subset, FS_CardinalityType
  <1>2. IsAscending(s, S)
    <2>1. \E t \in [1..c -> S] : \A i, j \in 1..c : i < j => t[i] < t[j]
      BY AscendingExists DEF IsAscending
    <2>2. s = CHOOSE t \in [1..c -> S] : \A i, j \in 1..c : i < j => t[i] < t[j]
      BY DEF Ascending
    <2>3. s \in [1..c -> S] /\ \A i, j \in 1..c : i < j => s[i] < s[j]
      BY <2>1, <2>2, Zenon
    <2> QED BY <2>3 DEF IsAscending
  <1> HIDE DEF s
  <1>3. s \in [1..c -> S] /\ \A i, j \in 1..c : i < j => s[i] < s[j]
    BY <1>2 DEF IsAscending
  <1> HIDE DEF c
  <1>4. \A i \in 1..c : s[i] \in S /\ s[i] \in Nat
    <2>1. S \subseteq Nat
      OBVIOUS
    <2> QED BY <1>3, <2>1
  <1>5. s \in Seq(Nat) /\ Len(s) = c
    <2>1. s \in [1..c -> Nat]
      BY <1>3, <1>4
    <2> QED BY <1>1, <2>1
  <1>6. ASSUME NEW i \in 1..c, NEW j \in 1..c, s[i] = s[j] PROVE i = j
    <2>1. ~(i < j) /\ ~(j < i)
      BY <1>3, <1>4, <1>6
    <2> QED BY <1>1, <2>1
  <1>7. s \in Injection(1..c, S)
    BY <1>3, <1>6, Zenon DEF Injection, IsInjective
  <1>8. Cardinality(1..c) = c
    BY <1>1, FS_Interval
  <1>9. s \in Surjection(1..c, S)
    BY <1>1, <1>7, <1>8, FS_Injection DEF c
  <1>10. \A x \in S : \E k \in 1..c : s[k] = x
    BY <1>9, Zenon DEF Surjection
  <1> QED BY <1>4, <1>5, <1>6, <1>10 DEF Lists, s

\* The least member of a finite nonempty set of numbers.
LEMMA MinFacts ==
    ASSUME NEW S \in SUBSET Nat, S # {}
    PROVE  Min(S) \in S /\ \A x \in S : Min(S) <= x
  <1>1. \E m \in S : \A x \in S : m <= x
    BY LeastMember
  <1> QED BY <1>1, Zenon DEF Min

\* A frame takes at least one record and never goes beyond the last.
LEMMA FrameEndFacts ==
    ASSUME NEW recs, NEW stop, Len(recs) \in Nat, NEW from \in 1..Len(recs)
    PROVE  FrameEnd(recs, from, stop) \in (from + 1)..(Len(recs) + 1)
  <1> DEFINE A == {i \in from..Len(recs) :
                    /\ ~Refused(recs[i])
                    /\ \E j \in from..(i - 1) : ~Refused(recs[j])
                    /\ FrameBytes(recs, from, i) > MaxFrame}
             B == {i \in (from + 1)..(Len(recs) + 1) : stop /\ Refused(recs[i - 1])}
             S == {Len(recs) + 1} \cup A \cup B
  <1>1. FrameEnd(recs, from, stop) = Min(S)
    BY Zenon DEF FrameEnd
  <1>2. A \subseteq (from + 1)..(Len(recs) + 1)
    <2>1. ASSUME NEW i \in A PROVE i \in (from + 1)..(Len(recs) + 1)
      <3>1. i \in from..Len(recs) /\ \E j \in from..(i - 1) : TRUE
        OBVIOUS
      <3> QED BY <3>1
    <2> QED BY <2>1
  <1>3. B \subseteq (from + 1)..(Len(recs) + 1)
    OBVIOUS
  <1> HIDE DEF A, B
  <1>4. S \in SUBSET Nat /\ S # {} /\ S \subseteq (from + 1)..(Len(recs) + 1)
    <2>1. Len(recs) + 1 \in (from + 1)..(Len(recs) + 1)
      OBVIOUS
    <2>2. S \subseteq (from + 1)..(Len(recs) + 1) /\ S # {}
      BY <1>2, <1>3, <2>1
    <2>3. (from + 1)..(Len(recs) + 1) \subseteq Nat
      OBVIOUS
    <2> QED BY <2>2, <2>3
  <1> HIDE DEF S
  <1> QED BY <1>1, <1>4, MinFacts

\* A plan is a sequence of records.
LEMMA PlanFacts ==
    ASSUME NEW b \in Batches
    PROVE  /\ Plan[b].records \in Seq(Records) /\ Len(Plan[b].records) \in Nat
           /\ Plan[b].delete \in BOOLEAN
           /\ \A i \in 1..Len(Plan[b].records) : Plan[b].records[i] \in Records
  <1>1. Plan[b] \in [delete : BOOLEAN, records : Seq(Records)]
    BY FacadeAssumption
  <1>2. Plan[b].records \in Seq(Records) /\ Plan[b].delete \in BOOLEAN
    BY <1>1
  <1> QED BY <1>2, ElementOfSeq, LenProperties

\* The mutation of a record is typed and tells its batch and its number.
LEMMA MutationFacts ==
    ASSUME NEW b \in Batches, NEW i \in 1..Len(Plan[b].records)
    PROVE  /\ Mutation(b, i) \in Mutations
           /\ Mutation(b, i).batch = b /\ Mutation(b, i).index = i
  <1>1. Plan[b].records[i] \in Records /\ i \in Nat
    BY PlanFacts
  <1>2. Plan[b].records[i].op \in {"upsert", "delete"}
    BY <1>1 DEF Records
  <1> DEFINE o == IF Refused(Plan[b].records[i]) THEN "delete" ELSE Plan[b].records[i].op
  <1>3. Mutation(b, i) = [batch |-> b, index |-> i, op |-> o] /\ o \in {"upsert", "delete"}
    BY <1>2 DEF Mutation
  <1> HIDE DEF o
  <1> QED BY <1>1, <1>3 DEF Mutations

\* The mutations of listed records carry those records.
LEMMA CarriesFacts ==
    ASSUME NEW b \in Batches, NEW I \in SUBSET (1..Len(Plan[b].records)), NEW s, Lists(s, I)
    PROVE  Carries([k \in 1..Len(s) |-> Mutation(b, s[k])], b, I)
  <1> DEFINE ms == [k \in 1..Len(s) |-> Mutation(b, s[k])]
             n == Len(s)
  <1>1. /\ n \in Nat /\ \A k \in 1..n : s[k] \in I /\ s[k] \in 1..Len(Plan[b].records)
        /\ \A i, j \in 1..n : s[i] = s[j] => i = j
        /\ \A i \in I : \E k \in 1..n : s[k] = i
    BY DEF Lists
  <1>2. \A k \in 1..n : /\ Mutation(b, s[k]) \in Mutations
                         /\ Mutation(b, s[k]).index = s[k]
    BY <1>1, MutationFacts
  <1>3. \A k \in 1..n : ms[k] = Mutation(b, s[k])
    OBVIOUS
  <1>4. ms \in Seq(Mutations) /\ Len(ms) = n
    <2>1. ms \in [1..n -> Mutations]
      BY <1>2
    <2> HIDE DEF ms
    <2> QED BY <1>1, <2>1
  <1> HIDE DEF ms, n
  <1>5. \A i, j \in 1..n : ms[i] = ms[j] => i = j
    <2>1. ASSUME NEW i \in 1..n, NEW j \in 1..n, ms[i] = ms[j] PROVE i = j
      <3>1. Mutation(b, s[i]).index = Mutation(b, s[j]).index
        BY <1>3, <2>1
      <3> QED BY <1>1, <1>2, <3>1
    <2> QED BY <2>1
  <1>6. Carries(ms, b, I)
    BY <1>1, <1>3, <1>4, <1>5 DEF Carries
  <1> QED BY <1>6 DEF ms

\* MutationBatchFrameCursor.next: the records from the cursor to the end of the
\* frame are each either carried by it or listed as rejected.
LEMMA FrameFacts ==
    ASSUME NEW b \in Batches, NEW from \in 1..Len(Plan[b].records)
    PROVE  LET f == CursorNext[b][from] IN
           /\ f.at \in (from + 1)..(Len(Plan[b].records) + 1)
           /\ \E K, R \in SUBSET (1..Len(Plan[b].records)) :
                 /\ K \cup R = from..(f.at - 1) /\ K \cap R = {}
                 /\ Carries(f.mutations, b, K) /\ Lists(f.rejected, R)
  <1> DEFINE recs == Plan[b].records
             end == FrameEnd(recs, from, ~Plan[b].delete)
             K == {i \in from..(end - 1) : ~Refused(recs[i])}
             R == {i \in from..(end - 1) : Refused(recs[i])}
             kept == Ascending(K)
             f == [mutations |-> [k \in 1..Len(kept) |-> Mutation(b, kept[k])],
                   rejected |-> Ascending(R), at |-> end]
  <1>1. CursorNext[b][from] = f
    BY DEF CursorNext
  <1>2. Len(recs) \in Nat
    BY PlanFacts
  <1>3. end \in (from + 1)..(Len(recs) + 1)
    BY <1>2, FrameEndFacts
  <1> HIDE DEF end
  <1>4. K \in SUBSET (1..Len(recs)) /\ R \in SUBSET (1..Len(recs))
    BY <1>2, <1>3
  <1>5. K \cup R = from..(end - 1) /\ K \cap R = {}
    OBVIOUS
  <1> HIDE DEF K, R
  <1>6. Lists(kept, K) /\ Lists(Ascending(R), R)
    BY <1>2, <1>4, AscendingFacts
  <1> HIDE DEF kept
  <1>7. Carries([k \in 1..Len(kept) |-> Mutation(b, kept[k])], b, K)
    BY <1>4, <1>6, CarriesFacts
  <1>8. /\ f.at = end /\ f.rejected = Ascending(R)
        /\ f.mutations = [k \in 1..Len(kept) |-> Mutation(b, kept[k])]
    OBVIOUS
  <1> HIDE DEF f
  <1>9. f.at \in (from + 1)..(Len(recs) + 1)
    BY <1>3, <1>8
  <1>10. K \cup R = from..(f.at - 1) /\ Carries(f.mutations, b, K) /\ Lists(f.rejected, R)
    BY <1>5, <1>6, <1>7, <1>8
  <1>11. \E X, Y \in SUBSET (1..Len(recs)) :
            /\ X \cup Y = from..(f.at - 1) /\ X \cap Y = {}
            /\ Carries(f.mutations, b, X) /\ Lists(f.rejected, Y)
    BY <1>4, <1>5, <1>10
  <1> QED BY <1>1, <1>9, <1>11

\* #applyReplacementDeletes: a frame of replacement deletes carries the first of
\* the rejected records, at least one, and leaves the others to the next frame.
LEMMA ReplacementFacts ==
    ASSUME NEW b \in Batches, NEW I \in SUBSET (1..Len(Plan[b].records)),
           NEW rejected, Lists(rejected, I), rejected # <<>>
    PROVE  LET ms == ReplacementFrame(b, rejected) IN
           \E J \in SUBSET I :
              /\ Carries(ms, b, J) /\ ms # <<>>
              /\ Lists(SubSeq(rejected, Len(ms) + 1, Len(rejected)), I \ J)
  <1> DEFINE n == Len(rejected)
             room == Max({1, MaxFrame \div DeleteSize})
             fit == Min({n, room})
             ms == [k \in 1..fit |-> Mutation(b, rejected[k])]
             left == SubSeq(rejected, fit + 1, n)
             J == {rejected[k] : k \in 1..fit}
  <1>1. ReplacementFrame(b, rejected) = ms
    BY DEF ReplacementFrame
  <1>2. /\ rejected \in Seq(Nat) /\ n \in Nat /\ n # 0
        /\ \A k \in 1..n : rejected[k] \in I /\ rejected[k] \in Nat
        /\ \A i, j \in 1..n : rejected[i] = rejected[j] => i = j
        /\ \A i \in I : \E k \in 1..n : rejected[k] = i
    BY EmptySeq, LenProperties, ElementOfSeq DEF Lists
  <1>3. room \in Nat /\ room >= 1
    <2>1. MaxFrame \div DeleteSize \in Int
      BY FacadeAssumption
    <2> DEFINE d == MaxFrame \div DeleteSize
    <2> HIDE DEF d
    <2>2. \E x \in {1, d} : \A y \in {1, d} : x >= y
      BY <2>1 DEF d
    <2>3. Max({1, d}) \in {1, d} /\ \A y \in {1, d} : Max({1, d}) >= y
      BY <2>2, Zenon DEF Max
    <2> QED BY <2>1, <2>3 DEF d
  <1> HIDE DEF room
  <1>4. fit \in 1..n
    <2>1. {n, room} \in SUBSET Nat /\ {n, room} # {}
      BY <1>2, <1>3
    <2>2. fit \in {n, room} /\ fit <= n
      BY <2>1, MinFacts
    <2> QED BY <1>2, <1>3, <2>2
  <1> HIDE DEF n, fit
  <1>5. J \in SUBSET I /\ J \in SUBSET (1..Len(Plan[b].records))
    BY <1>2, <1>4
  <1> DEFINE first == [k \in 1..fit |-> rejected[k]]
  <1>6. Lists(first, J) /\ Len(first) = fit
    <2>1. first \in [1..fit -> Nat]
      BY <1>2, <1>4
    <2>2. first \in Seq(Nat) /\ Len(first) = fit
      BY <1>2, <1>4, <2>1
    <2>3. \A k \in 1..fit : first[k] = rejected[k] /\ k \in 1..n
      BY <1>2, <1>4
    <2> HIDE DEF first
    <2>4. \A k \in 1..fit : first[k] \in J
      BY <2>3
    <2>5. \A i \in J : \E k \in 1..fit : first[k] = i
      BY <2>3
    <2>6. \A i, j \in 1..fit : first[i] = first[j] => i = j
      BY <1>2, <2>3
    <2> HIDE DEF J
    <2> QED BY <2>2, <2>4, <2>5, <2>6 DEF Lists
  <1>7. ms = [k \in 1..Len(first) |-> Mutation(b, first[k])]
    BY <1>6
  <1>8. Carries(ms, b, J)
    <2> HIDE DEF J, ms, first
    <2> QED BY <1>5, <1>6, <1>7, CarriesFacts
  <1>9. Len(ms) = fit /\ ms # <<>>
    <2>1. ms \in Seq(Mutations)
      BY <1>8 DEF Carries
    <2>2. DOMAIN ms = 1..fit
      OBVIOUS
    <2>3. Len(ms) \in Nat /\ DOMAIN ms = 1..Len(ms)
      BY <2>1, LenProperties
    <2> HIDE DEF ms
    <2>4. Len(ms) = fit
      BY <1>2, <1>4, <2>2, <2>3
    <2> QED BY <1>4, <2>4
  <1>10. /\ left \in Seq(Nat) /\ Len(left) = n - fit
         /\ \A k \in 1..(n - fit) : left[k] = rejected[fit + k]
    <2>1. \A i \in (fit + 1)..n : rejected[i] \in Nat
      BY <1>2, <1>4
    <2>2. /\ left \in Seq(Nat) /\ Len(left) = IF fit + 1 <= n THEN n - (fit + 1) + 1 ELSE 0
          /\ \A k \in 1..(n - (fit + 1) + 1) : left[k] = rejected[(fit + 1) + k - 1]
      BY <1>2, <1>4, <2>1, SubSeqProperties
    <2> HIDE DEF left
    <2>3. Len(left) = n - fit
      BY <1>2, <1>4, <2>2
    <2>4. ASSUME NEW k \in 1..(n - fit) PROVE left[k] = rejected[fit + k]
      <3>1. k \in 1..(n - (fit + 1) + 1) /\ (fit + 1) + k - 1 = fit + k
        BY <1>2, <1>4
      <3> QED BY <2>2, <3>1
    <2> QED BY <2>2, <2>3, <2>4
  <1>11. Lists(left, I \ J)
    <2> HIDE DEF left
    <2>0. \A k \in 1..(n - fit) : fit + k \in 1..n /\ fit + k \notin 1..fit
      BY <1>2, <1>4
    <2>1. \A i, j \in 1..Len(left) : left[i] = left[j] => i = j
      <3>1. ASSUME NEW i \in 1..(n - fit), NEW j \in 1..(n - fit), left[i] = left[j] PROVE i = j
        <4>0. fit + i \in 1..n /\ fit + j \in 1..n /\ rejected[fit + i] = rejected[fit + j]
          BY <1>10, <2>0, <3>1
        <4>1. fit + i = fit + j
          BY <1>2, <4>0
        <4> QED BY <1>4, <4>1
      <3> QED BY <1>10, <3>1
    <2>2. \A k \in 1..Len(left) : left[k] \in I \ J
      <3>1. ASSUME NEW k \in 1..(n - fit) PROVE left[k] \in I \ J
        <4>1. left[k] = rejected[fit + k] /\ fit + k \in 1..n
          BY <1>10, <2>0
        <4>2. ASSUME NEW i \in 1..fit, rejected[i] = rejected[fit + k] PROVE FALSE
          <5>1. i \in 1..n
            BY <1>2, <1>4
          <5>2. i = fit + k
            BY <1>2, <4>1, <4>2, <5>1
          <5> QED BY <2>0, <5>2
        <4> QED BY <1>2, <4>1, <4>2
      <3> QED BY <1>10, <3>1
    <2>3. \A i \in I \ J : \E k \in 1..Len(left) : left[k] = i
      <3>1. ASSUME NEW i \in I \ J PROVE \E k \in 1..(n - fit) : left[k] = i
        <4>1. PICK m \in 1..n : rejected[m] = i
          BY <1>2
        <4>2. m \notin 1..fit
          BY <4>1
        <4>3. m - fit \in 1..(n - fit) /\ fit + (m - fit) = m
          BY <1>2, <1>4, <4>2
        <4> QED BY <1>10, <4>1, <4>3
      <3> QED BY <1>10, <3>1
    <2> QED BY <1>10, <2>1, <2>2, <2>3 DEF Lists
  <1>12. Lists(SubSeq(rejected, Len(ms) + 1, Len(rejected)), I \ J)
    BY <1>9, <1>11 DEF n
  <1> HIDE DEF J, ms
  <1> QED BY <1>1, <1>5, <1>8, <1>9, <1>12
-----------------------------------------------------------------------------
(* Draining commands: their tickets settle one after the other.            *)

\* One unfolding of SettleAll for the commands q[i], i \in s, the metrics after
\* smaller sets of commands being h.
SettleOnce(m, q, h, s) ==
    IF s = {} THEN m
    ELSE Settle([m |-> h[s \ {Pick(s)}], t |-> q[Pick(s)].t], FALSE).m

IsSettling(h, m, q, D) == h = [s \in SUBSET D |-> SettleOnce(m, q, h, s)]

\* The metrics after every set of drained commands exist.
LEMMA SettlingExists ==
    ASSUME NEW D, IsFiniteSet(D), NEW m, NEW q
    PROVE  \E h : IsSettling(h, m, q, D)
  <1> DEFINE Upto(h, n) == \A s \in SUBSET D : Cardinality(s) <= n => h[s] = SettleOnce(m, q, h, s)
             Table(h) == h = [s \in SUBSET D |-> h[s]]
             A == {n \in Nat : \E h : Table(h) /\ Upto(h, n)}
  <1>p. \A s \in SUBSET D :
            /\ Cardinality(s) \in Nat /\ Cardinality(s) <= Cardinality(D)
            /\ Cardinality(s) = 0 <=> s = {}
            /\ s # {} => /\ Pick(s) \in s /\ s \ {Pick(s)} \in SUBSET D
                         /\ Cardinality(s \ {Pick(s)}) = Cardinality(s) - 1
    BY PickFacts
  <1>1. 0 \in A
    <2> DEFINE z == [s \in SUBSET D |-> m]
    <2>1. Table(z)
      OBVIOUS
    <2>2. ASSUME NEW s \in SUBSET D, Cardinality(s) <= 0 PROVE z[s] = SettleOnce(m, q, z, s)
      <3>1. Cardinality(s) \in Nat
        BY <1>p
      <3>2. Cardinality(s) = 0
        BY <2>2, <3>1
      <3>3. s = {}
        BY <1>p, <3>2
      <3> QED BY <3>3 DEF SettleOnce
    <2>3. Upto(z, 0)
      BY <2>2
    <2> HIDE DEF z
    <2> QED BY <2>1, <2>3
  <1>2. ASSUME NEW n \in Nat, n \in A PROVE n + 1 \in A
    <2>1. PICK h : Table(h) /\ Upto(h, n)
      BY <1>2
    <2> DEFINE g == [s \in SUBSET D |-> SettleOnce(m, q, h, s)]
    <2>2. Table(g)
      OBVIOUS
    <2>3. ASSUME NEW s \in SUBSET D, Cardinality(s) <= n + 1 PROVE g[s] = SettleOnce(m, q, g, s)
      <3>1. CASE s = {}
        BY <3>1 DEF SettleOnce
      <3>2. CASE s # {}
        <4> DEFINE r == s \ {Pick(s)}
        <4>1. r \in SUBSET D /\ Cardinality(r) <= n
          BY <2>3, <3>2, <1>p
        <4>2. h[r] = SettleOnce(m, q, h, r)
          BY <2>1, <4>1
        <4>3. g[r] = h[r]
          BY <4>1, <4>2
        <4>4. g[s] = SettleOnce(m, q, h, s)
          OBVIOUS
        <4> HIDE DEF g
        <4> QED BY <3>2, <4>3, <4>4, Zenon DEF SettleOnce
      <3> QED BY <3>1, <3>2
    <2>4. Upto(g, n + 1)
      BY <2>3
    <2> HIDE DEF g, Table, Upto
    <2>5. n + 1 \in Nat
      OBVIOUS
    <2> QED BY <2>2, <2>4, <2>5
  <1>3. \A n \in Nat : n \in A
    <2> HIDE DEF A
    <2> QED BY <1>1, <1>2, SetInduction
  <1>4. Cardinality(D) \in Nat
    BY FS_CardinalityType
  <1>5. PICK h : Table(h) /\ Upto(h, Cardinality(D))
    BY <1>3, <1>4
  <1>6. \A s \in SUBSET D : h[s] = SettleOnce(m, q, h, s)
    BY <1>5, <1>p
  <1>7. h = [s \in SUBSET D |-> h[s]]
    BY <1>5
  <1>8. h = [s \in SUBSET D |-> SettleOnce(m, q, h, s)]
    BY <1>6, <1>7, Zenon
  <1> QED BY <1>8 DEF IsSettling

\* SettleAll is such a table, read at the whole set.
LEMMA SettleAllIs ==
    ASSUME NEW D, IsFiniteSet(D), NEW m, NEW q
    PROVE  \E h : IsSettling(h, m, q, D) /\ SettleAll(m, q, D) = h[D]
  <1> DEFINE Tab(h) == h = [s \in SUBSET D |->
                 IF s = {} THEN m
                 ELSE Settle([m |-> h[s \ {CHOOSE x \in s : TRUE}],
                              t |-> q[CHOOSE x \in s : TRUE].t], FALSE).m]
             k == CHOOSE h : Tab(h)
  <1>1. SettleAll(m, q, D) = k[D]
    BY Zenon DEF SettleAll, FoldFunctionOnSet, MapThenFoldSet
  <1>2. \A h : Tab(h) <=> IsSettling(h, m, q, D)
    BY Zenon DEF IsSettling, SettleOnce, Pick
  <1>3. \E h : Tab(h)
    <2> HIDE DEF Tab
    <2> QED BY <1>2, SettlingExists
  <1>4. Tab(k)
    BY <1>3, Zenon
  <1> HIDE DEF k, Tab
  <1>5. IsSettling(k, m, q, D)
    BY <1>2, <1>4
  <1> QED BY <1>1, <1>5

\* What every single ticket preserves, draining preserves: Y relates the commands
\* settled so far to the metrics.
LEMMA SettleAllInduction ==
    ASSUME NEW D, IsFiniteSet(D), NEW m, NEW q, NEW Y, <<{}, m>> \in Y,
           \A s \in SUBSET D, i \in D : \A acc : i \in s /\ <<s \ {i}, acc>> \in Y =>
               <<s, Settle([m |-> acc, t |-> q[i].t], FALSE).m>> \in Y
    PROVE  <<D, SettleAll(m, q, D)>> \in Y
  <1>0. PICK h : IsSettling(h, m, q, D) /\ SettleAll(m, q, D) = h[D]
    BY SettleAllIs
  <1> DEFINE A == {n \in Nat : \A s \in SUBSET D : Cardinality(s) = n => <<s, h[s]>> \in Y}
  <1>p. \A s \in SUBSET D :
            /\ Cardinality(s) \in Nat /\ Cardinality(s) <= Cardinality(D)
            /\ Cardinality(s) = 0 <=> s = {}
            /\ s # {} => /\ Pick(s) \in s /\ s \ {Pick(s)} \in SUBSET D
                         /\ Cardinality(s \ {Pick(s)}) = Cardinality(s) - 1
    BY PickFacts
  <1>u. \A s \in SUBSET D : h[s] = SettleOnce(m, q, h, s)
    BY <1>0 DEF IsSettling
  <1>1. 0 \in A
    <2>1. ASSUME NEW s \in SUBSET D, Cardinality(s) = 0 PROVE <<s, h[s]>> \in Y
      <3>1. s = {}
        BY <1>p, <2>1
      <3>2. h[s] = m
        BY <1>u, <3>1 DEF SettleOnce
      <3> QED BY <3>1, <3>2
    <2> QED BY <2>1
  <1>2. ASSUME NEW n \in Nat, n \in A PROVE n + 1 \in A
    <2>1. ASSUME NEW s \in SUBSET D, Cardinality(s) = n + 1 PROVE <<s, h[s]>> \in Y
      <3>0. Cardinality(s) # 0 /\ Cardinality(s) - 1 = n
        BY <2>1
      <3>1. s # {} /\ Pick(s) \in s /\ s \ {Pick(s)} \in SUBSET D /\ Cardinality(s \ {Pick(s)}) = n
        BY <3>0, <1>p
      <3>2. <<s \ {Pick(s)}, h[s \ {Pick(s)}]>> \in Y
        BY <1>2, <3>1
      <3>3. h[s] = Settle([m |-> h[s \ {Pick(s)}], t |-> q[Pick(s)].t], FALSE).m
        BY <1>u, <3>1, Zenon DEF SettleOnce
      <3>4. Pick(s) \in D
        BY <3>1
      <3> QED BY <3>1, <3>2, <3>3, <3>4, Zenon
    <2> QED BY <2>1
  <1>3. \A n \in Nat : n \in A
    <2> HIDE DEF A
    <2> QED BY <1>1, <1>2, SetInduction
  <1>4. <<D, h[D]>> \in Y
    BY <1>3, FS_CardinalityType
  <1> QED BY <1>0, <1>4
-----------------------------------------------------------------------------
(* The counters: what a step of a ticket changes and what it leaves alone. *)

\* The counters of the handle that no ticket moves.
SameRest(x, m) ==
    /\ x.histograms = m.histograms /\ x.snapshotBytes = m.snapshotBytes

\* One actor's counters of one operation become v.
ActorSet(x, m, a, o, v) ==
    /\ x \in MetricsSets /\ SameRest(x, m) /\ x.teardown = m.teardown
    /\ x.admission = m.admission /\ x.phases = m.phases
    /\ \A c \in Actors, p \in Operations :
          x.actor[c][p] = IF c = a /\ p = o THEN v ELSE m.actor[c][p]

\* The admission of one operation becomes v.
AdmissionSet(x, m, o, v) ==
    /\ x \in MetricsSets /\ SameRest(x, m) /\ x.teardown = m.teardown
    /\ x.actor = m.actor /\ x.phases = m.phases
    /\ \A p \in Operations : x.admission[p] = IF p = o THEN v ELSE m.admission[p]

\* Writing the counters of an actor.
LEMMA ActorWritten ==
    ASSUME NEW m \in MetricsSets, NEW a \in Actors, NEW o \in Operations, NEW v \in CounterSets
    PROVE  ActorSet([m EXCEPT !.actor[a][o] = v], m, a, o, v)
  <1> DEFINE f == [m.actor EXCEPT ![a][o] = v]
             x == [m EXCEPT !.actor[a][o] = v]
  <1>1. m.actor \in [Actors -> [Operations -> CounterSets]]
    BY DEF MetricsSets
  <1>2. /\ f \in [Actors -> [Operations -> CounterSets]]
        /\ \A c \in Actors, p \in Operations : f[c][p] = IF c = a /\ p = o THEN v ELSE m.actor[c][p]
    BY <1>1
  <1>3. x = [m EXCEPT !.actor = f]
    BY DEF MetricsSets
  <1> HIDE DEF f, x
  <1>4. /\ x \in MetricsSets /\ x.actor = f /\ x.admission = m.admission /\ x.phases = m.phases
        /\ x.histograms = m.histograms /\ x.snapshotBytes = m.snapshotBytes /\ x.teardown = m.teardown
    BY <1>2, <1>3 DEF MetricsSets
  <1>5. ActorSet(x, m, a, o, v)
    BY <1>2, <1>4 DEF ActorSet, SameRest
  <1> QED BY <1>5 DEF x

\* Writing the admission counters of an operation.
LEMMA AdmissionWritten ==
    ASSUME NEW m \in MetricsSets, NEW o \in Operations, NEW v \in AdmissionSets
    PROVE  AdmissionSet([m EXCEPT !.admission[o] = v], m, o, v)
  <1> DEFINE f == [m.admission EXCEPT ![o] = v]
             x == [m EXCEPT !.admission[o] = v]
  <1>1. m.admission \in [Operations -> AdmissionSets]
    BY DEF MetricsSets
  <1>2. /\ f \in [Operations -> AdmissionSets]
        /\ \A p \in Operations : f[p] = IF p = o THEN v ELSE m.admission[p]
    BY <1>1
  <1>3. x = [m EXCEPT !.admission = f]
    BY DEF MetricsSets
  <1> HIDE DEF f, x
  <1>4. /\ x \in MetricsSets /\ x.admission = f /\ x.actor = m.actor /\ x.phases = m.phases
        /\ x.histograms = m.histograms /\ x.snapshotBytes = m.snapshotBytes /\ x.teardown = m.teardown
    BY <1>2, <1>3 DEF MetricsSets
  <1>5. AdmissionSet(x, m, o, v)
    BY <1>2, <1>4 DEF AdmissionSet, SameRest
  <1> QED BY <1>5 DEF x

\* An attempt and a rejection are counted, the other counters stay.
LEMMA AttemptFacts ==
    ASSUME NEW m \in MetricsSets, NEW o \in Operations
    PROVE  /\ AdmissionSet(Attempt(m, o), m, o,
                           [m.admission[o] EXCEPT !.attempted = @ + 1])
           /\ AdmissionSet(Reject(m, o), m, o,
                           [m.admission[o] EXCEPT !.rejected = @ + 1])
  <1>1. m.admission[o] \in AdmissionSets
    BY DEF MetricsSets
  <1>2. /\ [m.admission[o] EXCEPT !.attempted = @ + 1] \in AdmissionSets
        /\ [m.admission[o] EXCEPT !.rejected = @ + 1] \in AdmissionSets
    BY <1>1 DEF AdmissionSets
  <1>3. /\ Attempt(m, o) = [m EXCEPT !.admission[o] = [m.admission[o] EXCEPT !.attempted = @ + 1]]
        /\ Reject(m, o) = [m EXCEPT !.admission[o] = [m.admission[o] EXCEPT !.rejected = @ + 1]]
    BY DEF Attempt, Reject, MetricsSets
  <1> QED BY <1>2, <1>3, AdmissionWritten

\* Ticket::new and Ticket::arm: an admitted call is attempted and accepted, and
\* its ticket is armed and nothing else.
ArmedTicket(t, o) ==
    /\ t \in Tickets /\ t.op = o /\ t.accepted /\ t.worker = OperationActor
    /\ ~t.dispatched /\ ~t.settled /\ ~t.started

\* An admitted call is attempted and accepted, and its ticket is armed.
LEMMA ArmFacts ==
    ASSUME NEW m \in MetricsSets, NEW o \in Operations
    PROVE  LET w == Arm([m |-> Attempt(m, o), t |-> Ticket(o)]) IN
           /\ ArmedTicket(w.t, o)
           /\ AdmissionSet(w.m, m, o, [attempted |-> m.admission[o].attempted + 1,
                                       accepted |-> m.admission[o].accepted + 1,
                                       rejected |-> m.admission[o].rejected])
  <1> DEFINE u == [m |-> Attempt(m, o), t |-> Ticket(o)]
             v == [m.admission[o] EXCEPT !.attempted = @ + 1]
             z == [attempted |-> m.admission[o].attempted + 1,
                   accepted |-> m.admission[o].accepted + 1, rejected |-> m.admission[o].rejected]
             a == [Attempt(m, o) EXCEPT !.admission[o].accepted = @ + 1]
  <1>1. AdmissionSet(Attempt(m, o), m, o, v)
    BY AttemptFacts
  <1>2. m.admission[o] \in AdmissionSets
    BY DEF MetricsSets
  <1>3. v \in AdmissionSets /\ z \in AdmissionSets /\ [v EXCEPT !.accepted = @ + 1] = z
    <2>1. PICK r \in AdmissionSets : r = m.admission[o]
      BY <1>2
    <2>2. PICK i, j, k \in Nat : r = [attempted |-> i, accepted |-> j, rejected |-> k]
      BY DEF AdmissionSets
    <2>3. r.attempted = i /\ r.accepted = j /\ r.rejected = k
      BY <2>2
    <2>4. [r EXCEPT !.attempted = r.attempted + 1] = [attempted |-> i + 1, accepted |-> j, rejected |-> k]
      BY <2>2, <2>3
    <2>5. v = [attempted |-> i + 1, accepted |-> j, rejected |-> k]
      BY <2>1, <2>4
    <2>6. z = [attempted |-> i + 1, accepted |-> j + 1, rejected |-> k]
      BY <2>1, <2>3
    <2>7. [v EXCEPT !.accepted = @ + 1] = [attempted |-> i + 1, accepted |-> j + 1, rejected |-> k]
      <3> HIDE DEF v
      <3>1. v \in AdmissionSets
        BY <2>5 DEF AdmissionSets
      <3>2. v.attempted = i + 1 /\ v.accepted = j /\ v.rejected = k
        BY <2>5
      <3> QED BY <3>1, <3>2 DEF AdmissionSets
    <2> QED BY <2>5, <2>6, <2>7 DEF AdmissionSets
  <1>4. Ticket(o) \in Tickets /\ ~Ticket(o).accepted /\ Ticket(o).op = o
    BY DEF Ticket, Tickets, Actors
  <1>5. Arm(u) = [m |-> a, t |-> [Ticket(o) EXCEPT !.accepted = TRUE]]
    BY <1>4 DEF Arm
  <1>6. ArmedTicket([Ticket(o) EXCEPT !.accepted = TRUE], o)
    BY DEF ArmedTicket, Ticket, Tickets, Actors
  <1>7. Attempt(m, o) \in MetricsSets /\ Attempt(m, o).admission[o] = v
    BY <1>1 DEF AdmissionSet
  <1> HIDE DEF v, z
  <1>8. a = [Attempt(m, o) EXCEPT !.admission[o] = z]
    BY <1>3, <1>7 DEF MetricsSets
  <1>9. AdmissionSet(a, Attempt(m, o), o, z)
    BY <1>3, <1>7, <1>8, AdmissionWritten
  <1>10. AdmissionSet(a, m, o, z)
    BY <1>1, <1>9 DEF AdmissionSet, SameRest
  <1> HIDE DEF a, u
  <1>11. Arm(u).m = a /\ Arm(u).t = [Ticket(o) EXCEPT !.accepted = TRUE]
    BY <1>5
  <1> QED BY <1>6, <1>10, <1>11 DEF z, u

\* Ticket::bind_worker and Ticket::dispatch.
LEMMA DispatchFacts ==
    ASSUME NEW m \in MetricsSets, NEW t \in Tickets
    PROVE  LET w == Dispatch([m |-> m, t |-> t])
               c == m.actor[t.worker][t.op]
           IN  /\ w.t \in Tickets /\ w.t.op = t.op /\ w.t.worker = t.worker
               /\ w.t.accepted = t.accepted /\ w.t.settled = t.settled /\ w.t.started = t.started
               /\ w.t.dispatched = (t.dispatched \/ t.accepted)
               /\ ActorSet(w.m, m, t.worker, t.op,
                    [c EXCEPT !.dispatched = @ + (IF t.accepted /\ ~t.dispatched THEN 1 ELSE 0)])
  <1> DEFINE c == m.actor[t.worker][t.op]
             v == [c EXCEPT !.dispatched = @ + 1]
             x == [m EXCEPT !.actor[t.worker][t.op].dispatched = @ + 1]
             w == [m |-> m, t |-> t]
  <1>1. t.worker \in Actors /\ t.op \in Operations /\ t.accepted \in BOOLEAN /\ t.dispatched \in BOOLEAN
    BY DEF Tickets
  <1>2. c \in CounterSets
    BY <1>1 DEF MetricsSets
  <1>3. CASE t.accepted /\ ~t.dispatched
    <2>1. Dispatch(w) = [m |-> x, t |-> [t EXCEPT !.dispatched = TRUE]]
      BY <1>3 DEF Dispatch
    <2>2. x = [m EXCEPT !.actor[t.worker][t.op] = v] /\ v \in CounterSets
      <3>1. v \in CounterSets
        BY <1>2 DEF CounterSets
      <3>2. x = [m EXCEPT !.actor[t.worker][t.op] = v]
        BY <1>1 DEF MetricsSets
      <3> QED BY <3>1, <3>2
    <2>3. ActorSet(x, m, t.worker, t.op, v)
      BY <1>1, <2>2, ActorWritten
    <2>4. v = [c EXCEPT !.dispatched = @ + (IF t.accepted /\ ~t.dispatched THEN 1 ELSE 0)]
      BY <1>3
    <2>5. /\ [t EXCEPT !.dispatched = TRUE] \in Tickets
          /\ LET s == [t EXCEPT !.dispatched = TRUE] IN
             /\ s.op = t.op /\ s.worker = t.worker /\ s.accepted = t.accepted
             /\ s.settled = t.settled /\ s.started = t.started /\ s.dispatched = TRUE
      BY DEF Tickets
    <2> HIDE DEF x, v
    <2>6. Dispatch(w).m = x /\ Dispatch(w).t = [t EXCEPT !.dispatched = TRUE]
      <3> HIDE DEF w
      <3> QED BY <2>1
    <2> QED BY <1>3, <2>3, <2>4, <2>5, <2>6
  <1>4. CASE ~(t.accepted /\ ~t.dispatched)
    <2>1. Dispatch(w) = w
      BY <1>4 DEF Dispatch
    <2>2. [c EXCEPT !.dispatched = @ + (IF t.accepted /\ ~t.dispatched THEN 1 ELSE 0)] = c
      BY <1>2, <1>4 DEF CounterSets
    <2>3. ActorSet(m, m, t.worker, t.op, c)
      BY <1>1, <1>2 DEF ActorSet, SameRest
    <2>4. t.dispatched = (t.dispatched \/ t.accepted)
      BY <1>1, <1>4
    <2> QED BY <2>1, <2>2, <2>3, <2>4
  <1> QED BY <1>3, <1>4
\* The counters of actor a for operation o move: d dispatched, q samples of the
\* queue and c completed ones more.
ActorMoved(x, m, a, o, d, q, c) ==
    /\ x \in MetricsSets /\ SameRest(x, m) /\ x.teardown = m.teardown
    /\ x.admission = m.admission /\ x.phases = m.phases
    /\ \A b \in Actors, p \in Operations : ~(b = a /\ p = o) => x.actor[b][p] = m.actor[b][p]
    /\ x.actor[a][o].dispatched = m.actor[a][o].dispatched + d
    /\ x.actor[a][o].queue.count = m.actor[a][o].queue.count + q
    /\ x.actor[a][o].succeeded + x.actor[a][o].failed
          = m.actor[a][o].succeeded + m.actor[a][o].failed + c

\* A sample is recorded.
LEMMA RecordFacts ==
    ASSUME NEW l \in Latencies, NEW e
    PROVE  Record(l, e) \in Latencies /\ Record(l, e).count = l.count + 1
  BY DEF Record, Latencies

\* The counters of an actor are numbers.
LEMMA CounterFacts ==
    ASSUME NEW m \in MetricsSets, NEW a \in Actors, NEW o \in Operations
    PROVE  /\ m.actor[a][o] \in CounterSets
           /\ m.actor[a][o].dispatched \in Int /\ m.actor[a][o].succeeded \in Nat
           /\ m.actor[a][o].failed \in Nat /\ m.actor[a][o].queue \in Latencies
           /\ m.actor[a][o].execution \in Latencies /\ m.actor[a][o].queue.count \in Nat
  <1>1. m.actor[a][o] \in CounterSets
    BY DEF MetricsSets
  <1>2. PICK c \in CounterSets : c = m.actor[a][o]
    BY <1>1
  <1>3. /\ c.dispatched \in Int /\ c.succeeded \in Nat /\ c.failed \in Nat
        /\ c.queue \in Latencies /\ c.execution \in Latencies
    BY DEF CounterSets
  <1>4. c.queue.count \in Nat
    BY <1>3 DEF Latencies
  <1> QED BY <1>1, <1>2, <1>3, <1>4

\* Counters that are written move by what they differ.
LEMMA WrittenMoves ==
    ASSUME NEW m \in MetricsSets, NEW a \in Actors, NEW o \in Operations, NEW v \in CounterSets,
           NEW d, NEW q, NEW c,
           v.dispatched = m.actor[a][o].dispatched + d,
           v.queue.count = m.actor[a][o].queue.count + q,
           v.succeeded + v.failed = m.actor[a][o].succeeded + m.actor[a][o].failed + c
    PROVE  ActorMoved([m EXCEPT !.actor[a][o] = v], m, a, o, d, q, c)
  <1> DEFINE x == [m EXCEPT !.actor[a][o] = v]
  <1>1. ActorSet(x, m, a, o, v)
    BY ActorWritten
  <1> HIDE DEF x
  <1>2. x.actor[a][o] = v
    BY <1>1 DEF ActorSet
  <1>3. ActorMoved(x, m, a, o, d, q, c)
    BY <1>1, <1>2 DEF ActorSet, ActorMoved
  <1> QED BY <1>3 DEF x

\* Nothing moves.
LEMMA NothingMoves ==
    ASSUME NEW m \in MetricsSets, NEW a \in Actors, NEW o \in Operations
    PROVE  ActorMoved(m, m, a, o, 0, 0, 0)
  BY CounterFacts DEF ActorMoved, SameRest

\* Two moves of the same counters add up.
LEMMA MovesAdd ==
    ASSUME NEW m \in MetricsSets, NEW a \in Actors, NEW o \in Operations, NEW x, NEW y,
           NEW d \in Int, NEW q \in Int, NEW c \in Int, NEW e \in Int, NEW r \in Int, NEW f \in Int,
           ActorMoved(x, m, a, o, d, q, c), ActorMoved(y, x, a, o, e, r, f)
    PROVE  ActorMoved(y, m, a, o, d + e, q + r, c + f)
  <1>1. x \in MetricsSets
    BY DEF ActorMoved
  <1>2. /\ m.actor[a][o].dispatched \in Int /\ m.actor[a][o].queue.count \in Nat
        /\ m.actor[a][o].succeeded \in Nat /\ m.actor[a][o].failed \in Nat
    BY CounterFacts
  <1> QED BY <1>1, <1>2 DEF ActorMoved, SameRest

\* Ticket::start: a live ticket is dispatched if it was not, and its wait is one
\* sample of the queue.
LEMMA StartFacts ==
    ASSUME NEW m \in MetricsSets, NEW t \in Tickets, t.accepted, ~t.started, ~t.settled
    PROVE  LET w == Start([m |-> m, t |-> t]) IN
           /\ w.t \in Tickets /\ w.t.op = t.op /\ w.t.worker = t.worker
           /\ w.t.accepted /\ ~w.t.settled /\ w.t.started /\ w.t.dispatched
           /\ ActorMoved(w.m, m, t.worker, t.op, IF t.dispatched THEN 0 ELSE 1, 1, 0)
  <1> DEFINE u == [m |-> m, t |-> t]
             a == t.worker
             o == t.op
             k == IF t.dispatched THEN 0 ELSE 1
  <1>1. a \in Actors /\ o \in Operations /\ t.dispatched \in BOOLEAN
    BY DEF Tickets
  <1>2. PICK d : d = Dispatch(u)
    OBVIOUS
  <1>3. /\ d.t \in Tickets /\ d.t.op = o /\ d.t.worker = a /\ d.t.accepted /\ ~d.t.settled
        /\ d.t.dispatched
        /\ ActorSet(d.m, m, a, o, [m.actor[a][o] EXCEPT !.dispatched = @ + k])
    <2>1. LET w == Dispatch(u) IN
          /\ w.t \in Tickets /\ w.t.op = t.op /\ w.t.worker = t.worker
          /\ w.t.accepted = t.accepted /\ w.t.settled = t.settled
          /\ w.t.dispatched = (t.dispatched \/ t.accepted)
          /\ ActorSet(w.m, m, t.worker, t.op, [m.actor[t.worker][t.op] EXCEPT
                 !.dispatched = @ + (IF t.accepted /\ ~t.dispatched THEN 1 ELSE 0)])
      BY DispatchFacts
    <2>2. (IF t.accepted /\ ~t.dispatched THEN 1 ELSE 0) = k
      BY <1>1
    <2> HIDE DEF k
    <2> QED BY <1>2, <2>1, <2>2
  <1>4. PICK c \in CounterSets : c = m.actor[a][o]
    BY <1>1, CounterFacts
  <1>5. PICK e \in CounterSets : e = [c EXCEPT !.dispatched = @ + k]
    <2>1. k \in Int
      OBVIOUS
    <2> HIDE DEF k
    <2>2. c.dispatched + k \in Int
      BY <2>1 DEF CounterSets
    <2>3. [c EXCEPT !.dispatched = @ + k] \in CounterSets
      BY <2>2 DEF CounterSets
    <2> QED BY <2>3
  <1>6. /\ e.dispatched = c.dispatched + k /\ e.queue = c.queue
        /\ e.succeeded = c.succeeded /\ e.failed = c.failed
    BY <1>5 DEF CounterSets
  <1>7. ActorMoved(d.m, m, a, o, k, 0, 0)
    <2>1. ActorSet(d.m, m, a, o, e)
      BY <1>3, <1>4, <1>5
    <2>2. d.m.actor[a][o] = e
      BY <1>1, <2>1 DEF ActorSet
    <2>3. c.queue.count \in Nat /\ c.succeeded \in Nat /\ c.failed \in Nat
      BY <1>1, <1>4, CounterFacts
    <2> HIDE DEF a, o, k
    <2> QED BY <1>4, <1>6, <2>1, <2>2, <2>3 DEF ActorSet, ActorMoved
  <1>8. d.m \in MetricsSets
    BY <1>7 DEF ActorMoved
  <1> DEFINE v == [d.m.actor[a][o] EXCEPT !.queue = Record(@, d.m.histograms)]
             x == [d.m EXCEPT !.actor[d.t.worker][d.t.op].queue = Record(@, d.m.histograms)]
             s == [d.t EXCEPT !.started = TRUE]
  <1>9. Start(u) = [m |-> x, t |-> s]
    <2>1. Start(u) = LET z == Dispatch(u) IN
         [m |-> [z.m EXCEPT !.actor[z.t.worker][z.t.op].queue = Record(@, z.m.histograms)],
          t |-> [z.t EXCEPT !.started = TRUE]]
      BY DEF Start
    <2> QED BY <1>2, <2>1
  <1>10. x = [d.m EXCEPT !.actor[a][o] = v]
    BY <1>1, <1>3, <1>8 DEF MetricsSets
  <1>11. /\ v \in CounterSets /\ v.dispatched = d.m.actor[a][o].dispatched
         /\ v.queue.count = d.m.actor[a][o].queue.count + 1
         /\ v.succeeded = d.m.actor[a][o].succeeded /\ v.failed = d.m.actor[a][o].failed
    <2>1. PICK g \in CounterSets : g = d.m.actor[a][o]
      BY <1>1, <1>8, CounterFacts
    <2>2. PICK l \in Latencies : l = Record(g.queue, d.m.histograms) /\ l.count = g.queue.count + 1
      BY RecordFacts DEF CounterSets
    <2>3. v = [g EXCEPT !.queue = l]
      BY <2>1, <2>2
    <2> HIDE DEF v
    <2> QED BY <2>1, <2>2, <2>3 DEF CounterSets
  <1>12. ActorMoved(x, d.m, a, o, 0, 1, 0)
    <2>1. /\ d.m.actor[a][o].dispatched \in Int /\ d.m.actor[a][o].succeeded \in Nat
          /\ d.m.actor[a][o].failed \in Nat
      BY <1>1, <1>8, CounterFacts
    <2> HIDE DEF v, x, a, o
    <2>2. /\ v.dispatched = d.m.actor[a][o].dispatched + 0
          /\ v.succeeded + v.failed = d.m.actor[a][o].succeeded + d.m.actor[a][o].failed + 0
      BY <1>11, <2>1
    <2>3. ActorMoved([d.m EXCEPT !.actor[a][o] = v], d.m, a, o, 0, 1, 0)
      BY <1>1, <1>8, <1>11, <2>2, WrittenMoves
    <2> QED BY <1>10, <2>3
  <1>13. ActorMoved(x, m, a, o, k, 1, 0)
    <2>1. k \in Int /\ k + 0 = k /\ 0 + 1 = 1 /\ 0 + 0 = 0
      OBVIOUS
    <2> HIDE DEF x, a, o, k
    <2>2. ActorMoved(x, m, a, o, k + 0, 0 + 1, 0 + 0)
      BY <1>1, <1>7, <1>12, <2>1, MovesAdd
    <2> QED BY <2>1, <2>2
  <1>14. /\ s \in Tickets /\ s.op = o /\ s.worker = a /\ s.accepted /\ ~s.settled
         /\ s.started /\ s.dispatched
    BY <1>3 DEF Tickets
  <1> HIDE DEF x, s
  <1>15. Start(u).m = x /\ Start(u).t = s
    <2> HIDE DEF u
    <2> QED BY <1>9
  <1> QED BY <1>13, <1>14, <1>15
\* Ticket::finish and Ticket::bind_worker change the ticket alone.
LEMMA FinishFacts ==
    ASSUME NEW m, NEW t \in Tickets
    PROVE  LET w == Finish([m |-> m, t |-> t]) IN
           /\ w.m = m /\ w.t \in Tickets /\ w.t.op = t.op /\ w.t.worker = t.worker
           /\ w.t.accepted = t.accepted /\ w.t.settled = t.settled
           /\ w.t.started = t.started /\ w.t.dispatched = t.dispatched
  <1> DEFINE s == [t EXCEPT !.execution = TRUE]
             u == [m |-> m, t |-> t]
  <1>1. /\ s \in Tickets /\ s.op = t.op /\ s.worker = t.worker /\ s.accepted = t.accepted
        /\ s.settled = t.settled /\ s.started = t.started /\ s.dispatched = t.dispatched
    BY DEF Tickets
  <1>2. [u EXCEPT !.t.execution = TRUE].m = m /\ [u EXCEPT !.t.execution = TRUE].t = s
    OBVIOUS
  <1>3. Finish(u).m = m /\ (Finish(u).t = s \/ Finish(u).t = t)
    <2>1. Finish(u) = [u EXCEPT !.t.execution = TRUE] \/ Finish(u) = u
      BY DEF Finish
    <2>2. u.m = m /\ u.t = t
      OBVIOUS
    <2>3. PICK y : y = [u EXCEPT !.t.execution = TRUE] /\ y.m = m /\ y.t = s
      BY <1>2
    <2>4. Finish(u) = y \/ Finish(u) = u
      BY <2>1, <2>3
    <2> HIDE DEF u
    <2> QED BY <2>2, <2>3, <2>4
  <1> HIDE DEF s
  <1> QED BY <1>1, <1>3

\* Binding a ticket to a worker changes the worker of a search that was not dispatched.
LEMMA BindFacts ==
    ASSUME NEW m, NEW t \in Tickets, NEW worker \in Workers
    PROVE  LET w == BindWorker([m |-> m, t |-> t], worker) IN
           /\ w.m = m /\ w.t \in Tickets /\ w.t.op = t.op
           /\ w.t.accepted = t.accepted /\ w.t.settled = t.settled
           /\ w.t.started = t.started /\ w.t.dispatched = t.dispatched
           /\ w.t.worker # t.worker => t.op \in SearchOperations /\ ~t.dispatched
  <1> DEFINE s == [t EXCEPT !.worker = worker]
             u == [m |-> m, t |-> t]
  <1>1. /\ s \in Tickets /\ s.op = t.op /\ s.accepted = t.accepted
        /\ s.settled = t.settled /\ s.started = t.started /\ s.dispatched = t.dispatched
    BY DEF Tickets, Actors
  <1>2. [u EXCEPT !.t.worker = worker] = [m |-> m, t |-> s]
    OBVIOUS
  <1>3. \/ BindWorker(u, worker) = [m |-> m, t |-> s] /\ MayBind(t)
        \/ BindWorker(u, worker) = u
    BY <1>2 DEF BindWorker
  <1> HIDE DEF s
  <1> QED BY <1>1, <1>3 DEF MayBind

\* Ticket::settle: a live ticket leaves the gauge it is in, is one sample of the
\* queue if it never started, and is completed.
LEMMA SettleFacts ==
    ASSUME NEW m \in MetricsSets, NEW t \in Tickets, NEW ok \in BOOLEAN, t.accepted, ~t.settled
    PROVE  LET w == Settle([m |-> m, t |-> t], ok) IN
           ActorMoved(w.m, m, t.worker, t.op, IF t.dispatched THEN -1 ELSE 0,
                      IF t.started THEN 0 ELSE 1, 1)
  <1> DEFINE u == [m |-> m, t |-> t]
             a == t.worker
             o == t.op
             v == Outcome(m.actor[a][o], t, ok, m.histograms)
             x == [m EXCEPT !.actor[a][o] = Outcome(@, t, ok, m.histograms)]
             d == IF t.dispatched THEN -1 ELSE 0
             q == IF t.started THEN 0 ELSE 1
  <1>1. a \in Actors /\ o \in Operations /\ t.dispatched \in BOOLEAN /\ t.started \in BOOLEAN
    BY DEF Tickets
  <1>2. Settle(u, ok).m = x
    BY DEF Settle
  <1>3. x = [m EXCEPT !.actor[a][o] = v]
    BY <1>1 DEF MetricsSets
  <1>4. PICK c \in CounterSets : c = m.actor[a][o]
    BY <1>1, CounterFacts
  <1>5. /\ c.dispatched \in Int /\ c.succeeded \in Nat /\ c.failed \in Nat
        /\ c.queue \in Latencies /\ c.execution \in Latencies
    BY DEF CounterSets
  <1> DEFINE h == m.histograms
             e1 == IF t.started THEN Record(c.execution, h) ELSE c.execution
             q1 == IF t.started THEN c.queue ELSE Record(c.queue, h)
             s1 == c.succeeded + (IF ok THEN 1 ELSE 0)
             f1 == c.failed + (IF ok THEN 0 ELSE 1)
             d1 == c.dispatched - (IF t.dispatched THEN 1 ELSE 0)
             r == [dispatched |-> d1, succeeded |-> s1, failed |-> f1, queue |-> q1, execution |-> e1]
  <1>6. /\ e1 \in Latencies /\ q1 \in Latencies /\ s1 \in Nat /\ f1 \in Nat /\ d1 \in Int
        /\ s1 + f1 = c.succeeded + c.failed + 1 /\ d1 = c.dispatched + d
    BY <1>1, <1>5, RecordFacts
  <1>7. q1.count = c.queue.count + q
    <2>1. c.queue.count \in Nat
      BY <1>5 DEF Latencies
    <2> QED BY <1>1, <1>5, <2>1, RecordFacts
  <1>8. v = r
    <2>1. v = [c EXCEPT !.dispatched = @ - (IF t.dispatched THEN 1 ELSE 0),
                        !.execution = IF t.started THEN Record(@, h) ELSE @,
                        !.queue = IF t.started THEN @ ELSE Record(@, h),
                        !.succeeded = @ + (IF ok THEN 1 ELSE 0),
                        !.failed = @ + (IF ok THEN 0 ELSE 1)]
      BY <1>4 DEF Outcome
    <2>2. c = [dispatched |-> c.dispatched, succeeded |-> c.succeeded, failed |-> c.failed,
               queue |-> c.queue, execution |-> c.execution]
      BY DEF CounterSets
    <2> QED BY <2>1, <2>2
  <1>9. /\ v \in CounterSets /\ v.dispatched = c.dispatched + d
        /\ v.queue.count = c.queue.count + q
        /\ v.succeeded + v.failed = c.succeeded + c.failed + 1
    <2> HIDE DEF v, e1, q1, s1, f1, d1, d, q
    <2> QED BY <1>6, <1>7, <1>8 DEF CounterSets
  <1>10. ActorMoved([m EXCEPT !.actor[a][o] = v], m, a, o, d, q, 1)
    <2> HIDE DEF v, a, o, d, q
    <2> QED BY <1>1, <1>4, <1>9, WrittenMoves
  <1> HIDE DEF x, v
  <1> QED BY <1>2, <1>3, <1>10
\* Metrics whose admission and whose settings are those of m.
Quiet(x, m) ==
    /\ x \in MetricsSets /\ x.admission = m.admission /\ x.snapshotBytes = m.snapshotBytes

\* Two quiet changes are one.
LEMMA QuietChain ==
    ASSUME NEW x, NEW y, NEW m, Quiet(x, m), Quiet(y, x)
    PROVE  Quiet(y, m)
  BY DEF Quiet

\* No step of an admitted ticket, and no phase, counts an admission.
LEMMA SettleQuiet ==
    ASSUME NEW m \in MetricsSets, NEW t \in Tickets, NEW ok \in BOOLEAN
    PROVE  Quiet(Settle([m |-> m, t |-> t], ok).m, m)
  <1>1. CASE t.accepted /\ ~t.settled
    <2>1. PICK x : x = Settle([m |-> m, t |-> t], ok).m
      OBVIOUS
    <2>2. \E d, q, c : ActorMoved(x, m, t.worker, t.op, d, q, c)
      BY <1>1, <2>1, SettleFacts, SMTT(40)
    <2> QED BY <2>1, <2>2 DEF ActorMoved, SameRest, Quiet
  <1>2. CASE ~(t.accepted /\ ~t.settled)
    <2>1. Settle([m |-> m, t |-> t], ok).m = m
      BY <1>2 DEF Settle
    <2> QED BY <2>1 DEF Quiet
  <1> QED BY <1>1, <1>2

\* Starting a ticket counts no admission.
LEMMA StartQuiet ==
    ASSUME NEW m \in MetricsSets, NEW t \in Tickets
    PROVE  /\ Quiet(Start([m |-> m, t |-> t]).m, m)
           /\ Start([m |-> m, t |-> t]).t \in Tickets
  <1>1. CASE t.accepted /\ ~t.started /\ ~t.settled
    <2>1. PICK w : w = Start([m |-> m, t |-> t])
      OBVIOUS
    <2>2. w.t \in Tickets /\ \E d, q, c : ActorMoved(w.m, m, t.worker, t.op, d, q, c)
      BY <1>1, <2>1, StartFacts, SMTT(40)
    <2>3. Quiet(w.m, m)
      BY <2>2 DEF ActorMoved, SameRest, Quiet
    <2> QED BY <2>1, <2>2, <2>3
  <1>2. CASE ~(t.accepted /\ ~t.started /\ ~t.settled)
    <2>1. Start([m |-> m, t |-> t]) = [m |-> m, t |-> t]
      BY <1>2 DEF Start
    <2> QED BY <2>1 DEF Quiet
  <1> QED BY <1>1, <1>2

\* Taking a search, bound to its worker and dispatched, counts no admission.
LEMMA TakeQuiet ==
    ASSUME NEW m \in MetricsSets, NEW t \in Tickets, NEW worker \in Workers
    PROVE  LET d == Dispatch(BindWorker([m |-> m, t |-> t], worker)) IN
           Quiet(d.m, m) /\ d.t \in Tickets
  <1>1. PICK w : w = BindWorker([m |-> m, t |-> t], worker)
    OBVIOUS
  <1>2. w.m = m /\ w.t \in Tickets
    BY <1>1, BindFacts
  <1>3. w = [m |-> w.m, t |-> w.t]
    BY <1>1 DEF BindWorker
  <1>4. PICK s \in Tickets : s = w.t
    BY <1>2
  <1>5. w = [m |-> m, t |-> s]
    BY <1>2, <1>3, <1>4
  <1>6. PICK d : d = Dispatch([m |-> m, t |-> s])
    OBVIOUS
  <1>7. d.t \in Tickets /\ \E v : ActorSet(d.m, m, s.worker, s.op, v)
    BY <1>6, DispatchFacts, ZenonT(60)
  <1>8. Quiet(d.m, m)
    BY <1>7 DEF ActorSet, SameRest, Quiet
  <1> QED BY <1>1, <1>5, <1>6, <1>7, <1>8

\* A phase moves the counter of the phase alone.
LEMMA PhaseFacts ==
    ASSUME NEW m \in MetricsSets, NEW p \in Phases, NEW ok \in BOOLEAN
    PROVE  /\ Quiet(Phase(m, p, ok), m) /\ Phase(m, p, ok).actor = m.actor
           /\ Phase(m, p, ok).teardown = m.teardown /\ Phase(m, p, ok).histograms = m.histograms
  <1> DEFINE s == [m EXCEPT !.phases[p].succeeded = @ + 1]
             f == [m EXCEPT !.phases[p].failed = @ + 1]
             sp == [m.phases EXCEPT ![p].succeeded = @ + 1]
             fp == [m.phases EXCEPT ![p].failed = @ + 1]
  <1>1. m.phases \in [Phases -> [succeeded : Nat, failed : Nat]]
    BY DEF MetricsSets
  <1>2. PICK r \in [succeeded : Nat, failed : Nat] : r = m.phases[p]
    BY <1>1
  <1>3. /\ [r EXCEPT !.succeeded = @ + 1] \in [succeeded : Nat, failed : Nat]
        /\ [r EXCEPT !.failed = @ + 1] \in [succeeded : Nat, failed : Nat]
    OBVIOUS
  <1>4. /\ sp = [m.phases EXCEPT ![p] = [r EXCEPT !.succeeded = @ + 1]]
        /\ fp = [m.phases EXCEPT ![p] = [r EXCEPT !.failed = @ + 1]]
    BY <1>1, <1>2
  <1>5. /\ sp \in [Phases -> [succeeded : Nat, failed : Nat]]
        /\ fp \in [Phases -> [succeeded : Nat, failed : Nat]]
    BY <1>1, <1>3, <1>4
  <1>6. s = [m EXCEPT !.phases = sp] /\ f = [m EXCEPT !.phases = fp]
    BY DEF MetricsSets
  <1> HIDE DEF sp, fp, s, f
  <1>7. /\ Quiet(s, m) /\ s.actor = m.actor /\ s.teardown = m.teardown /\ s.histograms = m.histograms
    BY <1>5, <1>6 DEF MetricsSets, Quiet
  <1>8. /\ Quiet(f, m) /\ f.actor = m.actor /\ f.teardown = m.teardown /\ f.histograms = m.histograms
    BY <1>5, <1>6 DEF MetricsSets, Quiet
  <1>9. Phase(m, p, ok) = IF ok THEN s ELSE f
    BY DEF Phase, s, f
  <1> QED BY <1>7, <1>8, <1>9

\* Beginning and recording a teardown counts no admission.
LEMMA TeardownFacts ==
    ASSUME NEW m \in MetricsSets, NEW ok \in BOOLEAN
    PROVE  Quiet(BeginTeardown(m), m) /\ Quiet(FinishTeardown(m, ok), m)
  <1>1. Quiet(BeginTeardown(m), m)
    BY DEF BeginTeardown, MetricsSets, Quiet
  <1>2. PICK z : z = [m EXCEPT !.teardown = FALSE]
    OBVIOUS
  <1>3. Quiet(z, m)
    BY <1>2 DEF MetricsSets, Quiet
  <1>4. z \in MetricsSets /\ "teardown" \in Phases
    BY <1>3 DEF Quiet, Phases
  <1>5. Quiet(Phase(z, "teardown", ok), m)
    BY <1>3, <1>4, PhaseFacts, QuietChain
  <1>6. Quiet(m, m)
    BY DEF Quiet
  <1>7. FinishTeardown(m, ok) = IF m.teardown THEN Phase(z, "teardown", ok) ELSE m
    BY <1>2 DEF FinishTeardown
  <1> QED BY <1>1, <1>5, <1>6, <1>7

\* A drained queue counts no admission.
LEMMA SettleAllQuiet ==
    ASSUME NEW m \in MetricsSets, NEW q, NEW D, IsFiniteSet(D), \A i \in D : q[i].t \in Tickets
    PROVE  Quiet(SettleAll(m, q, D), m)
  <1> DEFINE Y == {y \in (SUBSET D) \X MetricsSets : Quiet(y[2], m)}
  <1>1. <<{}, m>> \in Y
    BY DEF Quiet
  <1>2. ASSUME NEW s \in SUBSET D, NEW i \in D, NEW acc, i \in s, <<s \ {i}, acc>> \in Y
        PROVE  <<s, Settle([m |-> acc, t |-> q[i].t], FALSE).m>> \in Y
    <2>1. acc \in MetricsSets /\ Quiet(acc, m)
      BY <1>2
    <2>2. PICK x : x = Settle([m |-> acc, t |-> q[i].t], FALSE).m
      OBVIOUS
    <2>3. Quiet(x, acc)
      BY <2>1, <2>2, SettleQuiet
    <2>4. Quiet(x, m) /\ x \in MetricsSets
      BY <2>1, <2>3, QuietChain DEF Quiet
    <2>5. <<s, x>> \in Y
      BY <2>4
    <2> QED BY <2>2, <2>5
  <1> HIDE DEF Y
  <1>3. <<D, SettleAll(m, q, D)>> \in Y
    BY <1>1, <1>2, SettleAllInduction
  <1> QED BY <1>3 DEF Y
-----------------------------------------------------------------------------
(* The loop of applyMutationBatch.                                         *)

\* The records a batch has still to send.
Due(bt) == (bt.at..Len(Plan[bt.id].records)) \cup {bt.replace[k] : k \in 1..Len(bt.replace)}

\* The cursor of a batch: the records due for replacement are behind it.
CursorOK(bt) ==
    /\ bt \in Runs /\ bt.at \in 1..(Len(Plan[bt.id].records) + 1)
    /\ \E I \in SUBSET (1..(bt.at - 1)) : Lists(bt.replace, I)

\* The three ways in which the loop gives up the thread: it has sent the records
\* J in one frame and awaits the answer, it has failed, or it is done.
Sends(bt, bs, J, next, ms) ==
    /\ J \subseteq Due(bt) /\ Due(next) = Due(bt) \ J
    /\ Carries(ms, bt.id, J)
    /\ CursorOK(next) /\ next.id = bt.id /\ next.attempted /\ next.reply = "none"
    /\ WriterAdmits
    /\ batch' = next
    /\ lstate' = IF bt.attempted THEN lstate ELSE "active"
    /\ batches' = bs
    /\ queue' = Append(queue, Command("apply", "batch", ms, FALSE))
    /\ metrics' = Admitted("apply").m
    /\ UNCHANGED <<native, running, closeReply, told>>
Fails(bt, bs) ==
    /\ FailBatch(bt.id, bs, bt.attempted)
    /\ metrics' = metrics \/ metrics' = Rejected("apply")
    /\ UNCHANGED writer
Finishes(bt, bs) ==
    /\ Due(bt) = {}
    /\ FinishBatch(bt.id, bs)
    /\ UNCHANGED <<writer, metrics>>

\* A list that is not empty, and the set it lists.
LEMMA ListFacts ==
    ASSUME NEW s, NEW I, Lists(s, I)
    PROVE  /\ {s[k] : k \in 1..Len(s)} = I
           /\ s = <<>> <=> I = {}
  <1>1. /\ s \in Seq(Nat) /\ Len(s) \in Nat
        /\ \A k \in 1..Len(s) : s[k] \in I
        /\ \A i \in I : \E k \in 1..Len(s) : s[k] = i
    BY LenProperties DEF Lists
  <1>2. {s[k] : k \in 1..Len(s)} = I
    BY <1>1
  <1>3. s = <<>> => I = {}
    BY <1>1
  <1>4. I = {} => s = <<>>
    <2>1. ASSUME I = {}, s # <<>> PROVE FALSE
      <3>1. Len(s) \in Nat \ {0}
        BY <1>1, <2>1, EmptySeq
      <3>2. 1 \in 1..Len(s)
        BY <3>1
      <3> QED BY <1>1, <2>1, <3>2
    <2> QED BY <2>1
  <1> QED BY <1>2, <1>3, <1>4

\* A frame without mutations carries no record.
LEMMA CarriesNothing ==
    ASSUME NEW b, NEW K, NEW ms, Carries(ms, b, K)
    PROVE  ms = <<>> <=> K = {}
  <1>1. /\ ms \in Seq(Mutations) /\ Len(ms) \in Nat
        /\ \A k \in 1..Len(ms) : \E i \in K : ms[k] = Mutation(b, i)
        /\ \A i \in K : \E k \in 1..Len(ms) : ms[k] = Mutation(b, i)
    BY LenProperties DEF Carries
  <1>2. ms = <<>> => K = {}
    <2>1. ms = <<>> => Len(ms) = 0
      BY EmptySeq
    <2> QED BY <1>1, <2>1
  <1>3. ASSUME K = {}, ms # <<>> PROVE FALSE
    <2>1. Len(ms) \in Nat \ {0}
      BY <1>1, <1>3, EmptySeq
    <2>2. 1 \in 1..Len(ms)
      BY <2>1
    <2> QED BY <1>1, <1>3, <2>2
  <1> QED BY <1>2, <1>3

\* The loop sends, fails or finishes.
LEMMA AdvanceFacts ==
    ASSUME NEW bt, NEW bs, CursorOK(bt), Advance(bt, bs)
    PROVE  \/ \E J, next, ms : Sends(bt, bs, J, next, ms)
           \/ Fails(bt, bs)
           \/ Finishes(bt, bs)
  <1> DEFINE b == bt.id
             N == Len(Plan[b].records)
             frame == CursorNext[b][bt.at]
             moved(left, at) == [bt EXCEPT !.at = at, !.replace = left,
                                           !.attempted = TRUE, !.reply = "none"]
             Sent(ms, left, at) ==
                IF WriterAdmits
                THEN /\ batch' = moved(left, at)
                     /\ lstate' = IF bt.attempted THEN lstate ELSE "active"
                     /\ batches' = bs
                     /\ Submit(Command("apply", "batch", ms, FALSE))
                     /\ UNCHANGED told
                ELSE Refuse("apply") /\ FailBatch(bt.id, bs, bt.attempted)
             Replaced(rejected, at) ==
                LET deletes == ReplacementFrame(b, rejected) IN
                Sent(deletes, SubSeq(rejected, Len(deletes) + 1, Len(rejected)), at)
  <1>1. /\ b \in Batches /\ bt.at \in Nat /\ bt \in Runs
        /\ bt.at \in 1..(N + 1) /\ N \in Nat
    BY PlanFacts DEF CursorOK, Runs
  <1>2. PICK I \in SUBSET (1..(bt.at - 1)) : Lists(bt.replace, I)
    BY DEF CursorOK
  <1>3. Due(bt) = (bt.at..N) \cup I /\ (bt.replace = <<>> <=> I = {})
    BY <1>2, ListFacts DEF Due
  <1>4. ASSUME NEW ms, NEW left, NEW at \in bt.at..(N + 1), NEW J, NEW L \in SUBSET (1..(at - 1)),
               Carries(ms, b, J), Lists(left, L), J \subseteq Due(bt),
               (at..N) \cup L = Due(bt) \ J, Sent(ms, left, at)
        PROVE  (\E K, next, f : Sends(bt, bs, K, next, f)) \/ Fails(bt, bs)
    <2>1. CASE WriterAdmits
      <3> DEFINE next == moved(left, at)
      <3>1. /\ next \in Runs /\ next.id = b /\ next.at = at /\ next.replace = left
            /\ next.attempted = TRUE /\ next.reply = "none"
        <4>1. left \in Seq(Nat) /\ at \in Nat
          BY <1>1, <1>4 DEF Lists
        <4>2. bt = [id |-> bt.id, at |-> bt.at, replace |-> bt.replace,
                    attempted |-> bt.attempted, reply |-> bt.reply]
          BY <1>1 DEF Runs
        <4>3. next = [id |-> bt.id, at |-> at, replace |-> left, attempted |-> TRUE, reply |-> "none"]
          <5>1. PICK n1 : n1 = [bt EXCEPT !.at = at]
            OBVIOUS
          <5>2. PICK n2 : n2 = [n1 EXCEPT !.replace = left]
            OBVIOUS
          <5>3. PICK n3 : n3 = [n2 EXCEPT !.attempted = TRUE]
            OBVIOUS
          <5>4. next = [n3 EXCEPT !.reply = "none"]
            BY <5>1, <5>2, <5>3
          <5>5. n1 = [id |-> bt.id, at |-> at, replace |-> bt.replace,
                      attempted |-> bt.attempted, reply |-> bt.reply]
            BY <1>1, <4>1, <5>1 DEF Runs
          <5>6. n2 = [id |-> bt.id, at |-> at, replace |-> left,
                      attempted |-> bt.attempted, reply |-> bt.reply]
            BY <5>5, <5>2
          <5>7. n3 = [id |-> bt.id, at |-> at, replace |-> left,
                      attempted |-> TRUE, reply |-> bt.reply]
            BY <5>6, <5>3
          <5> HIDE DEF next
          <5> QED BY <5>7, <5>4
        <4> HIDE DEF next
        <4> QED BY <1>1, <4>1, <4>3 DEF Runs
      <3> HIDE DEF next
      <3>2. CursorOK(next)
        BY <1>1, <1>4, <3>1 DEF CursorOK
      <3>3. Due(next) = Due(bt) \ J
        BY <1>4, <3>1, ListFacts DEF Due
      <3>4. /\ batch' = next /\ batches' = bs
            /\ lstate' = IF bt.attempted THEN lstate ELSE "active"
            /\ Submit(Command("apply", "batch", ms, FALSE)) /\ UNCHANGED told
        BY <1>4, <2>1 DEF next
      <3>5. /\ queue' = Append(queue, Command("apply", "batch", ms, FALSE))
            /\ metrics' = Admitted("apply").m /\ UNCHANGED <<native, running, closeReply>>
        BY <3>4 DEF Submit, Command
      <3>6. Sends(bt, bs, J, next, ms)
        BY <1>4, <2>1, <3>1, <3>2, <3>3, <3>4, <3>5 DEF Sends
      <3> QED BY <3>6
    <2>2. CASE ~WriterAdmits
      <3>1. Refuse("apply") /\ FailBatch(bt.id, bs, bt.attempted)
        BY <1>4, <2>2
      <3> QED BY <3>1 DEF Refuse, Fails
    <2> QED BY <2>1, <2>2
  <1>5. ASSUME NEW rejected, NEW at \in bt.at..(N + 1), NEW R \in SUBSET (1..(at - 1)),
               Lists(rejected, R), rejected # <<>>, R \subseteq Due(bt),
               (at..N) \cup R = Due(bt), Replaced(rejected, at)
        PROVE  (\E K, next, f : Sends(bt, bs, K, next, f)) \/ Fails(bt, bs)
    <2>1. PICK ms : ms = ReplacementFrame(b, rejected)
      OBVIOUS
    <2>2. R \in SUBSET (1..N)
      BY <1>1, <1>5
    <2>3. PICK J \in SUBSET R : /\ Carries(ms, b, J)
                                /\ Lists(SubSeq(rejected, Len(ms) + 1, Len(rejected)), R \ J)
      BY <1>1, <1>5, <2>1, <2>2, ReplacementFacts
    <2>4. PICK left : left = SubSeq(rejected, Len(ms) + 1, Len(rejected))
      OBVIOUS
    <2>5. Sent(ms, left, at)
      BY <1>5, <2>1, <2>4
    <2>6. (at..N) \cap R = {}
      BY <1>1, <1>5
    <2>7. (at..N) \cup (R \ J) = Due(bt) \ J /\ J \subseteq Due(bt) /\ R \ J \in SUBSET (1..(at - 1))
      BY <1>5, <2>3, <2>6
    <2>8. Lists(left, R \ J)
      BY <2>3, <2>4
    <2> HIDE DEF Sent
    <2> QED BY <1>4, <2>3, <2>5, <2>7, <2>8
  <1> DEFINE Done == FinishBatch(bt.id, bs) /\ UNCHANGED <<writer, metrics>>
             Stops == FailBatch(bt.id, bs, bt.attempted) /\ UNCHANGED <<writer, metrics>>
  <1>6. IF bt.replace # <<>> THEN Replaced(bt.replace, bt.at)
        ELSE IF bt.at > N THEN Done
        ELSE IF frame.rejected # <<>> /\ ~Plan[b].delete THEN Stops
        ELSE IF frame.mutations = <<>> THEN Replaced(frame.rejected, frame.at)
        ELSE Sent(frame.mutations, frame.rejected, frame.at)
    BY Zenon DEF Advance
  <1> HIDE DEF Sent, Replaced, Done, Stops
  <1>7. CASE bt.replace # <<>>
    <2>1. Replaced(bt.replace, bt.at)
      BY <1>6, <1>7
    <2>2. bt.at \in bt.at..(N + 1)
      BY <1>1
    <2> QED BY <1>2, <1>3, <1>5, <1>7, <2>1, <2>2
  <1>8. CASE bt.replace = <<>> /\ bt.at > N
    <2>1. Done
      BY <1>6, <1>8
    <2>2. Due(bt) = {}
      <3> HIDE DEF N
      <3>1. I = {}
        BY <1>3, <1>8
      <3>2. bt.at..N = {}
        BY <1>1, <1>8
      <3> QED BY <1>3, <3>1, <3>2
    <2> QED BY <2>1, <2>2 DEF Finishes, Done
  <1>9. CASE bt.replace = <<>> /\ ~(bt.at > N)
    <2>1. bt.at \in 1..N /\ Due(bt) = bt.at..N
      <3> HIDE DEF N
      <3>1. I = {}
        BY <1>3, <1>9
      <3>2. bt.at \in 1..N
        BY <1>1, <1>9
      <3> QED BY <1>3, <3>1, <3>2
    <2>2. /\ frame.at \in (bt.at + 1)..(N + 1)
          /\ \E K, R \in SUBSET (1..N) :
                 /\ K \cup R = bt.at..(frame.at - 1) /\ K \cap R = {}
                 /\ Carries(frame.mutations, b, K) /\ Lists(frame.rejected, R)
      BY <1>1, <2>1, FrameFacts
    <2> HIDE DEF frame
    <2>3. PICK K, R \in SUBSET (1..N) :
                 /\ K \cup R = bt.at..(frame.at - 1) /\ K \cap R = {}
                 /\ Carries(frame.mutations, b, K) /\ Lists(frame.rejected, R)
      BY <2>2
    <2>4. /\ frame.at \in bt.at..(N + 1) /\ frame.at \in Nat
          /\ (bt.at..(frame.at - 1)) \cup (frame.at..N) = bt.at..N
          /\ (bt.at..(frame.at - 1)) \cap (frame.at..N) = {}
          /\ bt.at..(frame.at - 1) \subseteq 1..(frame.at - 1)
          /\ bt.at \in bt.at..(frame.at - 1)
      BY <1>1, <2>1, <2>2
    <2>5. K \subseteq Due(bt) /\ R \subseteq Due(bt) /\ R \in SUBSET (1..(frame.at - 1))
      BY <2>1, <2>3, <2>4
    <2>6. CASE frame.rejected # <<>> /\ ~Plan[b].delete
      <3>1. Stops
        BY <1>6, <1>9, <2>6
      <3> QED BY <3>1 DEF Stops, Fails
    <2>7. CASE ~(frame.rejected # <<>> /\ ~Plan[b].delete) /\ frame.mutations = <<>>
      <3>1. Replaced(frame.rejected, frame.at)
        BY <1>6, <1>9, <2>7
      <3>2. K = {}
        BY <2>3, <2>7, CarriesNothing
      <3>3. R = bt.at..(frame.at - 1) /\ R # {}
        BY <2>3, <2>4, <3>2
      <3>4. frame.rejected # <<>> /\ (frame.at..N) \cup R = Due(bt)
        <4>1. frame.rejected # <<>>
          BY <2>3, <3>3, ListFacts
        <4>2. (frame.at..N) \cup R = Due(bt)
          BY <2>1, <2>4, <3>3
        <4> QED BY <4>1, <4>2
      <3> QED BY <1>5, <2>3, <2>4, <2>5, <3>1, <3>4
    <2>8. CASE ~(frame.rejected # <<>> /\ ~Plan[b].delete) /\ frame.mutations # <<>>
      <3>1. Sent(frame.mutations, frame.rejected, frame.at)
        BY <1>6, <1>9, <2>8
      <3>2. (frame.at..N) \cup R = Due(bt) \ K
        BY <2>1, <2>3, <2>4
      <3> QED BY <1>4, <2>3, <2>4, <2>5, <3>1, <3>2
    <2> QED BY <2>6, <2>7, <2>8
  <1> QED BY <1>7, <1>8, <1>9
-----------------------------------------------------------------------------
(* Commands.                                                               *)

\* What submitted a command and what the command does go together.
Fits(c) == (c.from = "close" <=> c.op = "close") /\ (c.from = "batch" => c.op = "apply")

\* The commands of the writer: none in the queue has panicked.
CommandsOK == /\ \A i \in 1..Len(queue) : Fits(queue[i]) /\ ~queue[i].panicked
              /\ running # None => Fits(running)

\* Metrics in which no search was attempted and no setting changed.
Calm(x) == /\ x \in MetricsSets /\ x.snapshotBytes = metrics.snapshotBytes
           /\ x.admission["search"].attempted = metrics.admission["search"].attempted

\* An admitted and a refused call are counted under their own operation.
LEMMA AdmittedFacts ==
    ASSUME TypeOK, NEW op \in CallOps \cup {"close"}
    PROVE  /\ Calm(Admitted(op).m) /\ Calm(Rejected(op))
           /\ ArmedTicket(Admitted(op).t, op)
  <1>1. op \in Operations /\ "search" \in Operations /\ op # "search"
    BY FacadeAssumption DEF CallOps
  <1>2. metrics \in MetricsSets
    BY DEF TypeOK
  <1>3. PICK w : w = Arm([m |-> Attempt(metrics, op), t |-> Ticket(op)])
    OBVIOUS
  <1>4. ArmedTicket(w.t, op) /\ \E v : AdmissionSet(w.m, metrics, op, v)
    BY <1>1, <1>2, <1>3, ArmFacts
  <1>5. Calm(w.m)
    BY <1>1, <1>4 DEF AdmissionSet, SameRest, Calm
  <1>6. PICK a : a = Attempt(metrics, op)
    OBVIOUS
  <1>7. \E v : AdmissionSet(a, metrics, op, v)
    BY <1>1, <1>2, <1>6, AttemptFacts
  <1>8. a \in MetricsSets /\ Calm(a)
    BY <1>1, <1>7 DEF AdmissionSet, SameRest, Calm
  <1>9. PICK r : r = Reject(a, op)
    OBVIOUS
  <1>10. \E v : AdmissionSet(r, a, op, v)
    BY <1>1, <1>8, <1>9, AttemptFacts
  <1>11. Calm(r)
    BY <1>1, <1>8, <1>10 DEF AdmissionSet, SameRest, Calm
  <1> QED BY <1>3, <1>4, <1>5, <1>6, <1>9, <1>11 DEF Admitted, Rejected

\* The same for a search, which is the one call that is attempted as a search.
LEMMA AdmittedSearch ==
    ASSUME TypeOK
    PROVE  /\ Admitted("search").m \in MetricsSets /\ Rejected("search") \in MetricsSets
           /\ Admitted("search").m.snapshotBytes = metrics.snapshotBytes
           /\ Rejected("search").snapshotBytes = metrics.snapshotBytes
           /\ ArmedTicket(Admitted("search").t, "search")
  <1>1. "search" \in Operations
    BY FacadeAssumption
  <1>2. metrics \in MetricsSets
    BY DEF TypeOK
  <1>3. PICK w : w = Arm([m |-> Attempt(metrics, "search"), t |-> Ticket("search")])
    OBVIOUS
  <1>4. ArmedTicket(w.t, "search") /\ \E v : AdmissionSet(w.m, metrics, "search", v)
    BY <1>1, <1>2, <1>3, ArmFacts
  <1>6. PICK a : a = Attempt(metrics, "search")
    OBVIOUS
  <1>7. \E v : AdmissionSet(a, metrics, "search", v)
    BY <1>1, <1>2, <1>6, AttemptFacts
  <1>8. a \in MetricsSets /\ a.snapshotBytes = metrics.snapshotBytes
    BY <1>7 DEF AdmissionSet, SameRest
  <1>9. PICK r : r = Reject(a, "search")
    OBVIOUS
  <1>10. \E v : AdmissionSet(r, a, "search", v)
    BY <1>1, <1>8, <1>9, AttemptFacts
  <1> QED BY <1>3, <1>4, <1>6, <1>8, <1>9, <1>10 DEF Admitted, Rejected, AdmissionSet, SameRest

\* A command, field by field.
LEMMA CommandTyped ==
    ASSUME NEW op \in CallOps \cup {"close"}, NEW from \in {"batch", "call", "close"},
           NEW ms \in Seq(Mutations), NEW rb \in BOOLEAN, NEW pk \in BOOLEAN, NEW t \in Tickets,
           NEW c, c = [op |-> op, from |-> from, mutations |-> ms, rollback |-> rb,
                       panicked |-> pk, t |-> t]
    PROVE  /\ c \in Commands /\ c.op = op /\ c.from = from /\ c.mutations = ms
           /\ c.rollback = rb /\ c.panicked = pk /\ c.t = t
  BY DEF Commands

\* A submitted command.
LEMMA CommandFacts ==
    ASSUME TypeOK, NEW op \in CallOps \cup {"close"}, NEW from \in {"batch", "call", "close"},
           NEW ms \in Seq(Mutations), NEW rb \in BOOLEAN
    PROVE  \E c \in Commands :
              /\ Command(op, from, ms, rb) = c /\ c.op = op /\ c.from = from /\ c.mutations = ms
              /\ c.rollback = rb /\ ~c.panicked /\ ArmedTicket(c.t, op)
  <1>1. PICK t : t = Admitted(op).t
    OBVIOUS
  <1>2. ArmedTicket(t, op) /\ t \in Tickets
    BY <1>1, AdmittedFacts DEF ArmedTicket
  <1>3. PICK c : c = Command(op, from, ms, rb)
    OBVIOUS
  <1>4. PICK pk \in BOOLEAN : pk = FALSE
    OBVIOUS
  <1>5. c = [op |-> op, from |-> from, mutations |-> ms, rollback |-> rb,
             panicked |-> pk, t |-> t]
    BY <1>1, <1>3, <1>4 DEF Command
  <1>6. /\ c \in Commands /\ c.op = op /\ c.from = from /\ c.mutations = ms
        /\ c.rollback = rb /\ c.panicked = pk /\ c.t = t
    BY <1>2, <1>5, CommandTyped
  <1> QED BY <1>2, <1>3, <1>4, <1>6

\* Appending to a queue, and taking its head.
LEMMA AppendFacts ==
    ASSUME NEW S, NEW q \in Seq(S), NEW c \in S
    PROVE  /\ Append(q, c) \in Seq(S) /\ Len(Append(q, c)) = Len(q) + 1 /\ Len(q) \in Nat
           /\ \A i \in 1..Len(q) : Append(q, c)[i] = q[i]
           /\ Append(q, c)[Len(q) + 1] = c
  BY AppendProperties, LenProperties

\* Taking the head off a queue.
LEMMA TailFacts ==
    ASSUME NEW S, NEW q \in Seq(S), q # <<>>
    PROVE  /\ Head(q) = q[1] /\ Head(q) \in S /\ Tail(q) \in Seq(S)
           /\ Len(q) \in Nat \ {0} /\ Len(Tail(q)) = Len(q) - 1
           /\ \A i \in 1..(Len(q) - 1) : Tail(q)[i] = q[i + 1]
  BY HeadTailProperties, LenProperties, EmptySeq

\* Runtime::poison keeps a queued close, and only that.
LEMMA KeptFacts ==
    ASSUME NEW q \in Seq(Commands)
    PROVE  \/ Kept(q) = <<>> /\ \A i \in 1..Len(q) : q[i].op # "close"
           \/ \E k \in 1..Len(q), c \in Commands :
                 /\ q[k].op = "close" /\ Kept(q) = <<c>>
                 /\ c.op = "close" /\ c.from = q[k].from /\ c.rollback = TRUE
                 /\ c.mutations = q[k].mutations /\ c.panicked = q[k].panicked /\ c.t = q[k].t
  <1> DEFINE closes == {i \in 1..Len(q) : q[i].op = "close"}
  <1>0. Len(q) \in Nat
    BY LenProperties
  <1>1. CASE closes = {}
    BY <1>1 DEF Kept
  <1>2. CASE closes # {}
    <2>1. PICK k : k = Min(closes)
      OBVIOUS
    <2>2. k \in closes
      <3>1. closes \in SUBSET Nat
        BY <1>0
      <3> HIDE DEF closes
      <3> QED BY <1>2, <2>1, <3>1, MinFacts
    <2>3. PICK d \in Commands : d = q[k]
      BY <2>2, ElementOfSeq
    <2>4. PICK c : c = [d EXCEPT !.rollback = TRUE]
      OBVIOUS
    <2>5. /\ c \in Commands /\ c.op = d.op /\ c.from = d.from /\ c.rollback = TRUE
          /\ c.mutations = d.mutations /\ c.panicked = d.panicked /\ c.t = d.t
      BY <2>4 DEF Commands
    <2>6. Kept(q) = <<c>>
      BY <1>2, <2>1, <2>3, <2>4 DEF Kept
    <2> QED BY <2>2, <2>3, <2>5, <2>6
  <1> QED BY <1>1, <1>2
-----------------------------------------------------------------------------
(* The first layer of the invariant: types, commands, cursors, and who is  *)
(* awaited is held.                                                        *)

\* The batch that runs has a cursor inside its plan.
CursorsOK == batch # None => CursorOK(batch)

\* A queue and a running command hold a command of the given origin.
Held(q, r, from) == (\E i \in 1..Len(q) : q[i].from = from) \/ (r # None /\ r.from = from)

Good == TypeOK /\ CommandsOK /\ CursorsOK /\ AwaitedIsHeld

BatchCounts == [attempted : Nat, succeeded : Nat, failed : Nat, frames : Nat]

\* AwaitedIsHeld in terms of Held.
LEMMA HeldIs ==
    AwaitedIsHeld <=> /\ batch # None /\ batch.reply = "none" => Held(queue, running, "batch")
                      /\ promise /\ ~closed /\ closeReply = "none" => Held(queue, running, "close")
  BY Zenon DEF AwaitedIsHeld, Held

\* A command that is appended to the queue keeps what is held and holds its own.
LEMMA AppendHeld ==
    ASSUME NEW q \in Seq(Commands), NEW c \in Commands, NEW r
    PROVE  /\ \A from : Held(q, r, from) => Held(Append(q, c), r, from)
           /\ Held(Append(q, c), r, c.from)
  <1>1. /\ Len(Append(q, c)) = Len(q) + 1 /\ Len(q) \in Nat
        /\ \A i \in 1..Len(q) : Append(q, c)[i] = q[i]
        /\ Append(q, c)[Len(q) + 1] = c
    BY AppendFacts
  <1>2. 1..Len(q) \subseteq 1..(Len(q) + 1) /\ Len(q) + 1 \in 1..(Len(q) + 1)
    BY <1>1
  <1> QED BY <1>1, <1>2 DEF Held

\* Appending a command that fits to a queue that does.
LEMMA AppendOK ==
    ASSUME TypeOK, CommandsOK, NEW c \in Commands, Fits(c), ~c.panicked,
           queue' = Append(queue, c), running' = running
    PROVE  queue' \in Seq(Commands) /\ CommandsOK'
  <1>1. /\ queue' \in Seq(Commands) /\ Len(queue') = Len(queue) + 1 /\ Len(queue) \in Nat
        /\ \A i \in 1..Len(queue) : queue'[i] = queue[i]
        /\ queue'[Len(queue) + 1] = c
    BY AppendFacts DEF TypeOK
  <1>2. \A i \in 1..Len(queue') : i \in 1..Len(queue) \/ i = Len(queue) + 1
    BY <1>1
  <1>3. \A i \in 1..Len(queue') : Fits(queue'[i]) /\ ~queue'[i].panicked
    BY <1>1, <1>2 DEF CommandsOK
  <1> QED BY <1>1, <1>3 DEF CommandsOK

\* The counters of logical batches stay numbers.
LEMMA BatchCountsTyped ==
    ASSUME NEW bs \in BatchCounts
    PROVE  /\ [bs EXCEPT !.attempted = @ + 1] \in BatchCounts
           /\ [bs EXCEPT !.succeeded = @ + 1] \in BatchCounts
           /\ [bs EXCEPT !.failed = @ + 1] \in BatchCounts
           /\ [bs EXCEPT !.frames = @ + 1] \in BatchCounts
  BY DEF BatchCounts

\* A batch that ends, in success or in failure.
LEMMA EndTyped ==
    ASSUME TypeOK, NEW b \in Batches, NEW bs \in BatchCounts,
           (\E a \in BOOLEAN : FailBatch(b, bs, a)) \/ FinishBatch(b, bs)
    PROVE  /\ told' \in [Batches -> {"none", "done", "failed"}] /\ batch' = None
           /\ lstate' \in {"idle", "incomplete"} /\ batches' \in BatchCounts
  <1>1. told \in [Batches -> {"none", "done", "failed"}]
    BY DEF TypeOK
  <1>2. CASE \E a \in BOOLEAN : FailBatch(b, bs, a)
    BY <1>1, <1>2, BatchCountsTyped DEF FailBatch, AfterFailure
  <1>3. CASE FinishBatch(b, bs)
    BY <1>1, <1>3, BatchCountsTyped DEF FinishBatch
  <1> QED BY <1>2, <1>3

\* Everything that a step of the loop of a batch leaves alone.
LoopFrame == UNCHANGED <<promise, closed, searchside, store, observed>>

\* The loop of a batch keeps the layer.
LEMMA AdvanceGood ==
    ASSUME Good, NEW bt, NEW bs \in BatchCounts, CursorOK(bt), Advance(bt, bs),
           LoopFrame, calls' \in Nat
    PROVE  Good' /\ Calm(metrics')
  <1>1. /\ bt \in Runs /\ bt.id \in Batches /\ bt.attempted \in BOOLEAN
    BY DEF CursorOK, Runs
  <1>2. "apply" \in CallOps \cup {"close"}
    BY DEF CallOps
  <1>3. /\ Calm(Admitted("apply").m) /\ Calm(Rejected("apply")) /\ Calm(metrics)
    BY <1>2, AdmittedFacts DEF Good, Calm, TypeOK
  <1>4. CASE \E J, next, ms : Sends(bt, bs, J, next, ms)
    <2>1. PICK J, next, ms : Sends(bt, bs, J, next, ms)
      BY <1>4
    <2>2. ms \in Seq(Mutations) /\ CursorOK(next) /\ next \in Runs /\ batch' = next
      BY <2>1 DEF Sends, Carries, CursorOK
    <2>3. PICK rb \in BOOLEAN : rb = FALSE
      OBVIOUS
    <2>4. PICK c \in Commands : /\ Command("apply", "batch", ms, rb) = c /\ c.op = "apply"
                                /\ c.from = "batch" /\ ~c.panicked
      BY <1>2, <2>2, CommandFacts DEF Good
    <2>5. queue' = Append(queue, c) /\ running' = running /\ closeReply' = closeReply /\ native' = native
      <3>1. Command("apply", "batch", ms, FALSE) = c
        BY <2>3, <2>4
      <3> QED BY <2>1, <3>1 DEF Sends
    <2>6. queue' \in Seq(Commands) /\ CommandsOK'
      BY <2>4, <2>5, AppendOK DEF Good, Fits
    <2>7. CursorsOK'
      BY <2>2 DEF CursorsOK
    <2>8. Calm(metrics') /\ metrics' \in MetricsSets
      BY <1>3, <2>1 DEF Sends, Calm
    <2>9. /\ \A from : Held(queue, running, from) => Held(queue', running', from)
          /\ Held(queue', running', "batch")
      BY <2>4, <2>5, AppendHeld DEF Good, TypeOK
    <2>10. AwaitedIsHeld'
      <3>1. (promise /\ ~closed /\ closeReply = "none" => Held(queue, running, "close"))
        BY HeldIs DEF Good
      <3>2. (promise /\ ~closed /\ closeReply = "none")' => Held(queue', running', "close")
        BY <2>5, <2>9, <3>1 DEF LoopFrame
      <3> QED BY <2>9, <3>2 DEF AwaitedIsHeld, Held
    <2>11. TypeOK'
      BY <2>1, <2>2, <2>5, <2>6, <2>8 DEF Sends, Good, TypeOK, LoopFrame, searchside, store, observed, BatchCounts
    <2> QED BY <2>6, <2>7, <2>8, <2>10, <2>11 DEF Good
  <1>5. CASE Fails(bt, bs) \/ Finishes(bt, bs)
    <2>1. /\ told' \in [Batches -> {"none", "done", "failed"}] /\ batch' = None
          /\ lstate' \in {"idle", "incomplete"} /\ batches' \in BatchCounts
      BY <1>1, <1>5, EndTyped DEF Fails, Finishes, Good
    <2>2. Calm(metrics') /\ metrics' \in MetricsSets /\ UNCHANGED writer
      BY <1>3, <1>5 DEF Fails, Finishes, Calm
    <2>3. TypeOK'
      BY <2>1, <2>2, SMTT(40) DEF Good, TypeOK, LoopFrame, searchside, store, observed, writer, BatchCounts
    <2>4. CommandsOK' /\ CursorsOK' /\ AwaitedIsHeld'
      BY <2>1, <2>2 DEF Good, CommandsOK, CursorsOK, AwaitedIsHeld, LoopFrame, writer
    <2> QED BY <2>2, <2>3, <2>4 DEF Good
  <1> QED BY <1>4, <1>5, AdvanceFacts
\* applyMutationBatch begins before the first record of its plan.
LEMMA FreshCursor ==
    ASSUME NEW b \in Batches, NEW bt, NEW s, NEW f \in BOOLEAN, s = <<>>, f = FALSE,
           bt = [id |-> b, at |-> 1, replace |-> s, attempted |-> f, reply |-> "none"]
    PROVE  CursorOK(bt) /\ bt.id = b /\ ~bt.attempted /\ bt.reply = "none"
           /\ Due(bt) = 1..Len(Plan[b].records)
  <1>1. s \in Seq(Nat) /\ Len(s) = 0
    BY EmptySeq
  <1>4. /\ bt \in Runs /\ bt.id = b /\ bt.at = 1 /\ bt.replace = s /\ bt.attempted = f
        /\ bt.reply = "none"
    <2>1. ASSUME NEW r, NEW i \in Batches, NEW a \in Nat, NEW l \in Seq(Nat), NEW x \in BOOLEAN,
                 r = [id |-> i, at |-> a, replace |-> l, attempted |-> x, reply |-> "none"]
          PROVE  /\ r \in Runs /\ r.id = i /\ r.at = a /\ r.replace = l /\ r.attempted = x
                 /\ r.reply = "none"
      BY <2>1 DEF Runs
    <2>2. s \in Seq(Nat) /\ 1 \in Nat
      BY <1>1
    <2> QED BY <2>1, <2>2, Zenon
  <1>5. Lists(s, {})
    BY <1>1 DEF Lists
  <1>6. Len(Plan[b].records) \in Nat
    BY PlanFacts
  <1>7. bt.at \in 1..(Len(Plan[bt.id].records) + 1)
    BY <1>4, <1>6
  <1>8. {} \in SUBSET (1..(bt.at - 1)) /\ Lists(bt.replace, {})
    BY <1>4, <1>5
  <1>9. CursorOK(bt)
    BY <1>4, <1>7, <1>8 DEF CursorOK
  <1>10. Due(bt) = 1..Len(Plan[b].records)
    BY <1>1, <1>4, <1>6 DEF Due
  <1> QED BY <1>4, <1>9, <1>10

\* applyMutationBatch keeps the layer, refused or begun.
LEMMA ApplyGood ==
    ASSUME Good, NEW b \in Batches, ApplyMutationBatch(b), UNCHANGED observed
    PROVE  Good' /\ Calm(metrics')
  <1>1. PICK bs : bs = [batches EXCEPT !.attempted = @ + 1]
    OBVIOUS
  <1>2. batches \in BatchCounts /\ bs \in BatchCounts /\ calls' \in Nat
    <2>1. batches \in BatchCounts
      BY DEF Good, TypeOK, BatchCounts
    <2>2. calls' \in Nat
      BY DEF Good, TypeOK, ApplyMutationBatch
    <2> QED BY <1>1, <2>1, <2>2, BatchCountsTyped
  <1>3. PICK bt : bt = [id |-> b, at |-> 1, replace |-> <<>>, attempted |-> FALSE, reply |-> "none"]
    OBVIOUS
  <1>4. LoopFrame
    BY DEF ApplyMutationBatch, LoopFrame
  <1>5. \/ Advance(bt, bs)
        \/ /\ told' = [told EXCEPT ![b] = "failed"]
           /\ batches' = [bs EXCEPT !.failed = @ + 1]
           /\ UNCHANGED <<lstate, batch, writer, metrics>>
    BY <1>1, <1>3, Zenon DEF ApplyMutationBatch
  <1>6. CASE Advance(bt, bs)
    <2>1. PICK s : s = <<>>
      OBVIOUS
    <2>2. PICK f \in BOOLEAN : f = FALSE
      OBVIOUS
    <2>3. bt = [id |-> b, at |-> 1, replace |-> s, attempted |-> f, reply |-> "none"]
      BY <1>3, <2>1, <2>2
    <2>4. CursorOK(bt)
      BY <2>1, <2>2, <2>3, FreshCursor
    <2> QED BY <1>2, <1>4, <1>6, <2>4, AdvanceGood
  <1>7. CASE /\ told' = [told EXCEPT ![b] = "failed"]
             /\ batches' = [bs EXCEPT !.failed = @ + 1]
             /\ UNCHANGED <<lstate, batch, writer, metrics>>
    <2>1. told' \in [Batches -> {"none", "done", "failed"}]
      BY <1>7 DEF Good, TypeOK
    <2>2. batches' \in BatchCounts
      BY <1>2, <1>7, BatchCountsTyped
    <2>0. calls' \in Nat /\ UNCHANGED <<lstate, batch, writer, metrics>>
      BY <1>2, <1>7
    <2>3. TypeOK'
      BY <1>4, <2>0, <2>1, <2>2
      DEF Good, TypeOK, LoopFrame, searchside, store, observed, writer, BatchCounts
    <2>4. CommandsOK' /\ CursorsOK' /\ AwaitedIsHeld'
      BY <1>4, <1>7 DEF Good, CommandsOK, CursorsOK, AwaitedIsHeld, LoopFrame, writer
    <2>5. Calm(metrics')
      BY <1>7 DEF Good, TypeOK, Calm
    <2> QED BY <2>3, <2>4, <2>5 DEF Good
  <1> QED BY <1>5, <1>6, <1>7

\* A batch whose frame was answered goes on, fails or finishes.
LEMMA ResumeGood ==
    ASSUME Good, ResumeBatch, UNCHANGED observed
    PROVE  Good' /\ Calm(metrics')
  <1>1. batches \in BatchCounts /\ calls' \in Nat /\ LoopFrame /\ CursorOK(batch)
        /\ batch.id \in Batches
    BY DEF Good, TypeOK, BatchCounts, ResumeBatch, LoopFrame, CursorsOK, CursorOK, Runs
  <1>2. CASE Advance(batch, [batches EXCEPT !.frames = @ + 1])
    <2>1. PICK bs \in BatchCounts : bs = [batches EXCEPT !.frames = @ + 1]
      BY <1>1, BatchCountsTyped
    <2>2. PICK bt : bt = batch
      OBVIOUS
    <2>3. Advance(bt, bs) /\ CursorOK(bt)
      BY <1>1, <1>2, <2>1, <2>2
    <2> QED BY <1>1, <2>3, AdvanceGood
  <1>3. CASE FailBatch(batch.id, batches, TRUE) /\ UNCHANGED <<writer, metrics>>
    <2>1. /\ told' \in [Batches -> {"none", "done", "failed"}] /\ batch' = None
          /\ lstate' \in {"idle", "incomplete"} /\ batches' \in BatchCounts
      BY <1>1, <1>3, BatchCountsTyped DEF FailBatch, AfterFailure, Good, TypeOK
    <2>2. TypeOK'
      BY <1>1, <1>3, <2>1
      DEF Good, TypeOK, LoopFrame, searchside, store, observed, writer, BatchCounts
    <2>3. CommandsOK' /\ CursorsOK' /\ AwaitedIsHeld'
      BY <1>1, <1>3, <2>1 DEF Good, CommandsOK, CursorsOK, AwaitedIsHeld, LoopFrame, writer
    <2>4. Calm(metrics')
      BY <1>3 DEF Good, TypeOK, Calm
    <2> QED BY <2>2, <2>3, <2>4 DEF Good
  <1> QED BY <1>2, <1>3 DEF ResumeBatch

\* The queue takes one more command, or stays; the batch and its promise do not
\* change.
LEMMA CallGood ==
    ASSUME Good, NEW op \in CallOps, Call(op), UNCHANGED observed
    PROVE  Good' /\ Calm(metrics')
  <1>1. /\ UNCHANGED <<lstate, promise, closed, batch, told, batches, searchside, store, observed>>
        /\ calls' \in Nat
    BY DEF Call, Good, TypeOK
  <1>2. CASE WriterAdmits
    <2>1. PICK ms : ms = IF op = "apply" THEN <<RawMutation>> ELSE <<>>
      OBVIOUS
    <2>2. RawMutation \in Mutations
      BY DEF RawMutation, Mutations
    <2>3. ms \in Seq(Mutations)
      BY <2>1, <2>2
    <2>4. PICK rb \in BOOLEAN : rb = FALSE
      OBVIOUS
    <2>5. op \in CallOps \cup {"close"} /\ "call" \in {"batch", "call", "close"}
      OBVIOUS
    <2>6. PICK c \in Commands : /\ Command(op, "call", ms, rb) = c /\ c.op = op
                                /\ c.from = "call" /\ ~c.panicked
      BY <2>3, <2>5, CommandFacts DEF Good
    <2>7. Command(op, "call", ms, FALSE) = c
      BY <2>4, <2>6
    <2>8. Submit(c)
      BY <1>2, <2>1, <2>7, Zenon DEF Call
    <2>9. /\ queue' = Append(queue, c) /\ running' = running /\ closeReply' = closeReply
          /\ native' = native /\ metrics' = Admitted(op).m
      BY <2>6, <2>8 DEF Submit
    <2>10. Fits(c)
      BY <2>6 DEF Fits, CallOps
    <2>11. queue' \in Seq(Commands) /\ CommandsOK'
      BY <2>6, <2>9, <2>10, AppendOK DEF Good
    <2>12. Calm(metrics') /\ metrics' \in MetricsSets
      BY <2>5, <2>9, AdmittedFacts DEF Good, Calm
    <2>13. \A from : Held(queue, running, from) => Held(queue', running', from)
      BY <2>6, <2>9, AppendHeld DEF Good, TypeOK
    <2>14. AwaitedIsHeld'
      BY <1>1, <2>9, <2>13 DEF Good, AwaitedIsHeld, Held
    <2>15. TypeOK'
      BY <1>1, <2>9, <2>11, <2>12 DEF Good, TypeOK, searchside, store, observed
    <2>16. CursorsOK'
      BY <1>1 DEF Good, CursorsOK
    <2> QED BY <2>11, <2>12, <2>14, <2>15, <2>16 DEF Good
  <1>3. CASE ~WriterAdmits
    <2>1. Refuse(op)
      BY <1>3 DEF Call
    <2>2. UNCHANGED writer /\ (metrics' = metrics \/ metrics' = Rejected(op))
      BY <2>1 DEF Refuse
    <2>3. Calm(metrics') /\ metrics' \in MetricsSets
      BY <2>2, AdmittedFacts DEF Good, TypeOK, Calm
    <2>4. TypeOK'
      BY <1>1, <2>2, <2>3 DEF Good, TypeOK, searchside, store, observed, writer
    <2>5. CommandsOK' /\ CursorsOK' /\ AwaitedIsHeld'
      BY <1>1, <2>2 DEF Good, CommandsOK, CursorsOK, AwaitedIsHeld, writer
    <2> QED BY <2>3, <2>4, <2>5 DEF Good
  <1> QED BY <1>2, <1>3

\* close: the command is forced into the queue, or the close is refused.
LEMMA CloseGood ==
    ASSUME Good, NEW rollback \in BOOLEAN, Close(rollback), UNCHANGED observed
    PROVE  Good' /\ Calm(metrics')
  <1>1. /\ UNCHANGED <<lstate, closed, batch, told, batches, searchside, store, observed>>
        /\ calls' \in Nat /\ promise' = TRUE /\ running' = running
    BY DEF Close, Good, TypeOK
  <1>2. CASE native \in {"open", "poisoned"}
    <2>1. PICK rb \in BOOLEAN : rb = (rollback \/ native = "poisoned")
      OBVIOUS
    <2>0. PICK ms \in Seq(Mutations) : ms = <<>>
      BY EmptySeq
    <2>2. "close" \in CallOps \cup {"close"}
      OBVIOUS
    <2>3. PICK c \in Commands : /\ Command("close", "close", ms, rb) = c /\ c.op = "close"
                                /\ c.from = "close" /\ ~c.panicked
      BY <2>2, CommandFacts DEF Good
    <2>4. Command("close", "close", <<>>, rollback \/ native = "poisoned") = c
      BY <2>0, <2>1, <2>3
    <2>5. /\ queue' = Append(queue, c) /\ closeReply' = closeReply
          /\ metrics' = Admitted("close").m /\ native' \in {"closing", "poisoned"}
      BY <1>2, <2>4 DEF Close
    <2>6. queue' \in Seq(Commands) /\ CommandsOK'
      BY <1>1, <2>3, <2>5, AppendOK DEF Good, Fits
    <2>7. Calm(metrics') /\ metrics' \in MetricsSets
      BY <2>2, <2>5, AdmittedFacts DEF Good, Calm
    <2>8. /\ \A from : Held(queue, running, from) => Held(queue', running', from)
          /\ Held(queue', running', "close")
      BY <1>1, <2>3, <2>5, AppendHeld DEF Good, TypeOK
    <2>9. AwaitedIsHeld'
      BY <1>1, <2>5, <2>8 DEF Good, AwaitedIsHeld, Held
    <2>10. TypeOK'
      BY <1>1, <2>5, <2>6, <2>7 DEF Good, TypeOK, searchside, store, observed
    <2>11. CursorsOK'
      BY <1>1 DEF Good, CursorsOK
    <2> QED BY <2>6, <2>7, <2>9, <2>10, <2>11 DEF Good
  <1>3. CASE native \notin {"open", "poisoned"}
    <2>1. /\ closeReply' = "E_CLOSED" /\ metrics' = Rejected("close")
          /\ UNCHANGED <<native, queue, running>>
      BY <1>3 DEF Close
    <2>2. Calm(metrics') /\ metrics' \in MetricsSets
      BY <2>1, AdmittedFacts DEF Good, Calm
    <2>3. TypeOK'
      BY <1>1, <2>1, <2>2 DEF Good, TypeOK, searchside, store, observed
    <2>4. CommandsOK' /\ CursorsOK' /\ AwaitedIsHeld'
      BY <1>1, <2>1 DEF Good, CommandsOK, CursorsOK, AwaitedIsHeld
    <2> QED BY <2>2, <2>3, <2>4 DEF Good
  <1> QED BY <1>2, <1>3

\* A step that leaves the batch, the close and the writer's commands alone.
LEMMA CoreGood ==
    ASSUME Good, TypeOK', UNCHANGED <<batch, promise, closed, closeReply, queue, running>>
    PROVE  Good'
  BY DEF Good, CommandsOK, CursorsOK, AwaitedIsHeld

\* The promise of a close settles.
LEMMA CloseReturnsGood ==
    ASSUME Good, CloseReturns, UNCHANGED observed
    PROVE  Good' /\ Calm(metrics')
  <1>1. /\ UNCHANGED <<batch, told, calls, batches, native, queue, running, searchside, store,
                       metrics, observed>>
        /\ closeReply' = "none" /\ lstate' \in {"idle", lstate}
        /\ promise' \in BOOLEAN /\ closed' \in BOOLEAN /\ (~promise' \/ closed')
    BY DEF CloseReturns, Good, TypeOK
  <1>2. TypeOK'
    BY <1>1 DEF Good, TypeOK, searchside, store, observed
  <1>3. CommandsOK' /\ CursorsOK' /\ AwaitedIsHeld'
    BY <1>1 DEF Good, CommandsOK, CursorsOK, AwaitedIsHeld
  <1>4. Calm(metrics')
    BY <1>1 DEF Good, TypeOK, Calm
  <1> QED BY <1>2, <1>3, <1>4 DEF Good

\* configureTelemetry first switches the histograms, which count no admission.
LEMMA ConfigureGood ==
    ASSUME Good, ConfigureTelemetry
    PROVE  /\ Good' /\ Calm(metrics') /\ reader' = reader
           /\ configuring = "none" /\ configuring' \in {"enable", "disable"}
  <1>1. PICK c \in Settings : metrics' = [metrics EXCEPT !.histograms = c.histograms]
    BY DEF ConfigureTelemetry
  <1>2. PICK h \in BOOLEAN : h = c.histograms
    BY <1>1, FacadeAssumption
  <1>3. metrics \in MetricsSets /\ metrics' = [metrics EXCEPT !.histograms = h]
    BY <1>1, <1>2 DEF Good, TypeOK
  <1>4. /\ metrics' \in MetricsSets /\ metrics'.admission = metrics.admission
        /\ metrics'.snapshotBytes = metrics.snapshotBytes
    BY <1>3 DEF MetricsSets
  <1>5. calls' \in Nat /\ UNCHANGED <<lstate, promise, closed, batch, told, batches, searchside,
                                      store, writer, reader, refreshed, measuring>>
        /\ configuring = "none" /\ configuring' \in {"enable", "disable"}
    BY DEF ConfigureTelemetry, Good, TypeOK
  <1>6. TypeOK'
    BY <1>4, <1>5 DEF Good, TypeOK, searchside, store, writer
  <1>7. Good'
    BY <1>5, <1>6, CoreGood DEF writer
  <1> QED BY <1>4, <1>5, <1>7 DEF Calm

\* It then switches the measurement of bytes.
LEMMA ConfigureBytesGood ==
    ASSUME Good, ConfigureBytes
    PROVE  /\ Good' /\ metrics'.admission = metrics.admission /\ reader' = reader
           /\ configuring' = "reader"
  <1>1. PICK e \in BOOLEAN : e = (configuring = "enable")
    OBVIOUS
  <1>2. metrics \in MetricsSets /\ metrics' = [metrics EXCEPT !.snapshotBytes = e]
    BY <1>1 DEF ConfigureBytes, Good, TypeOK
  <1>3. metrics' \in MetricsSets /\ metrics'.admission = metrics.admission
    BY <1>2 DEF MetricsSets
  <1>4. UNCHANGED <<facade, searchside, store, writer, reader, refreshed, measuring>>
        /\ configuring' = "reader"
    BY DEF ConfigureBytes
  <1>5. TypeOK'
    BY <1>3, <1>4 DEF Good, TypeOK, facade, searchside, store, writer
  <1> QED BY <1>3, <1>4, <1>5, CoreGood DEF facade, writer

\* Last, the reader's statistics learn the setting.
LEMMA ConfigureReaderGood ==
    ASSUME Good, ConfigureReader
    PROVE  /\ Good' /\ Calm(metrics')
           /\ metrics' = metrics /\ reader' = Configure(reader, metrics.snapshotBytes)
  <1>1. /\ reader' = Configure(reader, metrics.snapshotBytes) /\ configuring' = "none"
        /\ UNCHANGED <<facade, searchside, store, writer, metrics, refreshed, measuring>>
    BY DEF ConfigureReader
  <1>2. PICK y \in BOOLEAN : y = metrics.snapshotBytes
    BY DEF Good, TypeOK, MetricsSets
  <1>3. reader' \in ReaderStats
    <2>1. reader \in ReaderStats /\ reader' = Configure(reader, y)
      BY <1>1, <1>2 DEF Good, TypeOK
    <2>2. PICK p \in BOOLEAN : p = (y /\ reader.bytesSignature # reader.signature)
      OBVIOUS
    <2>3. reader' = [reader EXCEPT !.pending = p]
      BY <2>1, <2>2 DEF Configure
    <2> QED BY <2>1, <2>3 DEF ReaderStats
  <1>4. TypeOK'
    BY <1>1, <1>3 DEF Good, TypeOK, facade, searchside, store, writer
  <1> QED BY <1>1, <1>4, CoreGood DEF facade, writer, Good, TypeOK, Calm

\* A page search begins to prepare.
LEMMA SearchPageGood ==
    ASSUME Good, NEW s \in Searches, SearchPage(s), UNCHANGED observed
    PROVE  Good' /\ Calm(metrics')
  <1>1. /\ calls' \in Nat /\ searched' \subseteq Searches /\ preparing' \subseteq Searches
        /\ prejected' \in Nat
    BY DEF SearchPage, Good, TypeOK
  <1>2. UNCHANGED <<lstate, promise, closed, batch, told, batches, squeue, srunning, store, writer,
                    metrics, observed>>
    BY DEF SearchPage
  <1>3. TypeOK'
    BY <1>1, <1>2 DEF Good, TypeOK, store, writer, observed
  <1>4. Good' /\ Calm(metrics')
    BY <1>2, <1>3, CoreGood DEF writer, Good, TypeOK, Calm
  <1> QED BY <1>4

\* The digest of a search is there: only an open facade attempts the search.
LEMMA DigestGood ==
    ASSUME Good, NEW s \in Searches, DigestReady(s), UNCHANGED observed
    PROVE  /\ Good' /\ metrics'.snapshotBytes = metrics.snapshotBytes
           /\ Open \/ metrics' = metrics
  <1>1. UNCHANGED <<facade, searched, srunning, store, writer, observed>> /\ preparing' \subseteq Searches
        /\ prejected' \in Nat
    BY DEF DigestReady, Good, TypeOK
  <1>2. /\ squeue' \in Seq(SearchCommands) /\ metrics' \in MetricsSets
        /\ metrics'.snapshotBytes = metrics.snapshotBytes /\ (Open \/ metrics' = metrics)
    <2>1. squeue \in Seq(SearchCommands) /\ metrics \in MetricsSets /\ TypeOK
      BY DEF Good, TypeOK
    <2>2. CASE UNCHANGED <<squeue, metrics>>
      BY <2>1, <2>2
    <2>3. CASE Open /\ AdmitSearch(s)
      <3>1. /\ Admitted("search").m \in MetricsSets /\ Rejected("search") \in MetricsSets
            /\ Admitted("search").m.snapshotBytes = metrics.snapshotBytes
            /\ Rejected("search").snapshotBytes = metrics.snapshotBytes
            /\ Admitted("search").t \in Tickets
        BY <2>1, AdmittedSearch DEF ArmedTicket
      <3>2. [id |-> s, t |-> Admitted("search").t] \in SearchCommands
        BY <3>1 DEF SearchCommands
      <3>3. \/ squeue' = Append(squeue, [id |-> s, t |-> Admitted("search").t])
               /\ metrics' = Admitted("search").m
            \/ squeue' = squeue /\ (metrics' = metrics \/ metrics' = Rejected("search"))
        BY <2>3 DEF AdmitSearch
      <3>4. squeue' \in Seq(SearchCommands)
        BY <2>1, <3>2, <3>3, AppendFacts
      <3>5. metrics' \in MetricsSets /\ metrics'.snapshotBytes = metrics.snapshotBytes
        BY <2>1, <3>1, <3>3
      <3> QED BY <2>3, <3>4, <3>5
    <2> QED BY <2>2, <2>3 DEF DigestReady, StillAdmissible
  <1>3. TypeOK'
    BY <1>1, <1>2 DEF Good, TypeOK, facade, store, writer, observed
  <1> QED BY <1>1, <1>2, <1>3, CoreGood DEF facade, writer

\* The steps of the search worker move tickets of searches alone.
LEMMA SearchStepGood ==
    ASSUME Good, SearchStep, UNCHANGED observed
    PROVE  Good' /\ Calm(metrics')
  <1>1. UNCHANGED <<facade, preparing, searched, prejected, store, writer, observed>>
    BY DEF SearchStep, SearchTake, SearchExpire, SearchStart, SearchFinish
  <1>2. metrics \in MetricsSets /\ squeue \in Seq(SearchCommands)
        /\ srunning \in SearchCommands \cup {None}
    BY DEF Good, TypeOK
  <1>3. ASSUME squeue # <<>>
        PROVE  /\ Head(squeue) \in SearchCommands /\ Head(squeue).t \in Tickets
               /\ Tail(squeue) \in Seq(SearchCommands)
    <2>1. Head(squeue) \in SearchCommands /\ Tail(squeue) \in Seq(SearchCommands)
      BY <1>2, <1>3, TailFacts
    <2> QED BY <2>1 DEF SearchCommands
  <1>4. srunning # None => srunning.t \in Tickets
    BY <1>2 DEF SearchCommands
  <1>5. ASSUME NEW c \in SearchCommands, NEW t \in Tickets
        PROVE  [c EXCEPT !.t = t] \in SearchCommands
    BY DEF SearchCommands
  <1> DEFINE Goal == /\ squeue' \in Seq(SearchCommands) /\ srunning' \in SearchCommands \cup {None}
                     /\ Quiet(metrics', metrics)
  <1>6. ASSUME NEW worker \in Workers, SearchTake(worker) PROVE Goal
    <2>1. PICK d : d = Dispatch(BindWorker([m |-> metrics, t |-> Head(squeue).t], worker))
      OBVIOUS
    <2>2. squeue # <<>> /\ squeue' = Tail(squeue) /\ srunning' = [Head(squeue) EXCEPT !.t = d.t]
          /\ metrics' = d.m
      BY <1>6, <2>1 DEF SearchTake
    <2>3. Quiet(d.m, metrics) /\ d.t \in Tickets
      BY <1>2, <1>3, <2>1, <2>2, TakeQuiet
    <2> QED BY <1>3, <1>5, <2>2, <2>3
  <1>7. ASSUME SearchExpire PROVE Goal
    <2>1. squeue # <<>> /\ squeue' = Tail(squeue) /\ srunning' = srunning
          /\ metrics' = Settle([m |-> metrics, t |-> Head(squeue).t], FALSE).m
      BY <1>7 DEF SearchExpire, Settling
    <2> QED BY <1>2, <1>3, <2>1, SettleQuiet
  <1>8. ASSUME SearchStart PROVE Goal
    <2>1. PICK t \in Tickets : t = srunning.t
      BY <1>4, <1>8 DEF SearchStart
    <2>2. /\ srunning # None /\ squeue' = squeue
          /\ \/ /\ srunning' = [srunning EXCEPT !.t = Start([m |-> metrics, t |-> t]).t]
                /\ metrics' = Start([m |-> metrics, t |-> t]).m
             \/ srunning' = None /\ metrics' = Settle([m |-> metrics, t |-> t], FALSE).m
      BY <1>8, <2>1 DEF SearchStart, Settling
    <2>3. /\ Quiet(Start([m |-> metrics, t |-> t]).m, metrics)
          /\ Start([m |-> metrics, t |-> t]).t \in Tickets
      BY <1>2, StartQuiet
    <2>4. Quiet(Settle([m |-> metrics, t |-> t], FALSE).m, metrics)
      BY <1>2, SettleQuiet
    <2> QED BY <1>2, <1>5, <2>2, <2>3, <2>4
  <1>9. ASSUME SearchFinish PROVE Goal
    <2>1. PICK t \in Tickets : t = srunning.t
      BY <1>4, <1>9 DEF SearchFinish
    <2>2. PICK w : w = Finish([m |-> metrics, t |-> t])
      OBVIOUS
    <2>3. PICK ok \in BOOLEAN : metrics' = Settle(w, ok).m
      BY <1>9, <2>1, <2>2 DEF SearchFinish, Settling
    <2>4. w.m = metrics /\ w.t \in Tickets /\ w = [m |-> w.m, t |-> w.t]
      BY <2>2, FinishFacts DEF Finish
    <2>5. Quiet(metrics', metrics)
      <3>1. PICK u \in Tickets : u = w.t
        BY <2>4
      <3>2. metrics' = Settle([m |-> metrics, t |-> u], ok).m
        BY <2>3, <2>4, <3>1
      <3> QED BY <1>2, <3>2, SettleQuiet
    <2> QED BY <1>2, <1>9, <2>5 DEF SearchFinish
  <1>10. Goal
    BY <1>6, <1>7, <1>8, <1>9 DEF SearchStep
  <1>11. TypeOK'
    BY <1>1, <1>10 DEF Good, TypeOK, facade, store, writer, observed, Quiet
  <1>12. Calm(metrics')
    BY <1>10 DEF Quiet, Calm
  <1> QED BY <1>1, <1>11, <1>12, CoreGood DEF facade, writer

\* A measurement ends.
LEMMA MeasuredGood ==
    ASSUME Good, BytesMeasured
    PROVE  Good' /\ Calm(metrics')
  <1>1. UNCHANGED <<facade, searchside, store, writer, metrics, refreshed, configuring>>
        /\ measuring' = None
    BY DEF BytesMeasured
  <1>2. PICK ok \in BOOLEAN : reader' = ObservedBytes(reader, measuring, ok)
    BY DEF BytesMeasured
  <1>3. reader \in ReaderStats /\ measuring \in Int
    BY DEF BytesMeasured, Good, TypeOK
  <1>4. reader' \in ReaderStats
    <2>1. CASE reader.signature # measuring
      BY <1>2, <1>3, <2>1 DEF ObservedBytes
    <2>2. CASE reader.signature = measuring
      <3>1. PICK no \in BOOLEAN : no = ~ok
        OBVIOUS
      <3>2. PICK f \in BOOLEAN : f = FALSE
        OBVIOUS
      <3>3. PICK bs \in Int : bs = IF ok THEN measuring ELSE reader.bytesSignature
        BY <1>3 DEF ReaderStats
      <3>4. reader' = [reader EXCEPT !.pending = f, !.bytesSignature = bs, !.bytesError = no]
        BY <1>2, <2>2, <3>1, <3>2, <3>3 DEF ObservedBytes
      <3> QED BY <1>3, <3>4 DEF ReaderStats
    <2> QED BY <2>1, <2>2
  <1>5. TypeOK'
    BY <1>1, <1>4 DEF Good, TypeOK, facade, searchside, store, writer
  <1> QED BY <1>1, <1>5, CoreGood DEF facade, writer, Good, TypeOK, Calm

\* The writer looks whether it has to measure.
LEMMA ObserveGood ==
    ASSUME Good, ObserveBytes
    PROVE  Good' /\ Calm(metrics') /\ UNCHANGED <<reader, metrics, configuring>>
  <1>1. UNCHANGED <<facade, searchside, store, writer, metrics, reader, configuring>>
        /\ measuring' \in {reader.signature, None} /\ refreshed' = FALSE
    BY DEF ObserveBytes
  <1>2. reader.signature \in Int
    BY DEF Good, TypeOK, ReaderStats
  <1>3. measuring' \in Int \cup {None}
    BY <1>1, <1>2
  <1>4. refreshed' \in BOOLEAN
    BY <1>1
  <1>5. TypeOK'
    BY <1>1, <1>3, <1>4 DEF Good, TypeOK, facade, searchside, store, writer
  <1> QED BY <1>1, <1>5, CoreGood DEF facade, writer, Good, TypeOK, Calm

-----------------------------------------------------------------------------
(* The writer.                                                             *)

\* An answered batch is a batch with another answer.
LEMMA AnswerFacts ==
    ASSUME NEW bt \in Runs \cup {None}, NEW cmds, NEW reply \in {"ok", "failed"}
    PROVE  /\ Answer(bt, cmds, reply) \in Runs \cup {None}
           /\ Answer(bt, cmds, reply) = None <=> bt = None
           /\ bt # None => /\ Answer(bt, cmds, reply).id = bt.id
                           /\ Answer(bt, cmds, reply).at = bt.at
                           /\ Answer(bt, cmds, reply).replace = bt.replace
                           /\ Answer(bt, cmds, reply).attempted = bt.attempted
                           /\ Answer(bt, cmds, reply).reply
                                = IF \E c \in cmds : c.from = "batch" THEN reply ELSE bt.reply
           /\ ~(\E c \in cmds : c.from = "batch") => Answer(bt, cmds, reply) = bt
  <1>1. PICK n : n = [bt EXCEPT !.reply = reply]
    OBVIOUS
  <1>2. bt # None => /\ n \in Runs /\ n.id = bt.id /\ n.at = bt.at /\ n.replace = bt.replace
                     /\ n.attempted = bt.attempted /\ n.reply = reply
    BY <1>1 DEF Runs
  <1>3. None \notin Runs
    BY FacadeAssumption
  <1>4. Answer(bt, cmds, reply) = IF bt # None /\ \E c \in cmds : c.from = "batch" THEN n ELSE bt
    BY <1>1 DEF Answer
  <1> QED BY <1>2, <1>3, <1>4

\* The cursor does not move when its batch is answered.
LEMMA AnswerCursor ==
    ASSUME NEW bt, bt # None => CursorOK(bt), bt \in Runs \cup {None}, NEW cmds,
           NEW reply \in {"ok", "failed"}, NEW n, n = Answer(bt, cmds, reply)
    PROVE  (n # None => CursorOK(n)) /\ n \in Runs \cup {None}
  <1>1. CASE bt = None
    BY <1>1, AnswerFacts
  <1>2. CASE bt # None
    <2>1. n \in Runs /\ n.id = bt.id /\ n.at = bt.at /\ n.replace = bt.replace
      BY <1>2, AnswerFacts, FacadeAssumption
    <2> QED BY <1>2, <2>1 DEF CursorOK
  <1> QED BY <1>1, <1>2

\* The drain of the two queues keeps the counters in order.
LEMMA DrainQuiet ==
    ASSUME TypeOK, NEW m, Quiet(m, metrics)
    PROVE  Quiet(SettleAll(SettleAll(m, queue, Failed(queue)), squeue, 1..Len(squeue)), metrics)
  <1>1. queue \in Seq(Commands) /\ squeue \in Seq(SearchCommands)
    BY DEF TypeOK
  <1>2. Len(queue) \in Nat /\ Len(squeue) \in Nat
    BY <1>1, LenProperties
  <1>3. Failed(queue) \subseteq 1..Len(queue) /\ IsFiniteSet(Failed(queue)) /\ IsFiniteSet(1..Len(squeue))
    <2>1. IsFiniteSet(1..Len(queue)) /\ IsFiniteSet(1..Len(squeue))
      BY <1>2, FS_Interval
    <2>2. Failed(queue) \subseteq 1..Len(queue)
      BY DEF Failed
    <2> QED BY <2>1, <2>2, FS_Subset
  <1>4. /\ \A i \in 1..Len(queue) : queue[i].t \in Tickets
        /\ \A i \in 1..Len(squeue) : squeue[i].t \in Tickets
    <2>1. /\ \A i \in 1..Len(queue) : queue[i] \in Commands
          /\ \A i \in 1..Len(squeue) : squeue[i] \in SearchCommands
      BY <1>1, ElementOfSeq
    <2> QED BY <2>1 DEF Commands, SearchCommands
  <1>5. PICK x : x = SettleAll(m, queue, Failed(queue))
    OBVIOUS
  <1>6. Quiet(x, m) /\ m \in MetricsSets
    BY <1>3, <1>4, <1>5, SettleAllQuiet DEF Quiet
  <1>7. Quiet(SettleAll(x, squeue, 1..Len(squeue)), x)
    <2>1. x \in MetricsSets
      BY <1>6 DEF Quiet
    <2> QED BY <1>3, <1>4, <2>1, SettleAllQuiet
  <1>8. Quiet(x, metrics)
    BY <1>6, QuietChain
  <1> QED BY <1>5, <1>7, <1>8, QuietChain

\* Runtime::poison: what it leaves in the queue, and which batch it answers.
LEMMA PoisonFacts ==
    ASSUME TypeOK, CommandsOK, NEW m, Quiet(m, metrics), NEW bt, bt \in Runs \cup {None},
           bt # None => CursorOK(bt), Poison(m, bt)
    PROVE  /\ native' = "poisoned" /\ squeue' = <<>> /\ Quiet(metrics', metrics)
           /\ batch' \in Runs \cup {None} /\ (batch' # None => CursorOK(batch'))
           /\ batch' = Answer(bt, {queue[i] : i \in Failed(queue)}, "failed")
           /\ queue' \in Seq(Commands)
           /\ \A i \in 1..Len(queue') : Fits(queue'[i]) /\ ~queue'[i].panicked
           /\ \A i \in 1..Len(queue') : queue'[i].op = "close"
           /\ \A r : Held(queue, r, "close") => Held(queue', r, "close")
           /\ \A r : Held(queue, r, "batch")
                => Held(<<>>, r, "batch") \/ \E c \in {queue[i] : i \in Failed(queue)} : c.from = "batch"
  <1>1. queue \in Seq(Commands) /\ Len(queue) \in Nat
    BY LenProperties DEF TypeOK
  <1>2. /\ native' = "poisoned" /\ squeue' = <<>> /\ queue' = Kept(queue)
        /\ batch' = Answer(bt, {queue[i] : i \in Failed(queue)}, "failed")
        /\ metrics' = SettleAll(SettleAll(m, queue, Failed(queue)), squeue, 1..Len(squeue))
    BY DEF Poison
  <1>3. Quiet(metrics', metrics)
    BY <1>2, DrainQuiet
  <1>4. batch' \in Runs \cup {None} /\ (batch' # None => CursorOK(batch'))
    <2>1. PICK n : n = Answer(bt, {queue[i] : i \in Failed(queue)}, "failed")
      OBVIOUS
    <2>2. (n # None => CursorOK(n)) /\ n \in Runs \cup {None}
      BY <2>1, AnswerCursor
    <2> QED BY <1>2, <2>1, <2>2
  <1>5. \A r : Held(queue, r, "batch")
           => Held(<<>>, r, "batch") \/ \E c \in {queue[i] : i \in Failed(queue)} : c.from = "batch"
    <2>1. ASSUME NEW i \in 1..Len(queue), queue[i].from = "batch"
          PROVE  queue[i] \in {queue[k] : k \in Failed(queue)}
      BY <2>1 DEF CommandsOK, Fits, Failed
    <2> QED BY <2>1 DEF Held
  <1>6. CASE Kept(queue) = <<>> /\ \A i \in 1..Len(queue) : queue[i].op # "close"
    <2>1. queue' \in Seq(Commands) /\ Len(queue') = 0
      BY <1>2, <1>6, EmptySeq
    <2>2. \A i \in 1..Len(queue) : queue[i].from # "close"
      BY <1>6 DEF CommandsOK, Fits
    <2>3. \A r : Held(queue, r, "close") => Held(queue', r, "close")
      BY <2>2 DEF Held
    <2> QED BY <1>2, <1>3, <1>4, <1>5, <2>1, <2>3
  <1>7. CASE \E k \in 1..Len(queue), c \in Commands :
                 /\ queue[k].op = "close" /\ Kept(queue) = <<c>>
                 /\ c.op = "close" /\ c.from = queue[k].from /\ c.rollback = TRUE
                 /\ c.mutations = queue[k].mutations /\ c.panicked = queue[k].panicked
                 /\ c.t = queue[k].t
    <2>1. PICK k \in 1..Len(queue), c \in Commands :
                 /\ queue[k].op = "close" /\ Kept(queue) = <<c>>
                 /\ c.op = "close" /\ c.from = queue[k].from /\ c.panicked = queue[k].panicked
      BY <1>7
    <2>2. c.from = "close" /\ ~c.panicked
      BY <2>1 DEF CommandsOK, Fits
    <2>3. queue' \in Seq(Commands) /\ Len(queue') = 1 /\ queue'[1] = c
      BY <1>2, <2>1
    <2>4. \A i \in 1..Len(queue') : queue'[i] = c
      BY <2>3
    <2>5. \A i \in 1..Len(queue') : Fits(queue'[i]) /\ ~queue'[i].panicked /\ queue'[i].op = "close"
      BY <2>1, <2>2, <2>4 DEF Fits
    <2>6. \A r : Held(queue', r, "close")
      BY <2>2, <2>3 DEF Held
    <2> QED BY <1>2, <1>3, <1>4, <1>5, <2>3, <2>5, <2>6
  <1> QED BY <1>1, <1>6, <1>7, KeptFacts

\* The facade's side of a step of the writer.
WriterFrame == UNCHANGED <<lstate, promise, closed, told, calls, batches, preparing, searched, prejected>>

\* What a step of the writer may write in the store and in the reader.
StoreTyped == /\ staged' \in Seq(Mutations) /\ committed' \in Seq(Mutations)
              /\ reader' \in ReaderStats /\ measuring' \in Int \cup {None}
              /\ refreshed' \in BOOLEAN /\ configuring' = configuring

\* The writer's command is answered and the loop goes on.
LEMMA ContinueGood ==
    ASSUME Good, running # None, NEW m, Quiet(m, metrics), NEW ok \in BOOLEAN, WriterContinue(m, ok),
           WriterFrame, srunning' = srunning, StoreTyped,
           native' \in {"open", "closing", "poisoned", "gone"}
    PROVE  Good' /\ Calm(metrics')
  <1>1. running \in Commands /\ running.t \in Tickets /\ Fits(running)
    BY DEF Good, TypeOK, CommandsOK, Commands
  <1>2. PICK reply \in {"ok", "failed"} : reply = IF ok THEN "ok" ELSE "failed"
    OBVIOUS
  <1>3. /\ metrics' = Settle([m |-> m, t |-> running.t], ok).m
        /\ batch' = Answer(batch, {running}, reply)
        /\ closeReply' = IF running.from = "close" THEN "E_DIRTY_CLOSE" ELSE closeReply
        /\ running' = None /\ UNCHANGED <<queue, squeue>>
    BY <1>2 DEF WriterContinue, AnswerClose
  <1>4. Quiet(metrics', metrics)
    <2>1. m \in MetricsSets
      BY DEF Quiet
    <2>2. Quiet(metrics', m)
      BY <1>1, <1>3, <2>1, SettleQuiet
    <2> QED BY <2>2, QuietChain
  <1>5. batch \in Runs \cup {None} /\ (batch # None => CursorOK(batch))
    BY DEF Good, TypeOK, CursorsOK
  <1>6. (batch' # None => CursorOK(batch')) /\ batch' \in Runs \cup {None}
    <2>1. PICK bt : bt = batch
      OBVIOUS
    <2>2. PICK n : n = Answer(bt, {running}, reply)
      OBVIOUS
    <2>3. (n # None => CursorOK(n)) /\ n \in Runs \cup {None}
      BY <1>5, <2>1, <2>2, AnswerCursor
    <2> QED BY <1>3, <2>1, <2>2, <2>3
  <1>7. TypeOK'
    BY <1>3, <1>4, <1>6 DEF Good, TypeOK, WriterFrame, StoreTyped, Quiet
  <1>8. CommandsOK' /\ CursorsOK'
    BY <1>3, <1>6 DEF Good, CommandsOK, CursorsOK
  <1>9. /\ Held(queue, running, "batch") => Held(queue', None, "batch") \/ running.from = "batch"
        /\ Held(queue, running, "close") => Held(queue', None, "close") \/ running.from = "close"
    BY <1>3 DEF Held
  <1>10. batch' # None /\ batch'.reply = "none"
          => batch # None /\ batch.reply = "none" /\ running.from # "batch"
    <2>1. /\ batch' = None <=> batch = None
          /\ batch # None => batch'.reply = IF \E c \in {running} : c.from = "batch"
                                            THEN reply ELSE batch.reply
      BY <1>3, <1>5, AnswerFacts
    <2> QED BY <2>1
  <1>11. AwaitedIsHeld'
    <2>1. /\ batch # None /\ batch.reply = "none" => Held(queue, running, "batch")
          /\ promise /\ ~closed /\ closeReply = "none" => Held(queue, running, "close")
      BY HeldIs DEF Good
    <2>2. batch' # None /\ batch'.reply = "none" => Held(queue', None, "batch")
      BY <1>9, <1>10, <2>1
    <2>3. promise /\ ~closed /\ closeReply' = "none" => Held(queue', None, "close")
      BY <1>3, <1>9, <2>1
    <2> QED BY <1>3, <2>2, <2>3 DEF AwaitedIsHeld, Held, WriterFrame
  <1>12. Calm(metrics')
    BY <1>4 DEF Quiet, Calm
  <1> QED BY <1>7, <1>8, <1>11, <1>12 DEF Good

\* The writer takes the head of the queue.
LEMMA PopGood ==
    ASSUME Good, WriterPop, UNCHANGED observed
    PROVE  Good' /\ Calm(metrics')
  <1>1. queue \in Seq(Commands) /\ queue # <<>> /\ metrics \in MetricsSets /\ running = None
    BY DEF Good, TypeOK, WriterPop
  <1>2. PICK h : h = Head(queue)
    OBVIOUS
  <1>3. /\ h = queue[1] /\ h \in Commands /\ Tail(queue) \in Seq(Commands)
        /\ Len(queue) \in Nat \ {0} /\ Len(Tail(queue)) = Len(queue) - 1
        /\ \A i \in 1..(Len(queue) - 1) : Tail(queue)[i] = queue[i + 1]
    BY <1>1, <1>2, TailFacts
  <1>4. h.t \in Tickets
    BY <1>3 DEF Commands
  <1>5. PICK w : w = Start([m |-> metrics, t |-> h.t])
    OBVIOUS
  <1>6. Quiet(w.m, metrics) /\ w.t \in Tickets
    BY <1>1, <1>4, <1>5, StartQuiet
  <1>7. PICK c : c = [h EXCEPT !.t = w.t]
    OBVIOUS
  <1>8. /\ c \in Commands /\ c.op = h.op /\ c.from = h.from /\ c.panicked = h.panicked
    BY <1>3, <1>6, <1>7 DEF Commands
  <1>9. running' = c /\ metrics' = w.m /\ queue' = Tail(queue)
        /\ UNCHANGED <<facade, searchside, store, native, closeReply>>
    BY <1>2, <1>5, <1>7 DEF WriterPop
  <1>10. TypeOK'
    BY <1>3, <1>6, <1>8, <1>9 DEF Good, TypeOK, facade, searchside, store, observed, Quiet
  <1>11. CommandsOK'
    <2>1. 1 \in 1..Len(queue) /\ \A i \in 1..(Len(queue) - 1) : i + 1 \in 1..Len(queue)
      BY <1>3
    <2>2. Fits(h)
      BY <1>3, <2>1 DEF Good, CommandsOK
    <2>3. Fits(c)
      BY <1>8, <2>2 DEF Fits
    <2>4. \A i \in 1..Len(queue') : Fits(queue'[i]) /\ ~queue'[i].panicked
      BY <1>3, <1>9, <2>1 DEF Good, CommandsOK
    <2> QED BY <1>9, <2>3, <2>4 DEF CommandsOK
  <1>12. CursorsOK'
    BY <1>9 DEF Good, CursorsOK, facade
  <1>13. \A from : Held(queue, running, from) => Held(queue', running', from)
    <2>1. SUFFICES ASSUME NEW from, NEW i \in 1..Len(queue), queue[i].from = from
                   PROVE  Held(queue', running', from)
      BY <1>1 DEF Held
    <2>2. CASE i = 1
      <3>1. running' # None
        BY <1>8, <1>9, FacadeAssumption
      <3> QED BY <1>3, <1>8, <1>9, <2>1, <2>2, <3>1 DEF Held
    <2>3. CASE i # 1
      <3>1. i - 1 \in 1..(Len(queue) - 1) /\ (i - 1) + 1 = i
        BY <1>3, <2>3
      <3>2. queue'[i - 1] = queue[i] /\ i - 1 \in 1..Len(queue')
        BY <1>3, <1>9, <3>1
      <3> QED BY <2>1, <3>2 DEF Held
    <2> QED BY <2>2, <2>3
  <1>14. AwaitedIsHeld'
    <2>1. /\ batch # None /\ batch.reply = "none" => Held(queue, running, "batch")
          /\ promise /\ ~closed /\ closeReply = "none" => Held(queue, running, "close")
      BY HeldIs DEF Good
    <2>2. /\ batch # None /\ batch.reply = "none" => Held(queue', running', "batch")
          /\ promise /\ ~closed /\ closeReply = "none" => Held(queue', running', "close")
      BY <1>13, <2>1
    <2> QED BY <1>9, <2>2 DEF AwaitedIsHeld, Held, facade
  <1>15. Calm(metrics')
    BY <1>6, <1>9 DEF Quiet, Calm
  <1> QED BY <1>10, <1>11, <1>12, <1>14, <1>15 DEF Good

\* A reader is installed.
LEMMA RefreshTyped ==
    ASSUME reader \in ReaderStats, metrics \in MetricsSets, NEW n \in Nat, Refresh(n)
    PROVE  /\ reader' \in ReaderStats /\ UNCHANGED <<measuring, configuring>>
           /\ refreshed' \in BOOLEAN
  <1>1. PICK e \in BOOLEAN : e = metrics.snapshotBytes
    BY DEF MetricsSets
  <1>2. PICK r : r = InstallReader(reader, n, e)
    OBVIOUS
  <1>3. reader' = r /\ UNCHANGED <<measuring, configuring>> /\ refreshed' \in BOOLEAN
    BY <1>1, <1>2 DEF Refresh
  <1>4. PICK kept \in BOOLEAN : kept = (reader.bytesSignature = n)
    OBVIOUS
  <1>5. PICK p \in BOOLEAN, x \in BOOLEAN, y \in BOOLEAN, g \in Int :
           /\ p = (e /\ ~kept) /\ x = (kept /\ reader.bytesError) /\ y = TRUE
           /\ g = IF kept THEN n ELSE NoSignature
    <2>1. PICK g \in Int : g = IF kept THEN n ELSE NoSignature
      BY DEF NoSignature
    <2>2. PICK p \in BOOLEAN : p = (e /\ ~kept)
      OBVIOUS
    <2>3. PICK x \in BOOLEAN : x = (kept /\ reader.bytesError)
      OBVIOUS
    <2>4. PICK y \in BOOLEAN : y = TRUE
      OBVIOUS
    <2> QED BY <2>1, <2>2, <2>3, <2>4
  <1>6. r = [available |-> y, signature |-> n, bytesSignature |-> g, bytesError |-> x, pending |-> p]
    BY <1>2, <1>4, <1>5 DEF InstallReader
  <1>7. r \in ReaderStats
    <2>1. n \in Int
      OBVIOUS
    <2> QED BY <1>6, <2>1 DEF ReaderStats
  <1> QED BY <1>3, <1>7

\* A command succeeds.
LEMMA SucceedGood ==
    ASSUME Good, WriterSucceed
    PROVE  Good' /\ Calm(metrics')
  <1>1. running # None /\ WriterFrame /\ srunning' = srunning
        /\ native' \in {"open", "closing", "poisoned", "gone"}
    BY DEF WriterSucceed, WriterFrame, Good, TypeOK
  <1>2. /\ metrics \in MetricsSets /\ reader \in ReaderStats /\ measuring \in Int \cup {None}
        /\ staged \in Seq(Mutations) /\ committed \in Seq(Mutations) /\ running \in Commands
        /\ running.mutations \in Seq(Mutations)
    BY <1>1 DEF Good, TypeOK, Commands
  <1>3. /\ staged \o running.mutations \in Seq(Mutations) /\ committed \o staged \in Seq(Mutations)
        /\ <<>> \in Seq(Mutations) /\ Len(committed \o staged) \in Nat /\ Len(committed) \in Nat
    BY <1>2, ConcatProperties, EmptySeq, LenProperties
  <1>4. PICK commit : commit = Phase(metrics, "commit", TRUE)
    OBVIOUS
  <1>5. "commit" \in Phases /\ "readerReload" \in Phases
    BY DEF Phases
  <1>6. Quiet(metrics, metrics) /\ Quiet(commit, metrics)
    BY <1>2, <1>4, <1>5, PhaseFacts DEF Quiet
  <1>7. /\ Quiet(Phase(metrics, "readerReload", TRUE), metrics)
        /\ Quiet(Phase(commit, "readerReload", TRUE), metrics)
    <2>1. commit \in MetricsSets
      BY <1>6 DEF Quiet
    <2>2. Quiet(Phase(commit, "readerReload", TRUE), commit)
      BY <1>5, <2>1, PhaseFacts
    <2> QED BY <1>2, <1>5, <1>6, <2>2, PhaseFacts, QuietChain
  <1>8. \/ /\ staged' = staged \o running.mutations /\ UNCHANGED <<committed, observed>>
           /\ WriterContinue(metrics, TRUE)
        \/ Commits /\ UNCHANGED observed /\ WriterContinue(commit, TRUE)
        \/ Commits /\ Refresh(Len(committed \o staged))
           /\ WriterContinue(Phase(commit, "readerReload", TRUE), TRUE)
        \/ UNCHANGED store /\ Refresh(Len(committed))
           /\ WriterContinue(Phase(metrics, "readerReload", TRUE), TRUE)
    BY <1>4 DEF WriterSucceed
  <1>9. StoreTyped
    <2>1. staged' \in Seq(Mutations) /\ committed' \in Seq(Mutations)
      BY <1>2, <1>3, <1>8 DEF Commits, store
    <2>2. /\ reader' \in ReaderStats /\ UNCHANGED <<measuring, configuring>>
          /\ refreshed' \in {refreshed, TRUE}
      BY <1>2, <1>3, <1>8, RefreshTyped DEF observed, Refresh
    <2>3. refreshed' \in BOOLEAN
      BY <2>2 DEF Good, TypeOK
    <2> QED BY <1>2, <2>1, <2>2, <2>3 DEF StoreTyped
  <1>10. PICK x \in {metrics, commit, Phase(commit, "readerReload", TRUE),
                     Phase(metrics, "readerReload", TRUE)} : WriterContinue(x, TRUE)
    BY <1>8
  <1>11. Quiet(x, metrics)
    BY <1>6, <1>7
  <1> QED BY <1>1, <1>9, <1>10, <1>11, ContinueGood

\* A command fails without a trace.
LEMMA RefuseGood ==
    ASSUME Good, WriterRefuse, UNCHANGED observed
    PROVE  Good' /\ Calm(metrics')
  <1>1. running # None /\ WriterFrame /\ srunning' = srunning /\ StoreTyped
        /\ native' \in {"open", "closing", "poisoned", "gone"}
    BY DEF WriterRefuse, WriterFrame, Good, TypeOK, StoreTyped, store, observed
  <1>2. metrics \in MetricsSets /\ "commit" \in Phases /\ "readerReload" \in Phases
    BY DEF Good, TypeOK, Phases
  <1>3. /\ Quiet(metrics, metrics) /\ Quiet(Phase(metrics, "commit", FALSE), metrics)
        /\ Quiet(Phase(metrics, "readerReload", FALSE), metrics)
    BY <1>2, PhaseFacts DEF Quiet
  <1>4. PICK x : /\ x = (IF running.op = "apply" THEN metrics
                         ELSE Phase(metrics, IF running.op = "commit" THEN "commit"
                                             ELSE "readerReload", FALSE))
                 /\ WriterContinue(x, FALSE)
    BY DEF WriterRefuse
  <1>5. x \in {metrics, Phase(metrics, "commit", FALSE), Phase(metrics, "readerReload", FALSE)}
    BY <1>4
  <1>6. Quiet(x, metrics)
    BY <1>3, <1>5
  <1> QED BY <1>1, <1>4, <1>6, ContinueGood

\* A clean close of a handle with uncommitted mutations reopens it.
LEMMA DirtyGood ==
    ASSUME Good, CloseDirty, UNCHANGED observed
    PROVE  Good' /\ Calm(metrics')
  <1>1. running # None /\ WriterFrame /\ srunning' = srunning /\ StoreTyped
        /\ native' \in {"open", "closing", "poisoned", "gone"}
    BY DEF CloseDirty, Reopens, WriterFrame, Good, TypeOK, StoreTyped, store, observed
  <1>2. Quiet(metrics, metrics) /\ WriterContinue(metrics, FALSE)
    BY DEF CloseDirty, Quiet, Good, TypeOK
  <1>3. PICK m : m = metrics
    OBVIOUS
  <1>4. Quiet(m, metrics) /\ WriterContinue(m, FALSE)
    BY <1>2, <1>3
  <1> QED BY <1>1, <1>4, ContinueGood

\* A poison while the writer's command r goes on, or after it was answered.
LEMMA PoisonGood ==
    ASSUME Good, NEW m, Quiet(m, metrics), NEW bt, NEW r \in Commands \cup {None},
           bt \in Runs \cup {None}, bt # None => CursorOK(bt), Poison(m, bt),
           running' = r, r # None => Fits(r),
           bt # None /\ bt.reply = "none" => batch # None /\ batch.reply = "none",
           Held(<<>>, running, "batch") => Held(<<>>, r, "batch") \/ bt = None \/ bt.reply # "none",
           \A q : Held(q, running, "close") => Held(q, r, "close"),
           WriterFrame, closeReply' = closeReply, srunning' \in SearchCommands \cup {None},
           StoreTyped
    PROVE  Good' /\ Calm(metrics')
  <1>1. TypeOK /\ CommandsOK
    BY DEF Good
  <1>2. /\ native' = "poisoned" /\ squeue' = <<>> /\ Quiet(metrics', metrics)
        /\ batch' \in Runs \cup {None} /\ (batch' # None => CursorOK(batch'))
        /\ batch' = Answer(bt, {queue[i] : i \in Failed(queue)}, "failed")
        /\ queue' \in Seq(Commands)
        /\ \A i \in 1..Len(queue') : Fits(queue'[i]) /\ ~queue'[i].panicked
        /\ \A x : Held(queue, x, "close") => Held(queue', x, "close")
        /\ \A x : Held(queue, x, "batch")
             => Held(<<>>, x, "batch") \/ \E c \in {queue[i] : i \in Failed(queue)} : c.from = "batch"
    BY <1>1, PoisonFacts
  <1>3. squeue' \in Seq(SearchCommands)
    BY <1>2, EmptySeq
  <1>4. TypeOK'
    BY <1>2, <1>3 DEF Good, TypeOK, WriterFrame, StoreTyped, Quiet
  <1>5. CommandsOK' /\ CursorsOK'
    BY <1>2 DEF CommandsOK, CursorsOK
  <1>6. /\ batch # None /\ batch.reply = "none" => Held(queue, running, "batch")
        /\ promise /\ ~closed /\ closeReply = "none" => Held(queue, running, "close")
    BY HeldIs DEF Good
  <1>7. promise /\ ~closed /\ closeReply = "none" => Held(queue', r, "close")
    BY <1>2, <1>6
  <1>8. batch' # None /\ batch'.reply = "none" => Held(queue', r, "batch")
    <2>1. SUFFICES ASSUME batch' # None, batch'.reply = "none" PROVE Held(queue', r, "batch")
      OBVIOUS
    <2>2. /\ bt # None /\ bt.reply = "none"
          /\ ~\E c \in {queue[i] : i \in Failed(queue)} : c.from = "batch"
      <3>1. PICK n : n = Answer(bt, {queue[i] : i \in Failed(queue)}, "failed")
        OBVIOUS
      <3>2. /\ n = None <=> bt = None
            /\ bt # None => n.reply = IF \E c \in {queue[i] : i \in Failed(queue)} : c.from = "batch"
                                      THEN "failed" ELSE bt.reply
        BY <3>1, AnswerFacts
      <3>3. n # None /\ n.reply = "none"
        BY <1>2, <2>1, <3>1
      <3> QED BY <3>2, <3>3
    <2>3. Held(<<>>, running, "batch")
      BY <1>2, <1>6, <2>2
    <2>4. Held(<<>>, r, "batch")
      BY <2>2, <2>3
    <2>5. Len(<<>>) = 0
      BY EmptySeq
    <2> QED BY <2>4, <2>5 DEF Held
  <1>9. AwaitedIsHeld'
    BY <1>7, <1>8 DEF AwaitedIsHeld, Held, WriterFrame
  <1>10. Calm(metrics')
    BY <1>2 DEF Quiet, Calm
  <1> QED BY <1>4, <1>5, <1>9, <1>10 DEF Good

\* A search panics and poisons the handle.
LEMMA SearchPanicGood ==
    ASSUME Good, SearchPanic, UNCHANGED observed
    PROVE  Good' /\ Calm(metrics')
  <1>1. /\ srunning # None /\ srunning' = None /\ running' = running /\ closeReply' = closeReply
        /\ WriterFrame /\ StoreTyped
    BY DEF SearchPanic, WriterFrame, StoreTyped, store, observed, Good, TypeOK
  <1>2. metrics \in MetricsSets /\ srunning.t \in Tickets
    BY <1>1 DEF Good, TypeOK, SearchCommands
  <1>3. PICK m : m = Settle([m |-> metrics, t |-> srunning.t], FALSE).m
    OBVIOUS
  <1>4. Quiet(m, metrics)
    BY <1>2, <1>3, SettleQuiet
  <1>5. PICK bt, r : bt = batch /\ r = running
    OBVIOUS
  <1>6. Poison(m, bt)
    BY <1>3, <1>5 DEF SearchPanic
  <1>7. /\ bt \in Runs \cup {None} /\ (bt # None => CursorOK(bt)) /\ r \in Commands \cup {None}
        /\ r # None => Fits(r)
    BY <1>5 DEF Good, TypeOK, CursorsOK, CommandsOK
  <1> QED BY <1>1, <1>4, <1>5, <1>6, <1>7, PoisonGood

\* The writer panics and poisons the handle.
LEMMA PanicGood ==
    ASSUME Good, WriterPanic, UNCHANGED observed
    PROVE  Good' /\ Calm(metrics')
  <1>1. /\ running # None /\ srunning' = srunning /\ closeReply' = closeReply
        /\ running' = [running EXCEPT !.panicked = TRUE] /\ WriterFrame
    BY DEF WriterPanic, WriterFrame
  <1>2. running \in Commands /\ Fits(running)
    BY <1>1 DEF Good, TypeOK, CommandsOK
  <1>3. PICK r : r = [running EXCEPT !.panicked = TRUE]
    OBVIOUS
  <1>4. r \in Commands /\ r.from = running.from /\ r.op = running.op
    BY <1>2, <1>3 DEF Commands
  <1>5. r # None /\ Fits(r)
    BY <1>2, <1>4, FacadeAssumption DEF Fits
  <1>6. StoreTyped
    <2>1. staged' \in Seq(Mutations) /\ committed' \in Seq(Mutations)
      <3>1. /\ staged \in Seq(Mutations) /\ committed \in Seq(Mutations)
            /\ <<>> \in Seq(Mutations) /\ committed \o staged \in Seq(Mutations)
        BY EmptySeq, ConcatProperties DEF Good, TypeOK
      <3> QED BY <3>1 DEF WriterPanic, Commits, store
    <2> QED BY <2>1 DEF StoreTyped, observed, Good, TypeOK
  <1>7. PICK m : m = metrics
    OBVIOUS
  <1>8. PICK bt : bt = batch
    OBVIOUS
  <1>9. Quiet(m, metrics) /\ Poison(m, bt)
    BY <1>7, <1>8 DEF WriterPanic, Quiet, Good, TypeOK
  <1>10. bt \in Runs \cup {None} /\ (bt # None => CursorOK(bt))
    BY <1>8 DEF Good, TypeOK, CursorsOK
  <1>11. \A q, from : Held(q, running, from) => Held(q, r, from)
    BY <1>1, <1>4, <1>5 DEF Held
  <1>12. srunning' \in SearchCommands \cup {None}
    BY <1>1 DEF Good, TypeOK
  <1> QED BY <1>1, <1>3, <1>4, <1>5, <1>6, <1>8, <1>9, <1>10, <1>11, <1>12, PoisonGood

\* A command fails after the writer changed and poisons the handle.
LEMMA FailGood ==
    ASSUME Good, WriterFail, UNCHANGED observed
    PROVE  Good' /\ Calm(metrics')
  <1>1. /\ running # None /\ running.op \in {"apply", "commit", "publish"} /\ srunning' = srunning
        /\ closeReply' = closeReply /\ running' = None /\ WriterFrame
    BY DEF WriterFail, WriterFrame
  <1>2. running \in Commands /\ Fits(running) /\ running.t \in Tickets
        /\ running.mutations \in Seq(Mutations) /\ metrics \in MetricsSets
    BY <1>1 DEF Good, TypeOK, CommandsOK, Commands
  <1>3. PICK bt : bt = Answer(batch, {running}, "failed")
    OBVIOUS
  <1>4. PICK x \in {metrics, Phase(metrics, "commit", FALSE),
                    Phase(Phase(metrics, "commit", TRUE), "readerReload", FALSE)} :
            Poison(Settle([m |-> x, t |-> running.t], FALSE).m, bt)
    BY <1>3 DEF WriterFail
  <1>5. Quiet(x, metrics)
    <2>1. "commit" \in Phases /\ "readerReload" \in Phases
      BY DEF Phases
    <2>2. PICK c : c = Phase(metrics, "commit", TRUE)
      OBVIOUS
    <2>3. Quiet(c, metrics) /\ c \in MetricsSets /\ Quiet(Phase(metrics, "commit", FALSE), metrics)
      BY <1>2, <2>1, <2>2, PhaseFacts DEF Quiet
    <2>4. Quiet(Phase(c, "readerReload", FALSE), c)
      BY <2>1, <2>3, PhaseFacts
    <2>5. Quiet(Phase(c, "readerReload", FALSE), metrics) /\ Quiet(metrics, metrics)
      BY <1>2, <2>3, <2>4, QuietChain DEF Quiet
    <2> QED BY <1>4, <2>2, <2>3, <2>5
  <1>6. PICK m : m = Settle([m |-> x, t |-> running.t], FALSE).m
    OBVIOUS
  <1>7. Quiet(m, metrics) /\ Poison(m, bt)
    <2>1. Quiet(m, x)
      <3>1. x \in MetricsSets
        BY <1>5 DEF Quiet
      <3> QED BY <1>2, <1>6, <3>1, SettleQuiet
    <2> QED BY <1>4, <1>5, <1>6, <2>1, QuietChain
  <1>8. batch \in Runs \cup {None} /\ (batch # None => CursorOK(batch))
    BY DEF Good, TypeOK, CursorsOK
  <1>9. bt \in Runs \cup {None} /\ (bt # None => CursorOK(bt))
    <2>1. PICK b : b = batch
      OBVIOUS
    <2> QED BY <1>3, <1>8, <2>1, AnswerCursor
  <1>10. /\ bt # None /\ bt.reply = "none" => batch # None /\ batch.reply = "none"
         /\ running.from = "batch" => bt = None \/ bt.reply # "none"
    <2>1. /\ bt = None <=> batch = None
          /\ batch # None => bt.reply = IF \E c \in {running} : c.from = "batch"
                                        THEN "failed" ELSE batch.reply
      BY <1>3, <1>8, AnswerFacts
    <2> QED BY <2>1
  <1>11. StoreTyped
    <2>1. staged' \in Seq(Mutations) /\ committed' \in Seq(Mutations)
      <3>1. /\ staged \in Seq(Mutations) /\ committed \in Seq(Mutations)
            /\ <<>> \in Seq(Mutations) /\ committed \o staged \in Seq(Mutations)
        BY EmptySeq, ConcatProperties DEF Good, TypeOK
      <3>2. ASSUME NEW k \in 0..Len(running.mutations)
            PROVE  staged \o SubSeq(running.mutations, 1, k) \in Seq(Mutations)
        <4>1. SubSeq(running.mutations, 1, k) \in Seq(Mutations)
          BY <1>2, LenProperties, SubSeqProperties
        <4> QED BY <3>1, <4>1, ConcatProperties
      <3> QED BY <3>1, <3>2 DEF WriterFail, Commits, store
    <2> QED BY <2>1 DEF StoreTyped, observed, Good, TypeOK
  <1>12. Held(<<>>, running, "batch") => running.from = "batch"
    <2>1. Len(<<>>) = 0
      BY EmptySeq
    <2> QED BY <2>1 DEF Held
  <1>13. running.from # "close"
    BY <1>1, <1>2 DEF Fits
  <1>14. \A q : Held(q, running, "close") => Held(q, None, "close")
    BY <1>13 DEF Held
  <1>15. srunning' \in SearchCommands \cup {None} /\ None \in Commands \cup {None}
    BY <1>1 DEF Good, TypeOK
  <1> QED BY <1>1, <1>7, <1>9, <1>10, <1>11, <1>12, <1>14, <1>15, PoisonGood

\* The end of the actor settles every ticket it drops.
LEMMA ReleasedFacts ==
    ASSUME TypeOK, running # None, NEW ok \in BOOLEAN, NEW clean \in BOOLEAN, Released(ok, clean)
    PROVE  /\ Quiet(metrics', metrics) /\ native' = "gone" /\ queue' = <<>> /\ running' = None
           /\ staged' = <<>>
  <1>1. /\ metrics \in MetricsSets /\ queue \in Seq(Commands) /\ running.t \in Tickets
        /\ Len(queue) \in Nat
    BY LenProperties DEF TypeOK, Commands
  <1>2. PICK a : a = BeginTeardown(metrics)
    OBVIOUS
  <1>3. Quiet(a, metrics) /\ a \in MetricsSets
    BY <1>1, <1>2, TeardownFacts DEF Quiet
  <1>4. IsFiniteSet(1..Len(queue)) /\ \A i \in 1..Len(queue) : queue[i].t \in Tickets
    <2>1. \A i \in 1..Len(queue) : queue[i] \in Commands
      BY <1>1, ElementOfSeq
    <2>2. \A i \in 1..Len(queue) : queue[i].t \in Tickets
      BY <2>1 DEF Commands
    <2>3. ASSUME NEW n \in Nat PROVE IsFiniteSet(1..n)
      BY FS_Interval
    <2>4. IsFiniteSet(1..Len(queue))
      BY <1>1, <2>3
    <2> QED BY <2>2, <2>4
  <1>5. PICK s : s = SettleAll(a, queue, 1..Len(queue))
    OBVIOUS
  <1>6. Quiet(s, a)
    BY <1>3, <1>4, <1>5, SettleAllQuiet
  <1>7. s \in MetricsSets
    BY <1>6 DEF Quiet
  <1>8. PICK z : z = FinishTeardown(s, clean)
    OBVIOUS
  <1>9. Quiet(z, s) /\ z \in MetricsSets
    BY <1>7, <1>8, TeardownFacts DEF Quiet
  <1>10. metrics' = Settle([m |-> z, t |-> running.t], ok).m
    BY <1>2, <1>5, <1>8 DEF Released
  <1>11. Quiet(metrics', z)
    BY <1>1, <1>9, <1>10, SettleQuiet
  <1>12. Quiet(metrics', metrics)
    <2>1. Quiet(s, metrics)
      BY <1>3, <1>6, QuietChain
    <2>2. Quiet(z, metrics)
      BY <1>9, <2>1, QuietChain
    <2> QED BY <1>11, <2>2, QuietChain
  <1> QED BY <1>12 DEF Released

\* The commands of a queue as a set.
LEMMA ToSetFacts ==
    ASSUME NEW q \in Seq(Commands)
    PROVE  \A from : (\E i \in 1..Len(q) : q[i].from = from) <=> \E c \in ToSet(q) : c.from = from
  <1>1. DOMAIN q = 1..Len(q)
    BY LenProperties
  <1>2. ToSet(q) = {q[i] : i \in 1..Len(q)}
    BY <1>1 DEF ToSet
  <1> QED BY <1>2

\* A handle that is torn down has answered its batch and its close.
LEMMA StopGood ==
    ASSUME Good, running # None, NEW ok \in BOOLEAN, NEW clean \in BOOLEAN, Released(ok, clean),
           NEW cmds, batch' = Answer(batch, cmds, "failed"),
           \A c : c \in ToSet(queue) => c \in cmds,
           running.from = "batch" => running \in cmds,
           closeReply' \in Outcomes \cup {"none", "E_CLOSED", "E_DIRTY_CLOSE", "E_NATIVE_PANIC"},
           closeReply' = "none" => closeReply = "none" /\ ~Held(queue, running, "close"),
           WriterFrame, UNCHANGED <<squeue, srunning, committed, observed>>
    PROVE  Good' /\ Calm(metrics')
  <1>1. /\ Quiet(metrics', metrics) /\ native' = "gone" /\ queue' = <<>> /\ running' = None
        /\ staged' = <<>>
    BY ReleasedFacts DEF Good
  <1>2. batch \in Runs \cup {None} /\ (batch # None => CursorOK(batch))
    BY DEF Good, TypeOK, CursorsOK
  <1>3. (batch' # None => CursorOK(batch')) /\ batch' \in Runs \cup {None}
    <2>1. PICK bt : bt = batch
      OBVIOUS
    <2>2. PICK n : n = Answer(bt, cmds, "failed")
      OBVIOUS
    <2>3. (n # None => CursorOK(n)) /\ n \in Runs \cup {None}
      BY <1>2, <2>1, <2>2, AnswerCursor
    <2> QED BY <2>1, <2>2, <2>3
  <1>4. queue' \in Seq(Commands) /\ staged' \in Seq(Mutations) /\ Len(queue') = 0
    BY <1>1, EmptySeq
  <1>5. TypeOK'
    BY <1>1, <1>3, <1>4 DEF Good, TypeOK, WriterFrame, Quiet, observed
  <1>6. CommandsOK' /\ CursorsOK'
    BY <1>1, <1>3, <1>4 DEF CommandsOK, CursorsOK
  <1>7. /\ batch # None /\ batch.reply = "none" => Held(queue, running, "batch")
        /\ promise /\ ~closed /\ closeReply = "none" => Held(queue, running, "close")
    BY HeldIs DEF Good
  <1>8. ~(batch' # None /\ batch'.reply = "none")
    <2>1. SUFFICES ASSUME batch' # None, batch'.reply = "none" PROVE FALSE
      OBVIOUS
    <2>2. /\ batch' = None <=> batch = None
          /\ batch # None => batch'.reply = IF \E c \in cmds : c.from = "batch"
                                            THEN "failed" ELSE batch.reply
      BY <1>2, AnswerFacts
    <2>3. Held(queue, running, "batch") /\ ~\E c \in cmds : c.from = "batch"
      BY <1>7, <2>1, <2>2
    <2>4. queue \in Seq(Commands)
      BY DEF Good, TypeOK
    <2>5. CASE \E i \in 1..Len(queue) : queue[i].from = "batch"
      <3>1. \E c \in ToSet(queue) : c.from = "batch"
        BY <2>4, <2>5, ToSetFacts
      <3> QED BY <2>3, <3>1
    <2>6. CASE running # None /\ running.from = "batch"
      BY <2>3, <2>6
    <2> QED BY <2>3, <2>5, <2>6 DEF Held
  <1>9. ~(promise /\ ~closed /\ closeReply' = "none")
    BY <1>7
  <1>10. AwaitedIsHeld'
    BY <1>8, <1>9 DEF AwaitedIsHeld, WriterFrame
  <1>11. Calm(metrics')
    BY <1>1 DEF Quiet, Calm
  <1> QED BY <1>5, <1>6, <1>10, <1>11 DEF Good

\* A close tears the handle down.
LEMMA CloseStopGood ==
    ASSUME Good, CloseStop, UNCHANGED observed
    PROVE  Good' /\ Calm(metrics')
  <1>1. /\ running # None /\ running.op = "close" /\ WriterFrame
        /\ UNCHANGED <<squeue, srunning, committed, observed>>
        /\ batch' = Answer(batch, ToSet(queue), "failed")
    BY DEF CloseStop, WriterFrame, searchside
  <1>2. PICK reply \in Outcomes : Released(reply = "ok", reply = "ok") /\ closeReply' = reply
    BY DEF CloseStop
  <1>3. PICK ok \in BOOLEAN : ok = (reply = "ok")
    OBVIOUS
  <1>4. Released(ok, ok)
    BY <1>2, <1>3
  <1>5. running.from # "batch"
    BY <1>1 DEF Good, CommandsOK, Fits
  <1>6. closeReply' # "none" /\ closeReply' \in Outcomes
    BY <1>2 DEF Outcomes
  <1>7. PICK cmds : cmds = ToSet(queue)
    OBVIOUS
  <1> QED BY <1>1, <1>4, <1>5, <1>6, <1>7, StopGood

\* A panic tears the handle down.
LEMMA PanicStopGood ==
    ASSUME Good, PanicStop, UNCHANGED observed
    PROVE  Good' /\ Calm(metrics')
  <1>1. PICK cmds : cmds = ToSet(queue) \cup {running}
    OBVIOUS
  <1>2. /\ running # None /\ WriterFrame
        /\ UNCHANGED <<squeue, srunning, committed, observed>>
        /\ batch' = Answer(batch, cmds, "failed")
    BY <1>1 DEF PanicStop, WriterFrame, searchside
  <1>3. PICK reply \in {"E_NATIVE_PANIC", "E_QUIESCENCE_FAILED"}, clean \in BOOLEAN :
           /\ Released(FALSE, clean)
           /\ closeReply' = IF running.from = "close" THEN reply
                            ELSE AnswerClose(ToSet(queue), "E_CLOSED")
    BY DEF PanicStop
  <1>4. PICK ok \in BOOLEAN : ok = FALSE
    OBVIOUS
  <1>5. Released(ok, clean)
    BY <1>3, <1>4
  <1>6. closeReply' = IF running.from = "close" THEN reply
                     ELSE IF \E c \in ToSet(queue) : c.from = "close" THEN "E_CLOSED" ELSE closeReply
    BY <1>3 DEF AnswerClose
  <1>7. closeReply' \in Outcomes \cup {"none", "E_CLOSED", "E_DIRTY_CLOSE", "E_NATIVE_PANIC"}
    BY <1>6 DEF Good, TypeOK, Outcomes
  <1>8. closeReply' = "none" => closeReply = "none" /\ ~Held(queue, running, "close")
    <2>1. SUFFICES ASSUME closeReply' = "none", Held(queue, running, "close") PROVE FALSE
      BY <1>6
    <2>2. running.from # "close" /\ ~\E c \in ToSet(queue) : c.from = "close"
      BY <1>6, <2>1
    <2>3. queue \in Seq(Commands)
      BY DEF Good, TypeOK
    <2>4. CASE \E i \in 1..Len(queue) : queue[i].from = "close"
      <3>1. \E c \in ToSet(queue) : c.from = "close"
        BY <2>3, <2>4, ToSetFacts
      <3> QED BY <2>2, <3>1
    <2>5. CASE running # None /\ running.from = "close"
      BY <2>2, <2>5
    <2> QED BY <2>1, <2>4, <2>5 DEF Held
  <1>9. (\A c : c \in ToSet(queue) => c \in cmds) /\ running \in cmds
    BY <1>1
  <1> QED BY <1>2, <1>5, <1>7, <1>8, <1>9, StopGood

\* A new handle.
LEMMA InitGood ==
    ASSUME Init PROVE Good /\ BytesAreOfTheReader
  <1>1. NewMetrics \in MetricsSets /\ NewMetrics.snapshotBytes = FALSE
    <2>1. Latency \in Latencies
      BY DEF Latency, Latencies
    <2>2. ActorCounters \in CounterSets
      BY <2>1 DEF ActorCounters, CounterSets
    <2>3. Admission \in AdmissionSets
      BY DEF Admission, AdmissionSets
    <2>4. PICK f \in BOOLEAN : f = FALSE
      OBVIOUS
    <2>5. PICK adm, act, ph :
             /\ adm = [op \in Operations |-> Admission]
             /\ act = [a \in Actors |-> [op \in Operations |-> ActorCounters]]
             /\ ph = [p \in Phases |-> [succeeded |-> 0, failed |-> 0]]
      OBVIOUS
    <2>6. /\ adm \in [Operations -> AdmissionSets]
          /\ act \in [Actors -> [Operations -> CounterSets]]
          /\ ph \in [Phases -> [succeeded : Nat, failed : Nat]]
      BY <2>2, <2>3, <2>5
    <2>7. PICK m : m = NewMetrics
      OBVIOUS
    <2>8. m = [admission |-> adm, actor |-> act, phases |-> ph, histograms |-> f,
               snapshotBytes |-> f, teardown |-> f]
      BY <2>4, <2>5, <2>7 DEF NewMetrics
    <2>9. m \in MetricsSets /\ m.snapshotBytes = f
      BY <2>6, <2>8 DEF MetricsSets
    <2> QED BY <2>4, <2>7, <2>9
  <1>2. reader = [available |-> TRUE, signature |-> 0, bytesSignature |-> -1,
                  bytesError |-> FALSE, pending |-> FALSE]
    BY DEF Init, InstallReader, NewReaderStats, NoSignature
  <1>3. /\ reader \in ReaderStats /\ reader.bytesSignature = NoSignature /\ reader.pending = FALSE
    BY <1>2 DEF ReaderStats, NoSignature
  <1>4. /\ queue = <<>> /\ squeue = <<>> /\ staged = <<>> /\ committed = <<>>
        /\ queue \in Seq(Commands) /\ squeue \in Seq(SearchCommands)
        /\ staged \in Seq(Mutations) /\ committed \in Seq(Mutations) /\ Len(queue) = 0
    BY EmptySeq DEF Init
  <1>5. TypeOK
    BY <1>1, <1>3, <1>4 DEF Init, TypeOK, Outcomes
  <1>6. CommandsOK /\ CursorsOK /\ AwaitedIsHeld
    BY <1>4 DEF Init, CommandsOK, CursorsOK, AwaitedIsHeld
  <1>7. BytesAreOfTheReader
    BY <1>3 DEF BytesAreOfTheReader
  <1> QED BY <1>5, <1>6, <1>7 DEF Good

\* The layer is inductive.
LEMMA StepGood ==
    ASSUME Good, [Next]_vars
    PROVE  Good'
  <1>1. CASE UNCHANGED vars
    BY <1>1 DEF vars, facade, searchside, store, writer, observed, Good, TypeOK, CommandsOK,
                CursorsOK, AwaitedIsHeld
  <1>2. CASE UNCHANGED observed /\ JsStep
    BY <1>2, ApplyGood, ResumeGood, CallGood, CloseGood, CloseReturnsGood, SearchPageGood, DigestGood
    DEF JsStep
  <1>3. CASE UNCHANGED observed /\ ~JsStep /\ Next
    BY <1>3, SearchStepGood, SearchPanicGood, PopGood, RefuseGood, FailGood, DirtyGood, CloseStopGood,
       PanicGood, PanicStopGood, SucceedGood, ConfigureGood, ConfigureBytesGood, ConfigureReaderGood,
       ObserveGood, MeasuredGood
    DEF Next
  <1>4. CASE WriterSucceed \/ ConfigureTelemetry \/ ConfigureBytes \/ ConfigureReader
             \/ ObserveBytes \/ BytesMeasured
    BY <1>4, SucceedGood, ConfigureGood, ConfigureBytesGood, ConfigureReaderGood, ObserveGood,
       MeasuredGood
  <1> QED BY <1>1, <1>2, <1>3, <1>4 DEF Next

\* The reader's side of a step: a new reader, a measurement, a setting, or none.
LEMMA StepBytes ==
    ASSUME Good, BytesAreOfTheReader, [Next]_vars
    PROVE  BytesAreOfTheReader'
  <1> DEFINE Fine(r, e, c) == /\ r.bytesSignature \in {NoSignature, r.signature}
                              /\ r.pending /\ c # "reader" => e
                              /\ r.pending => r.bytesSignature # r.signature
             Writes == \/ WriterSucceed \/ ConfigureTelemetry \/ ConfigureBytes
                       \/ ConfigureReader \/ ObserveBytes \/ BytesMeasured
  <1>1. Fine(reader, metrics.snapshotBytes, configuring) /\ reader \in ReaderStats
    BY DEF BytesAreOfTheReader, Good, TypeOK
  <1>2. SUFFICES Fine(reader', metrics'.snapshotBytes, configuring')
    BY DEF BytesAreOfTheReader
  <1>3. CASE ConfigureTelemetry \/ ConfigureBytes \/ ObserveBytes
    <2>1. CASE ConfigureTelemetry
      BY <1>1, <2>1, ConfigureGood DEF Calm
    <2>2. CASE ConfigureBytes
      BY <1>1, <2>2, ConfigureBytesGood
    <2>3. CASE ObserveBytes
      BY <1>1, <2>3, ObserveGood
    <2> QED BY <1>3, <2>1, <2>2, <2>3
  <1>4. ASSUME UNCHANGED observed, Next, ~Writes
        PROVE  /\ reader' = reader /\ metrics'.snapshotBytes = metrics.snapshotBytes
               /\ configuring' = configuring
    <2>1. CASE JsStep
      <3>1. CASE \E b \in Batches : ApplyMutationBatch(b)
        BY <1>4, <3>1, ApplyGood DEF Calm, observed
      <3>2. CASE \E op \in CallOps : Call(op)
        BY <1>4, <3>2, CallGood DEF Calm, observed
      <3>3. CASE \E rollback \in BOOLEAN : Close(rollback)
        BY <1>4, <3>3, CloseGood DEF Calm, observed
      <3>4. CASE \E s \in Searches : SearchPage(s) \/ DigestReady(s)
        BY <1>4, <3>4, SearchPageGood, DigestGood DEF Calm, observed
      <3>5. CASE ResumeBatch \/ CloseReturns
        BY <1>4, <3>5, ResumeGood, CloseReturnsGood DEF Calm, observed
      <3> QED BY <2>1, <3>1, <3>2, <3>3, <3>4, <3>5 DEF JsStep
    <2>2. CASE SearchStep \/ SearchPanic \/ WriterPop \/ WriterRefuse \/ WriterFail \/ CloseDirty
               \/ CloseStop \/ WriterPanic \/ PanicStop
      <3>1. Calm(metrics')
        BY <1>4, <2>2, SearchStepGood, SearchPanicGood, PopGood, RefuseGood, FailGood, DirtyGood,
           CloseStopGood, PanicGood, PanicStopGood
      <3> QED BY <1>4, <3>1 DEF Calm, observed
    <2> QED BY <1>4, <2>1, <2>2 DEF Next
  <1>5. CASE ConfigureReader
    <2>1. PICK e \in BOOLEAN : e = metrics'.snapshotBytes
      BY <1>5, ConfigureReaderGood DEF Good, TypeOK, MetricsSets
    <2>2. reader' = Configure(reader, e)
      BY <1>5, <2>1, ConfigureReaderGood
    <2>3. PICK p \in BOOLEAN : p = (e /\ reader.bytesSignature # reader.signature)
      OBVIOUS
    <2>4. reader' = [reader EXCEPT !.pending = p]
      BY <2>2, <2>3 DEF Configure
    <2>5. /\ reader'.pending = p /\ reader'.signature = reader.signature
          /\ reader'.bytesSignature = reader.bytesSignature
      BY <1>1, <2>4 DEF ReaderStats
    <2> QED BY <1>1, <2>1, <2>3, <2>5
  <1>6. CASE BytesMeasured
    <2>1. UNCHANGED <<metrics, configuring>>
      BY <1>6 DEF BytesMeasured
    <2>2. PICK ok \in BOOLEAN : reader' = ObservedBytes(reader, measuring, ok)
      BY <1>6 DEF BytesMeasured
    <2>3. CASE reader.signature # measuring
      BY <1>1, <2>1, <2>2, <2>3 DEF ObservedBytes
    <2>4. CASE reader.signature = measuring
      <3>1. PICK no \in BOOLEAN : no = ~ok
        OBVIOUS
      <3>2. PICK f \in BOOLEAN : f = FALSE
        OBVIOUS
      <3>3. PICK bs : bs = IF ok THEN measuring ELSE reader.bytesSignature
        OBVIOUS
      <3>4. reader' = [reader EXCEPT !.pending = f, !.bytesSignature = bs, !.bytesError = no]
        BY <2>2, <2>4, <3>1, <3>2, <3>3 DEF ObservedBytes
      <3>5. /\ reader'.pending = f /\ reader'.signature = reader.signature
            /\ reader'.bytesSignature = bs
        BY <1>1, <3>4 DEF ReaderStats
      <3> QED BY <1>1, <2>1, <2>4, <3>2, <3>3, <3>5
    <2> QED BY <2>3, <2>4
  <1>7. CASE WriterSucceed
    <2>1. Calm(metrics')
      BY <1>7, SucceedGood
    <2>2. \/ UNCHANGED <<reader, configuring>>
          \/ \E n \in Nat : Refresh(n)
      <3>1. Len(committed) \in Nat /\ Len(committed \o staged) \in Nat
        <4>1. committed \in Seq(Mutations) /\ committed \o staged \in Seq(Mutations)
          BY ConcatProperties DEF Good, TypeOK
        <4> QED BY <4>1, LenProperties
      <3> QED BY <1>7, <3>1 DEF WriterSucceed, observed
    <2>3. ASSUME NEW n \in Nat, Refresh(n)
          PROVE  Fine(reader', metrics.snapshotBytes, configuring')
      <3>1. PICK e : e = metrics.snapshotBytes
        OBVIOUS
      <3>2. reader' = InstallReader(reader, n, e)
        BY <2>3, <3>1 DEF Refresh
      <3>3. CASE reader.bytesSignature = n
        <4>1. /\ reader'.signature = n /\ reader'.bytesSignature = n /\ ~reader'.pending
          BY <3>2, <3>3 DEF InstallReader
        <4> QED BY <4>1
      <3>4. CASE reader.bytesSignature # n
        <4>1. /\ reader'.signature = n /\ reader'.bytesSignature = NoSignature
              /\ reader'.pending => e
          BY <3>2, <3>4 DEF InstallReader
        <4>2. NoSignature # n
          BY DEF NoSignature
        <4> QED BY <3>1, <4>1, <4>2
      <3> QED BY <3>3, <3>4
    <2> QED BY <1>1, <2>1, <2>2, <2>3 DEF Calm
  <1>8. CASE UNCHANGED vars
    BY <1>1, <1>8 DEF vars, observed
  <1>9. CASE Next /\ ~Writes
    <2>1. UNCHANGED observed
      BY <1>9 DEF Next
    <2> QED BY <1>1, <1>4, <1>9, <2>1
  <1> QED BY <1>3, <1>5, <1>6, <1>7, <1>8, <1>9

-----------------------------------------------------------------------------
(* Telemetry: the counters of an operation, summed over its actors.        *)

\* v is what ActorSum makes of the counters f of the actors, for operation p.
IsActorSum(v, f, p) == IF p \in SearchOperations THEN SumsTo(f, v, Actors)
                       ELSE v = f[OperationActor]

\* The counters named k, and the samples of the queue, of operation p.
Column(m, p, k) == [a \in Actors |-> m.actor[a][p][k]]
SampleColumn(m, p) == [a \in Actors |-> m.actor[a][p].queue.count]

\* The actors are finitely many, and one of them is the operation itself.
LEMMA ActorsFacts == IsFiniteSet(Actors) /\ OperationActor \in Actors
  <1>1. IsFiniteSet(Workers)
    BY TelemetryAssumption
  <1>2. IsFiniteSet(Workers \cup {OperationActor})
    BY <1>1, FS_AddElement
  <1> QED BY <1>2 DEF Actors

\* The columns are numbers.
LEMMA ColumnFacts ==
    ASSUME NEW m \in MetricsSets, NEW p \in Operations
    PROVE  /\ Column(m, p, "dispatched") \in [Actors -> Int]
           /\ Column(m, p, "succeeded") \in [Actors -> Int]
           /\ Column(m, p, "failed") \in [Actors -> Int]
           /\ SampleColumn(m, p) \in [Actors -> Int]
           /\ \A a \in Actors : /\ Column(m, p, "dispatched")[a] = m.actor[a][p].dispatched
                                /\ Column(m, p, "succeeded")[a] = m.actor[a][p].succeeded
                                /\ Column(m, p, "failed")[a] = m.actor[a][p].failed
                                /\ SampleColumn(m, p)[a] = m.actor[a][p].queue.count
  <1>1. \A a \in Actors : /\ m.actor[a][p].dispatched \in Int /\ m.actor[a][p].succeeded \in Int
                          /\ m.actor[a][p].failed \in Int /\ m.actor[a][p].queue.count \in Int
    BY CounterFacts
  <1> QED BY <1>1 DEF Column, SampleColumn

\* A sum over the actors, as the library unfolds it.
ActorTable(h, f) == h = [s \in SUBSET Actors |->
    IF s = {} THEN 0 ELSE f[CHOOSE x \in s : TRUE] + h[s \ {CHOOSE x \in s : TRUE}]]

\* Such a table is a table of sums.
LEMMA ActorTableSums ==
    ASSUME NEW f \in [Actors -> Int], NEW t, t = (CHOOSE h : ActorTable(h, f))
    PROVE  SumsTo(f, t[Actors], Actors)
  <1>1. PICK h \in [SUBSET Actors -> Int] : IsSum(h, f, Actors)
    BY ActorsFacts, SumExists
  <1>2. \A k : ActorTable(k, f) <=> IsSum(k, f, Actors)
    BY Zenon DEF ActorTable, IsSum, Unfold, Pick
  <1>3. ActorTable(t, f)
    BY <1>1, <1>2
  <1> QED BY <1>2, <1>3 DEF SumsTo

\* HandleMetrics::actor_value: the value of a counter is the sum of its column.
LEMMA ValueIsSum ==
    ASSUME NEW m, NEW p, NEW k, Column(m, p, k) \in [Actors -> Int]
    PROVE  IsActorSum(ActorValue(m, p, k), Column(m, p, k), p)
  <1>1. CASE p \in SearchOperations
    <2> DEFINE f == Column(m, p, k)
               Table(h) == h = [s \in SUBSET Actors |->
                   IF s = {} THEN 0
                   ELSE m.actor[CHOOSE x \in s : TRUE][p][k] + h[s \ {CHOOSE x \in s : TRUE}]]
               t == CHOOSE h : Table(h)
    <2>1. ActorValue(m, p, k) = t[Actors]
      BY <1>1, Zenon DEF ActorValue, ActorSum, MapThenSumSet, MapThenFoldSet
    <2>2. ASSUME NEW h PROVE Table(h) <=> ActorTable(h, f)
      <3>1. ASSUME NEW s \in SUBSET Actors, s # {}
            PROVE  m.actor[CHOOSE x \in s : TRUE][p][k] = f[CHOOSE x \in s : TRUE]
        <4>1. (CHOOSE x \in s : TRUE) \in Actors
          BY <3>1
        <4> QED BY <4>1 DEF Column
      <3>2. \A s \in SUBSET Actors :
              (IF s = {} THEN 0
               ELSE m.actor[CHOOSE x \in s : TRUE][p][k] + h[s \ {CHOOSE x \in s : TRUE}])
               = (IF s = {} THEN 0
                  ELSE f[CHOOSE x \in s : TRUE] + h[s \ {CHOOSE x \in s : TRUE}])
        <4> HIDE DEF f
        <4> QED BY <3>1
      <3> HIDE DEF f
      <3> QED BY <3>2, Zenon DEF ActorTable
    <2> HIDE DEF Table, f
    <2>3. t = (CHOOSE h : ActorTable(h, f))
      BY <2>2, Zenon
    <2> HIDE DEF t
    <2>4. SumsTo(f, t[Actors], Actors)
      BY <2>3, ActorTableSums DEF f
    <2> QED BY <1>1, <2>1, <2>4 DEF IsActorSum, f
  <1>2. CASE p \notin SearchOperations
    BY <1>2, ActorsFacts DEF IsActorSum, ActorValue, ActorSum, Column
  <1> QED BY <1>1, <1>2

\* The same for the samples of the queue.
LEMMA SamplesAreSum ==
    ASSUME NEW m, NEW p, SampleColumn(m, p) \in [Actors -> Int]
    PROVE  IsActorSum(QueueSamples(m, p), SampleColumn(m, p), p)
  <1>1. CASE p \in SearchOperations
    <2> DEFINE f == SampleColumn(m, p)
               Table(h) == h = [s \in SUBSET Actors |->
                   IF s = {} THEN 0
                   ELSE m.actor[CHOOSE x \in s : TRUE][p].queue.count + h[s \ {CHOOSE x \in s : TRUE}]]
               t == CHOOSE h : Table(h)
    <2>1. QueueSamples(m, p) = t[Actors]
      BY <1>1, Zenon DEF QueueSamples, ActorSum, MapThenSumSet, MapThenFoldSet
    <2>2. ASSUME NEW h PROVE Table(h) <=> ActorTable(h, f)
      <3>1. ASSUME NEW s \in SUBSET Actors, s # {}
            PROVE  m.actor[CHOOSE x \in s : TRUE][p].queue.count = f[CHOOSE x \in s : TRUE]
        <4>1. (CHOOSE x \in s : TRUE) \in Actors
          BY <3>1
        <4> QED BY <4>1 DEF SampleColumn
      <3>2. \A s \in SUBSET Actors :
              (IF s = {} THEN 0
               ELSE m.actor[CHOOSE x \in s : TRUE][p].queue.count + h[s \ {CHOOSE x \in s : TRUE}])
               = (IF s = {} THEN 0
                  ELSE f[CHOOSE x \in s : TRUE] + h[s \ {CHOOSE x \in s : TRUE}])
        <4> HIDE DEF f
        <4> QED BY <3>1
      <3> HIDE DEF f
      <3> QED BY <3>2, Zenon DEF ActorTable
    <2> HIDE DEF Table, f
    <2>3. t = (CHOOSE h : ActorTable(h, f))
      BY <2>2, Zenon
    <2> HIDE DEF t
    <2>4. SumsTo(f, t[Actors], Actors)
      BY <2>3, ActorTableSums DEF f
    <2> QED BY <1>1, <2>1, <2>4 DEF IsActorSum, f
  <1>2. CASE p \notin SearchOperations
    BY <1>2, ActorsFacts DEF IsActorSum, QueueSamples, ActorSum, SampleColumn
  <1> QED BY <1>1, <1>2

\* A ticket moves the counters of the operation itself or, for a search, of a worker.
Counted(a, p) == a \in Actors /\ (a = OperationActor \/ p \in SearchOperations)

\* The columns f and g of operation p, with the sums v and w, differ at actor a at most.
ColumnsDiffer(f, g, a, p, v, w) ==
    /\ f \in [Actors -> Int] /\ g \in [Actors -> Int] /\ Counted(a, p)
    /\ AlikeBut(f, g, Actors, a) /\ IsActorSum(v, f, p) /\ IsActorSum(w, g, p)

\* One counter changes: so does the sum, by as much.
LEMMA ActorSumChange ==
    ASSUME NEW f, NEW g, NEW a, NEW p, NEW v, NEW w, ColumnsDiffer(f, g, a, p, v, w)
    PROVE  v \in Int /\ w \in Int /\ w = v - f[a] + g[a]
  <1>0. /\ f \in [Actors -> Int] /\ g \in [Actors -> Int] /\ Counted(a, p)
        /\ AlikeBut(f, g, Actors, a) /\ IsActorSum(v, f, p) /\ IsActorSum(w, g, p)
    BY DEF ColumnsDiffer
  <1>1. a \in Actors /\ IsFiniteSet(Actors) /\ OperationActor \in Actors
    BY <1>0, ActorsFacts DEF Counted
  <1>2. CASE p \in SearchOperations
    <2>1. SumsTo(f, v, Actors) /\ SumsTo(g, w, Actors)
      BY <1>0, <1>2 DEF IsActorSum
    <2>2. IntOn(f, Actors) /\ IntOn(g, Actors) /\ AlikeBut(f, g, Actors, a)
      BY <1>0 DEF IntOn
    <2> QED BY ONLY <1>1, <2>1, <2>2, IntSumChange
  <1>3. CASE p \notin SearchOperations
    <2>1. a = OperationActor /\ v = f[a] /\ w = g[a] /\ f[a] \in Int /\ g[a] \in Int
      BY <1>0, <1>1, <1>3 DEF IsActorSum, Counted
    <2> QED BY <2>1
  <1> QED BY <1>2, <1>3

\* Columns that are alike have one sum, an integer.
LEMMA ActorSumSame ==
    ASSUME NEW f \in [Actors -> Int], NEW p, NEW v, NEW w, IsActorSum(v, f, p), IsActorSum(w, f, p)
    PROVE  v \in Int /\ w = v
  <1>0. PICK a \in Actors : a = OperationActor
    BY ActorsFacts
  <1>1. Counted(a, p) /\ AlikeBut(f, f, Actors, a) /\ f[a] \in Int
    BY <1>0 DEF Counted, AlikeBut
  <1>2. ColumnsDiffer(f, f, a, p, v, w)
    BY <1>1 DEF ColumnsDiffer
  <1>3. v \in Int /\ w \in Int /\ w = v - f[a] + f[a]
    BY <1>2, ActorSumChange
  <1> QED BY <1>1, <1>3

\* The counters of x are those of m, moved as a ticket of actor a and operation o
\* moves them: d dispatched, q samples and c completed ones more.
Tallied(x, m, a, o, d, q, c) ==
    /\ x \in MetricsSets /\ x.admission = m.admission
    /\ \A p \in Operations :
          /\ Completed(x, p) = Completed(m, p) + (IF p = o THEN c ELSE 0)
          /\ ActorValue(x, p, "dispatched") = ActorValue(m, p, "dispatched") + (IF p = o THEN d ELSE 0)
          /\ QueueSamples(x, p) = QueueSamples(m, p) + (IF p = o THEN q ELSE 0)
    /\ \A b \in Actors, p \in Operations :
          x.actor[b][p].dispatched = m.actor[b][p].dispatched + (IF b = a /\ p = o THEN d ELSE 0)

\* The four sums of an operation are integers.
LEMMA TallyTyped ==
    ASSUME NEW m \in MetricsSets, NEW p \in Operations
    PROVE  /\ ActorValue(m, p, "succeeded") \in Int /\ ActorValue(m, p, "failed") \in Int
           /\ Completed(m, p) \in Int
           /\ ActorValue(m, p, "dispatched") \in Int /\ QueueSamples(m, p) \in Int
  <1>1. \A k \in {"dispatched", "succeeded", "failed"} :
            Column(m, p, k) \in [Actors -> Int] /\ IsActorSum(ActorValue(m, p, k), Column(m, p, k), p)
    BY ColumnFacts, ValueIsSum
  <1>2. \A k \in {"dispatched", "succeeded", "failed"} : ActorValue(m, p, k) \in Int
    <2>1. ASSUME NEW k \in {"dispatched", "succeeded", "failed"} PROVE ActorValue(m, p, k) \in Int
      <3>1. PICK f \in [Actors -> Int], v \in {ActorValue(m, p, k)} : IsActorSum(v, f, p)
        BY <1>1
      <3> QED BY <3>1, ActorSumSame
    <2> QED BY <2>1
  <1>3. QueueSamples(m, p) \in Int
    <2>1. PICK f \in [Actors -> Int], v \in {QueueSamples(m, p)} : IsActorSum(v, f, p)
      BY ColumnFacts, SamplesAreSum
    <2> QED BY <2>1, ActorSumSame
  <1> QED BY <1>2, <1>3 DEF Completed

\* One column of the counters moves in one place.
LEMMA ValueMoves ==
    ASSUME NEW m \in MetricsSets, NEW x \in MetricsSets, NEW a, NEW p \in Operations, Counted(a, p),
           NEW k \in {"dispatched", "succeeded", "failed"},
           \A b \in Actors : b # a => x.actor[b][p] = m.actor[b][p]
    PROVE  ActorValue(x, p, k) = ActorValue(m, p, k) - m.actor[a][p][k] + x.actor[a][p][k]
  <1>1. PICK f, g, v, w : /\ f = Column(m, p, k) /\ g = Column(x, p, k)
                          /\ v = ActorValue(m, p, k) /\ w = ActorValue(x, p, k)
    OBVIOUS
  <1>2. f \in [Actors -> Int] /\ g \in [Actors -> Int]
    BY <1>1, ColumnFacts
  <1>3. IsActorSum(v, f, p) /\ IsActorSum(w, g, p)
    BY <1>1, <1>2, ValueIsSum
  <1>0. AlikeBut(f, g, Actors, a)
    BY <1>1 DEF Column, AlikeBut
  <1>4. f[a] = m.actor[a][p][k] /\ g[a] = x.actor[a][p][k]
    BY <1>1 DEF Column, Counted
  <1>5. ColumnsDiffer(f, g, a, p, v, w)
    BY <1>0, <1>2, <1>3 DEF ColumnsDiffer
  <1>6. w = v - f[a] + g[a]
    BY <1>5, ActorSumChange
  <1> QED BY <1>1, <1>4, <1>6

\* The samples of the queue move in one place.
LEMMA SamplesMove ==
    ASSUME NEW m \in MetricsSets, NEW x \in MetricsSets, NEW a, NEW p \in Operations, Counted(a, p),
           \A b \in Actors : b # a => x.actor[b][p] = m.actor[b][p]
    PROVE  QueueSamples(x, p) = QueueSamples(m, p) - m.actor[a][p].queue.count + x.actor[a][p].queue.count
  <1>1. PICK f, g, v, w : /\ f = SampleColumn(m, p) /\ g = SampleColumn(x, p)
                          /\ v = QueueSamples(m, p) /\ w = QueueSamples(x, p)
    OBVIOUS
  <1>2. f \in [Actors -> Int] /\ g \in [Actors -> Int]
    BY <1>1, ColumnFacts
  <1>3. IsActorSum(v, f, p) /\ IsActorSum(w, g, p)
    BY <1>1, <1>2, SamplesAreSum
  <1>0. AlikeBut(f, g, Actors, a)
    BY <1>1 DEF SampleColumn, AlikeBut
  <1>4. f[a] = m.actor[a][p].queue.count /\ g[a] = x.actor[a][p].queue.count
    BY <1>1 DEF SampleColumn, Counted
  <1>5. ColumnsDiffer(f, g, a, p, v, w)
    BY <1>0, <1>2, <1>3 DEF ColumnsDiffer
  <1>6. w = v - f[a] + g[a]
    BY <1>5, ActorSumChange
  <1> QED BY <1>1, <1>4, <1>6

\* The sums of an operation whose counters are alike.
LEMMA TallyAlike ==
    ASSUME NEW m \in MetricsSets, NEW x \in MetricsSets, NEW p \in Operations,
           \A b \in Actors : x.actor[b][p] = m.actor[b][p]
    PROVE  /\ Completed(x, p) = Completed(m, p)
           /\ ActorValue(x, p, "dispatched") = ActorValue(m, p, "dispatched")
           /\ QueueSamples(x, p) = QueueSamples(m, p)
  <1>0. PICK a \in Actors : a = OperationActor
    BY ActorsFacts
  <1>1. Counted(a, p)
    BY <1>0 DEF Counted
  <1>2. \A k \in {"dispatched", "succeeded", "failed"} :
           ActorValue(x, p, k) = ActorValue(m, p, k) - m.actor[a][p][k] + x.actor[a][p][k]
    BY <1>1, ValueMoves
  <1>3. QueueSamples(x, p) = QueueSamples(m, p) - m.actor[a][p].queue.count + x.actor[a][p].queue.count
    BY <1>1, SamplesMove
  <1>4. /\ m.actor[a][p].dispatched \in Int /\ m.actor[a][p].succeeded \in Int
        /\ m.actor[a][p].failed \in Int /\ m.actor[a][p].queue.count \in Int
    BY CounterFacts
  <1>5. x.actor[a][p] = m.actor[a][p]
    OBVIOUS
  <1>6. /\ ActorValue(m, p, "succeeded") \in Int /\ ActorValue(m, p, "failed") \in Int
        /\ ActorValue(m, p, "dispatched") \in Int /\ QueueSamples(m, p) \in Int
    BY TallyTyped
  <1>7. /\ ActorValue(x, p, "succeeded") = ActorValue(m, p, "succeeded")
        /\ ActorValue(x, p, "failed") = ActorValue(m, p, "failed")
        /\ ActorValue(x, p, "dispatched") = ActorValue(m, p, "dispatched")
    BY <1>2, <1>4, <1>5, <1>6
  <1> QED BY <1>3, <1>4, <1>5, <1>6, <1>7 DEF Completed

\* What a ticket moves, in sums.
LEMMA MovedTallied ==
    ASSUME NEW m \in MetricsSets, NEW x, NEW a, NEW o \in Operations, Counted(a, o),
           NEW d \in Int, NEW q \in Int, NEW c \in Int, ActorMoved(x, m, a, o, d, q, c)
    PROVE  Tallied(x, m, a, o, d, q, c)
  <1>1. a \in Actors /\ x \in MetricsSets /\ x.admission = m.admission
    BY DEF Counted, ActorMoved
  <1>2. \A b \in Actors, p \in Operations : ~(b = a /\ p = o) => x.actor[b][p] = m.actor[b][p]
    BY DEF ActorMoved
  <1>3. \A b \in Actors, p \in Operations :
          x.actor[b][p].dispatched = m.actor[b][p].dispatched + (IF b = a /\ p = o THEN d ELSE 0)
    BY <1>1, <1>2, CounterFacts DEF ActorMoved
  <1>4. ASSUME NEW p \in Operations, p # o
        PROVE  /\ Completed(x, p) = Completed(m, p)
               /\ ActorValue(x, p, "dispatched") = ActorValue(m, p, "dispatched")
               /\ QueueSamples(x, p) = QueueSamples(m, p)
    BY <1>1, <1>2, <1>4, TallyAlike
  <1>5. /\ Completed(x, o) = Completed(m, o) + c
        /\ ActorValue(x, o, "dispatched") = ActorValue(m, o, "dispatched") + d
        /\ QueueSamples(x, o) = QueueSamples(m, o) + q
    <2>0. \A b \in Actors : b # a => x.actor[b][o] = m.actor[b][o]
      BY <1>2
    <2>1. \A k \in {"dispatched", "succeeded", "failed"} :
             ActorValue(x, o, k) = ActorValue(m, o, k) - m.actor[a][o][k] + x.actor[a][o][k]
      BY <1>1, <2>0, ValueMoves
    <2>2. QueueSamples(x, o) = QueueSamples(m, o) - m.actor[a][o].queue.count + x.actor[a][o].queue.count
      BY <1>1, <2>0, SamplesMove
    <2>3. /\ m.actor[a][o].dispatched \in Int /\ m.actor[a][o].succeeded \in Int
          /\ m.actor[a][o].failed \in Int /\ m.actor[a][o].queue.count \in Int
          /\ x.actor[a][o].succeeded \in Int /\ x.actor[a][o].failed \in Int
      BY <1>1, CounterFacts
    <2>4. /\ x.actor[a][o].dispatched = m.actor[a][o].dispatched + d
          /\ x.actor[a][o].queue.count = m.actor[a][o].queue.count + q
          /\ x.actor[a][o].succeeded + x.actor[a][o].failed
                = m.actor[a][o].succeeded + m.actor[a][o].failed + c
      BY DEF ActorMoved
    <2>5. /\ ActorValue(m, o, "succeeded") \in Int /\ ActorValue(m, o, "failed") \in Int
          /\ ActorValue(m, o, "dispatched") \in Int /\ QueueSamples(m, o) \in Int
      BY TallyTyped
    <2>6. ActorValue(x, o, "dispatched") = ActorValue(m, o, "dispatched") + d
      BY <2>1, <2>3, <2>4, <2>5
    <2>7. QueueSamples(x, o) = QueueSamples(m, o) + q
      BY <2>2, <2>3, <2>4, <2>5
    <2>8. ActorValue(x, o, "succeeded") + ActorValue(x, o, "failed")
             = ActorValue(m, o, "succeeded") + ActorValue(m, o, "failed") + c
      <3>1. /\ ActorValue(x, o, "succeeded")
                 = ActorValue(m, o, "succeeded") - m.actor[a][o].succeeded + x.actor[a][o].succeeded
            /\ ActorValue(x, o, "failed")
                 = ActorValue(m, o, "failed") - m.actor[a][o].failed + x.actor[a][o].failed
        BY <2>1
      <3>2. ASSUME NEW v \in Int, NEW w \in Int, NEW i \in Int, NEW j \in Int, NEW k \in Int, NEW l \in Int,
                   k + l = i + j + c
            PROVE  (v - i + k) + (w - j + l) = v + w + c
        BY <3>2
      <3>3. PICK v \in Int, w \in Int, i \in Int, j \in Int, k \in Int, l \in Int :
               /\ v = ActorValue(m, o, "succeeded") /\ w = ActorValue(m, o, "failed")
               /\ i = m.actor[a][o].succeeded /\ j = m.actor[a][o].failed
               /\ k = x.actor[a][o].succeeded /\ l = x.actor[a][o].failed
        BY <2>3, <2>5
      <3>4. k + l = i + j + c
        BY <2>4, <3>3
      <3>5. (v - i + k) + (w - j + l) = v + w + c
        BY <3>2, <3>4
      <3> QED BY <3>1, <3>3, <3>5
    <2> QED BY <2>6, <2>7, <2>8 DEF Completed
  <1>6. \A p \in Operations :
          /\ Completed(m, p) \in Int
          /\ ActorValue(m, p, "dispatched") \in Int /\ QueueSamples(m, p) \in Int
    BY TallyTyped
  <1>7. \A p \in Operations :
          /\ Completed(x, p) = Completed(m, p) + (IF p = o THEN c ELSE 0)
          /\ ActorValue(x, p, "dispatched") = ActorValue(m, p, "dispatched") + (IF p = o THEN d ELSE 0)
          /\ QueueSamples(x, p) = QueueSamples(m, p) + (IF p = o THEN q ELSE 0)
    BY <1>4, <1>5, <1>6
  <1> QED BY <1>1, <1>3, <1>7 DEF Tallied
-----------------------------------------------------------------------------
(* The books: the counters balance with the live tickets.                  *)

\* The tickets of operation p: all, those on the gauge, those that wait for their
\* start, and those on the gauge of actor a.
OfOperation(p) == {t \in Tickets : t.op = p}
OnGauge(p) == {t \in Tickets : t.op = p /\ t.dispatched}
Waiting(p) == {t \in Tickets : t.op = p /\ ~t.started}
OnActor(a, p) == {t \in Tickets : t.op = p /\ t.dispatched /\ t.worker = a}

\* An account gives every set of tickets how many live tickets it has.
Accounts == [SUBSET Tickets -> Int]
Has(t, T) == IF t \in T THEN 1 ELSE 0
Less(N, t) == [T \in SUBSET Tickets |-> N[T] - Has(t, T)]
More(N, t) == [T \in SUBSET Tickets |-> N[T] + Has(t, T)]

\* The counters m balance with the account N.
Balanced(m, N) ==
    /\ m \in MetricsSets /\ N \in Accounts
    /\ \A p \in Operations :
          /\ m.admission[p].attempted = m.admission[p].accepted + m.admission[p].rejected
          /\ m.admission[p].accepted = Completed(m, p) + N[OfOperation(p)]
          /\ ActorValue(m, p, "dispatched") = N[OnGauge(p)]
          /\ QueueSamples(m, p) = m.admission[p].accepted - N[Waiting(p)]
    /\ \A a \in Actors, p \in Operations : m.actor[a][p].dispatched = N[OnActor(a, p)]

\* The account M is N after a ticket of actor a and operation o moved.
Shifted(M, N, a, o, d, q, c) ==
    /\ M \in Accounts
    /\ \A p \in Operations :
          /\ M[OfOperation(p)] = N[OfOperation(p)] - (IF p = o THEN c ELSE 0)
          /\ M[OnGauge(p)] = N[OnGauge(p)] + (IF p = o THEN d ELSE 0)
          /\ M[Waiting(p)] = N[Waiting(p)] - (IF p = o THEN q ELSE 0)
    /\ \A b \in Actors, p \in Operations :
          M[OnActor(b, p)] = N[OnActor(b, p)] + (IF b = a /\ p = o THEN d ELSE 0)

\* The values of an account.
LEMMA AccountTyped ==
    ASSUME NEW N \in Accounts
    PROVE  /\ \A p : /\ N[OfOperation(p)] \in Int /\ N[OnGauge(p)] \in Int /\ N[Waiting(p)] \in Int
           /\ \A a, p : N[OnActor(a, p)] \in Int
  <1>1. /\ \A p : /\ OfOperation(p) \in SUBSET Tickets /\ OnGauge(p) \in SUBSET Tickets
                  /\ Waiting(p) \in SUBSET Tickets
        /\ \A a, p : OnActor(a, p) \in SUBSET Tickets
    BY DEF OfOperation, OnGauge, Waiting, OnActor
  <1> QED BY <1>1 DEF Accounts

\* Counters and account move together.
LEMMA ShiftBalanced ==
    ASSUME NEW m, NEW x, NEW N, NEW M, NEW a, NEW o, NEW d \in Int, NEW q \in Int, NEW c \in Int,
           Balanced(m, N), Tallied(x, m, a, o, d, q, c), Shifted(M, N, a, o, d, q, c)
    PROVE  Balanced(x, M)
  <1>1. m \in MetricsSets /\ N \in Accounts /\ x \in MetricsSets /\ M \in Accounts
        /\ x.admission = m.admission
    BY DEF Balanced, Tallied, Shifted
  <1>2. ASSUME NEW p \in Operations
        PROVE  /\ x.admission[p].attempted = x.admission[p].accepted + x.admission[p].rejected
               /\ x.admission[p].accepted = Completed(x, p) + M[OfOperation(p)]
               /\ ActorValue(x, p, "dispatched") = M[OnGauge(p)]
               /\ QueueSamples(x, p) = x.admission[p].accepted - M[Waiting(p)]
    <2>1. PICK A, C, D, Q, n, g, w, i, j, k : /\ A = m.admission[p].accepted /\ C = Completed(m, p)
                  /\ D = ActorValue(m, p, "dispatched") /\ Q = QueueSamples(m, p)
                  /\ n = N[OfOperation(p)] /\ g = N[OnGauge(p)] /\ w = N[Waiting(p)]
                  /\ i = (IF p = o THEN c ELSE 0) /\ j = (IF p = o THEN d ELSE 0)
                  /\ k = (IF p = o THEN q ELSE 0)
      OBVIOUS
    <2>2. /\ A \in Int /\ C \in Int /\ D \in Int /\ Q \in Int /\ n \in Int /\ g \in Int /\ w \in Int
          /\ i \in Int /\ j \in Int /\ k \in Int
      <3>1. C \in Int /\ D \in Int /\ Q \in Int
        BY <1>1, <2>1, TallyTyped
      <3>2. n \in Int /\ g \in Int /\ w \in Int
        BY <1>1, <2>1, AccountTyped
      <3>3. A \in Int
        BY <1>1, <2>1 DEF MetricsSets, AdmissionSets
      <3> QED BY <2>1, <3>1, <3>2, <3>3
    <2>3. A = C + n /\ D = g /\ Q = A - w
      BY <2>1 DEF Balanced
    <2>4. /\ Completed(x, p) = C + i /\ ActorValue(x, p, "dispatched") = D + j
          /\ QueueSamples(x, p) = Q + k
      BY <2>1 DEF Tallied
    <2>5. M[OfOperation(p)] = n - i /\ M[OnGauge(p)] = g + j /\ M[Waiting(p)] = w - k
      BY <2>1 DEF Shifted
    <2>6. A = (C + i) + (n - i) /\ D + j = g + j /\ Q + k = A - (w - k)
      BY <2>2, <2>3
    <2>7. x.admission[p].accepted = A
      BY <1>1, <2>1
    <2>8. x.admission[p].attempted = x.admission[p].accepted + x.admission[p].rejected
      BY <1>1 DEF Balanced
    <2> QED BY <2>4, <2>5, <2>6, <2>7, <2>8
  <1>3. ASSUME NEW b \in Actors, NEW p \in Operations
        PROVE  x.actor[b][p].dispatched = M[OnActor(b, p)]
    <2>1. m.actor[b][p].dispatched = N[OnActor(b, p)]
      BY DEF Balanced
    <2>2. x.actor[b][p].dispatched = m.actor[b][p].dispatched + (IF b = a /\ p = o THEN d ELSE 0)
      BY DEF Tallied
    <2>3. M[OnActor(b, p)] = N[OnActor(b, p)] + (IF b = a /\ p = o THEN d ELSE 0)
      BY DEF Shifted
    <2> QED BY <2>1, <2>2, <2>3
  <1> QED BY <1>1, <1>2, <1>3 DEF Balanced

\* Which sets a ticket is in.
LEMMA HasFacts ==
    ASSUME NEW t \in Tickets
    PROVE  /\ \A p : /\ Has(t, OfOperation(p)) = IF p = t.op THEN 1 ELSE 0
                     /\ Has(t, OnGauge(p)) = IF p = t.op /\ t.dispatched THEN 1 ELSE 0
                     /\ Has(t, Waiting(p)) = IF p = t.op /\ ~t.started THEN 1 ELSE 0
           /\ \A a, p : Has(t, OnActor(a, p))
                          = IF a = t.worker /\ p = t.op /\ t.dispatched THEN 1 ELSE 0
           /\ \A T : Has(t, T) \in Int
  BY DEF Has, OfOperation, OnGauge, Waiting, OnActor

\* Entering a ticket in an account, and striking it out.
LEMMA LessMore ==
    ASSUME NEW N \in Accounts, NEW t
    PROVE  /\ Less(N, t) \in Accounts /\ More(N, t) \in Accounts
           /\ \A T \in SUBSET Tickets : /\ Less(N, t)[T] = N[T] - Has(t, T)
                                        /\ More(N, t)[T] = N[T] + Has(t, T)
           /\ \A p : /\ Less(N, t)[OfOperation(p)] = N[OfOperation(p)] - Has(t, OfOperation(p))
                     /\ Less(N, t)[OnGauge(p)] = N[OnGauge(p)] - Has(t, OnGauge(p))
                     /\ Less(N, t)[Waiting(p)] = N[Waiting(p)] - Has(t, Waiting(p))
                     /\ More(N, t)[OfOperation(p)] = N[OfOperation(p)] + Has(t, OfOperation(p))
                     /\ More(N, t)[OnGauge(p)] = N[OnGauge(p)] + Has(t, OnGauge(p))
                     /\ More(N, t)[Waiting(p)] = N[Waiting(p)] + Has(t, Waiting(p))
           /\ \A a, p : /\ Less(N, t)[OnActor(a, p)] = N[OnActor(a, p)] - Has(t, OnActor(a, p))
                        /\ More(N, t)[OnActor(a, p)] = N[OnActor(a, p)] + Has(t, OnActor(a, p))
  <1>1. \A T : Has(t, T) \in Int
    BY DEF Has
  <1>2. \A T \in SUBSET Tickets : N[T] \in Int
    BY DEF Accounts
  <1>3. Less(N, t) \in Accounts /\ More(N, t) \in Accounts
    BY <1>1, <1>2 DEF Accounts, Less, More
  <1>4. \A T \in SUBSET Tickets : Less(N, t)[T] = N[T] - Has(t, T) /\ More(N, t)[T] = N[T] + Has(t, T)
    BY DEF Less, More
  <1>5. /\ \A p : /\ OfOperation(p) \in SUBSET Tickets /\ OnGauge(p) \in SUBSET Tickets
                  /\ Waiting(p) \in SUBSET Tickets
        /\ \A a, p : OnActor(a, p) \in SUBSET Tickets
    BY DEF OfOperation, OnGauge, Waiting, OnActor
  <1> QED BY <1>3, <1>4, <1>5
-----------------------------------------------------------------------------
(* What the steps of a ticket do to the books.                             *)

\* A ticket that is accepted and not settled, and one that still waits.
LiveTicket(t) == t \in Tickets /\ t.accepted /\ ~t.settled /\ Counted(t.worker, t.op)
Queued(t) == LiveTicket(t) /\ ~t.dispatched /\ ~t.started

\* The counters and the lifecycle of the handle that no ticket moves.
SameEnd(x, m) == x.phases = m.phases /\ x.teardown = m.teardown

\* A live ticket, and a move of its counters.
MovesOf(x, m, t, d, q, c) ==
    /\ LiveTicket(t) /\ d \in Int /\ q \in Int /\ c \in Int
    /\ ActorMoved(x, m, t.worker, t.op, d, q, c)

\* The ticket t becomes u, which moves its counters: so it does in the books.
LEMMA ReplaceBalanced ==
    ASSUME NEW m, NEW N, NEW x, NEW t, NEW u, NEW d, NEW q, Balanced(m, N),
           MovesOf(x, m, u, d, q, 0), t \in Tickets, t.op = u.op, t.worker = u.worker \/ ~t.dispatched,
           d = (IF u.dispatched THEN 1 ELSE 0) - (IF t.dispatched THEN 1 ELSE 0),
           q = (IF t.started THEN 0 ELSE 1) - (IF u.started THEN 0 ELSE 1)
    PROVE  Balanced(x, More(Less(N, t), u))
  <1>0. PICK c \in Int : c = 0
    OBVIOUS
  <1>1. /\ u \in Tickets /\ Counted(u.worker, u.op) /\ d \in Int /\ q \in Int
        /\ ActorMoved(x, m, u.worker, u.op, d, q, c)
    BY <1>0 DEF MovesOf, LiveTicket
  <1>2. PICK a, o : a = u.worker /\ o = u.op
    OBVIOUS
  <1>3. a \in Actors /\ o \in Operations /\ m \in MetricsSets /\ N \in Accounts
    BY <1>1, <1>2 DEF Tickets, Balanced
  <1>4. Tallied(x, m, a, o, d, q, c)
    BY <1>1, <1>2, <1>3, MovedTallied
  <1>5. PICK L, M : L = Less(N, t) /\ M = More(L, u)
    OBVIOUS
  <1>6. L \in Accounts /\ M \in Accounts
    BY <1>3, <1>5, LessMore
  <1>7. ASSUME NEW p \in Operations
        PROVE  /\ M[OfOperation(p)] = N[OfOperation(p)] - (IF p = o THEN c ELSE 0)
               /\ M[OnGauge(p)] = N[OnGauge(p)] + (IF p = o THEN d ELSE 0)
               /\ M[Waiting(p)] = N[Waiting(p)] - (IF p = o THEN q ELSE 0)
    <2>1. /\ L[OfOperation(p)] = N[OfOperation(p)] - Has(t, OfOperation(p))
          /\ L[OnGauge(p)] = N[OnGauge(p)] - Has(t, OnGauge(p))
          /\ L[Waiting(p)] = N[Waiting(p)] - Has(t, Waiting(p))
          /\ M[OfOperation(p)] = L[OfOperation(p)] + Has(u, OfOperation(p))
          /\ M[OnGauge(p)] = L[OnGauge(p)] + Has(u, OnGauge(p))
          /\ M[Waiting(p)] = L[Waiting(p)] + Has(u, Waiting(p))
      BY <1>3, <1>5, <1>6, LessMore
    <2>2. /\ N[OfOperation(p)] \in Int /\ N[OnGauge(p)] \in Int /\ N[Waiting(p)] \in Int
      BY <1>3, AccountTyped
    <2>3. /\ Has(t, OfOperation(p)) = IF p = o THEN 1 ELSE 0
          /\ Has(t, OnGauge(p)) = IF p = o /\ t.dispatched THEN 1 ELSE 0
          /\ Has(t, Waiting(p)) = IF p = o /\ ~t.started THEN 1 ELSE 0
      BY <1>2, HasFacts
    <2>4. /\ Has(u, OfOperation(p)) = IF p = o THEN 1 ELSE 0
          /\ Has(u, OnGauge(p)) = IF p = o /\ u.dispatched THEN 1 ELSE 0
          /\ Has(u, Waiting(p)) = IF p = o /\ ~u.started THEN 1 ELSE 0
      BY <1>1, <1>2, HasFacts
    <2> QED BY <1>0, <2>1, <2>2, <2>3, <2>4
  <1>8. ASSUME NEW b \in Actors, NEW p \in Operations
        PROVE  M[OnActor(b, p)] = N[OnActor(b, p)] + (IF b = a /\ p = o THEN d ELSE 0)
    <2>1. /\ L[OnActor(b, p)] = N[OnActor(b, p)] - Has(t, OnActor(b, p))
          /\ M[OnActor(b, p)] = L[OnActor(b, p)] + Has(u, OnActor(b, p))
      BY <1>3, <1>5, <1>6, LessMore
    <2>2. N[OnActor(b, p)] \in Int
      BY <1>3, AccountTyped
    <2>3. /\ Has(t, OnActor(b, p)) = IF b = a /\ p = o /\ t.dispatched THEN 1 ELSE 0
          /\ Has(u, OnActor(b, p)) = IF b = a /\ p = o /\ u.dispatched THEN 1 ELSE 0
      BY <1>1, <1>2, HasFacts
    <2> QED BY <2>1, <2>2, <2>3
  <1>9. Shifted(M, N, a, o, d, q, c)
    BY <1>6, <1>7, <1>8 DEF Shifted
  <1> QED BY <1>1, <1>4, <1>5, <1>9, ShiftBalanced

\* Ticket::settle strikes the ticket out.
LEMMA SettleBalanced ==
    ASSUME NEW m, NEW N, Balanced(m, N), NEW t, LiveTicket(t), NEW ok \in BOOLEAN,
           NEW x, x = Settle([m |-> m, t |-> t], ok).m
    PROVE  Balanced(x, Less(N, t)) /\ SameEnd(x, m)
  <1>1. /\ t \in Tickets /\ t.accepted /\ ~t.settled /\ Counted(t.worker, t.op)
        /\ m \in MetricsSets /\ N \in Accounts
    BY DEF LiveTicket, Balanced
  <1>2. PICK a, o, d, q, c : /\ a = t.worker /\ o = t.op /\ d = (IF t.dispatched THEN -1 ELSE 0)
                             /\ q = (IF t.started THEN 0 ELSE 1) /\ c = 1
    OBVIOUS
  <1>3. ActorMoved(x, m, a, o, d, q, c)
    BY <1>1, <1>2, SettleFacts
  <1>4. a \in Actors /\ o \in Operations /\ d \in Int /\ q \in Int /\ c \in Int
    BY <1>1, <1>2 DEF Tickets
  <1>5. Tallied(x, m, a, o, d, q, c)
    BY <1>1, <1>2, <1>3, <1>4, MovedTallied
  <1>6. PICK M : M = Less(N, t)
    OBVIOUS
  <1>7. M \in Accounts
    BY <1>1, <1>6, LessMore
  <1>8. ASSUME NEW p \in Operations
        PROVE  /\ M[OfOperation(p)] = N[OfOperation(p)] - (IF p = o THEN c ELSE 0)
               /\ M[OnGauge(p)] = N[OnGauge(p)] + (IF p = o THEN d ELSE 0)
               /\ M[Waiting(p)] = N[Waiting(p)] - (IF p = o THEN q ELSE 0)
    <2>1. /\ M[OfOperation(p)] = N[OfOperation(p)] - Has(t, OfOperation(p))
          /\ M[OnGauge(p)] = N[OnGauge(p)] - Has(t, OnGauge(p))
          /\ M[Waiting(p)] = N[Waiting(p)] - Has(t, Waiting(p))
      BY <1>1, <1>6, LessMore
    <2>2. /\ N[OfOperation(p)] \in Int /\ N[OnGauge(p)] \in Int /\ N[Waiting(p)] \in Int
      BY <1>1, AccountTyped
    <2>3. /\ Has(t, OfOperation(p)) = IF p = o THEN 1 ELSE 0
          /\ Has(t, OnGauge(p)) = IF p = o /\ t.dispatched THEN 1 ELSE 0
          /\ Has(t, Waiting(p)) = IF p = o /\ ~t.started THEN 1 ELSE 0
      BY <1>1, <1>2, HasFacts
    <2> QED BY <1>2, <2>1, <2>2, <2>3
  <1>9. ASSUME NEW b \in Actors, NEW p \in Operations
        PROVE  M[OnActor(b, p)] = N[OnActor(b, p)] + (IF b = a /\ p = o THEN d ELSE 0)
    <2>1. M[OnActor(b, p)] = N[OnActor(b, p)] - Has(t, OnActor(b, p))
      BY <1>1, <1>6, LessMore
    <2>2. N[OnActor(b, p)] \in Int
      BY <1>1, AccountTyped
    <2>3. Has(t, OnActor(b, p)) = IF b = a /\ p = o /\ t.dispatched THEN 1 ELSE 0
      BY <1>1, <1>2, HasFacts
    <2> QED BY <1>2, <2>1, <2>2, <2>3
  <1>10. Shifted(M, N, a, o, d, q, c)
    BY <1>7, <1>8, <1>9 DEF Shifted
  <1>11. Balanced(x, M)
    BY <1>4, <1>5, <1>10, ShiftBalanced
  <1> QED BY <1>3, <1>6, <1>11 DEF ActorMoved, SameEnd

\* Ticket::start: the ticket that waited has started.
LEMMA StartBalanced ==
    ASSUME NEW m, NEW N, Balanced(m, N), NEW t, LiveTicket(t), ~t.started,
           NEW w, w = Start([m |-> m, t |-> t])
    PROVE  /\ Balanced(w.m, More(Less(N, t), w.t)) /\ SameEnd(w.m, m) /\ LiveTicket(w.t)
           /\ w.t.op = t.op
  <1>1. /\ t \in Tickets /\ t.accepted /\ ~t.settled /\ Counted(t.worker, t.op)
        /\ m \in MetricsSets /\ N \in Accounts /\ t.dispatched \in BOOLEAN
    BY DEF LiveTicket, Balanced, Tickets
  <1>2. PICK d, q, u, x : /\ d = (IF t.dispatched THEN 0 ELSE 1) /\ q = 1 /\ u = w.t /\ x = w.m
    OBVIOUS
  <1>3. /\ u \in Tickets /\ u.op = t.op /\ u.worker = t.worker
        /\ u.accepted /\ ~u.settled /\ u.started /\ u.dispatched
        /\ ActorMoved(x, m, t.worker, t.op, d, q, 0)
    BY <1>1, <1>2, StartFacts
  <1>4. LiveTicket(u)
    BY <1>1, <1>3 DEF LiveTicket
  <1>5. MovesOf(x, m, u, d, q, 0)
    BY <1>2, <1>3, <1>4 DEF MovesOf
  <1>6. /\ d = (IF u.dispatched THEN 1 ELSE 0) - (IF t.dispatched THEN 1 ELSE 0)
        /\ q = (IF t.started THEN 0 ELSE 1) - (IF u.started THEN 0 ELSE 1)
    BY <1>1, <1>2, <1>3
  <1>7. Balanced(x, More(Less(N, t), u))
    BY <1>1, <1>3, <1>5, <1>6, ReplaceBalanced
  <1> QED BY <1>2, <1>3, <1>4, <1>7 DEF ActorMoved, SameEnd

\* Ticket::bind_worker and Ticket::dispatch: the ticket of a search joins the gauge
\* of its worker.
LEMMA TakeBalanced ==
    ASSUME NEW m, NEW N, Balanced(m, N), NEW t, Queued(t), NEW worker \in Workers,
           NEW w, w = Dispatch(BindWorker([m |-> m, t |-> t], worker))
    PROVE  /\ Balanced(w.m, More(Less(N, t), w.t)) /\ SameEnd(w.m, m) /\ LiveTicket(w.t)
           /\ ~w.t.started /\ w.t.op = t.op
  <1>1. /\ t \in Tickets /\ t.accepted /\ ~t.settled /\ Counted(t.worker, t.op)
        /\ m \in MetricsSets /\ N \in Accounts /\ ~t.dispatched /\ ~t.started
    BY DEF Queued, LiveTicket, Balanced
  <1>2. PICK y : y = BindWorker([m |-> m, t |-> t], worker)
    OBVIOUS
  <1>3. /\ y.m = m /\ y.t \in Tickets /\ y.t.op = t.op /\ y.t.accepted = t.accepted
        /\ y.t.settled = t.settled /\ y.t.started = t.started /\ y.t.dispatched = t.dispatched
        /\ y.t.worker # t.worker => t.op \in SearchOperations
    <2>0. t \in Tickets /\ worker \in Workers
      BY <1>1
    <2>1. LET z == BindWorker([m |-> m, t |-> t], worker) IN
          /\ z.m = m /\ z.t \in Tickets /\ z.t.op = t.op
          /\ z.t.accepted = t.accepted /\ z.t.settled = t.settled
          /\ z.t.started = t.started /\ z.t.dispatched = t.dispatched
          /\ z.t.worker # t.worker => t.op \in SearchOperations /\ ~t.dispatched
      BY ONLY <2>0, BindFacts
    <2> QED BY <1>2, <2>1, Zenon
  <1>4. y = [m |-> y.m, t |-> y.t]
    BY <1>2 DEF BindWorker
  <1>5. PICK s \in Tickets : s = y.t
    BY <1>3
  <1>6. y = [m |-> m, t |-> s]
    BY <1>3, <1>4, <1>5
  <1>7. w = Dispatch([m |-> m, t |-> s])
    BY <1>2, <1>6
  <1>8. s.op = t.op /\ s.accepted /\ ~s.settled /\ ~s.started /\ ~s.dispatched
    BY <1>1, <1>3, <1>5
  <1>9. PICK u, x, a, o, c : u = w.t /\ x = w.m /\ a = s.worker /\ o = s.op /\ c = m.actor[a][o]
    OBVIOUS
  <1>10. /\ u \in Tickets /\ u.op = o /\ u.worker = a /\ u.accepted /\ ~u.settled /\ ~u.started
         /\ u.dispatched /\ ActorSet(x, m, a, o, [c EXCEPT !.dispatched = @ + 1])
    <2>1. LET z == Dispatch([m |-> m, t |-> s])
               e == m.actor[s.worker][s.op]
           IN  /\ z.t \in Tickets /\ z.t.op = s.op /\ z.t.worker = s.worker
               /\ z.t.accepted = s.accepted /\ z.t.settled = s.settled /\ z.t.started = s.started
               /\ z.t.dispatched = (s.dispatched \/ s.accepted)
               /\ ActorSet(z.m, m, s.worker, s.op,
                    [e EXCEPT !.dispatched = @ + (IF s.accepted /\ ~s.dispatched THEN 1 ELSE 0)])
      BY <1>1, DispatchFacts
    <2> QED BY <1>7, <1>8, <1>9, <2>1
  <1>11. Counted(a, o) /\ a \in Actors /\ o \in Operations
    <2>1. a \in Actors /\ o \in Operations
      BY <1>9 DEF Tickets
    <2>2. a = t.worker \/ o \in SearchOperations
      BY <1>3, <1>5, <1>8, <1>9
    <2> QED BY <1>1, <1>8, <1>9, <2>1, <2>2 DEF Counted
  <1>12. LiveTicket(u)
    BY <1>10, <1>11 DEF LiveTicket
  <1>13. ActorMoved(x, m, a, o, 1, 0, 0)
    <2>1. PICK e : e = [c EXCEPT !.dispatched = @ + 1]
      OBVIOUS
    <2>2. /\ c \in CounterSets /\ c.succeeded \in Nat /\ c.failed \in Nat /\ c.queue.count \in Nat
      BY <1>1, <1>9, <1>11, CounterFacts
    <2>3. /\ e.dispatched = c.dispatched + 1 /\ e.queue = c.queue
          /\ e.succeeded = c.succeeded /\ e.failed = c.failed
      BY <2>1, <2>2 DEF CounterSets
    <2>4. ActorSet(x, m, a, o, e)
      BY <1>10, <2>1
    <2>5. x.actor[a][o] = e
      BY <1>11, <2>4 DEF ActorSet
    <2>6. /\ x.actor[a][o].dispatched = m.actor[a][o].dispatched + 1
          /\ x.actor[a][o].queue.count = m.actor[a][o].queue.count + 0
          /\ x.actor[a][o].succeeded + x.actor[a][o].failed
                = m.actor[a][o].succeeded + m.actor[a][o].failed + 0
      <3>1. c = m.actor[a][o]
        BY <1>9
      <3>2. c.queue.count = c.queue.count + 0 /\ c.succeeded + c.failed = c.succeeded + c.failed + 0
        BY <2>2
      <3>3. /\ e.dispatched = c.dispatched + 1 /\ e.queue.count = c.queue.count + 0
            /\ e.succeeded + e.failed = c.succeeded + c.failed + 0
        BY <2>3, <3>2
      <3> QED BY <2>5, <3>1, <3>3
    <2> QED BY <2>4, <2>6 DEF ActorSet, ActorMoved
  <1>14. PICK d, q : d = 1 /\ q = 0
    OBVIOUS
  <1>15. MovesOf(x, m, u, d, q, 0)
    BY <1>10, <1>12, <1>13, <1>14 DEF MovesOf
  <1>16. /\ d = (IF u.dispatched THEN 1 ELSE 0) - (IF t.dispatched THEN 1 ELSE 0)
         /\ q = (IF t.started THEN 0 ELSE 1) - (IF u.started THEN 0 ELSE 1)
    BY <1>1, <1>10, <1>14
  <1>17. t.op = u.op
    BY <1>8, <1>9, <1>10
  <1>18. Balanced(x, More(Less(N, t), u))
    BY <1>1, <1>15, <1>16, <1>17, ReplaceBalanced
  <1> QED BY <1>9, <1>10, <1>12, <1>13, <1>17, <1>18 DEF ActorMoved, SameEnd

\* The admission of operation o becomes v, and i tickets more are accepted, which
\* the account M has beside those of N.
Admits(x, m, o, v, M, N, i) ==
    /\ o \in Operations /\ AdmissionSet(x, m, o, v) /\ i \in Int /\ M \in Accounts
    /\ v.attempted = v.accepted + v.rejected /\ v.accepted = m.admission[o].accepted + i
    /\ \A p \in Operations :
          /\ M[OfOperation(p)] = N[OfOperation(p)] + (IF p = o THEN i ELSE 0)
          /\ M[OnGauge(p)] = N[OnGauge(p)]
          /\ M[Waiting(p)] = N[Waiting(p)] + (IF p = o THEN i ELSE 0)
    /\ \A b \in Actors, p \in Operations : M[OnActor(b, p)] = N[OnActor(b, p)]

\* Admissions and account move together.
LEMMA AdmitBalanced ==
    ASSUME NEW m, NEW N, NEW x, NEW M, NEW o, NEW v, NEW i, Balanced(m, N), Admits(x, m, o, v, M, N, i)
    PROVE  Balanced(x, M) /\ SameEnd(x, m)
  <1>0. /\ o \in Operations /\ AdmissionSet(x, m, o, v) /\ i \in Int /\ M \in Accounts
        /\ v.attempted = v.accepted + v.rejected /\ v.accepted = m.admission[o].accepted + i
    BY DEF Admits
  <1>1. /\ m \in MetricsSets /\ N \in Accounts /\ x \in MetricsSets /\ x.actor = m.actor
        /\ \A p \in Operations : x.admission[p] = IF p = o THEN v ELSE m.admission[p]
    BY <1>0 DEF Balanced, AdmissionSet
  <1>2. ASSUME NEW p \in Operations
        PROVE  /\ x.admission[p].attempted = x.admission[p].accepted + x.admission[p].rejected
               /\ x.admission[p].accepted = Completed(x, p) + M[OfOperation(p)]
               /\ ActorValue(x, p, "dispatched") = M[OnGauge(p)]
               /\ QueueSamples(x, p) = x.admission[p].accepted - M[Waiting(p)]
    <2>1. PICK A, B, C, D, Q, n, g, w, k : /\ A = m.admission[p].accepted /\ B = x.admission[p].accepted
                  /\ C = Completed(m, p) /\ D = ActorValue(m, p, "dispatched") /\ Q = QueueSamples(m, p)
                  /\ n = N[OfOperation(p)] /\ g = N[OnGauge(p)] /\ w = N[Waiting(p)]
                  /\ k = (IF p = o THEN i ELSE 0)
      OBVIOUS
    <2>2. /\ A \in Int /\ B \in Int /\ C \in Int /\ D \in Int /\ Q \in Int /\ n \in Int /\ g \in Int
          /\ w \in Int /\ k \in Int
      <3>1. C \in Int /\ D \in Int /\ Q \in Int
        BY <1>1, <2>1, TallyTyped
      <3>2. n \in Int /\ g \in Int /\ w \in Int
        BY <1>1, <2>1, AccountTyped
      <3>3. A \in Int /\ B \in Int
        BY <1>1, <2>1 DEF MetricsSets, AdmissionSets
      <3> QED BY <1>0, <2>1, <3>1, <3>2, <3>3
    <2>3. A = C + n /\ D = g /\ Q = A - w
      BY <2>1 DEF Balanced
    <2>4. /\ Completed(x, p) = C /\ ActorValue(x, p, "dispatched") = D /\ QueueSamples(x, p) = Q
      BY <1>1, <2>1, TallyAlike
    <2>5. M[OfOperation(p)] = n + k /\ M[OnGauge(p)] = g /\ M[Waiting(p)] = w + k
      BY <2>1 DEF Admits
    <2>6. B = A + k
      <3>1. CASE p = o
        BY <1>0, <1>1, <2>1, <3>1
      <3>2. CASE p # o
        BY <1>1, <2>1, <2>2, <3>2
      <3> QED BY <3>1, <3>2
    <2>7. B = C + (n + k) /\ Q = B - (w + k)
      BY <2>2, <2>3, <2>6
    <2>8. x.admission[p].attempted = x.admission[p].accepted + x.admission[p].rejected
      BY <1>0, <1>1 DEF Balanced
    <2> QED BY <2>1, <2>3, <2>4, <2>5, <2>7, <2>8
  <1>3. ASSUME NEW b \in Actors, NEW p \in Operations
        PROVE  x.actor[b][p].dispatched = M[OnActor(b, p)]
    BY <1>1 DEF Balanced, Admits
  <1>4. Balanced(x, M)
    BY <1>0, <1>1, <1>2, <1>3 DEF Balanced
  <1> QED BY <1>0, <1>4 DEF AdmissionSet, SameEnd

\* Ticket::new and Ticket::arm: an admitted call enters its ticket in the books.
LEMMA ArmBalanced ==
    ASSUME NEW N, Balanced(metrics, N), NEW o \in Operations
    PROVE  /\ Balanced(Admitted(o).m, More(N, Admitted(o).t)) /\ SameEnd(Admitted(o).m, metrics)
           /\ ArmedTicket(Admitted(o).t, o) /\ Queued(Admitted(o).t)
  <1>0. PICK i \in Int : i = 1
    OBVIOUS
  <1>1. metrics \in MetricsSets /\ N \in Accounts
    BY DEF Balanced
  <1>2. PICK x, t : x = Admitted(o).m /\ t = Admitted(o).t
    OBVIOUS
  <1>3. PICK r \in AdmissionSets : r = metrics.admission[o]
    BY <1>1 DEF MetricsSets
  <1>4. PICK v : v = [attempted |-> r.attempted + 1, accepted |-> r.accepted + 1,
                      rejected |-> r.rejected]
    OBVIOUS
  <1>5. ArmedTicket(t, o) /\ AdmissionSet(x, metrics, o, v)
    BY <1>1, <1>2, <1>3, <1>4, ArmFacts DEF Admitted
  <1>6. r.attempted \in Nat /\ r.accepted \in Nat /\ r.rejected \in Nat
    BY DEF AdmissionSets
  <1>7. /\ v.attempted = v.accepted + v.rejected
        /\ v.accepted = metrics.admission[o].accepted + i
    <2>1. r.attempted = r.accepted + r.rejected
      BY <1>3 DEF Balanced
    <2>2. /\ v.attempted = r.attempted + 1 /\ v.accepted = r.accepted + 1 /\ v.rejected = r.rejected
      BY <1>4
    <2> QED BY <1>0, <1>3, <1>6, <2>1, <2>2
  <1>8. /\ t \in Tickets /\ t.op = o /\ ~t.dispatched /\ ~t.started
    BY <1>5 DEF ArmedTicket
  <1>9. PICK M : M = More(N, t)
    OBVIOUS
  <1>10. M \in Accounts
    BY <1>1, <1>9, LessMore
  <1>11. ASSUME NEW p \in Operations
         PROVE  /\ M[OfOperation(p)] = N[OfOperation(p)] + (IF p = o THEN i ELSE 0)
                /\ M[OnGauge(p)] = N[OnGauge(p)]
                /\ M[Waiting(p)] = N[Waiting(p)] + (IF p = o THEN i ELSE 0)
    <2>1. /\ M[OfOperation(p)] = N[OfOperation(p)] + Has(t, OfOperation(p))
          /\ M[OnGauge(p)] = N[OnGauge(p)] + Has(t, OnGauge(p))
          /\ M[Waiting(p)] = N[Waiting(p)] + Has(t, Waiting(p))
      BY <1>1, <1>9, LessMore
    <2>2. N[OnGauge(p)] \in Int
      BY <1>1, AccountTyped
    <2>3. /\ Has(t, OfOperation(p)) = IF p = o THEN 1 ELSE 0
          /\ Has(t, OnGauge(p)) = 0
          /\ Has(t, Waiting(p)) = IF p = o THEN 1 ELSE 0
      BY <1>8, HasFacts
    <2> QED BY <1>0, <2>1, <2>2, <2>3
  <1>12. ASSUME NEW b \in Actors, NEW p \in Operations
         PROVE  M[OnActor(b, p)] = N[OnActor(b, p)]
    <2>1. M[OnActor(b, p)] = N[OnActor(b, p)] + Has(t, OnActor(b, p))
      BY <1>1, <1>9, LessMore
    <2>2. N[OnActor(b, p)] \in Int /\ Has(t, OnActor(b, p)) = 0
      BY <1>1, <1>8, AccountTyped, HasFacts
    <2> QED BY <2>1, <2>2
  <1>13. Balanced(x, M) /\ SameEnd(x, metrics)
    <2>1. Admits(x, metrics, o, v, M, N, i)
      BY <1>0, <1>5, <1>7, <1>10, <1>11, <1>12 DEF Admits
    <2> QED BY <2>1, AdmitBalanced
  <1>14. Queued(t)
    BY <1>5 DEF ArmedTicket, Queued, LiveTicket, Counted, Tickets
  <1> QED BY <1>2, <1>5, <1>9, <1>13, <1>14

\* A rejected call is attempted and rejected.
LEMMA RejectBalanced ==
    ASSUME NEW N, Balanced(metrics, N), NEW o \in Operations
    PROVE  Balanced(Rejected(o), N) /\ SameEnd(Rejected(o), metrics)
  <1>0. PICK i \in Int : i = 0
    OBVIOUS
  <1>1. metrics \in MetricsSets /\ N \in Accounts
    BY DEF Balanced
  <1>2. PICK y, x : y = Attempt(metrics, o) /\ x = Reject(y, o)
    OBVIOUS
  <1>3. PICK r \in AdmissionSets : r = metrics.admission[o]
    BY <1>1 DEF MetricsSets
  <1>4. PICK u, v : u = [r EXCEPT !.attempted = @ + 1] /\ v = [u EXCEPT !.rejected = @ + 1]
    OBVIOUS
  <1>5. AdmissionSet(y, metrics, o, u)
    BY <1>1, <1>2, <1>3, <1>4, AttemptFacts
  <1>6. y \in MetricsSets /\ y.admission[o] = u
    BY <1>5 DEF AdmissionSet
  <1>7. AdmissionSet(x, y, o, v)
    BY <1>2, <1>4, <1>6, AttemptFacts
  <1>8. AdmissionSet(x, metrics, o, v)
    BY <1>5, <1>7 DEF AdmissionSet, SameRest
  <1>9. r.attempted \in Nat /\ r.accepted \in Nat /\ r.rejected \in Nat
    BY DEF AdmissionSets
  <1>10. /\ v.attempted = v.accepted + v.rejected
         /\ v.accepted = metrics.admission[o].accepted + i
    <2>1. r.attempted = r.accepted + r.rejected
      BY <1>3 DEF Balanced
    <2>2. u \in AdmissionSets /\ u.attempted = r.attempted + 1 /\ u.accepted = r.accepted
          /\ u.rejected = r.rejected
      BY <1>4, <1>9 DEF AdmissionSets
    <2>3. v.attempted = u.attempted /\ v.accepted = u.accepted /\ v.rejected = u.rejected + 1
      BY <1>4, <2>2 DEF AdmissionSets
    <2> QED BY <1>0, <1>3, <1>9, <2>1, <2>2, <2>3
  <1>11. ASSUME NEW p \in Operations
         PROVE  /\ N[OfOperation(p)] = N[OfOperation(p)] + (IF p = o THEN i ELSE 0)
                /\ N[Waiting(p)] = N[Waiting(p)] + (IF p = o THEN i ELSE 0)
    <2>1. N[OfOperation(p)] \in Int /\ N[Waiting(p)] \in Int
      BY <1>1, AccountTyped
    <2> QED BY <1>0, <2>1
  <1>12. Balanced(x, N) /\ SameEnd(x, metrics)
    <2>1. Admits(x, metrics, o, v, N, N, i)
      BY <1>0, <1>1, <1>8, <1>10, <1>11 DEF Admits
    <2> QED BY <2>1, AdmitBalanced
  <1> QED BY <1>2, <1>12 DEF Rejected

\* Counters that differ in their phases and settings alone.
LEMMA AlikeBalanced ==
    ASSUME NEW m, NEW N, Balanced(m, N), NEW x \in MetricsSets, x.actor = m.actor,
           x.admission = m.admission
    PROVE  Balanced(x, N)
  <1>1. m \in MetricsSets /\ N \in Accounts
    BY DEF Balanced
  <1>2. ASSUME NEW p \in Operations
        PROVE  /\ Completed(x, p) = Completed(m, p)
               /\ ActorValue(x, p, "dispatched") = ActorValue(m, p, "dispatched")
               /\ QueueSamples(x, p) = QueueSamples(m, p)
    BY <1>1, TallyAlike
  <1> QED BY <1>1, <1>2 DEF Balanced
-----------------------------------------------------------------------------
(* The books: every live ticket is in a queue or with its actor.           *)

\* How many of the commands q[i], i \in D, have a ticket in T, and the same for a
\* single command.
CountOn(q, D, T) == Cardinality({i \in D : q[i].t \in T})
Own(r, T) == IF r = None THEN 0 ELSE Has(r.t, T)

Tally(q, T) == CountOn(q, 1..Len(q), T)
Books(q, s, r, z) ==
    [T \in SUBSET Tickets |-> Tally(q, T) + Tally(s, T) + Own(r, T) + Own(z, T)]

\* A count is a number.
LEMMA CountNat ==
    ASSUME NEW q, NEW D, IsFiniteSet(D), NEW T
    PROVE  CountOn(q, D, T) \in Nat /\ IsFiniteSet({i \in D : q[i].t \in T})
  <1>1. PICK S : S = {i \in D : q[i].t \in T}
    OBVIOUS
  <1>2. S \in SUBSET D
    BY <1>1
  <1>3. IsFiniteSet(S)
    BY <1>2, FS_Subset
  <1>4. Cardinality(S) \in Nat
    BY <1>3, FS_CardinalityType
  <1> QED BY <1>1, <1>3, <1>4 DEF CountOn

\* Nothing is counted in nothing.
LEMMA CountEmpty ==
    ASSUME NEW q, NEW T PROVE CountOn(q, {}, T) = 0
  <1>1. {i \in {} : q[i].t \in T} = {}
    OBVIOUS
  <1> QED BY <1>1, FS_EmptySet DEF CountOn

\* One command more.
LEMMA CountInsert ==
    ASSUME NEW q, NEW D, IsFiniteSet(D), NEW i \in D, NEW T
    PROVE  /\ CountOn(q, D, T) = CountOn(q, D \ {i}, T) + Has(q[i].t, T)
           /\ CountOn(q, D \ {i}, T) \in Nat
  <1>1. PICK S, R : S = {k \in D : q[k].t \in T} /\ R = {k \in D \ {i} : q[k].t \in T}
    OBVIOUS
  <1>2. IsFiniteSet(S) /\ Cardinality(S) \in Nat /\ R = S \ {i}
    BY <1>1, CountNat DEF CountOn
  <1>3. Cardinality(R) = IF i \in S THEN Cardinality(S) - 1 ELSE Cardinality(S)
    BY <1>2, FS_RemoveElement
  <1>4. i \in S <=> q[i].t \in T
    BY <1>1
  <1>5. Cardinality(R) \in Nat
    <2>1. IsFiniteSet(R)
      BY <1>2, FS_RemoveElement
    <2> QED BY <2>1, FS_CardinalityType
  <1>6. Cardinality(S) = Cardinality(R) + Has(q[i].t, T)
    BY <1>2, <1>3, <1>4, <1>5 DEF Has
  <1> QED BY <1>1, <1>5, <1>6 DEF CountOn

\* The commands p and q have the same tickets, in the same or in later places.
SameTickets(p, q, D) == \A i \in D : p[i].t = q[i].t
Follow(q, p, n, k) == \A i \in 1..n : q[i + k].t = p[i].t

\* Commands whose tickets are the same count the same.
LEMMA CountSame ==
    ASSUME NEW q, NEW p, NEW D, SameTickets(p, q, D), NEW T
    PROVE  CountOn(p, D, T) = CountOn(q, D, T)
  <1>1. {i \in D : p[i].t \in T} = {i \in D : q[i].t \in T}
    BY DEF SameTickets
  <1> QED BY <1>1 DEF CountOn

\* Commands that are moved along count the same.
LEMMA CountShift ==
    ASSUME NEW q, NEW p, NEW n \in Nat, NEW k \in Nat, NEW T, Follow(q, p, n, k)
    PROVE  CountOn(q, (k + 1)..(k + n), T) = CountOn(p, 1..n, T)
  <1>1. PICK S, R : S = {i \in 1..n : p[i].t \in T} /\ R = {i \in (k + 1)..(k + n) : q[i].t \in T}
    OBVIOUS
  <1>2. PICK f : f = [i \in S |-> i + k]
    OBVIOUS
  <1>3. \A i \in S : f[i] = i + k /\ i \in 1..n /\ i + k \in R
    BY <1>1, <1>2 DEF Follow
  <1>4. f \in [S -> R]
    BY <1>2, <1>3
  <1>5. \A i, j \in S : f[i] = f[j] => i = j
    BY <1>3
  <1>6. ASSUME NEW x \in R PROVE \E i \in S : f[i] = x
    <2>1. PICK i \in 1..n : i + k = x /\ i = x - k
      <3>1. x \in (k + 1)..(k + n)
        BY <1>1
      <3>2. x - k \in 1..n /\ (x - k) + k = x
        BY <3>1
      <3> QED BY <3>2
    <2>2. p[i].t \in T
      BY <1>1, <2>1 DEF Follow
    <2>3. i \in S
      BY <1>1, <2>2
    <2> QED BY <1>3, <2>1, <2>3
  <1>7. f \in Bijection(S, R)
    BY <1>4, <1>5, <1>6, Fun_IsBij
  <1>8. ExistsBijection(S, R)
    BY <1>7, Fun_ExistsBij
  <1>9. IsFiniteSet(S)
    <2>1. IsFiniteSet(1..n)
      BY FS_Interval
    <2> QED BY <1>1, <2>1, CountNat
  <1>10. Cardinality(R) = Cardinality(S)
    BY <1>8, <1>9, FS_Bijection
  <1> QED BY <1>1, <1>10 DEF CountOn

\* Two disjoint sets of commands.
LEMMA CountUnion ==
    ASSUME NEW q, NEW D, NEW E, IsFiniteSet(D), IsFiniteSet(E), D \cap E = {}, NEW T
    PROVE  CountOn(q, D \cup E, T) = CountOn(q, D, T) + CountOn(q, E, T)
  <1>1. PICK S, R : S = {i \in D : q[i].t \in T} /\ R = {i \in E : q[i].t \in T}
    OBVIOUS
  <1>2. IsFiniteSet(S) /\ IsFiniteSet(R)
    <2>1. S \in SUBSET D /\ R \in SUBSET E
      BY <1>1
    <2>2. IsFiniteSet(S)
      BY <2>1, FS_Subset
    <2>3. IsFiniteSet(R)
      BY <2>1, FS_Subset
    <2> QED BY <2>2, <2>3
  <1>3. Cardinality(S \cup R) = Cardinality(S) + Cardinality(R) - Cardinality(S \cap R)
    BY <1>2, FS_Union
  <1>4. S \cap R = {} /\ S \cup R = {i \in D \cup E : q[i].t \in T}
    BY <1>1
  <1>5. Cardinality(S) \in Nat /\ Cardinality(R) \in Nat /\ Cardinality(S \cap R) = 0
    BY <1>2, <1>4, FS_CardinalityType, FS_EmptySet
  <1>6. Cardinality(S \cup R) = Cardinality(S) + Cardinality(R)
    BY <1>3, <1>5
  <1> QED BY <1>1, <1>4, <1>6 DEF CountOn

Joined(c, q, s) == c = q \o s

\* Two queues in a row count what they count apart.
LEMMA TallyConcat ==
    ASSUME NEW S, NEW q \in Seq(S), NEW s \in Seq(S), NEW T, NEW c, Joined(c, q, s)
    PROVE  c \in Seq(S) /\ Tally(c, T) = Tally(q, T) + Tally(s, T)
  <1>0. c = q \o s
    BY DEF Joined
  <1>1. PICK n \in Nat, k \in Nat : k = Len(q) /\ n = Len(s)
    BY LenProperties
  <1>2. /\ Len(c) = k + n
        /\ SameTickets(c, q, 1..k) /\ Follow(c, s, n, k)
    <2>1. c \in Seq(S) /\ Len(c) = k + n
      BY <1>0, <1>1, ConcatProperties
    <2>2. \A i \in 1..(k + n) : c[i] = IF i <= k THEN q[i] ELSE s[i - k]
      BY <1>0, <1>1, ConcatProperties
    <2>3. ASSUME NEW i \in 1..n PROVE c[i + k] = s[i]
      <3>1. i + k \in 1..(k + n) /\ ~(i + k <= k) /\ (i + k) - k = i
        OBVIOUS
      <3> QED BY <2>2, <3>1
    <2>4. ASSUME NEW i \in 1..k PROVE c[i] = q[i]
      <3>1. i \in 1..(k + n) /\ i <= k
        OBVIOUS
      <3> QED BY <2>2, <3>1
    <2> QED BY <2>1, <2>3, <2>4 DEF SameTickets, Follow
  <1>3. CountOn(c, (k + 1)..(k + n), T) = CountOn(s, 1..n, T)
    BY <1>2, CountShift
  <1>4. CountOn(c, 1..k, T) = CountOn(q, 1..k, T)
    BY <1>2, CountSame
  <1>5. /\ IsFiniteSet(1..k) /\ IsFiniteSet((k + 1)..(k + n))
        /\ (1..k) \cap ((k + 1)..(k + n)) = {} /\ (1..k) \cup ((k + 1)..(k + n)) = 1..(k + n)
    <2>1. PICK a \in Int, b \in Int : a = k + 1 /\ b = k + n
      OBVIOUS
    <2>0. IsFiniteSet(1..k)
      BY FS_Interval
    <2>2. IsFiniteSet(a..b)
      BY FS_Interval
    <2>3. (1..k) \cap (a..b) = {} /\ (1..k) \cup (a..b) = 1..b
      BY <2>1
    <2> QED BY <2>0, <2>1, <2>2, <2>3
  <1>6. CountOn(c, (1..k) \cup ((k + 1)..(k + n)), T)
           = CountOn(c, 1..k, T) + CountOn(c, (k + 1)..(k + n), T)
    BY <1>5, CountUnion
  <1>7. CountOn(c, 1..Len(c), T) = CountOn(q, 1..Len(q), T) + CountOn(s, 1..Len(s), T)
    BY <1>1, <1>2, <1>3, <1>4, <1>5, <1>6
  <1>8. c \in Seq(S)
    BY <1>0, ConcatProperties
  <1> QED BY <1>7, <1>8 DEF Tally

\* The commands of both queues; a queue of tickets that wait, and an actor whose
\* ticket is live.
Jobs == Commands \cup SearchCommands
Tray(q) == q \in Seq(Jobs) /\ \A i \in 1..Len(q) : Queued(q[i].t)
Holder(r) == r # None => LiveTicket(r.t)

\* The counters balance with the tickets that are held.
Ledger(m, q, s, r, z) ==
    Balanced(m, Books(q, s, r, z)) /\ Tray(q) /\ Tray(s) /\ Holder(r) /\ Holder(z)

\* Accounts that agree are equal.
LEMMA AccountsEqual ==
    ASSUME NEW M \in Accounts, NEW N \in Accounts, \A T \in SUBSET Tickets : M[T] = N[T]
    PROVE  M = N
  BY DEF Accounts

\* The tickets of a queue are counted by a number.
LEMMA TallyNat ==
    ASSUME NEW q, Len(q) \in Nat, NEW T
    PROVE  Tally(q, T) \in Nat
  <1>1. PICK n \in Nat : n = Len(q)
    OBVIOUS
  <1>2. IsFiniteSet(1..n)
    BY FS_Interval
  <1>3. CountOn(q, 1..n, T) \in Nat
    BY <1>2, CountNat
  <1> QED BY <1>1, <1>3 DEF Tally

\* So is the ticket of an actor.
LEMMA OwnNat ==
    ASSUME NEW r, NEW t, NEW T
    PROVE  Own(r, T) \in Nat /\ Has(t, T) \in Int /\ Has(t, T) \in Nat
  BY DEF Own, Has

\* What the books say of a set of tickets.
LEMMA BooksAre ==
    ASSUME NEW q, NEW s, NEW r, NEW z, Len(q) \in Nat, Len(s) \in Nat
    PROVE  /\ Books(q, s, r, z) \in Accounts
           /\ \A T \in SUBSET Tickets :
                 /\ Tally(q, T) \in Nat /\ Tally(s, T) \in Nat
                 /\ Own(r, T) \in Nat /\ Own(z, T) \in Nat
                 /\ Books(q, s, r, z)[T] = Tally(q, T) + Tally(s, T) + Own(r, T) + Own(z, T)
  <1>2. \A T : Tally(q, T) \in Nat /\ Tally(s, T) \in Nat
    BY TallyNat
  <1>3. \A T : Own(r, T) \in Nat /\ Own(z, T) \in Nat
    BY DEF Own, Has
  <1>4. \A T \in SUBSET Tickets : Tally(q, T) + Tally(s, T) + Own(r, T) + Own(z, T) \in Int
    BY <1>2, <1>3
  <1>5. Books(q, s, r, z) \in Accounts
    BY <1>4 DEF Books, Accounts
  <1>6. \A T \in SUBSET Tickets :
           Books(q, s, r, z)[T] = Tally(q, T) + Tally(s, T) + Own(r, T) + Own(z, T)
    BY DEF Books
  <1> QED BY <1>2, <1>3, <1>5, <1>6

\* The books of the two sides are one.
LEMMA BooksSwap ==
    ASSUME NEW q, NEW s, NEW r, NEW z, Len(q) \in Nat, Len(s) \in Nat
    PROVE  Books(s, q, z, r) = Books(q, s, r, z)
  <1>1. \A T \in SUBSET Tickets :
           Tally(q, T) + Tally(s, T) + Own(r, T) + Own(z, T)
             = Tally(s, T) + Tally(q, T) + Own(z, T) + Own(r, T)
    <2>1. ASSUME NEW T PROVE Tally(q, T) + Tally(s, T) + Own(r, T) + Own(z, T)
                               = Tally(s, T) + Tally(q, T) + Own(z, T) + Own(r, T)
      <3>1. Tally(q, T) \in Nat /\ Tally(s, T) \in Nat /\ Own(r, T) \in Nat /\ Own(z, T) \in Nat
        BY TallyNat, OwnNat
      <3>2. PICK a \in Nat, b \in Nat, c \in Nat, d \in Nat :
               a = Tally(q, T) /\ b = Tally(s, T) /\ c = Own(r, T) /\ d = Own(z, T)
        BY <3>1
      <3>3. a + b + c + d = b + a + d + c
        OBVIOUS
      <3> QED BY <3>2, <3>3
    <2> QED BY <2>1
  <1> QED BY <1>1 DEF Books

\* A ticket that an actor has.
LEMMA BooksHeld ==
    ASSUME NEW q, NEW s, NEW r, NEW z, Len(q) \in Nat, Len(s) \in Nat, r # None, NEW e, e = None
    PROVE  /\ Books(q, s, r, z) = More(Books(q, s, e, z), r.t)
           /\ Books(q, s, e, z) = Less(Books(q, s, r, z), r.t)
  <1>1. PICK M, N, t : M = Books(q, s, r, z) /\ N = Books(q, s, e, z) /\ t = r.t
    OBVIOUS
  <1>2. M \in Accounts /\ N \in Accounts
    BY <1>1, BooksAre
  <1>3. /\ More(N, t) \in Accounts /\ Less(M, t) \in Accounts
        /\ \A T \in SUBSET Tickets : More(N, t)[T] = N[T] + Has(t, T) /\ Less(M, t)[T] = M[T] - Has(t, T)
    BY <1>2, LessMore
  <1>4. ASSUME NEW T \in SUBSET Tickets PROVE M[T] = More(N, t)[T] /\ N[T] = Less(M, t)[T]
    <2>1. PICK a \in Nat, b \in Nat, d \in Nat, h \in Nat :
             a = Tally(q, T) /\ b = Tally(s, T) /\ d = Own(z, T) /\ h = Has(t, T)
      BY TallyNat, OwnNat
    <2>2. M[T] = Tally(q, T) + Tally(s, T) + Own(r, T) + Own(z, T)
      BY <1>1 DEF Books
    <2>3. N[T] = Tally(q, T) + Tally(s, T) + Own(e, T) + Own(z, T)
      BY <1>1 DEF Books
    <2>4. Own(e, T) = 0 /\ Own(r, T) = Has(t, T)
      BY <1>1 DEF Own
    <2>5. M[T] = a + b + h + d
      BY <2>1, <2>2, <2>4
    <2>6. N[T] = a + b + 0 + d
      BY <2>1, <2>3, <2>4
    <2>7. More(N, t)[T] = N[T] + h /\ Less(M, t)[T] = M[T] - h
      BY <1>3, <2>1
    <2>8. M[T] = N[T] + h /\ N[T] = M[T] - h
      BY ONLY <2>5, <2>6, a \in Nat, b \in Nat, d \in Nat, h \in Nat
    <2> QED BY <2>7, <2>8
  <1>5. M = More(N, t)
    BY <1>2, <1>3, <1>4, AccountsEqual
  <1>6. N = Less(M, t)
    BY <1>2, <1>3, <1>4, AccountsEqual
  <1> QED BY <1>1, <1>5, <1>6

\* The queue p has the ticket t more than q.
Extends(p, q, t) == \A T \in SUBSET Tickets : Tally(p, T) = Tally(q, T) + Has(t, T)

\* What one ticket more in a queue does to the books.
LEMMA BooksExtend ==
    ASSUME NEW q, NEW p, NEW t, Extends(p, q, t), NEW s, NEW r, NEW z,
           Len(q) \in Nat, Len(p) \in Nat, Len(s) \in Nat
    PROVE  /\ Books(p, s, r, z) = More(Books(q, s, r, z), t)
           /\ Books(q, s, r, z) = Less(Books(p, s, r, z), t)
  <1>1. PICK M, N : M = Books(p, s, r, z) /\ N = Books(q, s, r, z)
    OBVIOUS
  <1>2. M \in Accounts /\ N \in Accounts
    BY <1>1, BooksAre
  <1>3. /\ More(N, t) \in Accounts /\ Less(M, t) \in Accounts
        /\ \A T \in SUBSET Tickets : More(N, t)[T] = N[T] + Has(t, T) /\ Less(M, t)[T] = M[T] - Has(t, T)
    BY <1>2, LessMore
  <1>4. ASSUME NEW T \in SUBSET Tickets PROVE M[T] = More(N, t)[T] /\ N[T] = Less(M, t)[T]
    <2>1. PICK a \in Nat, b \in Nat, c \in Nat, d \in Nat, h \in Nat :
             /\ a = Tally(q, T) /\ b = Tally(s, T) /\ c = Own(r, T) /\ d = Own(z, T)
             /\ h = Has(t, T)
      BY TallyNat, OwnNat
    <2>2. M[T] = Tally(p, T) + Tally(s, T) + Own(r, T) + Own(z, T)
      BY <1>1 DEF Books
    <2>3. N[T] = Tally(q, T) + Tally(s, T) + Own(r, T) + Own(z, T)
      BY <1>1 DEF Books
    <2>4. Tally(p, T) = Tally(q, T) + Has(t, T)
      BY DEF Extends
    <2>5. M[T] = (a + h) + b + c + d
      BY <2>1, <2>2, <2>4
    <2>6. N[T] = a + b + c + d
      BY <2>1, <2>3
    <2>7. More(N, t)[T] = N[T] + h /\ Less(M, t)[T] = M[T] - h
      BY <1>3, <2>1
    <2>8. M[T] = N[T] + h /\ N[T] = M[T] - h
      BY ONLY <2>5, <2>6, a \in Nat, b \in Nat, c \in Nat, d \in Nat, h \in Nat
    <2> QED BY <2>7, <2>8
  <1>5. M = More(N, t)
    BY <1>2, <1>3, <1>4, AccountsEqual
  <1>6. N = Less(M, t)
    BY <1>2, <1>3, <1>4, AccountsEqual
  <1> QED BY <1>1, <1>5, <1>6

\* A ticket that enters a queue.
LEMMA AppendExtends ==
    ASSUME NEW S, NEW q \in Seq(S), NEW c \in S, NEW p, p = Append(q, c)
    PROVE  Extends(p, q, c.t) /\ Len(p) \in Nat
  <1>0. PICK n \in Nat : n = Len(q)
    BY LenProperties
  <1>1. PICK k \in Nat : k = n + 1
    OBVIOUS
  <1>2. Len(p) = k /\ (\A i \in 1..n : p[i] = q[i]) /\ p[k] = c
    BY <1>0, <1>1, AppendFacts
  <1>3. PICK D : D = 1..k
    OBVIOUS
  <1>4. IsFiniteSet(D)
    <2>1. IsFiniteSet(1..k)
      BY FS_Interval
    <2> QED BY <1>3, <2>1
  <1>5. k \in D /\ D \ {k} = 1..n
    BY <1>1, <1>3
  <1>6. SameTickets(p, q, 1..n)
    BY <1>2 DEF SameTickets
  <1>7. ASSUME NEW T PROVE Tally(p, T) = Tally(q, T) + Has(c.t, T)
    <2>1. CountOn(p, D, T) = CountOn(p, D \ {k}, T) + Has(p[k].t, T)
      BY ONLY <1>4, <1>5, CountInsert
    <2>2. CountOn(p, 1..n, T) = CountOn(q, 1..n, T)
      BY <1>6, CountSame
    <2>3. CountOn(p, 1..k, T) = CountOn(q, 1..n, T) + Has(c.t, T)
      BY <1>2, <1>3, <1>5, <2>1, <2>2
    <2> QED BY <1>0, <1>2, <2>3 DEF Tally
  <1> QED BY <1>2, <1>7 DEF Extends

\* A ticket that leaves a queue at its head.
LEMMA TailExtends ==
    ASSUME NEW S, NEW q \in Seq(S), q # <<>>, NEW p, p = Tail(q)
    PROVE  Extends(q, p, q[1].t) /\ Len(p) \in Nat
  <1>0. PICK n \in Nat, l \in Nat : Len(q) = l /\ l = n + 1
    <2>1. Len(q) \in Nat \ {0}
      BY TailFacts
    <2>2. PICK l \in Nat \ {0} : l = Len(q)
      BY <2>1
    <2>3. l - 1 \in Nat /\ l = (l - 1) + 1 /\ l \in Nat
      OBVIOUS
    <2> QED BY <2>2, <2>3
  <1>2. Len(p) = n /\ (\A i \in 1..n : p[i] = q[i + 1])
    <2>1. Len(p) = Len(q) - 1 /\ \A i \in 1..(Len(q) - 1) : p[i] = q[i + 1]
      BY TailFacts
    <2>2. Len(q) - 1 = n
      BY <1>0
    <2> QED BY <2>1, <2>2
  <1>3. PICK k \in Nat, D \in {1..l} : D = 1..l /\ k = 1
    OBVIOUS
  <1>4. IsFiniteSet(D)
    <2>1. IsFiniteSet(1..l)
      BY FS_Interval
    <2> QED BY <1>3, <2>1
  <1>5. k \in D /\ D \ {k} = (k + 1)..(k + n)
    BY <1>0, <1>3
  <1>6. Follow(q, p, n, k)
    BY <1>2, <1>3 DEF Follow
  <1>7. ASSUME NEW T PROVE Tally(q, T) = Tally(p, T) + Has(q[1].t, T)
    <2>0. IsFiniteSet(D) /\ k \in D
      BY <1>4, <1>5
    <2>1. CountOn(q, D, T) = CountOn(q, D \ {k}, T) + Has(q[k].t, T)
      BY ONLY <2>0, CountInsert
    <2>2. n \in Nat /\ k \in Nat
      OBVIOUS
    <2>3. CountOn(q, (k + 1)..(k + n), T) = CountOn(p, 1..n, T)
      BY ONLY <1>6, <2>2, CountShift
    <2>4. CountOn(q, D, T) = CountOn(p, 1..n, T) + Has(q[1].t, T)
      BY <1>3, <1>5, <2>1, <2>3
    <2> QED BY <1>0, <1>2, <1>3, <2>4 DEF Tally
  <1> QED BY <1>2, <1>7 DEF Extends

\* The queues of a ledger.
LEMMA LedgerTyped ==
    ASSUME NEW m, NEW q, NEW s, NEW r, NEW z, Ledger(m, q, s, r, z)
    PROVE  /\ q \in Seq(Jobs) /\ s \in Seq(Jobs) /\ Len(q) \in Nat /\ Len(s) \in Nat
           /\ m \in MetricsSets /\ Books(q, s, r, z) \in Accounts /\ Balanced(m, Books(q, s, r, z))
  <1>1. q \in Seq(Jobs) /\ s \in Seq(Jobs) /\ Balanced(m, Books(q, s, r, z))
    BY DEF Ledger, Tray
  <1>2. Len(q) \in Nat
    BY <1>1, LenProperties
  <1>3. Len(s) \in Nat
    BY <1>1, LenProperties
  <1> QED BY <1>1, <1>2, <1>3 DEF Balanced

\* What holds for the writer's side holds for the searches' side.
LEMMA LedgerSwap ==
    ASSUME NEW m, NEW q, NEW s, NEW r, NEW z, Ledger(m, q, s, r, z)
    PROVE  Ledger(m, s, q, z, r)
  <1>1. Len(q) \in Nat /\ Len(s) \in Nat
    BY LedgerTyped
  <1>2. Books(s, q, z, r) = Books(q, s, r, z)
    BY <1>1, BooksSwap
  <1> QED BY <1>2 DEF Ledger

\* Counters that are alike.
LEMMA LedgerAlike ==
    ASSUME NEW m, NEW q, NEW s, NEW r, NEW z, Ledger(m, q, s, r, z),
           NEW x \in MetricsSets, x.actor = m.actor, x.admission = m.admission
    PROVE  Ledger(x, q, s, r, z)
  <1>1. PICK N : N = Books(q, s, r, z)
    OBVIOUS
  <1>2. Balanced(m, N)
    BY <1>1 DEF Ledger
  <1>3. Balanced(x, N)
    BY <1>2, AlikeBalanced
  <1> QED BY <1>1, <1>3 DEF Ledger

\* A command enters its queue.
LEMMA LedgerAppend ==
    ASSUME NEW m, NEW q, NEW s, NEW r, NEW z, Ledger(m, q, s, r, z), NEW c \in Jobs, Queued(c.t),
           NEW x, Balanced(x, More(Books(q, s, r, z), c.t)), NEW p, p = Append(q, c)
    PROVE  Ledger(x, p, s, r, z)
  <1>1. q \in Seq(Jobs) /\ Len(q) \in Nat /\ Len(s) \in Nat
    BY LedgerTyped
  <1>2. Extends(p, q, c.t) /\ Len(p) \in Nat
    BY <1>1, AppendExtends
  <1>3. PICK t : t = c.t
    OBVIOUS
  <1>4. Books(p, s, r, z) = More(Books(q, s, r, z), t)
    BY <1>1, <1>2, <1>3, BooksExtend
  <1>5. Tray(p)
    <2>1. /\ p \in Seq(Jobs) /\ Len(p) = Len(q) + 1
          /\ \A i \in 1..Len(q) : p[i] = q[i]
          /\ p[Len(q) + 1] = c
      BY <1>1, AppendFacts
    <2>2. \A i \in 1..Len(q) : Queued(q[i].t)
      BY DEF Ledger, Tray
    <2>3. \A i \in 1..(Len(q) + 1) : i \in 1..Len(q) \/ i = Len(q) + 1
      BY <1>1
    <2>4. \A i \in 1..Len(p) : Queued(p[i].t)
      BY <2>1, <2>2, <2>3
    <2> QED BY <2>1, <2>4 DEF Tray
  <1> QED BY <1>3, <1>4, <1>5 DEF Ledger

\* A queue without its head.
LEMMA TrayTail ==
    ASSUME NEW q, Tray(q), q # <<>>, NEW p, p = Tail(q)
    PROVE  Tray(p) /\ Extends(q, p, q[1].t) /\ Len(p) \in Nat /\ Queued(q[1].t)
  <1>1. q \in Seq(Jobs) /\ \A i \in 1..Len(q) : Queued(q[i].t)
    BY DEF Tray
  <1>2. Extends(q, p, q[1].t) /\ Len(p) \in Nat
    BY <1>1, TailExtends
  <1>3. /\ p \in Seq(Jobs) /\ Len(p) = Len(q) - 1 /\ Len(q) \in Nat \ {0}
        /\ \A i \in 1..(Len(q) - 1) : p[i] = q[i + 1]
    BY <1>1, TailFacts
  <1>4. PICK l \in Nat \ {0} : l = Len(q)
    BY <1>3
  <1>5. 1 \in 1..l /\ \A i \in 1..(l - 1) : i + 1 \in 1..l
    OBVIOUS
  <1> QED BY <1>1, <1>2, <1>3, <1>4, <1>5 DEF Tray

\* A command leaves its queue and is done.
LEMMA LedgerDrop ==
    ASSUME NEW m, NEW q, NEW s, NEW r, NEW z, Ledger(m, q, s, r, z), q # <<>>,
           NEW x, Balanced(x, Less(Books(q, s, r, z), q[1].t)), NEW p, p = Tail(q)
    PROVE  Ledger(x, p, s, r, z)
  <1>1. Tray(q) /\ Len(q) \in Nat /\ Len(s) \in Nat
    BY LedgerTyped DEF Ledger
  <1>3. PICK t : t = q[1].t
    OBVIOUS
  <1>2. Tray(p) /\ Extends(q, p, t) /\ Len(p) \in Nat
    BY <1>1, <1>3, TrayTail
  <1>4. Books(p, s, r, z) = Less(Books(q, s, r, z), t)
    BY <1>1, <1>2, BooksExtend
  <1> QED BY <1>2, <1>3, <1>4 DEF Ledger

\* The actor is done with its command.
LEMMA LedgerDone ==
    ASSUME NEW m, NEW q, NEW s, NEW r, NEW z, Ledger(m, q, s, r, z), r # None,
           NEW x, Balanced(x, Less(Books(q, s, r, z), r.t)), NEW e, e = None
    PROVE  Ledger(x, q, s, e, z)
  <1>1. Len(q) \in Nat /\ Len(s) \in Nat
    BY LedgerTyped
  <1>2. Books(q, s, e, z) = Less(Books(q, s, r, z), r.t)
    BY <1>1, BooksHeld
  <1> QED BY <1>2 DEF Ledger, Holder

\* The actor takes the head of its queue.
LEMMA LedgerTake ==
    ASSUME NEW m, NEW q, NEW s, NEW r, NEW z, Ledger(m, q, s, r, z), r = None, q # <<>>,
           NEW c, c # None, LiveTicket(c.t),
           NEW x, Balanced(x, More(Less(Books(q, s, r, z), q[1].t), c.t)), NEW p, p = Tail(q)
    PROVE  Ledger(x, p, s, c, z)
  <1>1. Tray(q) /\ Len(q) \in Nat /\ Len(s) \in Nat
    BY LedgerTyped DEF Ledger
  <1>2. PICK t : t = q[1].t
    OBVIOUS
  <1>3. Tray(p) /\ Extends(q, p, t) /\ Len(p) \in Nat
    BY <1>1, <1>2, TrayTail
  <1>4. Books(p, s, r, z) = Less(Books(q, s, r, z), t)
    BY <1>1, <1>3, BooksExtend
  <1>5. Books(p, s, c, z) = More(Books(p, s, r, z), c.t)
    BY <1>1, <1>3, BooksHeld
  <1> QED BY <1>2, <1>3, <1>4, <1>5 DEF Ledger, Holder

\* The ticket of the actor becomes another.
LEMMA LedgerTurn ==
    ASSUME NEW m, NEW q, NEW s, NEW r, NEW z, Ledger(m, q, s, r, z), r # None,
           NEW c, c # None, LiveTicket(c.t), NEW x, Balanced(x, More(Less(Books(q, s, r, z), r.t), c.t))
    PROVE  Ledger(x, q, s, c, z)
  <1>1. Len(q) \in Nat /\ Len(s) \in Nat
    BY LedgerTyped
  <1>2. PICK e : e = None
    OBVIOUS
  <1>3. Books(q, s, e, z) = Less(Books(q, s, r, z), r.t)
    BY <1>1, <1>2, BooksHeld
  <1>4. Books(q, s, c, z) = More(Books(q, s, e, z), c.t)
    BY <1>1, <1>2, BooksHeld
  <1> QED BY <1>3, <1>4 DEF Ledger, Holder

\* The actor's command changes, and its ticket does not.
LEMMA LedgerKeeps ==
    ASSUME NEW m, NEW q, NEW s, NEW r, NEW z, Ledger(m, q, s, r, z), r # None,
           NEW c, c # None, c.t = r.t
    PROVE  Ledger(m, q, s, c, z)
  <1>1. \A T : Own(c, T) = Own(r, T)
    BY DEF Own
  <1>2. Books(q, s, c, z) = Books(q, s, r, z)
    BY <1>1 DEF Books
  <1> QED BY <1>2 DEF Ledger, Holder

\* Tickets that the counters do not tell apart.
AlikeTickets(t, u) ==
    /\ t \in Tickets /\ u \in Tickets /\ u.op = t.op /\ u.worker = t.worker
    /\ u.dispatched = t.dispatched /\ u.started = t.started

\* To take out one of them is to take out the other.
LEMMA LessAlike ==
    ASSUME NEW x, NEW N \in Accounts, NEW t, NEW u, AlikeTickets(t, u), Balanced(x, Less(N, u))
    PROVE  Balanced(x, Less(N, t))
  <1>1. PICK L, K : L = Less(N, u) /\ K = Less(N, t)
    OBVIOUS
  <1>2. /\ L \in Accounts /\ K \in Accounts
    BY <1>1, LessMore
  <1>3. t \in Tickets /\ u \in Tickets
    BY DEF AlikeTickets
  <1>4. ASSUME NEW p PROVE /\ L[OfOperation(p)] = K[OfOperation(p)] /\ L[OnGauge(p)] = K[OnGauge(p)]
                           /\ L[Waiting(p)] = K[Waiting(p)]
    <2>1. /\ L[OfOperation(p)] = N[OfOperation(p)] - Has(u, OfOperation(p))
          /\ L[OnGauge(p)] = N[OnGauge(p)] - Has(u, OnGauge(p))
          /\ L[Waiting(p)] = N[Waiting(p)] - Has(u, Waiting(p))
      BY <1>1, LessMore
    <2>2. /\ K[OfOperation(p)] = N[OfOperation(p)] - Has(t, OfOperation(p))
          /\ K[OnGauge(p)] = N[OnGauge(p)] - Has(t, OnGauge(p))
          /\ K[Waiting(p)] = N[Waiting(p)] - Has(t, Waiting(p))
      BY <1>1, LessMore
    <2>3. /\ Has(u, OfOperation(p)) = Has(t, OfOperation(p)) /\ Has(u, OnGauge(p)) = Has(t, OnGauge(p))
          /\ Has(u, Waiting(p)) = Has(t, Waiting(p))
      BY DEF AlikeTickets, Has, OfOperation, OnGauge, Waiting
    <2> QED BY <2>1, <2>2, <2>3
  <1>5. ASSUME NEW a, NEW p PROVE L[OnActor(a, p)] = K[OnActor(a, p)]
    <2>1. L[OnActor(a, p)] = N[OnActor(a, p)] - Has(u, OnActor(a, p))
      BY <1>1, LessMore
    <2>2. K[OnActor(a, p)] = N[OnActor(a, p)] - Has(t, OnActor(a, p))
      BY <1>1, LessMore
    <2>3. Has(u, OnActor(a, p)) = Has(t, OnActor(a, p))
      BY DEF AlikeTickets, Has, OnActor
    <2> QED BY <2>1, <2>2, <2>3
  <1>6. Balanced(x, L)
    BY <1>1
  <1>7. Balanced(x, K)
    BY <1>2, <1>4, <1>5, <1>6 DEF Balanced
  <1> QED BY <1>1, <1>7

\* The account without the tickets of the commands q[i], i \in D.
Struck(N, q, D) == [T \in SUBSET Tickets |-> N[T] - CountOn(q, D, T)]

\* One command more is taken out by taking out its ticket.
LEMMA StruckFacts ==
    ASSUME NEW N \in Accounts, NEW q, NEW D, IsFiniteSet(D)
    PROVE  /\ Struck(N, q, D) \in Accounts
           /\ \A i \in D : Less(Struck(N, q, D \ {i}), q[i].t) = Struck(N, q, D)
  <1>1. \A T : CountOn(q, D, T) \in Nat
    BY CountNat
  <1>2. Struck(N, q, D) \in Accounts
    BY <1>1 DEF Struck, Accounts
  <1>3. ASSUME NEW i \in D PROVE Less(Struck(N, q, D \ {i}), q[i].t) = Struck(N, q, D)
    <2>1. PICK t : t = q[i].t
      OBVIOUS
    <2>2. ASSUME NEW T \in SUBSET Tickets
          PROVE  Struck(N, q, D \ {i})[T] - Has(t, T) = N[T] - CountOn(q, D, T)
      <3>1. /\ CountOn(q, D, T) = CountOn(q, D \ {i}, T) + Has(t, T)
            /\ CountOn(q, D \ {i}, T) \in Nat
        BY <2>1, CountInsert
      <3>2. PICK h \in Int, c \in Int, n \in Int : h = Has(t, T) /\ c = CountOn(q, D \ {i}, T) /\ n = N[T]
        BY <3>1, OwnNat DEF Accounts
      <3>3. (n - c) - h = n - (c + h)
        OBVIOUS
      <3> QED BY <3>1, <3>2, <3>3 DEF Struck
    <2>3. Less(Struck(N, q, D \ {i}), t) = Struck(N, q, D)
      BY <2>2 DEF Less, Struck
    <2> QED BY <2>1, <2>3
  <1> QED BY <1>2, <1>3

\* Every command of the set has a live ticket.
AllLive(q, D) == IsFiniteSet(D) /\ \A i \in D : LiveTicket(q[i].t)

\* The tickets of a set of commands settle one by one (SettleAll).
LEMMA DrainBalanced ==
    ASSUME NEW m, NEW N, Balanced(m, N), NEW q, NEW D, AllLive(q, D), NEW x, x = SettleAll(m, q, D)
    PROVE  Balanced(x, Struck(N, q, D)) /\ SameEnd(x, m)
  <1> DEFINE Y == {y \in (SUBSET D) \X MetricsSets : Balanced(y[2], Struck(N, q, y[1])) /\ SameEnd(y[2], m)}
  <1>0. m \in MetricsSets /\ N \in Accounts /\ IsFiniteSet(D)
    BY DEF Balanced, AllLive
  <1>1. <<{}, m>> \in Y
    <2>1. PICK E : E = {}
      OBVIOUS
    <2>2. Struck(N, q, E) = N
      <3>1. \A T \in SUBSET Tickets : N[T] - CountOn(q, E, T) = N[T]
        BY <1>0, <2>1, CountEmpty DEF Accounts
      <3> QED BY <1>0, <3>1 DEF Struck, Accounts
    <2>3. Balanced(m, Struck(N, q, E)) /\ SameEnd(m, m) /\ E \in SUBSET D
      BY <2>1, <2>2 DEF SameEnd
    <2>4. <<E, m>> \in Y
      BY <1>0, <2>3
    <2> QED BY <2>1, <2>4
  <1>2. ASSUME NEW s \in SUBSET D, NEW i \in D, NEW acc, i \in s, <<s \ {i}, acc>> \in Y
        PROVE  <<s, Settle([m |-> acc, t |-> q[i].t], FALSE).m>> \in Y
    <2>1. PICK R : R = s \ {i}
      OBVIOUS
    <2>2. Balanced(acc, Struck(N, q, R)) /\ SameEnd(acc, m)
      BY <1>2, <2>1
    <2>3. PICK ok \in BOOLEAN, t \in {q[i].t} : t = q[i].t /\ ok = FALSE
      OBVIOUS
    <2>4. PICK y : y = Settle([m |-> acc, t |-> t], ok).m
      OBVIOUS
    <2>5. LiveTicket(t)
      BY <2>3 DEF AllLive
    <2>6. PICK K : K = Struck(N, q, R)
      OBVIOUS
    <2>7. Balanced(acc, K)
      BY <2>2, <2>6
    <2>8. Balanced(y, Less(K, t)) /\ SameEnd(y, acc)
      BY <2>4, <2>5, <2>7, SettleBalanced
    <2>9. IsFiniteSet(s)
      BY <1>0, FS_Subset
    <2>10. Less(Struck(N, q, R), t) = Struck(N, q, s)
      BY <1>0, <1>2, <2>1, <2>3, <2>9, StruckFacts
    <2>11. Balanced(y, Struck(N, q, s)) /\ SameEnd(y, m) /\ y \in MetricsSets
      BY <2>2, <2>6, <2>8, <2>10 DEF SameEnd, Balanced
    <2>12. <<s, y>> \in Y
      BY <2>11
    <2> QED BY <2>3, <2>4, <2>12
  <1> HIDE DEF Y
  <1>3. <<D, SettleAll(m, q, D)>> \in Y
    BY <1>0, <1>1, <1>2, SettleAllInduction
  <1> QED BY <1>3 DEF Y

\* The queue p is q without the commands q[i], i \in D.
Leaves(p, q, D) ==
    /\ Tray(p) /\ D \in SUBSET (1..Len(q))
    /\ \A T \in SUBSET Tickets : Tally(q, T) = Tally(p, T) + CountOn(q, D, T)

\* A drain keeps the books.
LEMMA LedgerDrain ==
    ASSUME NEW m, NEW q, NEW s, NEW r, NEW z, Ledger(m, q, s, r, z), NEW p, NEW D, Leaves(p, q, D),
           NEW x, x = SettleAll(m, q, D)
    PROVE  Ledger(x, p, s, r, z) /\ SameEnd(x, m)
  <1>1. /\ q \in Seq(Jobs) /\ Len(q) \in Nat /\ Len(s) \in Nat
        /\ Books(q, s, r, z) \in Accounts /\ Balanced(m, Books(q, s, r, z))
    BY LedgerTyped
  <1>2. Tray(p) /\ D \in SUBSET (1..Len(q)) /\ Len(p) \in Nat
    BY LenProperties DEF Leaves, Tray
  <1>3. AllLive(q, D)
    <2>1. PICK n \in Nat : n = Len(q)
      BY <1>1
    <2>2. IsFiniteSet(1..n)
      BY FS_Interval
    <2>3. IsFiniteSet(D)
      BY <1>2, <2>1, <2>2, FS_Subset
    <2>4. \A i \in D : Queued(q[i].t)
      BY <1>2 DEF Ledger, Tray
    <2> QED BY <2>3, <2>4 DEF AllLive, Queued
  <1>4. PICK N : N = Books(q, s, r, z)
    OBVIOUS
  <1>5. Balanced(x, Struck(N, q, D)) /\ SameEnd(x, m)
    BY <1>1, <1>3, <1>4, DrainBalanced
  <1>6. Struck(N, q, D) = Books(p, s, r, z)
    <2>1. ASSUME NEW T \in SUBSET Tickets
          PROVE  N[T] - CountOn(q, D, T) = Tally(p, T) + Tally(s, T) + Own(r, T) + Own(z, T)
      <3>1. N[T] = Tally(q, T) + Tally(s, T) + Own(r, T) + Own(z, T)
        BY <1>4 DEF Books
      <3>2. Tally(q, T) = Tally(p, T) + CountOn(q, D, T)
        BY DEF Leaves
      <3>3. CountOn(q, D, T) \in Nat
        BY <1>3, CountNat DEF AllLive
      <3>4. PICK a \in Nat, b \in Nat, c \in Nat, d \in Nat, k \in Nat :
               /\ a = Tally(p, T) /\ b = Tally(s, T) /\ c = Own(r, T) /\ d = Own(z, T)
               /\ k = CountOn(q, D, T)
        BY <1>1, <1>2, <3>3, TallyNat, OwnNat
      <3>5. ((a + k) + b + c + d) - k = a + b + c + d
        OBVIOUS
      <3> QED BY <3>1, <3>2, <3>4, <3>5
    <2> QED BY <2>1 DEF Struck, Books
  <1> QED BY <1>2, <1>5, <1>6 DEF Ledger

\* A queue that is drained is empty.
LEMMA LeavesNothing ==
    ASSUME NEW q, Tray(q), NEW p, p = <<>>
    PROVE  Leaves(p, q, 1..Len(q))
  <1>1. p \in Seq(Jobs) /\ Len(p) = 0
    OBVIOUS
  <1>2. Tray(p)
    BY <1>1 DEF Tray
  <1>3. PICK n \in Nat : n = Len(q)
    BY LenProperties DEF Tray
  <1>4. ASSUME NEW T PROVE Tally(q, T) = Tally(p, T) + CountOn(q, 1..n, T)
    <2>1. Tally(p, T) = 0
      <3>1. PICK E : E = 1..Len(p)
        OBVIOUS
      <3>2. E = {}
        BY <1>1, <3>1
      <3> QED BY <3>1, <3>2, CountEmpty DEF Tally
    <2>2. IsFiniteSet(1..n)
      BY FS_Interval
    <2>3. CountOn(q, 1..n, T) \in Nat
      BY <2>2, CountNat
    <2>4. Tally(q, T) = CountOn(q, 1..n, T)
      BY <1>3 DEF Tally
    <2> QED BY <2>1, <2>3, <2>4
  <1> QED BY <1>2, <1>3, <1>4 DEF Leaves

\* At most one close waits.
OneClose(q) == \A i, j \in 1..Len(q) : q[i].op = "close" /\ q[j].op = "close" => i = j

\* Runtime::poison keeps the close, and drains the rest.
LEMMA LeavesKept ==
    ASSUME NEW q \in Seq(Commands), Tray(q), OneClose(q)
    PROVE  Leaves(Kept(q), q, Failed(q))
  <1>0. PICK n \in Nat : n = Len(q)
    BY LenProperties
  <1>1. CASE Kept(q) = <<>> /\ \A i \in 1..Len(q) : q[i].op # "close"
    <2>1. Failed(q) = 1..Len(q)
      BY <1>1 DEF Failed
    <2>2. PICK p : p = Kept(q)
      OBVIOUS
    <2>3. Leaves(p, q, 1..Len(q))
      BY <1>1, <2>2, LeavesNothing
    <2> QED BY <2>1, <2>2, <2>3
  <1>2. ASSUME NEW k \in 1..Len(q), NEW c \in Commands,
               q[k].op = "close", Kept(q) = <<c>>, c.t = q[k].t
        PROVE  Leaves(Kept(q), q, Failed(q))
    <2>1. PICK p : p = Kept(q)
      OBVIOUS
    <2>2. p = <<c>> /\ p \in Seq(Jobs) /\ Len(p) = 1 /\ p[1] = c
      BY <1>2, <2>1 DEF Jobs
    <2>3. Queued(c.t)
      BY <1>2 DEF Tray
    <2>4. Tray(p)
      BY <2>2, <2>3 DEF Tray
    <2>5. Failed(q) = (1..n) \ {k}
      BY <1>0, <1>2 DEF Failed, OneClose
    <2>6. ASSUME NEW T PROVE Tally(p, T) = Has(c.t, T)
      <3>1. PICK i \in Nat, D \in {{1}} : i = 1
        OBVIOUS
      <3>2. IsFiniteSet(D) /\ i \in D
        BY <3>1, FS_Singleton
      <3>3. CountOn(p, D, T) = CountOn(p, D \ {i}, T) + Has(p[i].t, T)
        BY ONLY <3>2, CountInsert
      <3>4. D \ {i} = {} /\ D = 1..Len(p) /\ p[i] = c
        BY <2>2, <3>1
      <3>5. CountOn(p, D \ {i}, T) = 0
        BY <3>4, CountEmpty
      <3>6. PICK h \in Nat : h = Has(c.t, T)
        BY OwnNat
      <3>7. CountOn(p, D, T) = 0 + h
        BY <3>3, <3>4, <3>5, <3>6
      <3>8. Tally(p, T) = CountOn(p, D, T)
        BY <3>4 DEF Tally
      <3> QED BY <3>6, <3>7, <3>8
    <2>7. ASSUME NEW T PROVE Tally(q, T) = Tally(p, T) + CountOn(q, Failed(q), T)
      <3>1. PICK D : D = 1..n
        OBVIOUS
      <3>2. IsFiniteSet(1..n)
        BY FS_Interval
      <3>3. IsFiniteSet(D) /\ k \in D
        BY <1>0, <3>1, <3>2
      <3>4. CountOn(q, D, T) = CountOn(q, D \ {k}, T) + Has(q[k].t, T) /\ CountOn(q, D \ {k}, T) \in Nat
        BY ONLY <3>3, CountInsert
      <3>5. Tally(q, T) = CountOn(q, D, T)
        BY <1>0, <3>1 DEF Tally
      <3>6. PICK h \in Nat, d \in Nat : h = Has(c.t, T) /\ d = CountOn(q, Failed(q), T)
        BY <2>5, <3>1, <3>4, OwnNat
      <3>7. CountOn(q, D, T) = d + h
        BY <1>2, <2>5, <3>1, <3>4, <3>6
      <3>8. Tally(p, T) = h
        BY <2>6, <3>6
      <3>9. d + h = h + d
        OBVIOUS
      <3> QED BY <3>5, <3>6, <3>7, <3>8, <3>9
    <2>8. Failed(q) \in SUBSET (1..Len(q))
      BY DEF Failed
    <2> QED BY <2>1, <2>4, <2>7, <2>8 DEF Leaves
  <1> QED BY <1>1, <1>2, KeptFacts

-----------------------------------------------------------------------------
(* Theorems.                                                               *)

\* The layer is an invariant of the handle.
LEMMA GoodInvariant == Spec => [](Good /\ BytesAreOfTheReader)
  <1>1. Init => Good /\ BytesAreOfTheReader
    BY InitGood
  <1>2. (Good /\ BytesAreOfTheReader) /\ [Next]_vars => (Good /\ BytesAreOfTheReader)'
    BY StepGood, StepBytes
  <1> QED BY <1>1, <1>2, PTL DEF Spec

\* The state of the facade, its queues and its counters keep their types: no
\* counter becomes negative that is not a gauge, no answer is one the code
\* does not give, and a running batch has a cursor.
THEOREM FacadeTyped == Spec => []TypeOK
  <1>1. Good => TypeOK
    BY DEF Good
  <1> QED BY <1>1, GoodInvariant, PTL

\* A batch that awaits the answer to a frame, and a close that was promised, are
\* never orphaned: the command is in the queue or with the writer, or it has
\* been answered, whatever drained, dropped or tore down the queue (the poison
\* drain, the teardown after a close and after a panic).
THEOREM FacadeAwaitedIsHeld == Spec => []AwaitedIsHeld
  <1>1. Good => AwaitedIsHeld
    BY DEF Good
  <1> QED BY <1>1, GoodInvariant, PTL

\* The bytes that telemetry reports are those of the segments it reports,
\* whatever publish, reload or reconfiguration came between the beginning and
\* the end of a measurement (ReaderStats in telemetry.rs).
THEOREM FacadeBytesAreOfTheReader == Spec => []BytesAreOfTheReader
  BY GoodInvariant, PTL

\* No search reaches the native handle after the facade was closed or a close
\* was called: the digest a search waited for is followed by a second look at
\* the state of the handle.
THEOREM FacadeNoSearchAfterClose == Spec => NoSearchAfterClose
  <1> DEFINE Attempted == metrics'.admission["search"].attempted
                            > metrics.admission["search"].attempted
  <1>1. Good /\ [Next]_vars => [Attempted => Open]_vars
    <2>1. SUFFICES ASSUME Good, Next, Attempted PROVE Open
      OBVIOUS
    <2>2. metrics.admission["search"].attempted \in Nat
      <3>1. metrics \in MetricsSets
        BY <2>1 DEF Good, TypeOK
      <3>2. "search" \in Operations
        BY FacadeAssumption
      <3> QED BY <3>1, <3>2 DEF MetricsSets, AdmissionSets
    <2>3. ~Calm(metrics') /\ metrics'.admission # metrics.admission
      BY <2>1, <2>2 DEF Calm
    <2>4. /\ ~ConfigureTelemetry /\ ~ConfigureBytes /\ ~ConfigureReader
          /\ ~WriterSucceed /\ ~ObserveBytes /\ ~BytesMeasured
      BY <2>1, <2>3, ConfigureGood, ConfigureBytesGood, ConfigureReaderGood, SucceedGood,
         ObserveGood, MeasuredGood DEF Calm
    <2>5. UNCHANGED observed
      BY <2>1, <2>4 DEF Next
    <2>6. JsStep
      BY <2>1, <2>3, <2>4, <2>5, SearchStepGood, SearchPanicGood, PopGood, RefuseGood, FailGood,
         DirtyGood, CloseStopGood, PanicGood, PanicStopGood
      DEF Next
    <2>7. \E s \in Searches : DigestReady(s)
      BY <2>1, <2>3, <2>5, <2>6, ApplyGood, ResumeGood, CallGood, CloseGood, CloseReturnsGood,
         SearchPageGood
      DEF JsStep
    <2> QED BY <2>1, <2>3, <2>5, <2>7, DigestGood
  <1> QED BY <1>1, GoodInvariant, PTL DEF Spec, NoSearchAfterClose
=============================================================================
