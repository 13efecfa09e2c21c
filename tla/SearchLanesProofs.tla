------------------------- MODULE SearchLanesProofs -------------------------
(***************************************************************************)
(* Proofs about SearchLanes, for any number of runtimes, threads and       *)
(* permits.                                                                *)
(*                                                                         *)
(* Every thread owns what its control point says.  The wake-up argument    *)
(* rests on the generation a worker observed: while it is current, what    *)
(* made the worker pass over the expensive lane is still true, or some     *)
(* thread is on its way to move the generation on.                         *)
(***************************************************************************)
EXTENDS SearchLanes, SequenceTheorems, FiniteSetTheorems, TLAPS

Releasing == {"release", "collect", "notify"}
PassedOver == {"steal", "rescue", "sleep", "asleep"}
FlexiblePoints == {"top", "summary", "demand", "permit", "take", "inspect", "undemand", "drain"}
                    \cup PassedOver

\* The command of a worker at its control point.
JobOf(w) ==
    /\ pc[w] \in FlexiblePoints => w \in Flexible
    /\ pc[w] = "pop" => w \notin Flexible
    /\ pc[w] \in {"acquire", "blocked"} => job[w] = "expensive"
    /\ pc[w] = "exec" => job[w] \in Classes
    /\ pc[w] = "undemand" => job[w] \in Classes \cup {"none"}
    /\ pc[w] \in Releasing => job[w] # "none" \/ w \in Flexible
    /\ pc[w] \notin Releasing \cup {"acquire", "blocked", "exec", "undemand", "poison"}
          => job[w] = "none"

\* Where a worker may own a permit.
PermitOf(w) ==
    /\ permit[w] => pc[w] \in {"exec", "release", "take", "undemand"}
    /\ pc[w] \in {"release", "take"} => permit[w]
    /\ permit[w] /\ pc[w] = "undemand" => job[w] = "expensive"

\* Where a worker may own a wake demand.
WantsOf(w) ==
    /\ wants[w] => w \in Flexible
    /\ wants[w] => pc[w] \in {"permit", "take", "inspect", "undemand"} \cup Releasing \cup PassedOver
    /\ pc[w] \in {"permit", "take", "inspect"} => wants[w]
    /\ pc[w] \in Releasing => (wants[w] <=> job[w] = "none")

\* No command is in the lane and none can come.
Over(r, l) == closed[r][l] /\ q[r][l] = <<>>

\* A worker that ends leaves no command behind in the lanes only it serves.
EndOf(w) ==
    /\ w \in Flexible =>
        /\ ending[w] => closed[Home[w]]["expensive"]
        /\ pc[w] \in {"sleep", "asleep"} => ~ending[w]
        /\ pc[w] = "drain" => ending[w]
        /\ ending[w] /\ pc[w] \in {"drain", "exec", "acquire", "blocked"} =>
              Over(Home[w], "expensive")
        /\ ending[w] /\ pc[w] \in Releasing /\ job[w] # "none" => Over(Home[w], "expensive")
        /\ ending[w] /\ pc[w] = "undemand" /\ job[w] = "none" => Over(Home[w], "expensive")
        /\ pc[w] = "done" => Over(Home[w], "expensive")
    /\ w \notin Flexible /\ pc[w] = "done" => Over(w, "ordinary")
    /\ pc[w] = "shutExpensive" => Over(HomeOf(w), "ordinary")

Unqueued(r) == q[r]["expensive"] = <<>>

\* Some thread is about to move the generation of r on.
Rousing(r) == \E v \in Workers : pc[v] = "collect" \/ (pc[v] = "notify" /\ r \in calls[v])

\* Why a worker with a current generation did not take an expensive search.
Passes(w) ==
    w \in Flexible /\ fresh[w] =>
        /\ pc[w] \in PassedOver /\ ~wants[w] => Unqueued(Home[w])
        /\ pc[w] \in Releasing /\ wants[w] => Unqueued(Home[w])
        /\ /\ pc[w] \in PassedOver \cup {"inspect"} /\ wants[w]
           /\ state[Home[w]] = "OPEN" /\ closing[Home[w]] = "open"
           => active >= MaxPermits \/ Unqueued(Home[w]) \/ Rousing(Home[w])

\* The state of one worker.
Sound(w) == JobOf(w) /\ PermitOf(w) /\ WantsOf(w) /\ EndOf(w) /\ Passes(w)

WorkerInv == \A w \in Workers : Sound(w)

\* The worker that fell asleep last still has a current generation.
LastInv ==
    \A r \in Runtimes :
        /\ \E w \in Flexible : Home[w] = r
        /\ \A w \in Flexible : Home[w] = r => pc[w] = "asleep"
        => \E w \in Flexible : Home[w] = r /\ fresh[w]

\* What a close of the lanes means.
LaneInv ==
    \A r \in Runtimes :
        /\ (\A w \in Flexible : Home[w] # r) => Unqueued(r)
        /\ closed[r]["expensive"] => Unqueued(r) \/ closing[r] = "over"
        /\ closing[r] \in {"store", "ordinary", "expensive", "over"} => state[r] # "OPEN"

\* The counter of the permits is exact and within the limit.
PermitsCounted ==
    /\ active = Cardinality({w \in Workers : permit[w]})
    /\ active <= MaxPermits

IInv == TypeOK /\ WorkerInv /\ LastInv /\ LaneInv /\ PermitsCounted /\ DemandExact

-----------------------------------------------------------------------------
(* Facts about lanes and counts.                                           *)

\* Changing one lane of one runtime.
LEMMA LaneFacts ==
    ASSUME NEW S, NEW f \in [Runtimes -> [Classes -> S]], NEW r \in Runtimes, NEW l \in Classes,
           NEW e \in S
    PROVE  /\ [f EXCEPT ![r][l] = e] \in [Runtimes -> [Classes -> S]]
           /\ \A s \in Runtimes, k \in Classes :
                 [f EXCEPT ![r][l] = e][s][k] = IF s = r /\ k = l THEN e ELSE f[s][k]
  OBVIOUS

Count(S, f) == Cardinality({v \in S : f[v]})

\* How many of a finite set of workers have a flag, when one worker's is set or
\* cleared.
LEMMA CountFacts ==
    ASSUME NEW T, NEW S \in SUBSET T, IsFiniteSet(S), NEW f \in [T -> BOOLEAN],
           NEW g \in [T -> BOOLEAN], NEW w \in T, \A v \in T : v # w => g[v] = f[v]
    PROVE  /\ Count(S, f) \in Nat
           /\ w \notin S \/ g[w] = f[w] => Count(S, g) = Count(S, f)
           /\ w \in S /\ g[w] /\ ~f[w] => Count(S, g) = Count(S, f) + 1
           /\ w \in S /\ ~g[w] /\ f[w] => Count(S, g) = Count(S, f) - 1
           /\ w \in S /\ f[w] => Count(S, f) >= 1
  <1> DEFINE A == {v \in S : f[v]}
             B == {v \in S : g[v]}
  <1>1. IsFiniteSet(A) /\ IsFiniteSet(B)
    BY FS_Subset
  <1>2. Cardinality(A) \in Nat /\ Cardinality(B) \in Nat
    BY <1>1, FS_CardinalityType
  <1>3. w \notin S \/ g[w] = f[w] => B = A
    OBVIOUS
  <1>4. w \in S /\ g[w] /\ ~f[w] => B = A \cup {w} /\ w \notin A
    OBVIOUS
  <1>5. w \in S /\ ~g[w] /\ f[w] => B = A \ {w} /\ w \in A
    OBVIOUS
  <1>6. w \in S /\ f[w] => w \in A
    OBVIOUS
  <1> HIDE DEF A, B
  <1>7. w \in A => Cardinality(A) >= 1
    <2>1. w \in A => Cardinality(A \ {w}) = Cardinality(A) - 1 /\ IsFiniteSet(A \ {w})
      BY <1>1, FS_RemoveElement
    <2> QED BY <1>2, <2>1, FS_CardinalityType
  <1>8. /\ w \notin A => Cardinality(A \cup {w}) = Cardinality(A) + 1
        /\ w \in A => Cardinality(A \ {w}) = Cardinality(A) - 1
    BY <1>1, FS_AddElement, FS_RemoveElement
  <1>9. /\ Cardinality(A) \in Nat
        /\ w \notin S \/ g[w] = f[w] => Cardinality(B) = Cardinality(A)
        /\ w \in S /\ g[w] /\ ~f[w] => Cardinality(B) = Cardinality(A) + 1
        /\ w \in S /\ ~g[w] /\ f[w] => Cardinality(B) = Cardinality(A) - 1
        /\ w \in S /\ f[w] => Cardinality(A) >= 1
    BY <1>2, <1>3, <1>4, <1>5, <1>6, <1>7, <1>8
  <1> QED BY <1>9 DEF A, B, Count

\* The threads of the process are finitely many, and each has a runtime.
LEMMA WorkerFacts ==
    /\ IsFiniteSet(Workers)
    /\ \A r \in Runtimes : FlexibleOf(r) \in SUBSET Workers /\ IsFiniteSet(FlexibleOf(r))
    /\ \A w \in Workers : HomeOf(w) \in Runtimes
    /\ \A w \in Flexible : w \in Workers /\ Home[w] \in Runtimes /\ HomeOf(w) = Home[w]
    /\ \A r \in Runtimes : r \in Workers /\ r \notin Flexible /\ HomeOf(r) = r
  <1> USE LanesAssumption
  <1>1. IsFiniteSet(Workers)
    BY FS_Union DEF Workers
  <1>2. \A r \in Runtimes : FlexibleOf(r) \in SUBSET Flexible
    BY DEF FlexibleOf
  <1>3. \A r \in Runtimes : IsFiniteSet(FlexibleOf(r))
    BY <1>2, FS_Subset
  <1> QED BY <1>1, <1>2, <1>3 DEF Workers, HomeOf

\* Taking and giving back a permit.
LEMMA PermitFacts ==
    ASSUME TypeOK, PermitsCounted, NEW w \in Workers, permit' \in [Workers -> BOOLEAN],
           \A v \in Workers : v # w => permit'[v] = permit[v]
    PROVE  /\ permit[w] => active >= 1
           /\ permit'[w] = TRUE /\ permit[w] = FALSE /\ active' = active + 1
                 /\ active < MaxPermits => PermitsCounted'
           /\ permit'[w] = FALSE /\ permit[w] = TRUE /\ active' = active - 1 => PermitsCounted'
  <1>1. permit \in [Workers -> BOOLEAN] /\ active \in Nat /\ MaxPermits \in Nat
    BY LanesAssumption DEF TypeOK
  <1>2. active = Count(Workers, permit) /\ active <= MaxPermits
    BY DEF PermitsCounted, Count
  <1>3. IsFiniteSet(Workers) /\ Workers \in SUBSET Workers
    BY WorkerFacts
  <1>4. active' = Count(Workers, permit') /\ active' <= MaxPermits => PermitsCounted'
    BY DEF PermitsCounted, Count
  <1>5. permit[w] => Count(Workers, permit) >= 1
    BY <1>1, <1>3, CountFacts
  <1>6. ASSUME permit'[w] = TRUE, permit[w] = FALSE
        PROVE  Count(Workers, permit') = Count(Workers, permit) + 1
    BY <1>1, <1>3, <1>6, CountFacts
  <1>7. ASSUME permit'[w] = FALSE, permit[w] = TRUE
        PROVE  Count(Workers, permit') = Count(Workers, permit) - 1
    BY <1>1, <1>3, <1>7, CountFacts
  <1>8. ASSUME permit'[w] = TRUE, permit[w] = FALSE, active' = active + 1, active < MaxPermits
        PROVE  PermitsCounted'
    <2>1. Count(Workers, permit') = Count(Workers, permit) + 1
      BY <1>6, <1>8
    <2>2. active' = Count(Workers, permit') /\ active' <= MaxPermits
      BY <1>1, <1>2, <1>8, <2>1
    <2> QED BY <1>4, <2>2
  <1>9. ASSUME permit'[w] = FALSE, permit[w] = TRUE, active' = active - 1
        PROVE  PermitsCounted'
    <2>1. Count(Workers, permit') = Count(Workers, permit) - 1
      BY <1>7, <1>9
    <2>2. active' = Count(Workers, permit') /\ active' <= MaxPermits
      BY <1>1, <1>2, <1>9, <2>1
    <2> QED BY <1>4, <2>2
  <1>10. permit[w] => active >= 1
    BY <1>2, <1>5
  <1> QED BY <1>8, <1>9, <1>10

\* A worker that wants a permit has its runtime registered.
LEMMA DemandRegistered ==
    ASSUME TypeOK, DemandExact, NEW w \in Flexible, wants[w]
    PROVE  demand[Home[w]] >= 1
  <1>1. wants \in [Workers -> BOOLEAN] /\ w \in Workers /\ Home[w] \in Runtimes
    BY WorkerFacts DEF TypeOK
  <1>2. FlexibleOf(Home[w]) \in SUBSET Workers /\ IsFiniteSet(FlexibleOf(Home[w]))
    BY <1>1, WorkerFacts
  <1>3. w \in FlexibleOf(Home[w]) /\ \A v \in Workers : v # w => wants[v] = wants[v]
    BY DEF FlexibleOf
  <1>4. Count(FlexibleOf(Home[w]), wants) >= 1
    BY <1>1, <1>2, <1>3, CountFacts
  <1> QED BY <1>1, <1>4 DEF DemandExact, Count

\* Registering and dropping a wake demand.
LEMMA DemandFacts ==
    ASSUME TypeOK, DemandExact, NEW w \in Flexible, wants' \in [Workers -> BOOLEAN],
           \A v \in Workers : v # w => wants'[v] = wants[v]
    PROVE  /\ wants'[w] /\ ~wants[w] /\ demand' = [demand EXCEPT ![Home[w]] = @ + 1]
                 => DemandExact'
           /\ ~wants'[w] /\ demand' = DemandAfter(w)
                 => DemandExact' /\ demand' \in [Runtimes -> Nat]
  <1>1. /\ wants \in [Workers -> BOOLEAN] /\ demand \in [Runtimes -> Nat]
        /\ Home[w] \in Runtimes /\ w \in Workers
    BY WorkerFacts DEF TypeOK
  <1>3. \A r \in Runtimes : demand[r] = Count(FlexibleOf(r), wants)
    BY DEF DemandExact, Count
  <1>4. (\A r \in Runtimes : demand'[r] = Count(FlexibleOf(r), wants')) => DemandExact'
    BY DEF DemandExact, Count, FlexibleOf
  <1>5. ASSUME NEW r \in Runtimes
        PROVE  /\ r # Home[w] \/ wants'[w] = wants[w] => Count(FlexibleOf(r), wants') = demand[r]
               /\ r = Home[w] /\ wants'[w] /\ ~wants[w] =>
                     Count(FlexibleOf(r), wants') = demand[r] + 1
               /\ r = Home[w] /\ ~wants'[w] /\ wants[w] =>
                     Count(FlexibleOf(r), wants') = demand[r] - 1
    <2>1. FlexibleOf(r) \in SUBSET Workers /\ IsFiniteSet(FlexibleOf(r))
      BY WorkerFacts
    <2>2. w \in FlexibleOf(r) <=> r = Home[w]
      BY DEF FlexibleOf
    <2>3. ASSUME w \notin FlexibleOf(r) \/ wants'[w] = wants[w]
          PROVE  Count(FlexibleOf(r), wants') = Count(FlexibleOf(r), wants)
      BY <1>1, <2>1, <2>3, CountFacts
    <2>4. ASSUME w \in FlexibleOf(r), wants'[w] = TRUE, wants[w] = FALSE
          PROVE  Count(FlexibleOf(r), wants') = Count(FlexibleOf(r), wants) + 1
      BY <1>1, <2>1, <2>4, CountFacts
    <2>5. ASSUME w \in FlexibleOf(r), wants'[w] = FALSE, wants[w] = TRUE
          PROVE  Count(FlexibleOf(r), wants') = Count(FlexibleOf(r), wants) - 1
      BY <1>1, <2>1, <2>5, CountFacts
    <2>6. wants'[w] \in BOOLEAN /\ wants[w] \in BOOLEAN
      BY <1>1
    <2> QED BY <1>3, <2>2, <2>3, <2>4, <2>5, <2>6
  <1>6. ASSUME wants'[w], ~wants[w], demand' = [demand EXCEPT ![Home[w]] = @ + 1]
        PROVE  DemandExact'
    <2> SUFFICES ASSUME NEW r \in Runtimes
                 PROVE  demand'[r] = Count(FlexibleOf(r), wants')
      BY <1>4
    <2> QED BY <1>1, <1>5, <1>6
  <1>7. ASSUME ~wants'[w], demand' = DemandAfter(w)
        PROVE  DemandExact' /\ demand' \in [Runtimes -> Nat]
    <2>1. wants[w] => demand[Home[w]] >= 1
      BY DemandRegistered
    <2>2. demand' \in [Runtimes -> Nat]
      BY <1>1, <1>7, <2>1 DEF DemandAfter
    <2> SUFFICES ASSUME NEW r \in Runtimes
                 PROVE  demand'[r] = Count(FlexibleOf(r), wants')
      BY <1>4, <2>2
    <2> QED BY <1>1, <1>5, <1>7 DEF DemandAfter
  <1> QED BY <1>6, <1>7

\* Taking from a lane, and failing the first of it.
LEMMA SequenceFacts ==
    ASSUME NEW s \in Seq(Classes)
    PROVE  /\ s # <<>> => Head(s) \in Classes /\ Tail(s) \in Seq(Classes)
           /\ \A c \in Classes : Append(s, c) \in Seq(Classes)
           /\ \A n \in 1 .. Len(s) : SubSeq(s, n + 1, Len(s)) \in Seq(Classes)
           /\ s = <<>> => Len(s) = 0
           /\ <<>> \in Seq(Classes)
  <1>1. Len(s) \in Nat
    BY LenProperties
  <1>2. s # <<>> => Head(s) \in Classes /\ Tail(s) \in Seq(Classes)
    BY HeadTailProperties
  <1>3. \A c \in Classes : Append(s, c) \in Seq(Classes)
    BY AppendProperties
  <1>4. ASSUME NEW n \in 1 .. Len(s)
        PROVE  SubSeq(s, n + 1, Len(s)) \in Seq(Classes)
    BY <1>1, SubSeqProperties
  <1> QED BY <1>2, <1>3, <1>4, EmptySeq

-----------------------------------------------------------------------------
(* What a step of one thread leaves alone.                                 *)

\* The workers outside W keep what they own.  They may be woken from the permits'
\* condition variable or from their generation, which may move on.
Bystanders(W) ==
    \A v \in Workers \ W :
        /\ job'[v] = job[v] /\ permit'[v] = permit[v] /\ wants'[v] = wants[v]
        /\ ending'[v] = ending[v]
        /\ \/ pc'[v] = pc[v]
           \/ pc[v] = "blocked" /\ pc'[v] = "acquire"
           \/ pc[v] = "asleep" /\ pc'[v] = "undemand"
        /\ fresh'[v] => fresh[v]

\* Nothing of the other workers changes.
Alone(w) ==
    \A v \in Workers \ {w} :
        /\ pc'[v] = pc[v] /\ job'[v] = job[v] /\ permit'[v] = permit[v]
        /\ wants'[v] = wants[v] /\ fresh'[v] = fresh[v] /\ ending'[v] = ending[v]
        /\ calls'[v] = calls[v]

\* A lane that is closed stays closed, and stays empty if it is.
LanesKept ==
    \A r \in Runtimes, l \in Classes :
        (closed[r][l] => closed'[r][l]) /\ (Over(r, l) => Over(r, l)')

\* What made a worker with a current generation pass over the expensive lane is
\* still true.
ReasonsKept ==
    /\ active' \in Nat
    /\ active' >= active \/ \A r \in Runtimes : Rousing(r)'
    /\ \A r \in Runtimes : state'[r] = "OPEN" /\ closing'[r] = "open" =>
          state[r] = "OPEN" /\ closing[r] = "open"
    /\ \A v \in Flexible : fresh'[v] =>
          /\ Unqueued(Home[v]) => Unqueued(Home[v])'
          /\ wants'[v] /\ Rousing(Home[v]) => Rousing(Home[v])'

\* A step that disturbs the others only in these ways is sound if its own workers
\* are.
LEMMA StepKept ==
    ASSUME IInv, NEW W, Bystanders(W), LanesKept, ReasonsKept, \A v \in W : Sound(v)',
           TypeOK', LastInv', LaneInv', PermitsCounted', DemandExact'
    PROVE  IInv'
  <1> USE DEF Releasing, PassedOver, FlexiblePoints, Classes
  <1> SUFFICES ASSUME NEW v \in Workers \ W
               PROVE  Sound(v)'
    BY DEF IInv, WorkerInv
  <1>1. Sound(v) /\ v \in Workers /\ HomeOf(v) \in Runtimes
    BY WorkerFacts DEF IInv, WorkerInv
  <1>2. /\ job'[v] = job[v] /\ permit'[v] = permit[v] /\ wants'[v] = wants[v]
        /\ ending'[v] = ending[v]
        /\ \/ pc'[v] = pc[v]
           \/ pc[v] = "blocked" /\ pc'[v] = "acquire"
           \/ pc[v] = "asleep" /\ pc'[v] = "undemand"
        /\ fresh'[v] => fresh[v]
    BY DEF Bystanders
  <1>3. JobOf(v)' /\ PermitOf(v)' /\ WantsOf(v)'
    BY <1>1, <1>2 DEF Sound, JobOf, PermitOf, WantsOf
  <1>4. EndOf(v)'
    <2>1. /\ \A l \in Classes : Over(HomeOf(v), l) => Over(HomeOf(v), l)'
          /\ closed[HomeOf(v)]["expensive"] => closed'[HomeOf(v)]["expensive"]
      BY <1>1 DEF LanesKept
    <2> HIDE DEF Over
    <2> QED BY <1>1, <1>2, <2>1 DEF Sound, EndOf, HomeOf, JobOf
  <1>5. Passes(v)'
    <2> SUFFICES ASSUME v \in Flexible, fresh'[v],
                        pc'[v] \in PassedOver \cup Releasing \cup {"inspect"}
                 PROVE  Passes(v)'
      BY DEF Passes
    <2>1. pc'[v] = pc[v] /\ fresh[v] /\ Home[v] \in Runtimes /\ Passes(v)
      BY <1>1, <1>2, WorkerFacts DEF Sound
    <2>2. active \in Nat /\ active' \in Nat /\ MaxPermits \in Nat
      BY LanesAssumption DEF IInv, TypeOK, ReasonsKept
    <2> HIDE DEF Unqueued, Rousing
    <2>3. active' >= active \/ Rousing(Home[v])'
      BY <2>1 DEF ReasonsKept
    <2> QED BY <1>2, <2>1, <2>2, <2>3 DEF Passes, ReasonsKept
  <1> QED BY <1>3, <1>4, <1>5 DEF Sound

\* A step of one worker that takes from the lanes at most is sound if the worker
\* is.
LEMMA LocalKept ==
    ASSUME IInv, NEW w \in Workers, Alone(w), Sound(w)', TypeOK', PermitsCounted', DemandExact',
           UNCHANGED <<closed, closing, call>>, active' >= active,
           \A r \in Runtimes : state'[r] = "OPEN" => state[r] = "OPEN",
           \A r \in Runtimes, l \in Classes : q[r][l] = <<>> => q'[r][l] = <<>>,
           \/ pc[w] \notin {"collect", "notify"}
           \/ \A v \in Flexible : wants'[v] => Rousing(Home[v])',
           pc'[w] = "asleep" => fresh'[w]
    PROVE  IInv'
  <1>1. Bystanders({w})
    BY DEF Alone, Bystanders
  <1>2. LanesKept
    BY DEF LanesKept, Over
  <1>3. \A r \in Runtimes : Unqueued(r) => Unqueued(r)'
    BY DEF Unqueued, Classes
  <1>4. ReasonsKept
    <2>1. active' \in Nat
      BY DEF TypeOK
    <2>2. ASSUME pc[w] \notin {"collect", "notify"}, NEW r \in Runtimes, Rousing(r)
          PROVE  Rousing(r)'
      BY <2>2 DEF Alone, Rousing
    <2>3. ASSUME NEW v \in Flexible, wants'[v], Rousing(Home[v])
          PROVE  Rousing(Home[v])'
      BY <2>2, <2>3, WorkerFacts
    <2> HIDE DEF Unqueued, Rousing
    <2> QED BY <1>3, <2>1, <2>3, WorkerFacts DEF ReasonsKept
  <1>5. LastInv'
    <2> SUFFICES ASSUME NEW r \in Runtimes, \E v \in Flexible : Home[v] = r,
                        \A v \in Flexible : Home[v] = r => pc'[v] = "asleep"
                 PROVE  \E v \in Flexible : Home[v] = r /\ fresh'[v]
      BY DEF LastInv
    <2>1. CASE w \in Flexible /\ Home[w] = r
      BY <2>1
    <2>2. CASE ~(w \in Flexible /\ Home[w] = r)
      <3>1. \A v \in Flexible : Home[v] = r => pc'[v] = pc[v] /\ fresh'[v] = fresh[v]
        BY <2>2, WorkerFacts DEF Alone
      <3>2. PICK v \in Flexible : Home[v] = r /\ fresh[v]
        BY <3>1 DEF IInv, LastInv
      <3> QED BY <3>1, <3>2
    <2> QED BY <2>1, <2>2
  <1>6. LaneInv'
    BY <1>3 DEF IInv, LaneInv
  <1>7. \A v \in {w} : Sound(v)'
    OBVIOUS
  <1> QED BY <1>1, <1>2, <1>4, <1>5, <1>6, <1>7, StepKept

\* While no new worker falls asleep and no sleeper's generation moves on without
\* waking it, one that sleeps last has a current generation.
LEMMA LastKept ==
    ASSUME LastInv,
           \A v \in Flexible : pc'[v] = "asleep" => pc[v] = "asleep" /\ (fresh[v] => fresh'[v])
    PROVE  LastInv'
  <1> SUFFICES ASSUME NEW r \in Runtimes, \E v \in Flexible : Home[v] = r,
                      \A v \in Flexible : Home[v] = r => pc'[v] = "asleep"
               PROVE  \E v \in Flexible : Home[v] = r /\ fresh'[v]
    BY DEF LastInv
  <1>1. PICK v \in Flexible : Home[v] = r /\ fresh[v]
    BY DEF LastInv
  <1> QED BY <1>1
-----------------------------------------------------------------------------
(* The steps of the search threads, one lemma for each.                    *)

\* Acquiring a permit counts it; a shut runtime or a deadline ends the wait.
LEMMA AcquireInv ==
    ASSUME IInv, NEW w \in Workers, Acquire(w)
    PROVE  IInv'
  <1> USE DEF Releasing, PassedOver, FlexiblePoints, Classes
  <1>1. /\ pc[w] = "acquire" /\ job[w] = "expensive" /\ ~permit[w] /\ ~wants[w] /\ Sound(w)
        /\ UNCHANGED <<state, q, closed, left, demand, wants, fresh, ending, calls, closing, call>>
    BY DEF IInv, WorkerInv, Sound, JobOf, PermitOf, WantsOf, Acquire
  <1>2. /\ pc \in [Workers -> Points] /\ job \in [Workers -> Jobs]
        /\ permit \in [Workers -> BOOLEAN] /\ active \in Nat
    BY DEF IInv, TypeOK
  <1>3. \/ /\ active < MaxPermits /\ active' = active + 1
           /\ permit' = [permit EXCEPT ![w] = TRUE]
           /\ pc' = [pc EXCEPT ![w] = "exec"] /\ job' = job
        \/ /\ active' = active /\ permit' = permit
           /\ pc' = [pc EXCEPT ![w] = Loop(w)] /\ job' = [job EXCEPT ![w] = "none"]
        \/ /\ active' = active /\ permit' = permit
           /\ pc' = [pc EXCEPT ![w] = "blocked"] /\ job' = job
    BY DEF Acquire, Goto
  <1>4. /\ Loop(w) \in {"pop", "drain", "top"} /\ (Loop(w) = "pop" <=> w \notin Flexible)
        /\ (Loop(w) = "drain" => ending[w])
    BY DEF Loop
  <1>5. TypeOK'
    <2>1. pc' \in [Workers -> Points]
      BY <1>2, <1>3, <1>4 DEF Points
    <2>2. job' \in [Workers -> Jobs]
      BY <1>2, <1>3 DEF Jobs
    <2>3. permit' \in [Workers -> BOOLEAN]
      BY <1>2, <1>3
    <2>4. active' \in Nat
      BY <1>2, <1>3
    <2> QED BY <1>1, <2>1, <2>2, <2>3, <2>4 DEF IInv, TypeOK
  <1>6. Alone(w)
    BY <1>1, <1>2, <1>3, <1>4 DEF Alone
  <1>7. Sound(w)'
    <2>1. JobOf(w)' /\ PermitOf(w)' /\ WantsOf(w)'
      BY <1>1, <1>2, <1>3, <1>4 DEF Sound, JobOf, PermitOf, WantsOf
    <2>2. EndOf(w)'
      BY <1>1, <1>2, <1>3, <1>4, WorkerFacts DEF Sound, EndOf, Over, HomeOf
    <2>3. Passes(w)'
      BY <1>1, <1>2, <1>3, <1>4 DEF Sound, Passes, Unqueued
    <2> QED BY <2>1, <2>2, <2>3 DEF Sound
  <1>8. PermitsCounted'
    BY <1>1, <1>2, <1>3, PermitFacts DEF IInv, PermitsCounted
  <1>9. DemandExact'
    BY <1>1 DEF IInv, DemandExact, FlexibleOf
  <1> QED BY <1>1, <1>2, <1>3, <1>4, <1>5, <1>6, <1>7, <1>8, <1>9, LocalKept

\* A timed wait that ends looks at the permits again.
LEMMA AcquireTimesOutInv ==
    ASSUME IInv, NEW w \in Workers, AcquireTimesOut(w)
    PROVE  IInv'
  <1> USE DEF Releasing, PassedOver, FlexiblePoints, Classes
  <1>1. /\ pc[w] = "blocked" /\ pc' = [pc EXCEPT ![w] = "acquire"] /\ Sound(w)
        /\ UNCHANGED <<state, q, closed, left, active, demand, job, permit, wants, fresh, ending, calls,
                       closing, call>>
    BY DEF IInv, WorkerInv, AcquireTimesOut, Goto
  <1>2. /\ pc \in [Workers -> Points] /\ job \in [Workers -> Jobs] /\ active \in Nat
    BY DEF IInv, TypeOK
  <1>3. TypeOK'
    <2>1. pc' \in [Workers -> Points]
      BY <1>1, <1>2 DEF Points
    <2> QED BY <1>1, <2>1 DEF IInv, TypeOK
  <1>4. Alone(w)
    BY <1>1, <1>2 DEF Alone
  <1>5. Sound(w)'
    <2>1. JobOf(w)' /\ PermitOf(w)' /\ WantsOf(w)'
      BY <1>1, <1>2 DEF Sound, JobOf, PermitOf, WantsOf
    <2>2. EndOf(w)'
      BY <1>1, <1>2, WorkerFacts DEF Sound, EndOf, Over, HomeOf
    <2>3. Passes(w)'
      BY <1>1, <1>2 DEF Sound, Passes, Unqueued
    <2> QED BY <2>1, <2>2, <2>3 DEF Sound
  <1>6. PermitsCounted'
    BY <1>1 DEF IInv, PermitsCounted
  <1>7. DemandExact'
    BY <1>1 DEF IInv, DemandExact, FlexibleOf
  <1> QED BY <1>1, <1>2, <1>3, <1>4, <1>5, <1>6, <1>7, LocalKept

\* A search ends with the permit still in hand, if it needed one.
LEMMA ExecuteInv ==
    ASSUME IInv, NEW w \in Workers, Execute(w)
    PROVE  IInv'
  <1> USE DEF Releasing, PassedOver, FlexiblePoints, Classes
  <1>1. /\ pc[w] = "exec" /\ job[w] \in Classes /\ ~wants[w] /\ Sound(w)
        /\ UNCHANGED <<state, q, closed, left, active, demand, permit, wants, fresh, ending, calls, closing, call>>
    BY DEF IInv, WorkerInv, Sound, JobOf, WantsOf, Execute
  <1>2. /\ pc \in [Workers -> Points] /\ job \in [Workers -> Jobs] /\ active \in Nat
    BY DEF IInv, TypeOK
  <1>3. \/ /\ permit[w] /\ pc' = [pc EXCEPT ![w] = "release"]
           /\ job' = job \/ job' = [job EXCEPT ![w] = "panicked"]
        \/ /\ ~permit[w] /\ pc' = [pc EXCEPT ![w] = Loop(w)] /\ job' = [job EXCEPT ![w] = "none"]
        \/ /\ ~permit[w] /\ pc' = [pc EXCEPT ![w] = "poison"]
           /\ job' = [job EXCEPT ![w] = "panicked"]
    BY <1>2 DEF Execute, Goto
  <1>4. /\ Loop(w) \in {"pop", "drain", "top"} /\ (Loop(w) = "pop" <=> w \notin Flexible)
        /\ (Loop(w) = "drain" => ending[w])
    BY DEF Loop
  <1>5. TypeOK'
    <2>1. pc' \in [Workers -> Points]
      BY <1>2, <1>3, <1>4 DEF Points
    <2>2. job' \in [Workers -> Jobs]
      BY <1>2, <1>3 DEF Jobs
    <2> QED BY <1>1, <2>1, <2>2 DEF IInv, TypeOK
  <1>6. Alone(w)
    BY <1>1, <1>2, <1>3, <1>4 DEF Alone
  <1>7. Sound(w)'
    <2>1. JobOf(w)' /\ PermitOf(w)' /\ WantsOf(w)'
      BY <1>1, <1>2, <1>3, <1>4 DEF Sound, JobOf, PermitOf, WantsOf
    <2>2. EndOf(w)'
      BY <1>1, <1>2, <1>3, <1>4, WorkerFacts DEF Sound, EndOf, Over, HomeOf
    <2>3. Passes(w)'
      BY <1>1, <1>2, <1>3, <1>4 DEF Sound, Passes, Unqueued
    <2> QED BY <2>1, <2>2, <2>3 DEF Sound
  <1>8. PermitsCounted'
    BY <1>1 DEF IInv, PermitsCounted
  <1>9. DemandExact'
    BY <1>1 DEF IInv, DemandExact, FlexibleOf
  <1> QED BY <1>1, <1>2, <1>3, <1>4, <1>5, <1>6, <1>7, <1>8, <1>9, LocalKept

\* A worker that has released a permit finds every runtime with demand, so whoever
\* waits for a permit is about to be woken.
LEMMA CollectWakesInv ==
    ASSUME IInv, NEW w \in Workers, CollectWakes(w)
    PROVE  IInv'
  <1> USE DEF Releasing, PassedOver, FlexiblePoints, Classes
  <1>1. /\ pc[w] = "collect" /\ pc' = [pc EXCEPT ![w] = "notify"] /\ Sound(w)
        /\ calls' = [calls EXCEPT ![w] = {r \in Runtimes : demand[r] > 0}]
        /\ UNCHANGED <<state, q, closed, left, active, demand, job, permit, wants, fresh, ending, closing, call>>
    BY DEF IInv, WorkerInv, CollectWakes, Demanding, Goto
  <1>2. pc \in [Workers -> Points] /\ calls \in [Workers -> SUBSET Runtimes] /\ active \in Nat
    BY DEF IInv, TypeOK
  <1>3. ASSUME NEW v \in Flexible, wants[v]
        PROVE  Rousing(Home[v])'
    <2>1. demand[Home[v]] >= 1 /\ Home[v] \in Runtimes /\ demand \in [Runtimes -> Nat]
      BY <1>3, WorkerFacts, DemandRegistered DEF IInv, TypeOK
    <2>2. pc'[w] = "notify" /\ Home[v] \in calls'[w]
      BY <1>1, <1>2, <2>1
    <2> QED BY <2>2 DEF Rousing
  <1>4. TypeOK'
    <2>1. pc' \in [Workers -> Points]
      BY <1>1, <1>2 DEF Points
    <2>2. calls' \in [Workers -> SUBSET Runtimes]
      BY <1>1, <1>2
    <2> QED BY <1>1, <2>1, <2>2 DEF IInv, TypeOK
  <1>5. Alone(w)
    BY <1>1, <1>2 DEF Alone
  <1>6. Sound(w)'
    <2>1. JobOf(w)' /\ PermitOf(w)' /\ WantsOf(w)'
      BY <1>1, <1>2 DEF Sound, JobOf, PermitOf, WantsOf
    <2>2. EndOf(w)'
      BY <1>1, <1>2 DEF Sound, EndOf, Over
    <2>3. Passes(w)'
      BY <1>1, <1>2 DEF Sound, Passes, Unqueued
    <2> QED BY <2>1, <2>2, <2>3 DEF Sound
  <1>7. PermitsCounted'
    BY <1>1 DEF IInv, PermitsCounted
  <1>8. DemandExact'
    BY <1>1 DEF IInv, DemandExact, FlexibleOf
  <1> QED BY <1>1, <1>2, <1>3, <1>4, <1>5, <1>6, <1>7, <1>8, LocalKept

\* A panic poisons the runtime.
LEMMA PoisonInv ==
    ASSUME IInv, NEW w \in Workers, Poison(w)
    PROVE  IInv'
  <1> USE DEF Releasing, PassedOver, FlexiblePoints, Classes
  <1>1. /\ pc[w] = "poison" /\ pc' = [pc EXCEPT ![w] = "tell"] /\ job' = [job EXCEPT ![w] = "none"]
        /\ state' = [state EXCEPT ![HomeOf(w)] = "POISONED"] /\ Sound(w)
        /\ UNCHANGED <<q, closed, left, active, demand, permit, wants, fresh, ending, calls, closing, call>>
    BY DEF IInv, WorkerInv, Poison, Goto
  <1>2. /\ pc \in [Workers -> Points] /\ job \in [Workers -> Jobs] /\ active \in Nat
        /\ state \in [Runtimes -> {"OPEN", "CLOSING", "POISONED"}] /\ HomeOf(w) \in Runtimes
    BY WorkerFacts DEF IInv, TypeOK
  <1>3. TypeOK'
    <2>1. pc' \in [Workers -> Points]
      BY <1>1, <1>2 DEF Points
    <2>2. job' \in [Workers -> Jobs]
      BY <1>1, <1>2 DEF Jobs
    <2>3. state' \in [Runtimes -> {"OPEN", "CLOSING", "POISONED"}]
      BY <1>1, <1>2
    <2> QED BY <1>1, <2>1, <2>2, <2>3 DEF IInv, TypeOK
  <1>4. Alone(w)
    BY <1>1, <1>2 DEF Alone
  <1>5. Sound(w)'
    <2>1. JobOf(w)' /\ PermitOf(w)' /\ WantsOf(w)'
      BY <1>1, <1>2 DEF Sound, JobOf, PermitOf, WantsOf
    <2>2. EndOf(w)'
      BY <1>1, <1>2, WorkerFacts DEF Sound, EndOf, Over, HomeOf
    <2>3. Passes(w)'
      BY <1>1, <1>2 DEF Sound, Passes, Unqueued
    <2> QED BY <2>1, <2>2, <2>3 DEF Sound
  <1>6. PermitsCounted'
    BY <1>1 DEF IInv, PermitsCounted
  <1>7. DemandExact'
    BY <1>1 DEF IInv, DemandExact, FlexibleOf
  <1> QED BY <1>1, <1>2, <1>3, <1>4, <1>5, <1>6, <1>7, LocalKept

\* The ordinary worker takes a command; an expensive one only waits for a permit.
LEMMA PopInv ==
    ASSUME IInv, NEW w \in Runtimes, Pop(w)
    PROVE  IInv'
  <1> USE DEF Releasing, PassedOver, FlexiblePoints, Classes
  <1>1. /\ pc[w] = "pop" /\ w \notin Flexible /\ ~wants[w] /\ ~permit[w] /\ Sound(w)
        /\ q[w]["ordinary"] # <<>> /\ q' = [q EXCEPT ![w]["ordinary"] = Tail(@)]
        /\ UNCHANGED <<state, closed, left, active, demand, permit, wants, fresh, ending, calls, closing, call>>
    BY WorkerFacts DEF IInv, WorkerInv, Sound, WantsOf, PermitOf, Pop
  <1>2. /\ pc \in [Workers -> Points] /\ job \in [Workers -> Jobs] /\ active \in Nat
        /\ q \in [Runtimes -> [Classes -> Seq(Classes)]]
    BY DEF IInv, TypeOK
  <1>3. Head(q[w]["ordinary"]) \in Classes /\ Tail(q[w]["ordinary"]) \in Seq(Classes)
    BY <1>1, <1>2, SequenceFacts
  <1>4. \E c \in Classes : /\ job' = [job EXCEPT ![w] = c]
                            /\ pc' = [pc EXCEPT ![w] = IF c = "expensive" THEN "acquire" ELSE "exec"]
    BY <1>3 DEF Pop, Goto
  <1>5. /\ q' \in [Runtimes -> [Classes -> Seq(Classes)]]
        /\ \A r \in Runtimes, l \in Classes : q[r][l] = <<>> => q'[r][l] = <<>>
    BY <1>1, <1>2, <1>3, LaneFacts, SMTT(40)
  <1>6. TypeOK'
    <2>1. pc' \in [Workers -> Points]
      BY <1>2, <1>4 DEF Points
    <2>2. job' \in [Workers -> Jobs]
      BY <1>2, <1>4 DEF Jobs
    <2>3. q' \in [Runtimes -> [Classes -> Seq(Classes)]]
      BY <1>5
    <2> QED BY <1>1, <2>1, <2>2, <2>3 DEF IInv, TypeOK
  <1>7. Alone(w)
    BY <1>1, <1>2, <1>4 DEF Alone
  <1>8. Sound(w)'
    <2>1. JobOf(w)' /\ PermitOf(w)' /\ WantsOf(w)'
      BY <1>1, <1>2, <1>4 DEF Sound, JobOf, PermitOf, WantsOf
    <2>2. EndOf(w)'
      BY <1>1, <1>2, <1>4 DEF Sound, EndOf
    <2>3. Passes(w)'
      BY <1>1 DEF Passes
    <2> QED BY <2>1, <2>2, <2>3 DEF Sound
  <1>9. PermitsCounted'
    BY <1>1 DEF IInv, PermitsCounted
  <1>10. DemandExact'
    BY <1>1 DEF IInv, DemandExact, FlexibleOf
  <1>11. /\ w \in Workers /\ UNCHANGED <<closed, closing, call>> /\ active' >= active /\ pc'[w] # "asleep"
        /\ pc[w] \notin {"collect", "notify"} /\ \A r \in Runtimes : state'[r] = "OPEN" => state[r] = "OPEN"
    BY <1>1, <1>2, <1>3, <1>4, <1>5, WorkerFacts
  <1> QED BY <1>5, <1>6, <1>7, <1>8, <1>9, <1>10, <1>11, LocalKept

\* The ordinary worker ends when its lane is closed and empty.
LEMMA PopEndsInv ==
    ASSUME IInv, NEW w \in Runtimes, PopEnds(w)
    PROVE  IInv'
  <1> USE DEF Releasing, PassedOver, FlexiblePoints, Classes
  <1>1. /\ pc[w] = "pop" /\ w \notin Flexible /\ pc' = [pc EXCEPT ![w] = "done"] /\ Sound(w)
        /\ Over(w, "ordinary") /\ Over(w, "ordinary")'
        /\ UNCHANGED <<state, q, closed, left, active, demand, job, permit, wants, fresh, ending, calls,
                       closing, call>>
    BY WorkerFacts DEF IInv, WorkerInv, PopEnds, Goto, Over
  <1>2. /\ pc \in [Workers -> Points] /\ job \in [Workers -> Jobs] /\ active \in Nat
    BY DEF IInv, TypeOK
  <1>3. TypeOK'
    <2>1. pc' \in [Workers -> Points]
      BY <1>1, <1>2 DEF Points
    <2> QED BY <1>1, <2>1 DEF IInv, TypeOK
  <1>4. Alone(w)
    BY <1>1, <1>2 DEF Alone
  <1>5. Sound(w)'
    <2>1. JobOf(w)' /\ PermitOf(w)' /\ WantsOf(w)'
      BY <1>1, <1>2 DEF Sound, JobOf, PermitOf, WantsOf
    <2>2. EndOf(w)'
      BY <1>1, <1>2, WorkerFacts DEF Sound, EndOf, Over, HomeOf
    <2>3. Passes(w)'
      BY <1>1, <1>2 DEF Sound, Passes, Unqueued
    <2> QED BY <2>1, <2>2, <2>3 DEF Sound
  <1>6. PermitsCounted'
    BY <1>1 DEF IInv, PermitsCounted
  <1>7. DemandExact'
    BY <1>1 DEF IInv, DemandExact, FlexibleOf
  <1> QED BY <1>1, <1>2, <1>3, <1>4, <1>5, <1>6, <1>7, WorkerFacts, LocalKept

\* A round begins with the current generation.
LEMMA SnapshotInv ==
    ASSUME IInv, NEW w \in Flexible, Snapshot(w)
    PROVE  IInv'
  <1> USE DEF Releasing, PassedOver, FlexiblePoints, Classes
  <1>1. /\ pc[w] = "top" /\ pc' = [pc EXCEPT ![w] = "summary"] /\ Sound(w)
        /\ fresh' = [fresh EXCEPT ![w] = TRUE]
        /\ UNCHANGED <<state, q, closed, left, active, demand, job, permit, wants, ending, calls, closing, call>>
    BY WorkerFacts DEF IInv, WorkerInv, Snapshot, Goto
  <1>2. /\ pc \in [Workers -> Points] /\ job \in [Workers -> Jobs] /\ active \in Nat
        /\ fresh \in [Workers -> BOOLEAN] /\ w \in Workers /\ Home[w] \in Runtimes
    BY WorkerFacts DEF IInv, TypeOK
  <1>3. TypeOK'
    <2>1. pc' \in [Workers -> Points]
      BY <1>1, <1>2 DEF Points
    <2>2. fresh' \in [Workers -> BOOLEAN]
      BY <1>1, <1>2
    <2> QED BY <1>1, <2>1, <2>2 DEF IInv, TypeOK
  <1>4. Alone(w)
    BY <1>1, <1>2 DEF Alone
  <1>5. Sound(w)'
    <2>1. JobOf(w)' /\ PermitOf(w)' /\ WantsOf(w)'
      BY <1>1, <1>2 DEF Sound, JobOf, PermitOf, WantsOf
    <2>2. EndOf(w)'
      BY <1>1, <1>2, WorkerFacts DEF Sound, EndOf, Over, HomeOf
    <2>3. Passes(w)'
      BY <1>1, <1>2 DEF Sound, Passes, Unqueued
    <2> QED BY <2>1, <2>2, <2>3 DEF Sound
  <1>6. PermitsCounted'
    BY <1>1 DEF IInv, PermitsCounted
  <1>7. DemandExact'
    BY <1>1 DEF IInv, DemandExact, FlexibleOf
  <1> QED BY <1>1, <1>2, <1>3, <1>4, <1>5, <1>6, <1>7, WorkerFacts, LocalKept

\* The round reads whether the expensive lane is closed and whether it holds a command.
LEMMA SummaryInv ==
    ASSUME IInv, NEW w \in Flexible, Summary(w)
    PROVE  IInv'
  <1> USE DEF Releasing, PassedOver, FlexiblePoints, Classes
  <1>1. /\ pc[w] = "summary" /\ ~wants[w] /\ Sound(w)
        /\ \/ pc' = [pc EXCEPT ![w] = "demand"]
           \/ pc' = [pc EXCEPT ![w] = "steal"] /\ Unqueued(Home[w])
        /\ ending' = [ending EXCEPT ![w] = closed[Home[w]]["expensive"]]
        /\ UNCHANGED <<state, q, closed, left, active, demand, job, permit, wants, fresh, calls, closing, call>>
    BY WorkerFacts DEF IInv, WorkerInv, Sound, WantsOf, Summary, Goto, Unqueued
  <1>2. /\ pc \in [Workers -> Points] /\ active \in Nat /\ ending \in [Workers -> BOOLEAN]
        /\ closed \in [Runtimes -> [Classes -> BOOLEAN]] /\ w \in Workers /\ Home[w] \in Runtimes
    BY WorkerFacts DEF IInv, TypeOK
  <1>3. TypeOK'
    <2>1. pc' \in [Workers -> Points]
      BY <1>1, <1>2 DEF Points
    <2>2. ending' \in [Workers -> BOOLEAN]
      BY <1>1, <1>2
    <2> QED BY <1>1, <2>1, <2>2 DEF IInv, TypeOK
  <1>4. Alone(w)
    BY <1>1, <1>2 DEF Alone
  <1>5. Sound(w)'
    <2>1. JobOf(w)' /\ PermitOf(w)' /\ WantsOf(w)'
      BY <1>1, <1>2 DEF Sound, JobOf, PermitOf, WantsOf
    <2>2. EndOf(w)'
      BY <1>1, <1>2, WorkerFacts DEF Sound, EndOf, Over, HomeOf
    <2>3. Passes(w)'
      BY <1>1, <1>2 DEF Sound, Passes, Unqueued
    <2> QED BY <2>1, <2>2, <2>3 DEF Sound
  <1>6. PermitsCounted'
    BY <1>1 DEF IInv, PermitsCounted
  <1>7. DemandExact'
    BY <1>1 DEF IInv, DemandExact, FlexibleOf
  <1> QED BY <1>1, <1>2, <1>3, <1>4, <1>5, <1>6, <1>7, WorkerFacts, LocalKept

\* A worker that needs a permit registers its runtime.
LEMMA RegisterDemandInv ==
    ASSUME IInv, NEW w \in Flexible, RegisterDemand(w)
    PROVE  IInv'
  <1> USE DEF Releasing, PassedOver, FlexiblePoints, Classes
  <1>1. /\ pc[w] = "demand" /\ pc' = [pc EXCEPT ![w] = "permit"] /\ ~wants[w] /\ Sound(w)
        /\ wants' = [wants EXCEPT ![w] = TRUE] /\ demand' = [demand EXCEPT ![Home[w]] = @ + 1]
        /\ UNCHANGED <<state, q, closed, left, active, job, permit, fresh, ending, calls, closing, call>>
    BY WorkerFacts DEF IInv, WorkerInv, Sound, WantsOf, RegisterDemand, Goto
  <1>2. /\ pc \in [Workers -> Points] /\ active \in Nat /\ wants \in [Workers -> BOOLEAN]
        /\ demand \in [Runtimes -> Nat] /\ w \in Workers /\ Home[w] \in Runtimes
    BY WorkerFacts DEF IInv, TypeOK
  <1>3. wants' \in [Workers -> BOOLEAN] /\ wants'[w] /\ \A v \in Workers : v # w => wants'[v] = wants[v]
    BY <1>1, <1>2
  <1>4. TypeOK'
    <2>1. pc' \in [Workers -> Points]
      BY <1>1, <1>2 DEF Points
    <2>2. wants' \in [Workers -> BOOLEAN]
      BY <1>3
    <2>3. demand' \in [Runtimes -> Nat]
      BY <1>1, <1>2
    <2> QED BY <1>1, <2>1, <2>2, <2>3 DEF IInv, TypeOK
  <1>5. Alone(w)
    BY <1>1, <1>2, <1>3 DEF Alone
  <1>6. Sound(w)'
    <2>1. JobOf(w)' /\ PermitOf(w)' /\ WantsOf(w)'
      BY <1>1, <1>2, <1>3 DEF Sound, JobOf, PermitOf, WantsOf
    <2>2. EndOf(w)'
      BY <1>1, <1>2, <1>3, WorkerFacts DEF Sound, EndOf, Over, HomeOf
    <2>3. Passes(w)'
      BY <1>1, <1>2, <1>3 DEF Sound, Passes, Unqueued
    <2> QED BY <2>1, <2>2, <2>3 DEF Sound
  <1>7. PermitsCounted'
    BY <1>1 DEF IInv, PermitsCounted
  <1>8. DemandExact'
    BY <1>1, <1>3, DemandFacts DEF IInv
  <1> QED BY <1>1, <1>2, <1>3, <1>4, <1>5, <1>6, <1>7, <1>8, WorkerFacts, LocalKept

\* A worker of an open runtime that gets no permit has seen all of them out.
LEMMA TryPermitInv ==
    ASSUME IInv, NEW w \in Flexible, TryPermit(w)
    PROVE  IInv'
  <1> USE DEF Releasing, PassedOver, FlexiblePoints, Classes
  <1>1. /\ pc[w] = "permit" /\ ~permit[w] /\ wants[w] /\ Sound(w)
        /\ UNCHANGED <<state, q, closed, left, demand, job, wants, fresh, ending, calls, closing, call>>
    BY WorkerFacts DEF IInv, WorkerInv, Sound, PermitOf, WantsOf, TryPermit
  <1>2. /\ pc \in [Workers -> Points] /\ permit \in [Workers -> BOOLEAN] /\ active \in Nat
        /\ MaxPermits \in Nat /\ w \in Workers /\ HomeOf(w) = Home[w]
    BY LanesAssumption, WorkerFacts DEF IInv, TypeOK
  <1>3. \/ /\ active < MaxPermits /\ active' = active + 1
           /\ permit' = [permit EXCEPT ![w] = TRUE] /\ pc' = [pc EXCEPT ![w] = "take"]
        \/ /\ state[Home[w]] = "OPEN" => active >= MaxPermits
           /\ active' = active /\ permit' = permit /\ pc' = [pc EXCEPT ![w] = "inspect"]
    BY <1>2 DEF TryPermit, PermitFree, Goto
  <1>4. TypeOK'
    <2>1. pc' \in [Workers -> Points]
      BY <1>2, <1>3 DEF Points
    <2>2. permit' \in [Workers -> BOOLEAN]
      BY <1>2, <1>3
    <2>3. active' \in Nat
      BY <1>2, <1>3
    <2> QED BY <1>1, <2>1, <2>2, <2>3 DEF IInv, TypeOK
  <1>5. Alone(w)
    BY <1>1, <1>2, <1>3 DEF Alone
  <1>6. Sound(w)'
    <2>1. JobOf(w)' /\ PermitOf(w)' /\ WantsOf(w)'
      BY <1>1, <1>2, <1>3 DEF Sound, JobOf, PermitOf, WantsOf
    <2>2. EndOf(w)'
      BY <1>1, <1>2, <1>3, WorkerFacts DEF Sound, EndOf, Over, HomeOf
    <2>3. Passes(w)'
      BY <1>1, <1>2, <1>3 DEF Sound, Passes, Unqueued
    <2> QED BY <2>1, <2>2, <2>3 DEF Sound
  <1>7. PermitsCounted'
    BY <1>1, <1>2, <1>3, PermitFacts DEF IInv, PermitsCounted
  <1>8. DemandExact'
    BY <1>1 DEF IInv, DemandExact, FlexibleOf
  <1> QED BY <1>1, <1>2, <1>3, <1>4, <1>5, <1>6, <1>7, <1>8, WorkerFacts, LocalKept

\* A worker with a permit takes an expensive search, or finds the lane empty.
LEMMA TakeInv ==
    ASSUME IInv, NEW w \in Flexible, Take(w)
    PROVE  IInv'
  <1> USE DEF Releasing, PassedOver, FlexiblePoints, Classes
  <1>1. /\ pc[w] = "take" /\ permit[w] /\ wants[w] /\ job[w] = "none" /\ Sound(w)
        /\ UNCHANGED <<state, closed, left, active, demand, permit, wants, fresh, ending, calls, closing, call>>
    BY WorkerFacts DEF IInv, WorkerInv, Sound, JobOf, WantsOf, PermitOf, Take
  <1>2. /\ pc \in [Workers -> Points] /\ job \in [Workers -> Jobs] /\ active \in Nat
        /\ q \in [Runtimes -> [Classes -> Seq(Classes)]] /\ w \in Workers
        /\ Home[w] \in Runtimes
    BY WorkerFacts DEF IInv, TypeOK
  <1>3. q[Home[w]]["expensive"] # <<>> => Tail(q[Home[w]]["expensive"]) \in Seq(Classes)
    BY <1>2, SequenceFacts
  <1>4. \/ /\ q[Home[w]]["expensive"] # <<>> /\ q' = [q EXCEPT ![Home[w]]["expensive"] = Tail(@)]
           /\ job' = [job EXCEPT ![w] = "expensive"] /\ pc' = [pc EXCEPT ![w] = "undemand"]
        \/ /\ q' = q /\ job' = job /\ pc' = [pc EXCEPT ![w] = "release"] /\ Unqueued(Home[w])
    BY DEF Take, Goto, Unqueued
  <1>5. /\ q' \in [Runtimes -> [Classes -> Seq(Classes)]]
        /\ \A r \in Runtimes, k \in Classes : q[r][k] = <<>> => q'[r][k] = <<>>
    <2>1. CASE q' = q
      BY <1>2, <2>1
    <2>2. CASE q[Home[w]]["expensive"] # <<>> /\ q' = [q EXCEPT ![Home[w]]["expensive"] = Tail(@)]
      BY <1>2, <1>3, <2>2, LaneFacts, SMTT(40)
    <2> QED BY <1>4, <2>1, <2>2
  <1>6. /\ Unqueued(Home[w]) => Unqueued(Home[w])'
        /\ Over(Home[w], "expensive") => Over(Home[w], "expensive")'
    BY <1>1, <1>2, <1>5 DEF Unqueued, Over
  <1>7. TypeOK'
    <2>1. pc' \in [Workers -> Points]
      BY <1>2, <1>4 DEF Points
    <2>2. job' \in [Workers -> Jobs]
      BY <1>2, <1>4 DEF Jobs
    <2>3. q' \in [Runtimes -> [Classes -> Seq(Classes)]]
      BY <1>5
    <2> QED BY <1>1, <2>1, <2>2, <2>3 DEF IInv, TypeOK
  <1>8. Alone(w)
    BY <1>1, <1>2, <1>4 DEF Alone
  <1>9. Sound(w)'
    <2>1. JobOf(w)' /\ PermitOf(w)' /\ WantsOf(w)'
      BY <1>1, <1>2, <1>4 DEF Sound, JobOf, PermitOf, WantsOf
    <2>2. EndOf(w)'
      BY <1>1, <1>2, <1>4, <1>6, WorkerFacts DEF Sound, EndOf, HomeOf
    <2>3. Passes(w)'
      BY <1>1, <1>2, <1>4, <1>6 DEF Sound, Passes
    <2> QED BY <2>1, <2>2, <2>3 DEF Sound
  <1>10. PermitsCounted'
    BY <1>1 DEF IInv, PermitsCounted
  <1>11. DemandExact'
    BY <1>1 DEF IInv, DemandExact, FlexibleOf
  <1>12. /\ w \in Workers /\ UNCHANGED <<closed, closing, call>> /\ active' >= active /\ pc'[w] # "asleep"
        /\ pc[w] \notin {"collect", "notify"} /\ \A r \in Runtimes : state'[r] = "OPEN" => state[r] = "OPEN"
    BY <1>1, <1>2, <1>3, <1>4, <1>5, <1>6, WorkerFacts
  <1> QED BY <1>5, <1>7, <1>8, <1>9, <1>10, <1>11, <1>12, LocalKept

\* A worker takes an ordinary search, or keeps its reason to pass over the other lane.
LEMMA StealInv ==
    ASSUME IInv, NEW w \in Flexible, Steal(w)
    PROVE  IInv'
  <1> USE DEF Releasing, PassedOver, FlexiblePoints, Classes
  <1>1. /\ pc[w] = "steal" /\ ~permit[w] /\ job[w] = "none" /\ Sound(w)
        /\ UNCHANGED <<state, closed, left, active, demand, permit, wants, fresh, ending, calls, closing, call>>
    BY WorkerFacts DEF IInv, WorkerInv, Sound, JobOf, WantsOf, PermitOf, Steal
  <1>2. /\ pc \in [Workers -> Points] /\ job \in [Workers -> Jobs] /\ active \in Nat
        /\ q \in [Runtimes -> [Classes -> Seq(Classes)]] /\ w \in Workers
        /\ Home[w] \in Runtimes
    BY WorkerFacts DEF IInv, TypeOK
  <1>3. q[Home[w]]["ordinary"] # <<>> => Tail(q[Home[w]]["ordinary"]) \in Seq(Classes)
    BY <1>2, SequenceFacts
  <1>4. \/ /\ q[Home[w]]["ordinary"] # <<>> /\ q' = [q EXCEPT ![Home[w]]["ordinary"] = Tail(@)]
           /\ job' = [job EXCEPT ![w] = "ordinary"] /\ pc' = [pc EXCEPT ![w] = "undemand"]
        \/ /\ q' = q /\ job' = job /\ pc' = [pc EXCEPT ![w] = "rescue"]
    BY DEF Steal, Goto
  <1>5. /\ q' \in [Runtimes -> [Classes -> Seq(Classes)]]
        /\ \A r \in Runtimes, k \in Classes : q[r][k] = <<>> => q'[r][k] = <<>>
    <2>1. CASE q' = q
      BY <1>2, <2>1
    <2>2. CASE q[Home[w]]["ordinary"] # <<>> /\ q' = [q EXCEPT ![Home[w]]["ordinary"] = Tail(@)]
      BY <1>2, <1>3, <2>2, LaneFacts, SMTT(40)
    <2> QED BY <1>4, <2>1, <2>2
  <1>6. /\ Unqueued(Home[w]) => Unqueued(Home[w])'
        /\ Over(Home[w], "expensive") => Over(Home[w], "expensive")'
    BY <1>1, <1>2, <1>5 DEF Unqueued, Over
  <1>7. TypeOK'
    <2>1. pc' \in [Workers -> Points]
      BY <1>2, <1>4 DEF Points
    <2>2. job' \in [Workers -> Jobs]
      BY <1>2, <1>4 DEF Jobs
    <2>3. q' \in [Runtimes -> [Classes -> Seq(Classes)]]
      BY <1>5
    <2> QED BY <1>1, <2>1, <2>2, <2>3 DEF IInv, TypeOK
  <1>8. Alone(w)
    BY <1>1, <1>2, <1>4 DEF Alone
  <1>9. Sound(w)'
    <2>1. JobOf(w)' /\ PermitOf(w)' /\ WantsOf(w)'
      BY <1>1, <1>2, <1>4 DEF Sound, JobOf, PermitOf, WantsOf
    <2>2. EndOf(w)'
      BY <1>1, <1>2, <1>4, <1>6, WorkerFacts DEF Sound, EndOf, HomeOf
    <2>3. Passes(w)'
      <3>1. Rousing(Home[w]) => Rousing(Home[w])'
        BY <1>1, <1>2, <1>4 DEF Rousing
      <3> HIDE DEF Rousing
      <3> QED BY <1>1, <1>2, <1>4, <1>6, <3>1 DEF Sound, Passes
    <2> QED BY <2>1, <2>2, <2>3 DEF Sound
  <1>10. PermitsCounted'
    BY <1>1 DEF IInv, PermitsCounted
  <1>11. DemandExact'
    BY <1>1 DEF IInv, DemandExact, FlexibleOf
  <1>12. /\ w \in Workers /\ UNCHANGED <<closed, closing, call>> /\ active' >= active /\ pc'[w] # "asleep"
        /\ pc[w] \notin {"collect", "notify"} /\ \A r \in Runtimes : state'[r] = "OPEN" => state[r] = "OPEN"
    BY <1>1, <1>2, <1>3, <1>4, <1>5, <1>6, WorkerFacts
  <1> QED BY <1>5, <1>7, <1>8, <1>9, <1>10, <1>11, <1>12, LocalKept

\* The search of a shut runtime is taken without a permit; a worker ends its round
\* or its loop only when the expensive lane gives it no such search.
LEMMA RescueInv ==
    ASSUME IInv, NEW w \in Flexible, Rescue(w)
    PROVE  IInv'
  <1> USE DEF Releasing, PassedOver, FlexiblePoints, Classes
  <1>1. /\ pc[w] = "rescue" /\ ~permit[w] /\ job[w] = "none" /\ Sound(w)
        /\ UNCHANGED <<state, closed, left, active, demand, permit, wants, fresh, ending, calls, closing, call>>
    BY WorkerFacts DEF IInv, WorkerInv, Sound, JobOf, WantsOf, PermitOf, Rescue
  <1>2. /\ pc \in [Workers -> Points] /\ job \in [Workers -> Jobs] /\ active \in Nat
        /\ q \in [Runtimes -> [Classes -> Seq(Classes)]] /\ w \in Workers
        /\ Home[w] \in Runtimes
    BY WorkerFacts DEF IInv, TypeOK
  <1>3. q[Home[w]]["expensive"] # <<>> => Tail(q[Home[w]]["expensive"]) \in Seq(Classes)
    BY <1>2, SequenceFacts
  <1>4. \/ /\ q[Home[w]]["expensive"] # <<>> /\ q' = [q EXCEPT ![Home[w]]["expensive"] = Tail(@)]
           /\ job' = [job EXCEPT ![w] = "expensive"] /\ pc' = [pc EXCEPT ![w] = "undemand"]
        \/ /\ q' = q /\ job' = job /\ (state[Home[w]] = "OPEN" \/ Unqueued(Home[w]))
           /\ pc' = [pc EXCEPT ![w] = IF ending[w] THEN "undemand" ELSE "sleep"]
    BY DEF Rescue, Rescues, Goto, Unqueued
  <1>5. /\ q' \in [Runtimes -> [Classes -> Seq(Classes)]]
        /\ \A r \in Runtimes, k \in Classes : q[r][k] = <<>> => q'[r][k] = <<>>
    <2>1. CASE q' = q
      BY <1>2, <2>1
    <2>2. CASE q[Home[w]]["expensive"] # <<>> /\ q' = [q EXCEPT ![Home[w]]["expensive"] = Tail(@)]
      BY <1>2, <1>3, <2>2, LaneFacts, SMTT(40)
    <2> QED BY <1>4, <2>1, <2>2
  <1>6. /\ Unqueued(Home[w]) => Unqueued(Home[w])'
        /\ Over(Home[w], "expensive") => Over(Home[w], "expensive")'
    BY <1>1, <1>2, <1>5 DEF Unqueued, Over
  <1>7. TypeOK'
    <2>1. pc' \in [Workers -> Points]
      BY <1>2, <1>4 DEF Points
    <2>2. job' \in [Workers -> Jobs]
      BY <1>2, <1>4 DEF Jobs
    <2>3. q' \in [Runtimes -> [Classes -> Seq(Classes)]]
      BY <1>5
    <2> QED BY <1>1, <2>1, <2>2, <2>3 DEF IInv, TypeOK
  <1>8. Alone(w)
    BY <1>1, <1>2, <1>4 DEF Alone
  <1>9. Sound(w)'
    <2>1. JobOf(w)' /\ PermitOf(w)' /\ WantsOf(w)'
      BY <1>1, <1>2, <1>4 DEF Sound, JobOf, PermitOf, WantsOf
    <2>2. EndOf(w)'
      <3>1. /\ closed[Home[w]]["expensive"] => Unqueued(Home[w]) \/ closing[Home[w]] = "over"
            /\ closing[Home[w]] = "over" => state[Home[w]] # "OPEN"
        BY <1>2 DEF IInv, LaneInv
      <3>2. closed[Home[w]]["expensive"] /\ Unqueued(Home[w]) => Over(Home[w], "expensive")
        BY DEF Over, Unqueued
      <3> QED BY <1>1, <1>2, <1>4, <1>6, <3>1, <3>2, WorkerFacts DEF Sound, EndOf, HomeOf
    <2>3. Passes(w)'
      <3>1. Rousing(Home[w]) => Rousing(Home[w])'
        BY <1>1, <1>2, <1>4 DEF Rousing
      <3> HIDE DEF Rousing
      <3> QED BY <1>1, <1>2, <1>4, <1>6, <3>1 DEF Sound, Passes
    <2> QED BY <2>1, <2>2, <2>3 DEF Sound
  <1>10. PermitsCounted'
    BY <1>1 DEF IInv, PermitsCounted
  <1>11. DemandExact'
    BY <1>1 DEF IInv, DemandExact, FlexibleOf
  <1>12. /\ w \in Workers /\ UNCHANGED <<closed, closing, call>> /\ active' >= active /\ pc'[w] # "asleep"
        /\ pc[w] \notin {"collect", "notify"} /\ \A r \in Runtimes : state'[r] = "OPEN" => state[r] = "OPEN"
    BY <1>1, <1>2, <1>3, <1>4, <1>5, <1>6, WorkerFacts
  <1> QED BY <1>5, <1>7, <1>8, <1>9, <1>10, <1>11, <1>12, LocalKept

\* A worker that drains ends when the ordinary lane is closed and empty, too.
LEMMA DrainInv ==
    ASSUME IInv, NEW w \in Flexible, Drain(w)
    PROVE  IInv'
  <1> USE DEF Releasing, PassedOver, FlexiblePoints, Classes
  <1>1. /\ pc[w] = "drain" /\ ~permit[w] /\ ~wants[w] /\ job[w] = "none" /\ Sound(w)
        /\ UNCHANGED <<state, closed, left, active, demand, permit, wants, fresh, ending, calls, closing, call>>
    BY WorkerFacts DEF IInv, WorkerInv, Sound, JobOf, WantsOf, PermitOf, Drain
  <1>2. /\ pc \in [Workers -> Points] /\ job \in [Workers -> Jobs] /\ active \in Nat
        /\ q \in [Runtimes -> [Classes -> Seq(Classes)]] /\ w \in Workers
        /\ Home[w] \in Runtimes
    BY WorkerFacts DEF IInv, TypeOK
  <1>3. q[Home[w]]["ordinary"] # <<>> => Tail(q[Home[w]]["ordinary"]) \in Seq(Classes)
    BY <1>2, SequenceFacts
  <1>4. \/ /\ q[Home[w]]["ordinary"] # <<>> /\ q' = [q EXCEPT ![Home[w]]["ordinary"] = Tail(@)]
           /\ job' = [job EXCEPT ![w] = "ordinary"] /\ pc' = [pc EXCEPT ![w] = "exec"]
        \/ /\ q' = q /\ job' = job /\ pc' = [pc EXCEPT ![w] = "done"]
    BY DEF Drain, Goto
  <1>5. /\ q' \in [Runtimes -> [Classes -> Seq(Classes)]]
        /\ \A r \in Runtimes, k \in Classes : q[r][k] = <<>> => q'[r][k] = <<>>
    <2>1. CASE q' = q
      BY <1>2, <2>1
    <2>2. CASE q[Home[w]]["ordinary"] # <<>> /\ q' = [q EXCEPT ![Home[w]]["ordinary"] = Tail(@)]
      BY <1>2, <1>3, <2>2, LaneFacts, SMTT(40)
    <2> QED BY <1>4, <2>1, <2>2
  <1>6. /\ Unqueued(Home[w]) => Unqueued(Home[w])'
        /\ Over(Home[w], "expensive") => Over(Home[w], "expensive")'
    BY <1>1, <1>2, <1>5 DEF Unqueued, Over
  <1>7. TypeOK'
    <2>1. pc' \in [Workers -> Points]
      BY <1>2, <1>4 DEF Points
    <2>2. job' \in [Workers -> Jobs]
      BY <1>2, <1>4 DEF Jobs
    <2>3. q' \in [Runtimes -> [Classes -> Seq(Classes)]]
      BY <1>5
    <2> QED BY <1>1, <2>1, <2>2, <2>3 DEF IInv, TypeOK
  <1>8. Alone(w)
    BY <1>1, <1>2, <1>4 DEF Alone
  <1>9. Sound(w)'
    <2>1. JobOf(w)' /\ PermitOf(w)' /\ WantsOf(w)'
      BY <1>1, <1>2, <1>4 DEF Sound, JobOf, PermitOf, WantsOf
    <2>2. EndOf(w)'
      BY <1>1, <1>2, <1>4, <1>6, WorkerFacts DEF Sound, EndOf, HomeOf
    <2>3. Passes(w)'
      BY <1>1, <1>2, <1>4 DEF Passes
    <2> QED BY <2>1, <2>2, <2>3 DEF Sound
  <1>10. PermitsCounted'
    BY <1>1 DEF IInv, PermitsCounted
  <1>11. DemandExact'
    BY <1>1 DEF IInv, DemandExact, FlexibleOf
  <1>12. /\ w \in Workers /\ UNCHANGED <<closed, closing, call>> /\ active' >= active /\ pc'[w] # "asleep"
        /\ pc[w] \notin {"collect", "notify"} /\ \A r \in Runtimes : state'[r] = "OPEN" => state[r] = "OPEN"
    BY <1>1, <1>2, <1>3, <1>4, <1>5, <1>6, WorkerFacts
  <1> QED BY <1>5, <1>7, <1>8, <1>9, <1>10, <1>11, <1>12, LocalKept

\* A worker falls asleep only with a current generation.
LEMMA SleepInv ==
    ASSUME IInv, NEW w \in Flexible, Sleep(w)
    PROVE  IInv'
  <1> USE DEF Releasing, PassedOver, FlexiblePoints, Classes
  <1>1. /\ pc[w] = "sleep" /\ job[w] = "none" /\ ~permit[w] /\ Sound(w)
        /\ UNCHANGED <<state, q, closed, left, active, demand, job, permit, wants, fresh, ending, calls,
                       closing, call>>
    BY WorkerFacts DEF IInv, WorkerInv, Sound, JobOf, PermitOf, Sleep
  <1>2. /\ pc \in [Workers -> Points] /\ job \in [Workers -> Jobs] /\ active \in Nat
        /\ fresh \in [Workers -> BOOLEAN] /\ w \in Workers /\ Home[w] \in Runtimes
    BY WorkerFacts DEF IInv, TypeOK
  <1>3. \/ pc' = [pc EXCEPT ![w] = "asleep"] /\ fresh[w]
        \/ pc' = [pc EXCEPT ![w] = "undemand"]
    BY DEF Sleep, StillFresh, Goto
  <1>4. TypeOK'
    <2>1. pc' \in [Workers -> Points]
      BY <1>2, <1>3 DEF Points
    <2> QED BY <1>1, <2>1 DEF IInv, TypeOK
  <1>5. Alone(w)
    BY <1>1, <1>2, <1>3 DEF Alone
  <1>6. Sound(w)'
    <2>1. JobOf(w)' /\ PermitOf(w)' /\ WantsOf(w)'
      BY <1>1, <1>2, <1>3 DEF Sound, JobOf, PermitOf, WantsOf
    <2>2. EndOf(w)'
      BY <1>1, <1>2, <1>3, WorkerFacts DEF Sound, EndOf, Over, HomeOf
    <2>3. Passes(w)'
      <3>1. Rousing(Home[w]) => Rousing(Home[w])'
        BY <1>1, <1>2, <1>3 DEF Rousing
      <3> HIDE DEF Rousing
      <3> QED BY <1>1, <1>2, <1>3, <3>1 DEF Sound, Passes, Unqueued
    <2> QED BY <2>1, <2>2, <2>3 DEF Sound
  <1>7. PermitsCounted'
    BY <1>1 DEF IInv, PermitsCounted
  <1>8. DemandExact'
    BY <1>1 DEF IInv, DemandExact, FlexibleOf
  <1> QED BY <1>1, <1>2, <1>3, <1>4, <1>5, <1>6, <1>7, <1>8, WorkerFacts, LocalKept

\* The earliest deadline of the lane ends a sleep.
LEMMA SleepTimesOutInv ==
    ASSUME IInv, NEW w \in Flexible, SleepTimesOut(w)
    PROVE  IInv'
  <1> USE DEF Releasing, PassedOver, FlexiblePoints, Classes
  <1>1. /\ pc[w] = "asleep" /\ pc' = [pc EXCEPT ![w] = "undemand"] /\ Sound(w)
        /\ UNCHANGED <<state, q, closed, left, active, demand, job, permit, wants, fresh, ending, calls,
                       closing, call>>
    BY WorkerFacts DEF IInv, WorkerInv, SleepTimesOut, Goto
  <1>2. /\ pc \in [Workers -> Points] /\ job \in [Workers -> Jobs] /\ active \in Nat
        /\ fresh \in [Workers -> BOOLEAN] /\ w \in Workers /\ Home[w] \in Runtimes
    BY WorkerFacts DEF IInv, TypeOK
  <1>3. TypeOK'
    <2>1. pc' \in [Workers -> Points]
      BY <1>1, <1>2 DEF Points
    <2> QED BY <1>1, <2>1 DEF IInv, TypeOK
  <1>4. Alone(w)
    BY <1>1, <1>2 DEF Alone
  <1>5. Sound(w)'
    <2>1. JobOf(w)' /\ PermitOf(w)' /\ WantsOf(w)'
      BY <1>1, <1>2 DEF Sound, JobOf, PermitOf, WantsOf
    <2>2. EndOf(w)'
      BY <1>1, <1>2, WorkerFacts DEF Sound, EndOf, Over, HomeOf
    <2>3. Passes(w)'
      BY <1>1, <1>2 DEF Sound, Passes, Unqueued
    <2> QED BY <2>1, <2>2, <2>3 DEF Sound
  <1>6. PermitsCounted'
    BY <1>1 DEF IInv, PermitsCounted
  <1>7. DemandExact'
    BY <1>1 DEF IInv, DemandExact, FlexibleOf
  <1> QED BY <1>1, <1>2, <1>3, <1>4, <1>5, <1>6, <1>7, WorkerFacts, LocalKept

\* A round ends with the wake demand dropped; a command taken in it cancels the end
\* of the loop.
LEMMA UndemandInv ==
    ASSUME IInv, NEW w \in Flexible, Undemand(w)
    PROVE  IInv'
  <1> USE DEF Releasing, PassedOver, FlexiblePoints, Classes
  <1>1. /\ pc[w] = "undemand" /\ Sound(w) /\ demand' = DemandAfter(w)
        /\ wants' = [wants EXCEPT ![w] = FALSE] /\ fresh' = [fresh EXCEPT ![w] = FALSE]
        /\ ending' = [ending EXCEPT ![w] = ending[w] /\ job[w] = "none"]
        /\ pc' = [pc EXCEPT ![w] = IF job[w] = "expensive" /\ ~permit[w] THEN "acquire"
                                   ELSE IF job[w] # "none" THEN "exec"
                                   ELSE IF ending[w] THEN "drain" ELSE "top"]
        /\ UNCHANGED <<state, q, closed, left, active, job, permit, calls, closing, call>>
    BY WorkerFacts DEF IInv, WorkerInv, Undemand, Goto
  <1>2. /\ pc \in [Workers -> Points] /\ wants \in [Workers -> BOOLEAN] /\ active \in Nat
        /\ fresh \in [Workers -> BOOLEAN] /\ ending \in [Workers -> BOOLEAN] /\ w \in Workers
    BY WorkerFacts DEF IInv, TypeOK
  <1>3. /\ wants' \in [Workers -> BOOLEAN] /\ ~wants'[w]
        /\ \A v \in Workers : v # w => wants'[v] = wants[v]
    BY <1>1, <1>2
  <1>4. DemandExact' /\ demand' \in [Runtimes -> Nat]
    BY <1>1, <1>3, DemandFacts DEF IInv
  <1>5. /\ fresh' \in [Workers -> BOOLEAN] /\ ~fresh'[w]
        /\ \A v \in Workers : v # w => fresh'[v] = fresh[v]
    BY <1>1, <1>2
  <1>6. /\ ending' \in [Workers -> BOOLEAN] /\ (ending'[w] <=> ending[w] /\ job[w] = "none")
        /\ \A v \in Workers : v # w => ending'[v] = ending[v]
    BY <1>1, <1>2
  <1>7. /\ pc' \in [Workers -> Points] /\ \A v \in Workers : v # w => pc'[v] = pc[v]
        /\ pc'[w] = IF job[w] = "expensive" /\ ~permit[w] THEN "acquire"
                    ELSE IF job[w] # "none" THEN "exec"
                    ELSE IF ending[w] THEN "drain" ELSE "top" 
    BY <1>1, <1>2 DEF Points
  <1>8. TypeOK'
    <2>1. pc' \in [Workers -> Points]
      BY <1>7 DEF Points
    <2>2. wants' \in [Workers -> BOOLEAN]
      BY <1>3
    <2>3. fresh' \in [Workers -> BOOLEAN]
      BY <1>5
    <2>4. ending' \in [Workers -> BOOLEAN]
      BY <1>6
    <2>5. demand' \in [Runtimes -> Nat]
      BY <1>4
    <2> QED BY <1>1, <2>1, <2>2, <2>3, <2>4, <2>5 DEF IInv, TypeOK
  <1>9. Alone(w)
    BY <1>1, <1>3, <1>5, <1>6, <1>7 DEF Alone
  <1>10. Sound(w)'
    <2>1. JobOf(w)' /\ PermitOf(w)' /\ WantsOf(w)'
      BY <1>1, <1>3, <1>7 DEF Sound, JobOf, PermitOf, WantsOf
    <2>2. EndOf(w)'
      BY <1>1, <1>6, <1>7 DEF Sound, JobOf, EndOf, Over, HomeOf
    <2>3. Passes(w)'
      BY <1>5 DEF Passes
    <2> QED BY <2>1, <2>2, <2>3 DEF Sound
  <1>11. PermitsCounted'
    BY <1>1 DEF IInv, PermitsCounted
  <1>12. DemandExact'
    BY <1>4
  <1>13. /\ UNCHANGED <<closed, closing, call>> /\ active' >= active /\ w \in Workers
         /\ \A r \in Runtimes : state'[r] = "OPEN" => state[r] = "OPEN"
         /\ \A r \in Runtimes, l \in Classes : q[r][l] = <<>> => q'[r][l] = <<>>
         /\ pc[w] \notin {"collect", "notify"} /\ pc'[w] # "asleep"
    BY <1>1, <1>2, <1>7
  <1> QED BY <1>8, <1>9, <1>10, <1>11, <1>12, <1>13, LocalKept

\* Failing the searches whose time is up drops the demand and starts the round again.
LEMMA InspectInv ==
    ASSUME IInv, NEW w \in Flexible, Inspect(w)
    PROVE  IInv'
  <1> USE DEF Releasing, PassedOver, FlexiblePoints, Classes
  <1>1. /\ pc[w] = "inspect" /\ Sound(w) /\ wants[w] /\ job[w] = "none" /\ ~permit[w]
        /\ UNCHANGED <<state, closed, left, active, job, permit, fresh, ending, calls, closing, call>>
    BY WorkerFacts DEF IInv, WorkerInv, Sound, JobOf, PermitOf, WantsOf, Inspect
  <1>2. /\ pc \in [Workers -> Points] /\ wants \in [Workers -> BOOLEAN] /\ active \in Nat
        /\ q \in [Runtimes -> [Classes -> Seq(Classes)]] /\ demand \in [Runtimes -> Nat]
        /\ w \in Workers /\ Home[w] \in Runtimes
    BY WorkerFacts DEF IInv, TypeOK
  <1>3. \/ /\ pc' = [pc EXCEPT ![w] = "steal"] /\ UNCHANGED <<q, demand, wants>>
        \/ /\ pc' = [pc EXCEPT ![w] = "top"] /\ demand' = DemandAfter(w)
           /\ wants' = [wants EXCEPT ![w] = FALSE]
    BY DEF Inspect, Goto
  <1>4. /\ q' \in [Runtimes -> [Classes -> Seq(Classes)]]
        /\ \A r \in Runtimes, k \in Classes : q[r][k] = <<>> => q'[r][k] = <<>>
    <2>1. CASE q' = q
      BY <1>2, <2>1
    <2>2. CASE \E n \in 1 .. Len(q[Home[w]]["expensive"]) :
                  q' = [q EXCEPT ![Home[w]]["expensive"] = SubSeq(@, n + 1, Len(@))]
      <3>1. PICK n \in 1 .. Len(q[Home[w]]["expensive"]) :
                  q' = [q EXCEPT ![Home[w]]["expensive"] =
                           SubSeq(q[Home[w]]["expensive"], n + 1, Len(q[Home[w]]["expensive"]))]
        BY <2>2
      <3>2. /\ SubSeq(q[Home[w]]["expensive"], n + 1, Len(q[Home[w]]["expensive"])) \in Seq(Classes)
            /\ q[Home[w]]["expensive"] = <<>> => Len(q[Home[w]]["expensive"]) = 0
        BY <1>2, SequenceFacts
      <3>3. q[Home[w]]["expensive"] # <<>>
        BY <3>2
      <3>4. PICK e \in Seq(Classes) : q' = [q EXCEPT ![Home[w]]["expensive"] = e]
        BY <3>1, <3>2
      <3>5. /\ q' \in [Runtimes -> [Classes -> Seq(Classes)]]
            /\ \A s \in Runtimes, k \in Classes :
                  q'[s][k] = IF s = Home[w] /\ k = "expensive" THEN e ELSE q[s][k]
        BY <1>2, <3>4
      <3> QED BY <3>3, <3>5
    <2> QED BY <2>1, <2>2 DEF Inspect
  <1>5. DemandExact' /\ demand' \in [Runtimes -> Nat] /\ wants' \in [Workers -> BOOLEAN]
    <2>1. CASE UNCHANGED <<q, demand, wants>>
      BY <1>2, <2>1 DEF IInv, DemandExact, FlexibleOf
    <2>2. CASE demand' = DemandAfter(w) /\ wants' = [wants EXCEPT ![w] = FALSE]
      <3>1. /\ wants' \in [Workers -> BOOLEAN] /\ ~wants'[w]
            /\ \A v \in Workers : v # w => wants'[v] = wants[v]
        BY <1>2, <2>2
      <3> QED BY <2>2, <3>1, DemandFacts DEF IInv
    <2> QED BY <1>3, <2>1, <2>2
  <1>6. /\ Unqueued(Home[w]) => Unqueued(Home[w])'
        /\ Over(Home[w], "expensive") => Over(Home[w], "expensive")'
    BY <1>1, <1>2, <1>4 DEF Unqueued, Over
  <1>7. TypeOK'
    <2>1. pc' \in [Workers -> Points]
      BY <1>2, <1>3 DEF Points
    <2>2. q' \in [Runtimes -> [Classes -> Seq(Classes)]]
      BY <1>4
    <2>3. demand' \in [Runtimes -> Nat]
      BY <1>5
    <2>4. wants' \in [Workers -> BOOLEAN]
      BY <1>5
    <2> QED BY <1>1, <2>1, <2>2, <2>3, <2>4 DEF IInv, TypeOK
  <1>8. Alone(w)
    BY <1>1, <1>2, <1>3 DEF Alone
  <1>9. Sound(w)'
    <2>1. JobOf(w)' /\ PermitOf(w)' /\ WantsOf(w)'
      BY <1>1, <1>2, <1>3 DEF Sound, JobOf, PermitOf, WantsOf
    <2>2. EndOf(w)'
      BY <1>1, <1>2, <1>3, <1>6, WorkerFacts DEF Sound, EndOf, HomeOf
    <2>3. Passes(w)'
      <3>1. Rousing(Home[w]) => Rousing(Home[w])'
        BY <1>1, <1>2, <1>3 DEF Rousing
      <3> HIDE DEF Rousing
      <3> QED BY <1>1, <1>2, <1>3, <1>6, <3>1 DEF Sound, Passes
    <2> QED BY <2>1, <2>2, <2>3 DEF Sound
  <1>10. PermitsCounted'
    BY <1>1 DEF IInv, PermitsCounted
  <1>11. DemandExact'
    BY <1>5
  <1>12. /\ w \in Workers /\ UNCHANGED <<closed, closing, call>> /\ active' >= active /\ pc'[w] # "asleep"
        /\ pc[w] \notin {"collect", "notify"} /\ \A r \in Runtimes : state'[r] = "OPEN" => state[r] = "OPEN"
    BY <1>1, <1>2, <1>3, <1>4, <1>5, <1>6, WorkerFacts
  <1> QED BY <1>4, <1>7, <1>8, <1>9, <1>10, <1>11, <1>12, LocalKept

\* A released permit is counted off once, and its worker is about to collect the
\* wakes with demand.
LEMMA ReleasePermitInv ==
    ASSUME IInv, NEW w \in Workers, ReleasePermit(w)
    PROVE  IInv'
  <1> USE DEF Releasing, PassedOver, FlexiblePoints, Classes
  <1>1. /\ pc[w] = "release" /\ permit[w] /\ active' = active - 1 /\ Sound(w)
        /\ permit' = [permit EXCEPT ![w] = FALSE]
        /\ UNCHANGED <<state, q, closed, left, demand, job, wants, fresh, ending, calls, closing, call>>
    BY DEF IInv, WorkerInv, Sound, PermitOf, ReleasePermit, ActiveAfterRelease
  <1>2. /\ pc \in [Workers -> Points] /\ permit \in [Workers -> BOOLEAN] /\ active \in Nat
    BY DEF IInv, TypeOK
  <1>3. /\ permit' \in [Workers -> BOOLEAN] /\ permit'[w] = FALSE /\ permit[w] = TRUE
        /\ \A v \in Workers : v # w => permit'[v] = permit[v]
    BY <1>1, <1>2
  <1>4. /\ pc' \in [Workers -> Points] /\ pc'[w] = "collect"
        /\ \A v \in Workers : v # w => pc'[v] = IF pc[v] = "blocked" THEN "acquire" ELSE pc[v]
    BY <1>2 DEF ReleasePermit, Unblocked, Points
  <1>5. active' \in Nat
    <2>1. active >= 1
      BY <1>1, <1>3, PermitFacts DEF IInv
    <2> QED BY <1>1, <1>2, <2>1
  <1>6. TypeOK'
    BY <1>1, <1>3, <1>4, <1>5 DEF IInv, TypeOK
  <1>7. Bystanders({w})
    BY <1>1, <1>3, <1>4 DEF Bystanders
  <1>8. \A v \in {w} : Sound(v)'
    BY <1>1, <1>3, <1>4 DEF Sound, JobOf, PermitOf, WantsOf, EndOf, Over, Passes, Unqueued
  <1>9. LanesKept
    BY <1>1 DEF LanesKept, Over
  <1>10. ReasonsKept
    <2>1. \A r \in Runtimes : Rousing(r)'
      BY <1>4 DEF Rousing
    <2> HIDE DEF Rousing
    <2> QED BY <1>1, <1>5, <2>1, WorkerFacts DEF ReasonsKept, Unqueued
  <1>11. LastInv'
    BY <1>1, <1>4, WorkerFacts, LastKept DEF IInv
  <1>12. LaneInv'
    BY <1>1 DEF IInv, LaneInv, Unqueued
  <1>13. PermitsCounted'
    BY <1>1, <1>3, PermitFacts DEF IInv
  <1>14. DemandExact'
    BY <1>1 DEF IInv, DemandExact, FlexibleOf
  <1> QED BY <1>6, <1>7, <1>8, <1>9, <1>10, <1>11, <1>12, <1>13, <1>14, StepKept

\* Whoever a released permit was to wake is awake, or its generation has moved on.
LEMMA NotifyWakesInv ==
    ASSUME IInv, NEW w \in Workers, NotifyWakes(w)
    PROVE  IInv'
  <1> USE DEF Releasing, PassedOver, FlexiblePoints, Classes
  <1>1. /\ pc[w] = "notify" /\ Sound(w)
        /\ UNCHANGED <<state, q, closed, left, active, demand, permit, wants, ending, closing, call>>
    BY DEF IInv, WorkerInv, NotifyWakes
  <1>2. /\ pc \in [Workers -> Points] /\ job \in [Workers -> Jobs] /\ fresh \in [Workers -> BOOLEAN]
        /\ calls \in [Workers -> SUBSET Runtimes] /\ active \in Nat
    BY DEF IInv, TypeOK
  <1>3. /\ Loop(w) \in {"pop", "drain", "top"} /\ (Loop(w) = "pop" <=> w \notin Flexible)
        /\ (Loop(w) = "drain" => ending[w])
    BY DEF Loop
  <1>4. /\ fresh' \in [Workers -> BOOLEAN]
        /\ \A v \in Workers : fresh'[v] <=> fresh[v] /\ HomeOf(v) \notin calls[w]
    BY <1>2 DEF NotifyWakes, Stale
  <1>5. /\ pc' \in [Workers -> Points]
        /\ pc'[w] = IF job[w] = "panicked" THEN "poison"
                    ELSE IF job[w] = "none" THEN "inspect" ELSE Loop(w)
        /\ \A v \in Workers : v # w =>
              pc'[v] = IF pc[v] = "asleep" /\ HomeOf(v) \in calls[w] THEN "undemand" ELSE pc[v]
    BY <1>2, <1>3 DEF NotifyWakes, WokenIn, Points
  <1>6. /\ job' \in [Workers -> Jobs] /\ job'[w] = "none"
        /\ \A v \in Workers : v # w => job'[v] = job[v]
    BY <1>2 DEF NotifyWakes, Jobs
  <1>7. /\ calls' \in [Workers -> SUBSET Runtimes]
        /\ \A v \in Workers : v # w => calls'[v] = calls[v]
    BY <1>2 DEF NotifyWakes
  <1>8. TypeOK'
    BY <1>1, <1>4, <1>5, <1>6, <1>7 DEF IInv, TypeOK
  <1>9. Bystanders({w})
    BY <1>1, <1>4, <1>5, <1>6 DEF Bystanders
  <1>10. \A v \in {w} : Sound(v)'
    BY <1>1, <1>2, <1>3, <1>4, <1>5, <1>6 DEF Sound, JobOf, PermitOf, WantsOf, EndOf, Over, Passes, Unqueued, Jobs
  <1>11. LanesKept
    BY <1>1 DEF LanesKept, Over
  <1>12. ReasonsKept
    <2>1. ASSUME NEW v \in Flexible, fresh'[v], Rousing(Home[v])
          PROVE  Rousing(Home[v])'
      <3>1. Home[v] \notin calls[w]
        BY <1>4, <2>1, WorkerFacts
      <3>2. PICK u \in Workers : pc[u] = "collect" \/ (pc[u] = "notify" /\ Home[v] \in calls[u])
        BY <2>1 DEF Rousing
      <3>3. u # w
        BY <1>1, <3>1, <3>2
      <3>4. pc'[u] = pc[u] /\ calls'[u] = calls[u]
        BY <1>5, <1>7, <3>2, <3>3
      <3> QED BY <3>2, <3>4 DEF Rousing
    <2> HIDE DEF Rousing
    <2> QED BY <1>1, <1>2, <2>1 DEF ReasonsKept, Unqueued
  <1>13. LastInv'
    BY <1>1, <1>2, <1>3, <1>4, <1>5, WorkerFacts, LastKept DEF IInv
  <1>14. LaneInv'
    BY <1>1 DEF IInv, LaneInv, Unqueued
  <1>15. PermitsCounted'
    BY <1>1 DEF IInv, PermitsCounted
  <1>16. DemandExact'
    BY <1>1 DEF IInv, DemandExact, FlexibleOf
  <1> QED BY <1>8, <1>9, <1>10, <1>11, <1>12, <1>13, <1>14, <1>15, <1>16, StepKept

\* The panicking worker wakes those on the condition variable of the permits.
LEMMA PoisonTellsInv ==
    ASSUME IInv, NEW w \in Workers, PoisonTells(w)
    PROVE  IInv'
  <1> USE DEF Releasing, PassedOver, FlexiblePoints, Classes
  <1>1. /\ pc[w] = "tell" /\ Sound(w)
        /\ UNCHANGED <<state, q, closed, left, active, demand, job, permit, wants, fresh, ending, calls,
                       closing, call>>
    BY DEF IInv, WorkerInv, PoisonTells
  <1>2. pc \in [Workers -> Points] /\ active \in Nat
    BY DEF IInv, TypeOK
  <1>3. /\ pc' \in [Workers -> Points] /\ pc'[w] = "shutOrdinary"
        /\ \A v \in Workers : v # w => pc'[v] = IF pc[v] = "blocked" THEN "acquire" ELSE pc[v]
    BY <1>2 DEF PoisonTells, Unblocked, Points
  <1>4. TypeOK'
    BY <1>1, <1>2, <1>3 DEF IInv, TypeOK
  <1>5. Bystanders({w})
    BY <1>1, <1>2, <1>3 DEF Bystanders
  <1>6. \A v \in {w} : Sound(v)'
    BY <1>1, <1>2, <1>3 DEF Sound, JobOf, PermitOf, WantsOf, EndOf, Over, Passes, Unqueued
  <1>7. LanesKept
    BY <1>1 DEF LanesKept, Over
  <1>8. ReasonsKept
    BY <1>1, <1>2, <1>3 DEF ReasonsKept, Unqueued, Rousing
  <1>9. LastInv'
    BY <1>1, <1>2, <1>3, WorkerFacts, LastKept DEF IInv
  <1>10. LaneInv'
    BY <1>1, <1>2, <1>3 DEF IInv, LaneInv, Unqueued
  <1>11. PermitsCounted'
    BY <1>1 DEF IInv, PermitsCounted
  <1>12. DemandExact'
    BY <1>1 DEF IInv, DemandExact, FlexibleOf
  <1> QED BY <1>4, <1>5, <1>6, <1>7, <1>8, <1>9, <1>10, <1>11, <1>12, StepKept

\* The panicking worker closes and empties a lane; when it ends, both are over.
LEMMA PoisonShutsInv ==
    ASSUME IInv, NEW w \in Workers, NEW l \in Classes, NEW point, NEW next,
           PoisonShuts(w, l, point, next),
           \/ l = "ordinary" /\ point = "shutOrdinary" /\ next = "shutExpensive"
           \/ l = "expensive" /\ point = "shutExpensive" /\ next = "done"
    PROVE  IInv'
  <1> USE DEF Releasing, PassedOver, FlexiblePoints, Classes
  <1>1. /\ pc[w] = point /\ Sound(w) /\ HomeOf(w) \in Runtimes
        /\ UNCHANGED <<state, left, active, demand, job, permit, wants, ending, calls, closing, call>>
    BY WorkerFacts DEF IInv, WorkerInv, PoisonShuts
  <1>2. /\ pc \in [Workers -> Points] /\ fresh \in [Workers -> BOOLEAN] /\ active \in Nat
        /\ q \in [Runtimes -> [Classes -> Seq(Classes)]] /\ <<>> \in Seq(Classes)
        /\ closed \in [Runtimes -> [Classes -> BOOLEAN]]
    BY EmptySeq DEF IInv, TypeOK
  <1>3. /\ pc' \in [Workers -> Points] /\ pc'[w] = next
        /\ \A v \in Workers : v # w =>
              pc'[v] = IF pc[v] = "asleep" /\ HomeOf(v) = HomeOf(w) THEN "undemand" ELSE pc[v]
    BY <1>2 DEF PoisonShuts, WokenByClose, WokenIn, Points
  <1>4. /\ fresh' \in [Workers -> BOOLEAN]
        /\ \A v \in Workers : fresh'[v] <=> fresh[v] /\ HomeOf(v) # HomeOf(w)
    BY <1>2 DEF PoisonShuts, CloseLane, Stale
  <1>5. /\ q' \in [Runtimes -> [Classes -> Seq(Classes)]]
        /\ \A s \in Runtimes, k \in Classes :
              q'[s][k] = IF s = HomeOf(w) /\ k = l THEN <<>> ELSE q[s][k]
    <2>1. q' = [q EXCEPT ![HomeOf(w)][l] = <<>>]
      BY DEF PoisonShuts
    <2> QED BY <1>1, <1>2, <2>1
  <1>6. /\ closed' \in [Runtimes -> [Classes -> BOOLEAN]]
        /\ \A s \in Runtimes, k \in Classes :
              closed'[s][k] = IF s = HomeOf(w) /\ k = l THEN TRUE ELSE closed[s][k]
    <2>1. closed' = [closed EXCEPT ![HomeOf(w)][l] = TRUE]
      BY DEF PoisonShuts, CloseLane
    <2> QED BY <1>1, <1>2, <2>1
  <1>7. LanesKept /\ Over(HomeOf(w), l)'
    BY <1>1, <1>5, <1>6 DEF LanesKept, Over
  <1>8. TypeOK'
    BY <1>1, <1>3, <1>4, <1>5, <1>6 DEF IInv, TypeOK
  <1>9. Bystanders({w})
    BY <1>1, <1>3, <1>4 DEF Bystanders
  <1>10. \A v \in {w} : Sound(v)'
    <2>1. JobOf(w)' /\ PermitOf(w)' /\ WantsOf(w)' /\ Passes(w)'
      BY <1>1, <1>3, <1>4 DEF Sound, JobOf, PermitOf, WantsOf, Passes
    <2>2. /\ Over(HomeOf(w), "ordinary") => Over(HomeOf(w), "ordinary")'
          /\ closed[HomeOf(w)]["expensive"] => closed'[HomeOf(w)]["expensive"]
      BY <1>1, <1>7 DEF LanesKept
    <2>3. EndOf(w)'
      BY <1>1, <1>3, <1>7, <2>2, WorkerFacts DEF Sound, EndOf, HomeOf
    <2> QED BY <2>1, <2>3 DEF Sound
  <1>11. LanesKept
    BY <1>7
  <1>12. ReasonsKept
    <2>1. \A r \in Runtimes : Rousing(r) => Rousing(r)'
      BY <1>1, <1>3 DEF Rousing
    <2>2. \A r \in Runtimes : Unqueued(r) => Unqueued(r)'
      BY <1>5 DEF Unqueued
    <2> HIDE DEF Rousing, Unqueued
    <2> QED BY <1>1, <1>2, <2>1, <2>2, WorkerFacts DEF ReasonsKept
  <1>13. LastInv'
    BY <1>1, <1>3, <1>4, WorkerFacts, LastKept DEF IInv
  <1>14. LaneInv'
    BY <1>1, <1>5, <1>6 DEF IInv, LaneInv, Unqueued
  <1>15. PermitsCounted'
    BY <1>1 DEF IInv, PermitsCounted
  <1>16. DemandExact'
    BY <1>1 DEF IInv, DemandExact, FlexibleOf
  <1> QED BY <1>8, <1>9, <1>10, <1>11, <1>12, <1>13, <1>14, <1>15, <1>16, StepKept

-----------------------------------------------------------------------------
(* JavaScript and the writer actor.                                        *)

\* The calls in progress concern nobody else.
LEMMA CallAside ==
    ASSUME IInv, TypeOK',
           UNCHANGED <<state, q, closed, active, demand, pc, job, permit, wants, fresh, ending, calls, closing>>
    PROVE  IInv'
  <1>1. LastInv' /\ LaneInv'
    BY DEF IInv, LastInv, LaneInv, Unqueued
  <1>2. ASSUME NEW w \in Workers
        PROVE  Sound(w)'
    <2>1. Sound(w)
      BY DEF IInv, WorkerInv
    <2>2. JobOf(w)' /\ PermitOf(w)' /\ WantsOf(w)' /\ EndOf(w)'
      BY <2>1 DEF Sound, JobOf, PermitOf, WantsOf, EndOf, Over
    <2>3. Passes(w)'
      BY <2>1 DEF Sound, Passes, Rousing, Unqueued
    <2> QED BY <2>2, <2>3 DEF Sound
  <1>3. PermitsCounted' /\ DemandExact'
    BY DEF IInv, PermitsCounted, DemandExact, FlexibleOf
  <1> QED BY <1>1, <1>2, <1>3 DEF IInv, WorkerInv

\* A call that finds the runtime open has not touched a lane yet.
LEMMA RequireOpenInv ==
    ASSUME IInv, NEW r \in Runtimes, NEW c \in Classes, RequireOpen(r, c)
    PROVE  IInv'
  <1>1. UNCHANGED <<state, q, closed, active, demand, pc, job, permit, wants, fresh, ending, calls, closing>>
    BY DEF RequireOpen
  <1>2. left \in [Runtimes -> [Classes -> Nat]] /\ call \in [Runtimes -> Classes \cup {"none"}]
    BY DEF IInv, TypeOK
  <1>3. left' \in [Runtimes -> [Classes -> Nat]]
    <2>1. left[r][c] - 1 \in Nat
      BY <1>2 DEF RequireOpen
    <2>2. PICK e \in Nat : left' = [left EXCEPT ![r][c] = e]
      BY <2>1 DEF RequireOpen
    <2> QED BY <1>2, <2>2
  <1>4. call' \in [Runtimes -> Classes \cup {"none"}]
    BY <1>2 DEF RequireOpen
  <1>5. TypeOK'
    BY <1>1, <1>3, <1>4 DEF IInv, TypeOK
  <1> QED BY <1>1, <1>5, CallAside

\* A search of class c enters its lane.
Pushed(r, c) ==
    /\ ~closed[r][LaneOf(r, c)]
    /\ q' = [q EXCEPT ![r][LaneOf(r, c)] = Append(@, c)]
    /\ fresh' = Stale({r})
    /\ IF Sleepers(r) = {} THEN UNCHANGED pc ELSE \E w \in Sleepers(r) : Goto(w, "undemand")
    /\ call' \in [Runtimes -> Classes \cup {"none"}]
    /\ UNCHANGED <<state, closed, left, active, demand, job, permit, wants, ending, calls, closing>>

\* A search that is pushed moves the generation on and wakes one sleeper, if there is
\* any: no worker sleeps over it with a current generation.
LEMMA PushInv ==
    ASSUME IInv, NEW r \in Runtimes, NEW c \in Classes, Pushed(r, c)
    PROVE  IInv'
  <1> USE DEF Releasing, PassedOver, FlexiblePoints, Classes
  <1>1. UNCHANGED <<state, closed, left, active, demand, job, permit, wants, ending, calls, closing>>
    BY DEF Pushed
  <1>2. /\ pc \in [Workers -> Points] /\ fresh \in [Workers -> BOOLEAN] /\ active \in Nat
        /\ q \in [Runtimes -> [Classes -> Seq(Classes)]]
    BY DEF IInv, TypeOK
  <1>3. PICK l \in Classes : /\ ~closed[r][l] /\ l = LaneOf(r, c)
                              /\ q' = [q EXCEPT ![r][l] = Append(q[r][l], c)]
    <2>1. LaneOf(r, c) \in Classes
      BY DEF LaneOf
    <2> QED BY <2>1 DEF Pushed
  <1>4. l = "expensive" => \E v \in Flexible : Home[v] = r
    BY <1>3 DEF LaneOf, FlexibleOf
  <1>5. /\ q' \in [Runtimes -> [Classes -> Seq(Classes)]]
        /\ \A s \in Runtimes, k \in Classes : s # r \/ k # l => q'[s][k] = q[s][k]
    <2>1. Append(q[r][l], c) \in Seq(Classes)
      BY <1>2, SequenceFacts
    <2>2. PICK e \in Seq(Classes) : q' = [q EXCEPT ![r][l] = e]
      BY <1>3, <2>1
    <2> QED BY <1>2, <2>2
  <1>6. call' \in [Runtimes -> Classes \cup {"none"}]
    BY DEF Pushed
  <1>7. /\ fresh' \in [Workers -> BOOLEAN]
        /\ \A v \in Workers : fresh'[v] <=> fresh[v] /\ HomeOf(v) # r
    BY <1>2 DEF Pushed, Stale
  <1>8. \/ pc' = pc /\ \A v \in Flexible : Home[v] = r => pc[v] # "asleep"
        \/ \E w \in Flexible : Home[w] = r /\ pc[w] = "asleep" /\ pc' = [pc EXCEPT ![w] = "undemand"]
    BY DEF Pushed, Sleepers, FlexibleOf, Goto
  <1>9. /\ pc' \in [Workers -> Points]
        /\ \A v \in Workers : pc'[v] = pc[v] \/ (pc[v] = "asleep" /\ pc'[v] = "undemand")
    BY <1>2, <1>8, WorkerFacts DEF Points
  <1>10. TypeOK'
    BY <1>1, <1>5, <1>6, <1>7, <1>9 DEF IInv, TypeOK
  <1>11. Bystanders({})
    BY <1>1, <1>7, <1>9 DEF Bystanders
  <1>12. LanesKept
    BY <1>1, <1>3, <1>5 DEF LanesKept, Over
  <1>13. ReasonsKept
    <2>1. \A s \in Runtimes : Rousing(s) => Rousing(s)'
      BY <1>1, <1>9 DEF Rousing
    <2>2. \A s \in Runtimes : s # r /\ Unqueued(s) => Unqueued(s)'
      BY <1>5 DEF Unqueued
    <2>3. \A v \in Flexible : fresh'[v] => Home[v] # r /\ Home[v] \in Runtimes
      BY <1>7, WorkerFacts
    <2> HIDE DEF Rousing, Unqueued
    <2> QED BY <1>1, <1>2, <2>1, <2>2, <2>3, WorkerFacts DEF ReasonsKept
  <1>14. LastInv'
    <2> SUFFICES ASSUME NEW s \in Runtimes, \E v \in Flexible : Home[v] = s,
                        \A v \in Flexible : Home[v] = s => pc'[v] = "asleep"
                 PROVE  \E v \in Flexible : Home[v] = s /\ fresh'[v]
      BY DEF LastInv
    <2>1. s # r
      BY <1>2, <1>8, WorkerFacts
    <2>2. \A v \in Flexible : Home[v] = s => pc[v] = "asleep"
      BY <1>9, WorkerFacts
    <2>3. PICK v \in Flexible : Home[v] = s /\ fresh[v]
      BY <2>2 DEF IInv, LastInv
    <2> QED BY <1>7, <2>1, <2>3, WorkerFacts
  <1>15. LaneInv'
    BY <1>1, <1>3, <1>4, <1>5 DEF IInv, LaneInv, Unqueued
  <1>16. PermitsCounted'
    BY <1>1 DEF IInv, PermitsCounted
  <1>17. DemandExact'
    BY <1>1 DEF IInv, DemandExact, FlexibleOf
  <1> QED BY <1>10, <1>11, <1>12, <1>13, <1>14, <1>15, <1>16, <1>17, StepKept

\* The push of a call, or its refusal.
LEMMA SubmitInv ==
    ASSUME IInv, NEW r \in Runtimes, Submit(r)
    PROVE  IInv'
  <1>1. call \in [Runtimes -> Classes \cup {"none"}]
    BY DEF IInv, TypeOK
  <1>2. call[r] \in Classes
    BY <1>1 DEF Submit
  <1>3. call' \in [Runtimes -> Classes \cup {"none"}]
    BY <1>1 DEF Submit
  <1>4. UNCHANGED <<state, closed, left, active, demand, job, permit, wants, ending, calls, closing>>
    BY DEF Submit
  <1>5. CASE UNCHANGED <<q, fresh, pc>>
    <2>1. TypeOK'
      BY <1>3, <1>4, <1>5 DEF IInv, TypeOK
    <2> QED BY <1>4, <1>5, <2>1, CallAside
  <1>6. CASE ~UNCHANGED <<q, fresh, pc>>
    <2>1. PICK c \in Classes : c = call[r]
      BY <1>2
    <2>2. /\ ~closed[r][LaneOf(r, c)]
          /\ q' = [q EXCEPT ![r][LaneOf(r, c)] = Append(@, c)] /\ fresh' = Stale({r})
          /\ IF Sleepers(r) = {} THEN UNCHANGED pc ELSE \E w \in Sleepers(r) : Goto(w, "undemand")
      BY <1>6, <2>1 DEF Submit
    <2>3. Pushed(r, c)
      BY <1>3, <1>4, <2>2 DEF Pushed
    <2> QED BY <2>3, PushInv
  <1> QED BY <1>5, <1>6

\* A close that begins leaves the runtime closing or poisoned.
LEMMA BeginCloseInv ==
    ASSUME IInv, NEW r \in Runtimes, BeginClose(r)
    PROVE  IInv'
  <1> USE DEF Releasing, PassedOver, FlexiblePoints, Classes
  <1>1. /\ closing[r] \in {"open", "refused"} /\ closing' = [closing EXCEPT ![r] = "store"]
        /\ UNCHANGED <<q, closed, left, active, demand, pc, job, permit, wants, fresh, ending, calls, call>>
    BY DEF BeginClose
  <1>2. /\ state \in [Runtimes -> {"OPEN", "CLOSING", "POISONED"}] /\ active \in Nat
        /\ closing \in [Runtimes -> {"open", "store", "ordinary", "expensive", "over", "refused"}]
    BY DEF IInv, TypeOK
  <1>3. /\ state' \in [Runtimes -> {"OPEN", "CLOSING", "POISONED"}] /\ state'[r] # "OPEN"
        /\ \A s \in Runtimes : s # r => state'[s] = state[s]
    BY <1>2 DEF BeginClose
  <1>4. /\ closing' \in [Runtimes -> {"open", "store", "ordinary", "expensive", "over", "refused"}]
        /\ closing'[r] = "store" /\ \A s \in Runtimes : s # r => closing'[s] = closing[s]
    BY <1>1, <1>2
  <1>5. TypeOK'
    BY <1>1, <1>3, <1>4 DEF IInv, TypeOK
  <1>6. Bystanders({})
    BY <1>1 DEF Bystanders
  <1>7. LanesKept
    BY <1>1 DEF LanesKept, Over
  <1>8. ReasonsKept
    <2>1. \A s \in Runtimes : Rousing(s) => Rousing(s)'
      BY <1>1 DEF Rousing
    <2> HIDE DEF Rousing
    <2> QED BY <1>1, <1>2, <1>3, <1>4, <2>1, WorkerFacts DEF ReasonsKept, Unqueued
  <1>9. LastInv'
    BY <1>1 DEF IInv, LastInv
  <1>10. LaneInv'
    BY <1>1, <1>3, <1>4 DEF IInv, LaneInv, Unqueued
  <1>11. PermitsCounted'
    BY <1>1 DEF IInv, PermitsCounted
  <1>12. DemandExact'
    BY <1>1 DEF IInv, DemandExact, FlexibleOf
  <1> QED BY <1>5, <1>6, <1>7, <1>8, <1>9, <1>10, <1>11, <1>12, StepKept

\* A refused close leaves the lanes as they were.
LEMMA RefuseInv ==
    ASSUME IInv, NEW r \in Runtimes, Refuse(r)
    PROVE  IInv'
  <1> USE DEF Releasing, PassedOver, FlexiblePoints, Classes
  <1>1. /\ closing[r] = "ordinary" /\ closing' = [closing EXCEPT ![r] = "refused"]
        /\ state' = [state EXCEPT ![r] = "OPEN"]
        /\ UNCHANGED <<q, closed, left, active, demand, pc, job, permit, wants, fresh, ending, calls, call>>
    BY DEF Refuse
  <1>2. /\ state \in [Runtimes -> {"OPEN", "CLOSING", "POISONED"}] /\ active \in Nat
        /\ closing \in [Runtimes -> {"open", "store", "ordinary", "expensive", "over", "refused"}]
    BY DEF IInv, TypeOK
  <1>3. /\ state' \in [Runtimes -> {"OPEN", "CLOSING", "POISONED"}]
        /\ \A s \in Runtimes : s # r => state'[s] = state[s]
    BY <1>1, <1>2
  <1>4. /\ closing' \in [Runtimes -> {"open", "store", "ordinary", "expensive", "over", "refused"}]
        /\ closing'[r] = "refused" /\ \A s \in Runtimes : s # r => closing'[s] = closing[s]
    BY <1>1, <1>2
  <1>5. TypeOK'
    BY <1>1, <1>3, <1>4 DEF IInv, TypeOK
  <1>6. Bystanders({})
    BY <1>1 DEF Bystanders
  <1>7. LanesKept
    BY <1>1 DEF LanesKept, Over
  <1>8. ReasonsKept
    <2>1. \A s \in Runtimes : Rousing(s) => Rousing(s)'
      BY <1>1 DEF Rousing
    <2> HIDE DEF Rousing
    <2> QED BY <1>1, <1>2, <1>3, <1>4, <2>1, WorkerFacts DEF ReasonsKept, Unqueued
  <1>9. LastInv'
    BY <1>1 DEF IInv, LastInv
  <1>10. LaneInv'
    BY <1>1, <1>3, <1>4 DEF IInv, LaneInv, Unqueued
  <1>11. PermitsCounted'
    BY <1>1 DEF IInv, PermitsCounted
  <1>12. DemandExact'
    BY <1>1 DEF IInv, DemandExact, FlexibleOf
  <1> QED BY <1>5, <1>6, <1>7, <1>8, <1>9, <1>10, <1>11, <1>12, StepKept

\* A close wakes those on the condition variable of the permits.
LEMMA NotifyWaitersInv ==
    ASSUME IInv, NEW r \in Runtimes, NotifyWaiters(r)
    PROVE  IInv'
  <1> USE DEF Releasing, PassedOver, FlexiblePoints, Classes
  <1>1. /\ closing[r] = "store" /\ closing' = [closing EXCEPT ![r] = "ordinary"]
        /\ UNCHANGED <<state, q, closed, left, active, demand, job, permit, wants, fresh, ending, calls, call>>
    BY DEF NotifyWaiters
  <1>2. /\ pc \in [Workers -> Points] /\ active \in Nat
        /\ closing \in [Runtimes -> {"open", "store", "ordinary", "expensive", "over", "refused"}]
    BY DEF IInv, TypeOK
  <1>3. /\ pc' \in [Workers -> Points]
        /\ \A v \in Workers : pc'[v] = IF pc[v] = "blocked" THEN "acquire" ELSE pc[v]
    BY <1>2 DEF NotifyWaiters, Unblocked, Points
  <1>4. /\ closing' \in [Runtimes -> {"open", "store", "ordinary", "expensive", "over", "refused"}]
        /\ closing'[r] = "ordinary" /\ \A s \in Runtimes : s # r => closing'[s] = closing[s]
    BY <1>1, <1>2
  <1>5. TypeOK'
    BY <1>1, <1>3, <1>4 DEF IInv, TypeOK
  <1>6. Bystanders({})
    BY <1>1, <1>3 DEF Bystanders
  <1>7. LanesKept
    BY <1>1 DEF LanesKept, Over
  <1>8. ReasonsKept
    <2>1. \A s \in Runtimes : Rousing(s) => Rousing(s)'
      BY <1>1, <1>3 DEF Rousing
    <2> HIDE DEF Rousing
    <2> QED BY <1>1, <1>2, <1>4, <2>1, WorkerFacts DEF ReasonsKept, Unqueued
  <1>9. LastInv'
    BY <1>1, <1>3, WorkerFacts, LastKept DEF IInv
  <1>10. LaneInv'
    BY <1>1, <1>4 DEF IInv, LaneInv, Unqueued
  <1>11. PermitsCounted'
    BY <1>1 DEF IInv, PermitsCounted
  <1>12. DemandExact'
    BY <1>1 DEF IInv, DemandExact, FlexibleOf
  <1> QED BY <1>5, <1>6, <1>7, <1>8, <1>9, <1>10, <1>11, <1>12, StepKept

\* Closing a lane wakes every flexible worker of the runtime.
LEMMA ShutDownInv ==
    ASSUME IInv, NEW r \in Runtimes, NEW l \in Classes, NEW next, ShutDown(r, l, next),
           (l = "ordinary" /\ next = "expensive") \/ (l = "expensive" /\ next = "over")
    PROVE  IInv'
  <1> USE DEF Releasing, PassedOver, FlexiblePoints, Classes
  <1>1. /\ closing[r] = l
        /\ UNCHANGED <<state, q, left, active, demand, job, permit, wants, ending, calls, call>>
    BY DEF ShutDown
  <1>2. /\ pc \in [Workers -> Points] /\ fresh \in [Workers -> BOOLEAN] /\ active \in Nat
        /\ closed \in [Runtimes -> [Classes -> BOOLEAN]]
        /\ closing \in [Runtimes -> {"open", "store", "ordinary", "expensive", "over", "refused"}]
    BY DEF IInv, TypeOK
  <1>3. /\ pc' \in [Workers -> Points]
        /\ \A v \in Workers :
              pc'[v] = IF pc[v] = "asleep" /\ HomeOf(v) = r THEN "undemand" ELSE pc[v]
    BY <1>2 DEF ShutDown, WokenByClose, WokenIn, Points
  <1>4. /\ fresh' \in [Workers -> BOOLEAN]
        /\ \A v \in Workers : fresh'[v] <=> fresh[v] /\ HomeOf(v) # r
    BY <1>2 DEF ShutDown, CloseLane, Stale
  <1>5. /\ closed' \in [Runtimes -> [Classes -> BOOLEAN]]
        /\ \A s \in Runtimes, k \in Classes :
              closed'[s][k] = IF s = r /\ k = l THEN TRUE ELSE closed[s][k]
    <2>1. closed' = [closed EXCEPT ![r][l] = TRUE]
      BY DEF ShutDown, CloseLane
    <2> QED BY <1>2, <2>1
  <1>6. /\ closing' \in [Runtimes -> {"open", "store", "ordinary", "expensive", "over", "refused"}]
        /\ closing'[r] = next /\ \A s \in Runtimes : s # r => closing'[s] = closing[s]
    BY <1>2 DEF ShutDown
  <1>7. TypeOK'
    BY <1>1, <1>3, <1>4, <1>5, <1>6 DEF IInv, TypeOK
  <1>8. Bystanders({})
    BY <1>1, <1>3, <1>4 DEF Bystanders
  <1>9. LanesKept
    BY <1>1, <1>5 DEF LanesKept, Over
  <1>10. ReasonsKept
    <2>1. \A s \in Runtimes : Rousing(s) => Rousing(s)'
      BY <1>1, <1>3 DEF Rousing
    <2> HIDE DEF Rousing
    <2> QED BY <1>1, <1>2, <1>6, <2>1, WorkerFacts DEF ReasonsKept, Unqueued
  <1>11. LastInv'
    BY <1>1, <1>3, <1>4, WorkerFacts, LastKept DEF IInv
  <1>12. LaneInv'
    BY <1>1, <1>5, <1>6 DEF IInv, LaneInv, Unqueued
  <1>13. PermitsCounted'
    BY <1>1 DEF IInv, PermitsCounted
  <1>14. DemandExact'
    BY <1>1 DEF IInv, DemandExact, FlexibleOf
  <1> QED BY <1>7, <1>8, <1>9, <1>10, <1>11, <1>12, <1>13, <1>14, StepKept

-----------------------------------------------------------------------------
(* The invariant and what follows from it.                                 *)

\* All threads start with nothing, over empty lanes.
LEMMA InitInv ==
    ASSUME Init
    PROVE  IInv
  <1> USE LanesAssumption DEF Init
  <1>1. TypeOK
    <2>1. q \in [Runtimes -> [Classes -> Seq(Classes)]]
      BY EmptySeq
    <2>2. pc \in [Workers -> Points] /\ job \in [Workers -> Jobs]
      BY DEF Points, Jobs
    <2>3. /\ permit \in [Workers -> BOOLEAN] /\ wants \in [Workers -> BOOLEAN]
          /\ fresh \in [Workers -> BOOLEAN] /\ ending \in [Workers -> BOOLEAN]
      OBVIOUS
    <2> QED BY <2>1, <2>2, <2>3 DEF TypeOK
  <1>2. WorkerInv
    BY WorkerFacts DEF WorkerInv, Sound, JobOf, PermitOf, WantsOf, EndOf, Passes, Releasing, PassedOver,
                       FlexiblePoints
  <1>3. LastInv
    BY WorkerFacts DEF LastInv
  <1>4. LaneInv
    BY DEF LaneInv, Unqueued, Classes
  <1>5. PermitsCounted
    <2>1. {w \in Workers : permit[w]} = {}
      OBVIOUS
    <2>2. active = 0 /\ 0 <= MaxPermits
      OBVIOUS
    <2>3. Cardinality({w \in Workers : permit[w]}) = 0
      BY <2>1, FS_EmptySet, Zenon
    <2> QED BY ONLY <2>2, <2>3 DEF PermitsCounted
  <1>6. DemandExact
    <2> SUFFICES ASSUME NEW r \in Runtimes
                 PROVE  demand[r] = Cardinality({w \in FlexibleOf(r) : wants[w]})
      BY DEF DemandExact
    <2>1. {w \in FlexibleOf(r) : wants[w]} = {}
      BY WorkerFacts
    <2> QED BY <2>1, FS_EmptySet
  <1> QED BY <1>1, <1>2, <1>3, <1>4, <1>5, <1>6 DEF IInv

\* Every step of the threads and of JavaScript preserves the invariant.
LEMMA StepInv ==
    ASSUME IInv, [Next]_vars
    PROVE  IInv'
  <1>1. CASE UNCHANGED vars
    <2>1. TypeOK'
      BY <1>1 DEF IInv, TypeOK, vars
    <2> QED BY <1>1, <2>1, CallAside DEF vars
  <1>2. ASSUME NEW r \in Runtimes, NEW c \in Classes, RequireOpen(r, c)
        PROVE  IInv'
    BY <1>2, RequireOpenInv
  <1>3. ASSUME NEW r \in Runtimes, Submit(r) \/ BeginClose(r) \/ Refuse(r) \/ Teardown(r)
        PROVE  IInv'
    <2>1. "ordinary" \in Classes /\ "expensive" \in Classes
      BY DEF Classes
    <2> QED BY <1>3, <2>1, SubmitInv, BeginCloseInv, RefuseInv, NotifyWaitersInv, ShutDownInv DEF Teardown
  <1>4. ASSUME NEW w \in Workers, WorkerStep(w)
        PROVE  IInv'
    <2>1. CASE ExecuteStep(w)
      BY <2>1, AcquireInv, AcquireTimesOutInv, ExecuteInv, ReleasePermitInv, CollectWakesInv,
         NotifyWakesInv DEF ExecuteStep
    <2>2. CASE PoisonStep(w)
      <3>1. "ordinary" \in Classes /\ "expensive" \in Classes
        BY DEF Classes
      <3> QED BY <2>2, <3>1, PoisonInv, PoisonTellsInv, PoisonShutsInv DEF PoisonStep
    <2>3. CASE w \in Runtimes /\ (Pop(w) \/ PopEnds(w))
      BY <2>3, PopInv, PopEndsInv
    <2>4. CASE w \in Flexible /\ FlexibleStep(w)
      BY <2>4, SnapshotInv, SummaryInv, RegisterDemandInv, TryPermitInv, TakeInv, InspectInv, StealInv,
         RescueInv, SleepInv, SleepTimesOutInv, UndemandInv, DrainInv DEF FlexibleStep
    <2> QED BY <1>4, <2>1, <2>2, <2>3, <2>4 DEF WorkerStep
  <1> QED BY <1>1, <1>2, <1>3, <1>4 DEF Next

\* The invariant holds throughout.
LEMMA Invariance == Spec => []IInv
  <1>1. Init => IInv
    BY InitInv
  <1>2. IInv /\ [Next]_vars => IInv'
    BY StepInv
  <1> QED BY <1>1, <1>2, PTL DEF Spec

\* The state of the search threads is well formed: no lane, counter or set of
\* pending wakes leaves its type, and the registered demand never goes below zero
\* although each worker drops its own.
THEOREM LanesTyped == Spec => []TypeOK
  <1>1. IInv => TypeOK
    BY DEF IInv
  <1> QED BY <1>1, Invariance, PTL

\* The permits that are out are exactly those the workers own, never more than the
\* process allows, and no waiting, sleeping or ended thread owns one: Drop for
\* ExpensiveSearchPermit runs once for each, whether the search was lost to another
\* worker, failed, panicked or met a shut runtime.
THEOREM PermitsNeverLeak == Spec => []PermitsExact
  <1>1. IInv => PermitsExact
    BY DEF IInv, PermitsCounted, WorkerInv, Sound, PermitOf, PermitsExact
  <1> QED BY <1>1, Invariance, PTL

\* A runtime is registered for a wake-up exactly while one of its flexible workers
\* owns an ExpensiveWakeDemand.
THEOREM DemandAlwaysExact == Spec => []DemandExact
  <1>1. IInv => DemandExact
    BY DEF IInv
  <1> QED BY <1>1, Invariance, PTL

\* A worker of the runtime that sleeps over an expensive search with a current
\* generation saw all permits out, and no permit has been given back since without
\* a thread on its way to wake it.
LEMMA AwakeOverWork ==
    ASSUME IInv, NEW r \in Runtimes, closing[r] = "open"
    PROVE  ~SleepsOverWork(r)
  <1> SUFFICES ASSUME SleepsOverWork(r)
               PROVE  FALSE
    OBVIOUS
  <1>1. /\ \E w \in Flexible : Home[w] = r
        /\ \A w \in Flexible : Home[w] = r => pc[w] = "asleep"
    BY DEF SleepsOverWork, Sleepers, FlexibleOf
  <1>2. PICK w \in Flexible : Home[w] = r /\ fresh[w]
    BY <1>1 DEF IInv, LastInv
  <1>3. pc[w] = "asleep" /\ Sound(w) /\ ~Unqueued(r) /\ state[r] = "OPEN"
    BY <1>1, <1>2, WorkerFacts DEF IInv, WorkerInv, SleepsOverWork, Unqueued
  <1>4. active \in Nat /\ MaxPermits \in Nat /\ demand \in [Runtimes -> Nat]
    BY LanesAssumption DEF IInv, TypeOK
  <1>5. wants[w] /\ (active >= MaxPermits \/ Rousing(r))
    BY <1>2, <1>3 DEF Sound, Passes, PassedOver
  <1>6. demand[r] > 0
    BY <1>2, <1>4, <1>5, DemandRegistered DEF IInv
  <1> QED BY <1>4, <1>5, <1>6 DEF SleepsOverWork, Rousing

\* No wake-up is lost between a worker that finds no permit and goes to sleep on
\* its generation and a thread that gives one back in any runtime: expensive
\* searches of a runtime whose close was not refused wait for capacity only.
THEOREM NoWakeLost == Spec => []NoSleepOverWork
  <1>1. IInv => NoSleepOverWork
    BY AwakeOverWork DEF NoSleepOverWork
  <1> QED BY <1>1, Invariance, PTL

\* When the last search thread of a closed runtime has ended, both lanes are
\* empty: what finish_runtime's join proves.
THEOREM JoinMeansAnswered == Spec => []NothingLeftQueued
  <1>1. ASSUME IInv, NEW r \in Runtimes, \A w \in Workers : HomeOf(w) = r => pc[w] = "done"
        PROVE  Queued(r) = 0
    <2>1. Over(r, "ordinary")
      BY <1>1, WorkerFacts DEF IInv, WorkerInv, Sound, EndOf
    <2>2. Unqueued(r)
      <3>1. CASE \A w \in Flexible : Home[w] # r
        BY <1>1, <3>1 DEF IInv, LaneInv
      <3>2. CASE \E w \in Flexible : Home[w] = r
        BY <1>1, <3>2, WorkerFacts DEF IInv, WorkerInv, Sound, EndOf, Over, Unqueued
      <3> QED BY <3>1, <3>2
    <2>3. q[r]["ordinary"] = <<>> /\ q[r]["expensive"] = <<>>
      BY <2>1, <2>2 DEF Over, Unqueued
    <2> QED BY <2>3 DEF Queued
  <1>2. IInv => NothingLeftQueued
    BY <1>1 DEF NothingLeftQueued
  <1> QED BY <1>2, Invariance, PTL

=============================================================================
