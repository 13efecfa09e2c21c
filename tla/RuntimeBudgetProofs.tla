------------------------ MODULE RuntimeBudgetProofs ------------------------
(***************************************************************************)
(* Proofs about RuntimeBudget, for any number of runtimes, any amounts and *)
(* any limits: no limit is exceeded, no runtime escapes a configured       *)
(* budget, refusals are honest and the counters are exactly the sums of    *)
(* the reservations.                                                       *)
(***************************************************************************)
EXTENDS RuntimeBudget, SumProofs, TLAPS, FiniteSetTheorems

\* The runtimes whose open is pending without a budget.
PendingOpens == {x \in Indexes : phase[x] = "pending"}

\* pending_opens counts them, as long as the count decides anything.
PendingExact == state = "unconfigured" => pending = Cardinality(PendingOpens)

\* Without a budget nothing is reserved, and before the first confirmed open
\* nothing is open.
UnbudgetedPhases ==
    /\ state # "configured" =>
          /\ used = Nothing
          /\ \A x \in Indexes : /\ held[x] = Nothing
                                /\ phase[x] \in {"idle", "pending", "unbudgeted", "retained"}
    /\ state = "unconfigured" => \A x \in Indexes : phase[x] \in {"idle", "pending"}

\* A complete reservation is not empty.
Complete == \A x \in Indexes : phase[x] \in {"admitted", "open"} => held[x]["resident"] = 1

\* The budget mutex is held exactly by the admission under way.
MutexExact == \A x \in Indexes : phase[x] \in {"reserving", "rollback"} <=> mutex = x

\* The inductive invariant.
BudgetInv ==
    /\ TypeOK
    /\ PendingExact
    /\ UnbudgetedPhases
    /\ Complete
    /\ MutexExact
    /\ WithinLimits
    /\ NoneOutsideBudget

\* What a runtime needs is a natural number, and it needs one resident slot.
LEMMA NeedType ==
    /\ \A x \in Indexes, r \in Resources : Need(x, r) \in Nat
    /\ \A x \in Indexes : Need(x, "resident") = 1
  BY BudgetAssumption DEF Need, Resources

\* The set of pending opens is finite, as there are finitely many runtimes.
LEMMA PendingFinite ==
    IsFiniteSet(PendingOpens) /\ Cardinality(PendingOpens) \in Nat
<1>1. PendingOpens \in SUBSET Indexes
  BY DEF PendingOpens
<1> QED
  BY <1>1, FS_Subset, FS_CardinalityType, BudgetAssumption

\* Before anything happens the invariant holds.
LEMMA BudgetInit == Init => BudgetInv
<1> SUFFICES ASSUME Init PROVE BudgetInv
  OBVIOUS
<1>1. TypeOK
  BY BudgetAssumption DEF Init, TypeOK, Nothing, Phases
<1>2. PendingOpens = {}
  BY DEF Init, PendingOpens
<1>3. PendingExact
  BY <1>2, FS_EmptySet DEF Init, PendingExact
<1> QED
  BY <1>1, <1>3, BudgetAssumption
  DEF Init, BudgetInv, UnbudgetedPhases, Complete, MutexExact, WithinLimits, NoneOutsideBudget

\* An action that leaves the pending opens and their count alone keeps the count
\* exact; so does one that adds or removes one of each.
LEMMA PendingKept ==
    ASSUME TypeOK, PendingExact, NEW x \in Indexes, NEW p \in Phases, Become(x, p)
    PROVE  /\ p = "pending" /\ phase[x] # "pending" =>
                Cardinality(PendingOpens') = Cardinality(PendingOpens) + 1
           /\ p # "pending" /\ phase[x] = "pending" =>
                Cardinality(PendingOpens') = Cardinality(PendingOpens) - 1
           /\ p # "pending" /\ phase[x] # "pending" => PendingOpens' = PendingOpens
<1>1. phase' = [phase EXCEPT ![x] = p] /\ phase \in [Indexes -> Phases]
  BY DEF Become, TypeOK
<1>2. p = "pending" => PendingOpens' = PendingOpens \cup {x}
  BY <1>1 DEF PendingOpens
<1>3. p # "pending" => PendingOpens' = PendingOpens \ {x}
  BY <1>1 DEF PendingOpens
<1>4. x \in PendingOpens <=> phase[x] = "pending"
  BY DEF PendingOpens
<1>5. p = "pending" /\ phase[x] # "pending" =>
          Cardinality(PendingOpens') = Cardinality(PendingOpens) + 1
  BY <1>2, <1>4, PendingFinite, FS_AddElement
<1>6. p # "pending" /\ phase[x] = "pending" =>
          Cardinality(PendingOpens') = Cardinality(PendingOpens) - 1
  BY <1>3, <1>4, PendingFinite, FS_RemoveElement
<1>7. p # "pending" /\ phase[x] # "pending" => PendingOpens' = PendingOpens
  BY <1>3, <1>4
<1> QED
  BY <1>5, <1>6, <1>7

\* A pending open is counted.
LEMMA PendingPositive ==
    ASSUME TypeOK, PendingExact, NEW x \in Indexes, phase[x] = "pending", state = "unconfigured"
    PROVE  pending > 0
<1>1. x \in PendingOpens
  BY DEF PendingOpens
<1>2. Cardinality(PendingOpens) # 0
  BY <1>1, PendingFinite, FS_EmptySet
<1> QED
  BY <1>2, PendingFinite DEF PendingExact

\* configure_runtime_budget_in: no open is pending, so nothing escapes.
LEMMA ConfigureKeeps ==
    ASSUME BudgetInv, NEW l \in LimitChoices, Configure(l)
    PROVE  BudgetInv'
<1> USE DEF BudgetInv
<1>1. TypeOK'
  BY BudgetAssumption DEF TypeOK, Configure
<1>2. PendingOpens = {}
  BY PendingFinite, FS_EmptySet DEF Configure, MayConfigure, PendingExact
<1>3. \A x \in Indexes : phase[x] = "idle"
  BY <1>2 DEF PendingOpens, UnbudgetedPhases, Configure
<1>4. \A r \in Resources : used[r] = 0 /\ l[r] \in Nat
  BY BudgetAssumption DEF UnbudgetedPhases, Configure, Nothing
<1>5. WithinLimits'
  BY <1>4 DEF WithinLimits, Configure
<1>6. NoneOutsideBudget' /\ Complete' /\ UnbudgetedPhases' /\ PendingExact'
  BY <1>3 DEF NoneOutsideBudget, Complete, UnbudgetedPhases, PendingExact, Configure
<1>7. MutexExact'
  BY DEF MutexExact, Configure
<1> QED
  BY <1>1, <1>5, <1>6, <1>7

\* admit_runtime.
LEMMA AdmitKeeps ==
    ASSUME BudgetInv, NEW x \in Indexes, Admit(x)
    PROVE  BudgetInv'
<1> USE DEF BudgetInv
<1>1. CASE state = "unconfigured"
  <2>1. pending' = pending + 1 /\ Become(x, "pending") /\ mutex' = mutex
    BY <1>1 DEF Admit
  <2>2. UNCHANGED <<state, limits, used, held>> /\ phase[x] = "idle"
    BY DEF Admit
  <2>3. TypeOK'
    BY <2>1, <2>2 DEF TypeOK, Become, Phases
  <2>4. Cardinality(PendingOpens') = Cardinality(PendingOpens) + 1
    BY <2>1, <2>2, PendingKept DEF Phases
  <2>5. PendingExact'
    BY <1>1, <2>1, <2>2, <2>4 DEF PendingExact
  <2>6. UnbudgetedPhases' /\ Complete' /\ WithinLimits' /\ NoneOutsideBudget'
    BY <1>1, <2>1, <2>2
    DEF UnbudgetedPhases, Complete, WithinLimits, NoneOutsideBudget, Become, TypeOK
  <2>7. MutexExact'
    BY <2>1, <2>2 DEF MutexExact, Become, TypeOK
  <2> QED
    BY <2>3, <2>5, <2>6, <2>7
<1>2. CASE state # "unconfigured"
  <2>1. UNCHANGED <<state, limits, used, held, pending>> /\ phase[x] = "idle" /\ mutex = NoIndex
    BY <1>2 DEF Admit, Unlocked
  <2>2. \/ state = "withoutBudget" /\ Become(x, "unbudgeted") /\ mutex' = mutex
        \/ state = "configured" /\ Become(x, "reserving") /\ mutex' = x
    BY <1>2 DEF Admit
  <2>3. TypeOK'
    BY <2>1, <2>2 DEF TypeOK, Become, Phases
  <2>4. PendingExact'
    BY <1>2, <2>1 DEF PendingExact
  <2>5. UnbudgetedPhases' /\ Complete' /\ WithinLimits' /\ NoneOutsideBudget'
    BY <1>2, <2>1, <2>2
    DEF UnbudgetedPhases, Complete, WithinLimits, NoneOutsideBudget, Become, TypeOK
  <2>6. MutexExact'
    BY <2>1, <2>2, BudgetAssumption DEF MutexExact, Become, TypeOK
  <2> QED
    BY <2>3, <2>4, <2>5, <2>6
<1> QED
  BY <1>1, <1>2

\* A runtime in one of the phases of a budget shows that there is one.
LEMMA Budgeted ==
    ASSUME BudgetInv, NEW x \in Indexes,
           phase[x] \in {"reserving", "rollback", "admitted", "open", "releasing"}
    PROVE  state = "configured"
  BY DEF BudgetInv, UnbudgetedPhases

\* reserve: the counter grows only within its limit.
LEMMA ReserveKeeps ==
    ASSUME BudgetInv, NEW x \in Indexes, NEW r \in Resources, Reserve(x, r)
    PROVE  BudgetInv'
<1> USE DEF BudgetInv
<1>1. state = "configured" /\ phase[x] = "reserving" /\ UNCHANGED <<state, limits, pending, mutex>>
  BY Budgeted DEF Reserve
<1>2. Need(x, r) \in Nat
  BY NeedType
<1>3. \/ /\ Fits(x, r)
         /\ used' = [used EXCEPT ![r] = @ + Need(x, r)]
         /\ held' = [held EXCEPT ![x][r] = Need(x, r)]
         /\ phase' = phase
      \/ /\ held' = [held EXCEPT ![x][r] = 0]
         /\ phase' = [phase EXCEPT ![x] = "rollback"]
         /\ used' = used
  BY DEF Reserve, Recorded, Become
<1>4. TypeOK'
  BY <1>1, <1>2, <1>3 DEF TypeOK, Phases
<1>5. WithinLimits'
  BY <1>1, <1>3 DEF WithinLimits, Fits, TypeOK
<1>6. \A y \in Indexes : y # x => held'[y] = held[y] /\ phase'[y] = phase[y]
  BY <1>3 DEF TypeOK
<1>7. phase'[x] \in {"reserving", "rollback"}
  BY <1>1, <1>3 DEF TypeOK
<1>8. NoneOutsideBudget' /\ Complete' /\ UnbudgetedPhases' /\ PendingExact'
  BY <1>1, <1>6, <1>7 DEF NoneOutsideBudget, Complete, UnbudgetedPhases, PendingExact
<1>9. MutexExact'
  BY <1>1, <1>6, <1>7 DEF MutexExact
<1> QED
  BY <1>4, <1>5, <1>8, <1>9

\* The admission is complete.
LEMMA AdmittedKeeps ==
    ASSUME BudgetInv, NEW x \in Indexes, Admitted(x)
    PROVE  BudgetInv'
<1> USE DEF BudgetInv
<1>1. state = "configured" /\ mutex = x /\ UNCHANGED <<state, limits, pending, used, held>>
  BY Budgeted DEF Admitted, MutexExact
<1>2. phase' = [phase EXCEPT ![x] = "admitted"] /\ mutex' = NoIndex
  BY DEF Admitted, Become
<1>3. held[x]["resident"] = 1
  BY NeedType DEF Admitted, Resources
<1>4. TypeOK'
  BY <1>1, <1>2 DEF TypeOK, Phases
<1>5. NoneOutsideBudget' /\ Complete' /\ UnbudgetedPhases' /\ PendingExact' /\ WithinLimits'
  BY <1>1, <1>2, <1>3
  DEF NoneOutsideBudget, Complete, UnbudgetedPhases, PendingExact, WithinLimits, TypeOK
<1>6. MutexExact'
  BY <1>1, <1>2, BudgetAssumption DEF MutexExact, TypeOK
<1> QED
  BY <1>4, <1>5, <1>6

\* release: a counter only shrinks.
LEMMA ReleaseKeeps ==
    ASSUME BudgetInv, NEW x \in Indexes, NEW r \in Resources, Release(x, r)
    PROVE  BudgetInv'
<1> USE DEF BudgetInv
<1>1. state = "configured" /\ UNCHANGED <<state, limits, pending, phase, mutex>>
  BY Budgeted DEF Release
<1>2. used' = [used EXCEPT ![r] = IF @ >= held[x][r] THEN @ - held[x][r] ELSE @]
  BY DEF Release
<1>3. held' = [held EXCEPT ![x][r] = 0] /\ phase[x] \in {"rollback", "releasing"}
  BY DEF Release
<1>4. held[x][r] \in Nat /\ used \in [Resources -> Nat]
  BY DEF TypeOK
<1>5. used' \in [Resources -> Nat] /\ \A s \in Resources : used'[s] <= used[s]
  BY <1>2, <1>4
<1>6. TypeOK'
  BY <1>1, <1>3, <1>5 DEF TypeOK
<1>7. limits \in [Resources -> Nat]
  BY <1>1, BudgetAssumption DEF TypeOK
<1>8. WithinLimits'
  BY <1>1, <1>4, <1>5, <1>7 DEF WithinLimits
<1>9. \A y \in Indexes : y # x => held'[y] = held[y]
  BY <1>3 DEF TypeOK
<1>10. NoneOutsideBudget' /\ Complete' /\ UnbudgetedPhases'
  BY <1>1, <1>3, <1>9 DEF NoneOutsideBudget, Complete, UnbudgetedPhases
<1>11. PendingExact' /\ MutexExact'
  BY <1>1 DEF PendingExact, MutexExact
<1> QED
  BY <1>6, <1>8, <1>10, <1>11

\* The end of a drop.
LEMMA ReleasedKeeps ==
    ASSUME BudgetInv, NEW x \in Indexes, Released(x)
    PROVE  BudgetInv'
<1> USE DEF BudgetInv
<1>1. state = "configured" /\ UNCHANGED <<state, limits, pending, used, held>>
  BY Budgeted DEF Released
<1>2. phase' = [phase EXCEPT ![x] = "idle"] /\ phase[x] \in {"rollback", "releasing"}
  BY DEF Released, Become
<1>3. mutex' = IF phase[x] = "rollback" THEN NoIndex ELSE mutex
  BY DEF Released
<1>4. TypeOK'
  BY <1>1, <1>2, <1>3 DEF TypeOK, Phases
<1>5. NoneOutsideBudget' /\ Complete' /\ UnbudgetedPhases' /\ PendingExact' /\ WithinLimits'
  BY <1>1, <1>2
  DEF NoneOutsideBudget, Complete, UnbudgetedPhases, PendingExact, WithinLimits, TypeOK
<1>6. MutexExact'
  BY <1>2, <1>3, BudgetAssumption DEF MutexExact, TypeOK
<1> QED
  BY <1>4, <1>5, <1>6

\* confirm_open.
LEMMA ConfirmOpenKeeps ==
    ASSUME BudgetInv, NEW x \in Indexes, ConfirmOpen(x)
    PROVE  BudgetInv'
<1> USE DEF BudgetInv
<1>1. UNCHANGED <<limits, pending, used, held, mutex>>
  BY DEF ConfirmOpen
<1>2. CASE phase[x] = "admitted"
  <2>1. phase' = [phase EXCEPT ![x] = "open"] /\ state' = state /\ state = "configured"
    BY <1>2, Budgeted DEF ConfirmOpen, Become
  <2>2. TypeOK'
    BY <1>1, <2>1 DEF TypeOK, Phases
  <2>3. NoneOutsideBudget' /\ Complete' /\ UnbudgetedPhases' /\ PendingExact' /\ WithinLimits'
    BY <1>1, <1>2, <2>1
    DEF NoneOutsideBudget, Complete, UnbudgetedPhases, PendingExact, WithinLimits, TypeOK
  <2>4. MutexExact'
    BY <1>1, <1>2, <2>1 DEF MutexExact, TypeOK
  <2> QED
    BY <2>2, <2>3, <2>4
<1>3. CASE phase[x] = "pending"
  <2>1. phase' = [phase EXCEPT ![x] = "unbudgeted"] /\ state' = Confirmed
    BY <1>3 DEF ConfirmOpen, Become
  <2>2. state # "configured"
    BY <1>3 DEF NoneOutsideBudget
  <2>3. state' = "withoutBudget"
    BY <1>3, <2>1, <2>2, PendingPositive DEF Confirmed, TypeOK
  <2>4. TypeOK'
    BY <1>1, <2>1, <2>2, <2>3 DEF TypeOK, Phases
  <2>5. NoneOutsideBudget' /\ Complete' /\ UnbudgetedPhases' /\ PendingExact' /\ WithinLimits'
    BY <1>1, <1>3, <2>1, <2>2, <2>3
    DEF NoneOutsideBudget, Complete, UnbudgetedPhases, PendingExact, WithinLimits, TypeOK
  <2>6. MutexExact'
    BY <1>1, <1>3, <2>1 DEF MutexExact, TypeOK
  <2> QED
    BY <2>4, <2>5, <2>6
<1> QED
  BY <1>2, <1>3 DEF ConfirmOpen

\* Drop for RuntimeAdmission.
LEMMA DropKeeps ==
    ASSUME BudgetInv, NEW x \in Indexes, Drop(x)
    PROVE  BudgetInv'
<1> USE DEF BudgetInv
<1>1. UNCHANGED <<state, limits, used, held, mutex>>
  BY DEF Drop
<1>2. CASE phase[x] \in {"admitted", "open"}
  <2>1. phase' = [phase EXCEPT ![x] = "releasing"] /\ pending' = pending /\ state = "configured"
    BY <1>2, Budgeted DEF Drop, Become
  <2>2. TypeOK'
    BY <1>1, <2>1 DEF TypeOK, Phases
  <2>3. NoneOutsideBudget' /\ Complete' /\ UnbudgetedPhases' /\ PendingExact' /\ WithinLimits'
    BY <1>1, <1>2, <2>1
    DEF NoneOutsideBudget, Complete, UnbudgetedPhases, PendingExact, WithinLimits, TypeOK
  <2>4. MutexExact'
    BY <1>1, <1>2, <2>1 DEF MutexExact, TypeOK
  <2> QED
    BY <2>2, <2>3, <2>4
<1>3. CASE phase[x] = "pending"
  <2>1. Become(x, "idle") /\ pending' = IF state = "unconfigured" THEN pending - 1 ELSE pending
    BY <1>3 DEF Drop
  <2>2. state = "unconfigured" => pending > 0
    BY <1>3, PendingPositive
  <2>3. TypeOK'
    BY <1>1, <2>1, <2>2 DEF TypeOK, Phases, Become
  <2>4. Cardinality(PendingOpens') = Cardinality(PendingOpens) - 1
    BY <1>3, <2>1, PendingKept DEF Phases
  <2>5. PendingExact'
    BY <1>1, <2>1, <2>4 DEF PendingExact
  <2>6. NoneOutsideBudget' /\ Complete' /\ UnbudgetedPhases' /\ WithinLimits'
    BY <1>1, <1>3, <2>1
    DEF NoneOutsideBudget, Complete, UnbudgetedPhases, WithinLimits, TypeOK, Become
  <2>7. MutexExact'
    BY <1>1, <1>3, <2>1 DEF MutexExact, TypeOK, Become
  <2> QED
    BY <2>3, <2>5, <2>6, <2>7
<1>4. CASE phase[x] = "unbudgeted"
  <2>1. phase' = [phase EXCEPT ![x] = "idle"] /\ pending' = pending
    BY <1>4 DEF Drop, Become, PendingAfterClose
  <2>2. state = "withoutBudget"
    BY <1>4 DEF NoneOutsideBudget, UnbudgetedPhases, TypeOK
  <2>3. TypeOK'
    BY <1>1, <2>1 DEF TypeOK, Phases
  <2>4. NoneOutsideBudget' /\ Complete' /\ UnbudgetedPhases' /\ PendingExact' /\ WithinLimits'
    BY <1>1, <1>4, <2>1, <2>2
    DEF NoneOutsideBudget, Complete, UnbudgetedPhases, PendingExact, WithinLimits, TypeOK
  <2>5. MutexExact'
    BY <1>1, <1>4, <2>1 DEF MutexExact, TypeOK
  <2> QED
    BY <2>3, <2>4, <2>5
<1> QED
  BY <1>2, <1>3, <1>4 DEF Drop

\* retain_until_restart.
LEMMA RetainKeeps ==
    ASSUME BudgetInv, NEW x \in Indexes, Retain(x)
    PROVE  BudgetInv'
<1> USE DEF BudgetInv
<1>1. UNCHANGED <<limits, pending, used, held, mutex>> /\ phase' = [phase EXCEPT ![x] = "retained"]
  BY DEF Retain, Become
<1>2. CASE phase[x] \in {"admitted", "open"}
  <2>1. state' = state /\ state = "configured"
    BY <1>2, Budgeted DEF Retain
  <2>2. held[x] # Nothing
    BY <1>2 DEF Complete, Nothing, Resources
  <2>3. TypeOK'
    BY <1>1, <2>1 DEF TypeOK, Phases
  <2>4. NoneOutsideBudget' /\ Complete' /\ UnbudgetedPhases' /\ PendingExact' /\ WithinLimits'
    BY <1>1, <1>2, <2>1, <2>2
    DEF NoneOutsideBudget, Complete, UnbudgetedPhases, PendingExact, WithinLimits, TypeOK
  <2>5. MutexExact'
    BY <1>1, <1>2 DEF MutexExact, TypeOK
  <2> QED
    BY <2>3, <2>4, <2>5
<1>3. CASE phase[x] \in {"pending", "unbudgeted"}
  <2>1. state # "configured"
    BY <1>3 DEF NoneOutsideBudget
  <2>2. state' = "withoutBudget"
    BY <1>3, <2>1 DEF Retain, UnbudgetedPhases, TypeOK
  <2>3. TypeOK'
    BY <1>1, <2>1, <2>2 DEF TypeOK, Phases
  <2>4. NoneOutsideBudget' /\ Complete' /\ UnbudgetedPhases' /\ PendingExact' /\ WithinLimits'
    BY <1>1, <1>3, <2>1, <2>2
    DEF NoneOutsideBudget, Complete, UnbudgetedPhases, PendingExact, WithinLimits, TypeOK
  <2>5. MutexExact'
    BY <1>1, <1>3 DEF MutexExact, TypeOK
  <2> QED
    BY <2>3, <2>4, <2>5
<1> QED
  BY <1>2, <1>3 DEF Retain

\* Every step keeps the invariant.
LEMMA BudgetStep == BudgetInv /\ [Next]_vars => BudgetInv'
<1> SUFFICES ASSUME BudgetInv, [Next]_vars PROVE BudgetInv'
  OBVIOUS
<1>1. CASE Next
  <2>1. ASSUME NEW l \in LimitChoices, Configure(l) PROVE BudgetInv'
    BY <2>1, ConfigureKeeps
  <2>2. ASSUME NEW x \in Indexes, Admit(x) PROVE BudgetInv'
    BY <2>2, AdmitKeeps
  <2>3. ASSUME NEW x \in Indexes, Admitted(x) PROVE BudgetInv'
    BY <2>3, AdmittedKeeps
  <2>4. ASSUME NEW x \in Indexes, Released(x) PROVE BudgetInv'
    BY <2>4, ReleasedKeeps
  <2>5. ASSUME NEW x \in Indexes, ConfirmOpen(x) PROVE BudgetInv'
    BY <2>5, ConfirmOpenKeeps
  <2>6. ASSUME NEW x \in Indexes, Drop(x) PROVE BudgetInv'
    BY <2>6, DropKeeps
  <2>7. ASSUME NEW x \in Indexes, Retain(x) PROVE BudgetInv'
    BY <2>7, RetainKeeps
  <2>8. ASSUME NEW x \in Indexes, NEW r \in Resources, Reserve(x, r) PROVE BudgetInv'
    BY <2>8, ReserveKeeps
  <2>9. ASSUME NEW x \in Indexes, NEW r \in Resources, Release(x, r) PROVE BudgetInv'
    BY <2>9, ReleaseKeeps
  <2> QED
    BY <1>1, <2>1, <2>2, <2>3, <2>4, <2>5, <2>6, <2>7, <2>8, <2>9 DEF Next
<1>2. CASE UNCHANGED vars
  BY <1>2
  DEF vars, BudgetInv, TypeOK, PendingExact, PendingOpens, UnbudgetedPhases, Complete,
      MutexExact, WithinLimits, NoneOutsideBudget
<1> QED
  BY <1>1, <1>2

\* The inductive invariant holds in every reachable state.
THEOREM BudgetInvariant == Spec => []BudgetInv
<1> QED
  BY BudgetInit, BudgetStep, PTL DEF Spec

\* No resource is ever reserved beyond its limit (reserve, RuntimeBudget::admit).
THEOREM WithinLimitsHolds == Spec => []WithinLimits
<1>1. BudgetInv => WithinLimits
  BY DEF BudgetInv
<1> QED
  BY <1>1, BudgetInvariant, PTL

\* Once a budget is configured no runtime is outside it (admit_runtime,
\* confirm_open and retain_until_restart against configure_runtime_budget).
THEOREM NoneOutsideBudgetHolds == Spec => []NoneOutsideBudget
<1>1. BudgetInv => NoneOutsideBudget
  BY DEF BudgetInv
<1> QED
  BY <1>1, BudgetInvariant, PTL

\* The budget mutex makes refusals honest: two admissions never see each other's
\* partial reservations (admit_runtime).
THEOREM HonestRefusalHolds == Spec => []HonestRefusal
<1>1. BudgetInv => HonestRefusal
  BY DEF BudgetInv, MutexExact, HonestRefusal
<1> QED
  BY <1>1, BudgetInvariant, PTL
-----------------------------------------------------------------------------
(* The counters are sums of reservations.                                  *)

\* What the reservations H hold of resource r.
Total(H, r) == MapThenSumSet(LAMBDA x : H[x][r], Indexes)

\* A reservation holds an amount whole or not at all.
WholeAmounts == \A x \in Indexes, r \in Resources : held[x][r] \in {0, Need(x, r)}

\* The counters compared with the totals, before and after a step.
LEMMA ExactTotals ==
    /\ CountersExact <=> \A r \in Resources : used[r] = Total(held, r)
    /\ CountersExact' <=> \A r \in Resources : used'[r] = Total(held', r)
<1>1. CountersExact <=> \A r \in Resources : used[r] = Total(held, r)
  BY Zenon DEF CountersExact, Total
<1>2. CountersExact' <=> \A r \in Resources : used'[r] = Total(held, r)'
  BY Zenon DEF CountersExact, Total
<1> QED
  BY <1>1, <1>2

\* The summands of a total.
Column(H, r) == [x \in Indexes |-> H[x][r]]

\* A total is the sum of its column.
LEMMA TotalIsSum ==
    ASSUME NEW H, NEW r, Column(H, r) \in [Indexes -> Int]
    PROVE  SumsTo(Column(H, r), Total(H, r), Indexes)
<1> DEFINE f == Column(H, r)
           Table(h) == h = [s \in SUBSET Indexes |->
               IF s = {} THEN 0
               ELSE H[CHOOSE x \in s : TRUE][r] + h[s \ {CHOOSE x \in s : TRUE}]]
           t == CHOOSE h : Table(h)
<1>0. f \in [Indexes -> Int] /\ \A x \in Indexes : f[x] = H[x][r]
  BY DEF Column
<1>1. Total(H, r) = t[Indexes]
  BY Zenon DEF Total, MapThenSumSet, MapThenFoldSet
<1> HIDE DEF f
<1>2. PICK h \in [SUBSET Indexes -> Int] : IsSum(h, f, Indexes)
  BY <1>0, SumExists, BudgetAssumption
<1>3. ASSUME NEW k PROVE Table(k) <=> IsSum(k, f, Indexes)
  <2>1. \A s \in SUBSET Indexes :
           (IF s = {} THEN 0 ELSE H[CHOOSE x \in s : TRUE][r] + k[s \ {CHOOSE x \in s : TRUE}])
              = Unfold(f, k, s)
    <3>1. ASSUME NEW s \in SUBSET Indexes, s # {}
          PROVE  H[CHOOSE x \in s : TRUE][r] = f[Pick(s)]
      <4>1. Pick(s) \in Indexes
        BY <3>1 DEF Pick
      <4> QED
        BY <1>0, <4>1 DEF Pick
    <3> QED
      BY <3>1 DEF Unfold, Pick
  <2> QED
    BY <2>1, Zenon DEF IsSum
<1>4. Table(t)
  <2> HIDE DEF Table
  <2>1. Table(h)
    BY <1>2, <1>3
  <2> QED
    BY <2>1
<1> HIDE DEF t, Table
<1>5. SumsTo(f, Total(H, r), Indexes)
  BY <1>1, <1>3, <1>4 DEF SumsTo
<1> QED
  BY <1>5 DEF f

\* One reservation changes in one resource: its total changes by as much, the
\* other totals stay.
LEMMA TotalChange ==
    ASSUME NEW H, NEW G, NEW e \in Indexes, NEW r,
           NatOn(Column(H, r), Indexes), NatOn(Column(G, r), Indexes),
           AlikeBut(Column(H, r), Column(G, r), Indexes, e)
    PROVE  /\ Total(H, r) \in Nat /\ H[e][r] <= Total(H, r)
           /\ Total(G, r) = Total(H, r) - H[e][r] + G[e][r]
<1>1. Column(H, r) \in [Indexes -> Nat] /\ Column(G, r) \in [Indexes -> Nat]
  BY DEF Column, NatOn
<1>2. AlikeBut(Column(H, r), Column(G, r), Indexes, e)
  OBVIOUS
<1>3. Column(H, r) \in [Indexes -> Int] /\ Column(G, r) \in [Indexes -> Int]
  BY <1>1
<1>4. SumsTo(Column(H, r), Total(H, r), Indexes) /\ SumsTo(Column(G, r), Total(G, r), Indexes)
  BY <1>3, TotalIsSum
<1>5. IsFiniteSet(Indexes) /\ e \in Indexes
  BY BudgetAssumption
<1>6. /\ Total(H, r) \in Nat /\ Column(H, r)[e] <= Total(H, r)
      /\ Total(G, r) = Total(H, r) - Column(H, r)[e] + Column(G, r)[e]
  <2>1. PICK f, g, m, n : /\ f = Column(H, r) /\ g = Column(G, r)
                          /\ m = Total(H, r) /\ n = Total(G, r)
    OBVIOUS
  <2>2. NatOn(f, Indexes) /\ NatOn(g, Indexes) /\ AlikeBut(f, g, Indexes, e)
    BY <1>1, <1>2, <2>1 DEF NatOn
  <2>3. SumsTo(f, m, Indexes) /\ SumsTo(g, n, Indexes)
    BY <1>4, <2>1
  <2>4. m \in Nat /\ f[e] <= m /\ n = m - f[e] + g[e]
    BY ONLY <1>5, <2>2, <2>3, SumChange
  <2> QED
    BY <2>1, <2>4
<1>7. Column(H, r)[e] = H[e][r] /\ Column(G, r)[e] = G[e][r]
  BY DEF Column
<1> QED
  BY <1>6, <1>7

\* Before anything is reserved the totals are zero.
LEMMA TotalNothing ==
    ASSUME NEW H, \A x \in Indexes : H[x] = Nothing, NEW r \in Resources
    PROVE  Total(H, r) = 0
<1>1. Column(H, r) \in [Indexes -> Int] /\ \A x \in Indexes : Column(H, r)[x] = 0
  BY DEF Nothing, Column
<1>2. SumsTo(Column(H, r), Total(H, r), Indexes)
  BY <1>1, TotalIsSum
<1>3. IsFiniteSet(Indexes)
  BY BudgetAssumption
<1> QED
  BY <1>1, <1>2, <1>3, SumZero

\* reserve and the Drop of BudgetReservation change a counter and the reservation
\* by the same amount, whatever other releases interleave; nothing else touches
\* either.
LEMMA CountersStep ==
    ASSUME BudgetInv, WholeAmounts, CountersExact, [Next]_vars
    PROVE  WholeAmounts' /\ CountersExact'
<1>0. /\ held \in [Indexes -> [Resources -> Nat]] /\ used \in [Resources -> Nat]
      /\ \A r \in Resources : used[r] = Total(held, r)
  BY ExactTotals DEF BudgetInv, TypeOK
<1>1. ASSUME UNCHANGED <<used, held>> PROVE WholeAmounts' /\ CountersExact'
  <2>1. WholeAmounts'
    BY <1>1 DEF WholeAmounts
  <2>2. \A r \in Resources : used'[r] = Total(held', r)
    BY <1>0, <1>1
  <2> QED
    BY <2>1, <2>2, ExactTotals
<1>2. ASSUME NEW x \in Indexes, NEW r \in Resources, NEW n \in Nat, n \in {0, Need(x, r)},
             held' = [held EXCEPT ![x][r] = n],
             used' = [used EXCEPT ![r] = used[r] - held[x][r] + n]
      PROVE  WholeAmounts' /\ CountersExact'
  <2>1. PICK G : G = held'
    OBVIOUS
  <2>2. G = [held EXCEPT ![x][r] = n]
    BY <1>2, <2>1
  <2>3. /\ G \in [Indexes -> [Resources -> Nat]] /\ G[x][r] = n
        /\ \A y \in Indexes, s \in Resources : y # x \/ s # r => G[y][s] = held[y][s]
    BY <1>0, <2>2
  <2>4. WholeAmounts'
    <3>1. \A y \in Indexes, s \in Resources : G[y][s] \in {0, Need(y, s)}
      BY <1>2, <2>3 DEF WholeAmounts
    <3> QED
      BY <2>1, <3>1 DEF WholeAmounts, Need
  <2>5. ASSUME NEW s \in Resources PROVE used'[s] = Total(G, s)
    <3>0. /\ \A y \in Indexes : held[y][s] \in Nat /\ G[y][s] \in Nat
          /\ \A y \in Indexes : y # x => G[y][s] = held[y][s]
      BY <1>0, <2>3
    <3>1. Total(G, s) = Total(held, s) - held[x][s] + G[x][s] /\ Total(held, s) \in Nat
      <4>1. PICK H : H = held
        OBVIOUS
      <4>2. /\ x \in Indexes
            /\ NatOn(Column(H, s), Indexes) /\ NatOn(Column(G, s), Indexes)
            /\ AlikeBut(Column(H, s), Column(G, s), Indexes, x)
        BY <3>0, <4>1 DEF Column, NatOn, AlikeBut
      <4>3. Total(G, s) = Total(H, s) - H[x][s] + G[x][s] /\ Total(H, s) \in Nat
        BY ONLY <4>2, TotalChange
      <4> QED
        BY <4>1, <4>3
    <3>2. held[x][s] \in Nat
      BY <1>0
    <3>3. CASE s = r
      BY <1>0, <1>2, <2>3, <3>1, <3>3
    <3>4. CASE s # r
      <4>1. used'[s] = used[s]
        BY <1>0, <1>2, <3>4
      <4> QED
        BY <1>0, <2>3, <3>1, <3>2, <3>4, <4>1
    <3> QED
      BY <3>3, <3>4
  <2>6. \A s \in Resources : used'[s] = Total(held', s)
    BY <2>1, <2>5
  <2> QED
    BY <2>4, <2>6, ExactTotals
<1>3. ASSUME NEW x \in Indexes, NEW r \in Resources, Reserve(x, r)
      PROVE  WholeAmounts' /\ CountersExact'
  <2>1. Need(x, r) \in Nat /\ held[x][r] \in Nat /\ used[r] \in Nat
    BY <1>0, NeedType
  <2>2. held[x][r] = 0
    BY <1>3, <2>1 DEF Reserve, NextToReserve, WholeAmounts
  <2>3. CASE Fits(x, r)
    <3>1. /\ used' = [used EXCEPT ![r] = used[r] + Need(x, r)]
          /\ held' = [held EXCEPT ![x][r] = Need(x, r)]
      BY <1>3, <2>3 DEF Reserve
    <3>2. used[r] + Need(x, r) = used[r] - held[x][r] + Need(x, r)
      BY <2>1, <2>2
    <3> QED
      BY <1>2, <2>1, <3>1, <3>2
  <2>4. CASE ~Fits(x, r)
    <3>1. used' = used /\ held' = [held EXCEPT ![x][r] = 0]
      BY <1>3, <2>4 DEF Reserve, Recorded
    <3>2. held' = held
      BY <1>0, <2>2, <3>1
    <3> QED
      BY <1>1, <3>1, <3>2
  <2> QED
    BY <2>3, <2>4
<1>4. ASSUME NEW x \in Indexes, NEW r \in Resources, Release(x, r)
      PROVE  WholeAmounts' /\ CountersExact'
  <2>1. held[x][r] \in Nat /\ used[r] \in Nat
    BY <1>0
  <2>2. held[x][r] <= used[r]
    <3>1. NatOn(Column(held, r), Indexes) /\ AlikeBut(Column(held, r), Column(held, r), Indexes, x)
      BY <1>0 DEF Column, NatOn, AlikeBut
    <3>2. held[x][r] <= Total(held, r)
      BY <3>1, TotalChange
    <3> QED
      BY <1>0, <3>2
  <2>3. /\ used' = [used EXCEPT ![r] = used[r] - held[x][r]]
        /\ held' = [held EXCEPT ![x][r] = 0]
    BY <1>4, <2>1, <2>2 DEF Release
  <2>4. used[r] - held[x][r] = used[r] - held[x][r] + 0
    BY <2>1
  <2> QED
    BY <1>2, <2>3, <2>4
<1>5. ASSUME NEW x \in Indexes,
             Admit(x) \/ Admitted(x) \/ Released(x) \/ ConfirmOpen(x) \/ Drop(x) \/ Retain(x)
      PROVE  WholeAmounts' /\ CountersExact'
  BY <1>1, <1>5 DEF Admit, Admitted, Released, ConfirmOpen, Drop, Retain
<1>6. ASSUME NEW l \in LimitChoices, Configure(l) PROVE WholeAmounts' /\ CountersExact'
  BY <1>1, <1>6 DEF Configure
<1>7. CASE UNCHANGED vars
  BY <1>1, <1>7 DEF vars
<1> QED
  BY <1>3, <1>4, <1>5, <1>6, <1>7 DEF Next

\* The counters are exactly what the reservations hold, for any number of
\* runtimes and however releases race with admissions (reserve, release and the
\* rollback of a refused admission).
THEOREM CountersExactHolds == Spec => []CountersExact
<1>1. Init => WholeAmounts /\ CountersExact
  <2> SUFFICES ASSUME Init PROVE WholeAmounts /\ CountersExact
    OBVIOUS
  <2>1. \A x \in Indexes : held[x] = Nothing
    BY DEF Init
  <2>2. WholeAmounts
    BY <2>1 DEF WholeAmounts, Nothing
  <2>3. \A r \in Resources : used[r] = Total(held, r)
    BY <2>1, TotalNothing DEF Init, Nothing
  <2> QED
    BY <2>2, <2>3, ExactTotals
<1>2. BudgetInv /\ WholeAmounts /\ CountersExact /\ [Next]_vars => WholeAmounts' /\ CountersExact'
  BY CountersStep
<1> QED
  BY <1>1, <1>2, BudgetInvariant, PTL DEF Spec
=============================================================================
