--------------------------- MODULE RuntimeBudget ---------------------------
(***************************************************************************)
(* The process-wide runtime budget (src/src/native.rs): configured at most *)
(* once, and only while no index was opened without it; every open then    *)
(* reserves five resources with one atomic operation each and gives them   *)
(* back the same way.                                                      *)
(*                                                                         *)
(* The budget state is behind a mutex which an admission holds from its    *)
(* first reservation to its last, or to the end of its rollback.  Releases *)
(* of closed runtimes do not take it and interleave with everything.       *)
(***************************************************************************)
EXTENDS Integers, FiniteSets, FiniteSetsExt

CONSTANTS
    Indexes,      \* runtimes JavaScript may open, close and open again
    Readers,      \* those opened read-only
    Requested,    \* Requested[x][r]: what the limits of x ask of resource r
    LimitChoices, \* the limits JavaScript may configure: functions of r
    NoIndex,      \* nobody holds the budget mutex
    NoLimits      \* RuntimeBudgetState is not Configured

\* In the order of RuntimeBudget::admit.
Resources == {"resident", "indexing", "search", "memory", "queued"}

ASSUME BudgetAssumption ==
    /\ IsFiniteSet(Indexes)
    /\ Readers \subseteq Indexes
    /\ NoIndex \notin Indexes
    /\ Requested \in [Indexes -> [Resources -> Nat]]
    /\ LimitChoices \subseteq [Resources -> Nat]
    /\ NoLimits \notin LimitChoices

VARIABLES
    state,    \* RuntimeBudgetState: "unconfigured", "configured", "withoutBudget"
    limits,   \* RuntimeBudget.limits once configured
    pending,  \* Unconfigured.pending_opens
    used,     \* the five counters of the budget
    phase,    \* the life of each runtime
    held,     \* its BudgetReservation
    mutex     \* who holds the budget mutex across steps

vars == <<state, limits, pending, used, phase, held, mutex>>

\* "reserving": inside RuntimeBudget::admit; "rollback": dropping the partial
\* reservation; "admitted" and "pending": open under way, with or without a
\* budget; "unbudgeted": under way or open after OpenedWithoutBudget; "open":
\* confirmed with a budget; "releasing": dropping the reservation; "retained":
\* kept until the process restarts.
Phases == {"idle", "reserving", "rollback", "admitted", "pending", "unbudgeted",
           "open", "releasing", "retained"}

\* What the counters hold against x.
Need(x, r) ==
    IF r = "resident" THEN 1
    ELSE IF r \in {"indexing", "memory"} /\ x \in Readers THEN 0
    ELSE IF r = "queued" /\ x \notin Readers THEN 2 * Requested[x][r]
    ELSE Requested[x][r]

\* The order in which RuntimeBudget::admit reserves.
Before(r) ==
    IF r = "resident" THEN {}
    ELSE IF r = "indexing" THEN {"resident"}
    ELSE IF r = "search" THEN {"resident", "indexing"}
    ELSE IF r = "memory" THEN {"resident", "indexing", "search"}
    ELSE {"resident", "indexing", "search", "memory"}

Nothing == [r \in Resources |-> 0]

TypeOK ==
    /\ state \in {"unconfigured", "configured", "withoutBudget"}
    /\ limits \in LimitChoices \cup {NoLimits}
    /\ (limits # NoLimits) = (state = "configured")
    /\ pending \in Nat
    /\ used \in [Resources -> Nat]
    /\ phase \in [Indexes -> Phases]
    /\ held \in [Indexes -> [Resources -> Nat]]
    /\ mutex \in Indexes \cup {NoIndex}

Init ==
    /\ state = "unconfigured"
    /\ limits = NoLimits
    /\ pending = 0
    /\ used = Nothing
    /\ phase = [x \in Indexes |-> "idle"]
    /\ held = [x \in Indexes |-> Nothing]
    /\ mutex = NoIndex

\* Mutation: the budget state is not locked.
UnlockedAlways == TRUE

\* The budget mutex can be taken.
Unlocked == mutex = NoIndex

Become(x, p) == phase' = [phase EXCEPT ![x] = p]

\* Mutation: a pending open does not keep the budget from being configured.
MayConfigureAlways == TRUE

\* No open has begun without a budget.
MayConfigure == pending = 0

\* configure_runtime_budget_in; every other case leaves the state alone.
Configure(l) ==
    /\ Unlocked
    /\ state = "unconfigured" /\ MayConfigure
    /\ state' = "configured"
    /\ limits' = l
    /\ UNCHANGED <<pending, used, phase, held, mutex>>

\* admit_runtime, without a budget and with one.
Admit(x) ==
    /\ Unlocked
    /\ phase[x] = "idle"
    /\ \/ /\ state = "unconfigured"
          /\ pending' = pending + 1
          /\ Become(x, "pending")
          /\ UNCHANGED mutex
       \/ /\ state = "withoutBudget"
          /\ Become(x, "unbudgeted")
          /\ UNCHANGED <<pending, mutex>>
       \/ /\ state = "configured"
          /\ Become(x, "reserving")
          /\ mutex' = x
          /\ UNCHANGED pending
    /\ UNCHANGED <<state, limits, used, held>>

\* The resource x has yet to reserve next: the earlier ones are reserved, or a
\* read-only runtime does not need them.
NextToReserve(x, r) ==
    /\ held[x][r] < Need(x, r)
    /\ \A s \in Before(r) : held[x][s] = Need(x, s)

\* Mutation: an amount that is one too large is accepted.
FitsOneOver(x, r) == used[r] + Need(x, r) <= limits[r] + 1

\* checked_add(amount).filter(next <= maximum)
Fits(x, r) == used[r] + Need(x, r) <= limits[r]

\* Mutation: the reservation records the amount before it is granted.
RecordedRefused(x, r) == Need(x, r)

\* What the reservation records of an amount that did not fit.
Recorded(x, r) == 0

\* reserve(): one fetch_update; a failure drops the partial reservation.
Reserve(x, r) ==
    /\ phase[x] = "reserving"
    /\ NextToReserve(x, r)
    /\ IF Fits(x, r)
       THEN /\ used' = [used EXCEPT ![r] = @ + Need(x, r)]
            /\ held' = [held EXCEPT ![x][r] = Need(x, r)]
            /\ UNCHANGED phase
       ELSE /\ held' = [held EXCEPT ![x][r] = Recorded(x, r)]
            /\ Become(x, "rollback")
            /\ UNCHANGED used
    /\ UNCHANGED <<state, limits, pending, mutex>>

\* RuntimeBudget::admit returns the whole reservation and the mutex is dropped.
Admitted(x) ==
    /\ phase[x] = "reserving"
    /\ \A r \in Resources : held[x][r] = Need(x, r)
    /\ Become(x, "admitted")
    /\ mutex' = NoIndex
    /\ UNCHANGED <<state, limits, pending, used, held>>

\* Drop for BudgetReservation: one fetch_update per counter, in any place of the
\* other threads' operations.
Release(x, r) ==
    /\ phase[x] \in {"rollback", "releasing"}
    /\ held[x][r] > 0
    /\ used' = [used EXCEPT ![r] = IF @ >= held[x][r] THEN @ - held[x][r] ELSE @]
    /\ held' = [held EXCEPT ![x][r] = 0]
    /\ UNCHANGED <<state, limits, pending, phase, mutex>>

\* The drop is over; that of a refused admission happened under the mutex.
Released(x) ==
    /\ phase[x] \in {"rollback", "releasing"}
    /\ held[x] = Nothing
    /\ Become(x, "idle")
    /\ mutex' = IF phase[x] = "rollback" THEN NoIndex ELSE mutex
    /\ UNCHANGED <<state, limits, pending, used, held>>

\* The first confirmed open without a budget closes the window for one.
Confirmed == IF state = "unconfigured" /\ pending > 0 THEN "withoutBudget" ELSE state

\* RuntimeAdmission::confirm_open.
ConfirmOpen(x) ==
    /\ \/ /\ phase[x] = "admitted"
          /\ Become(x, "open")
          /\ UNCHANGED state
       \/ /\ phase[x] = "pending" /\ Unlocked
          /\ state' = Confirmed
          /\ Become(x, "unbudgeted")
    /\ UNCHANGED <<limits, pending, used, held, mutex>>

\* Only a drop while the open is pending counts it out.
PendingAfterClose == pending

\* Drop for RuntimeAdmission: of a failed open, or of a closed runtime.
Drop(x) ==
    /\ \/ /\ phase[x] \in {"admitted", "open"}
          /\ Become(x, "releasing")
          /\ UNCHANGED pending
       \/ /\ phase[x] = "pending" /\ Unlocked
          /\ pending' = IF state = "unconfigured" THEN pending - 1 ELSE pending
          /\ Become(x, "idle")
       \/ /\ phase[x] = "unbudgeted"
          /\ pending' = PendingAfterClose
          /\ Become(x, "idle")
    /\ UNCHANGED <<state, limits, used, held, mutex>>

\* RuntimeAdmission::retain_until_restart, when teardown was not proven.
Retain(x) ==
    /\ \/ /\ phase[x] \in {"admitted", "open", "unbudgeted"}
          /\ UNCHANGED state
       \/ /\ phase[x] = "pending" /\ Unlocked
          /\ state' = IF state = "unconfigured" THEN "withoutBudget" ELSE state
    /\ Become(x, "retained")
    /\ UNCHANGED <<limits, pending, used, held, mutex>>

Next ==
    \/ \E l \in LimitChoices : Configure(l)
    \/ \E x \in Indexes :
          \/ Admit(x) \/ Admitted(x) \/ Released(x)
          \/ ConfirmOpen(x) \/ Drop(x) \/ Retain(x)
          \/ \E r \in Resources : Reserve(x, r) \/ Release(x, r)

Spec == Init /\ [][Next]_vars

-----------------------------------------------------------------------------
(* Properties.                                                             *)

\* The counters are exactly what the reservations hold: a refused admission
\* leaves nothing behind, a retained one is never given back, and a release
\* racing an admission loses nothing.
CountersExact ==
    \A r \in Resources : used[r] = MapThenSumSet(LAMBDA x : held[x][r], Indexes)

\* No resource is ever reserved beyond the configured limit.
WithinLimits ==
    state = "configured" => \A r \in Resources : used[r] <= limits[r]

\* Once a budget is configured, every runtime counts against it: none that was
\* admitted without one is open, still opening or, its teardown unproven, kept
\* until restart.
NoneOutsideBudget ==
    state = "configured" =>
        \A x \in Indexes : /\ phase[x] \notin {"pending", "unbudgeted"}
                           /\ phase[x] = "retained" => held[x] # Nothing

\* An admission is refused only for what admitted or closing runtimes hold,
\* never because of another admission that is itself about to be refused.
HonestRefusal ==
    \A x \in Indexes : phase[x] = "rollback" =>
        \A y \in Indexes \ {x} : phase[y] \notin {"reserving", "rollback"}
=============================================================================
