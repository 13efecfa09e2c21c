---------------------------- MODULE SearchLanes ----------------------------
(***************************************************************************)
(* The search threads of several runtimes that share the process-wide      *)
(* expensive-search permits (src/src/native.rs): the two lanes of a        *)
(* runtime, its ordinary worker and its flexible workers, the QueueWake    *)
(* generation they sleep on, the wake demand that tells a released permit  *)
(* whom to wake, and the condition variable on which the only thread of a  *)
(* single-threaded runtime waits for a permit.                             *)
(*                                                                         *)
(* A queued command is its class.  Every mutex section is a step, so a     *)
(* notification may fall between any two of them.                          *)
(***************************************************************************)
EXTENDS Integers, Sequences, FiniteSets

CONSTANTS
    Runtimes,     \* runtimes of the process
    Flexible,     \* flexible workers (worker 1 and up)
    Home,         \* the runtime of each flexible worker
    MaxPermits,   \* limits.max_expensive_searches
    MaxQueued,    \* max_queued_commands, shared by the lanes
    Submissions,  \* bound: searches JavaScript submits to each runtime, by class
    Closers,      \* bound: runtimes that are closed, if they do not stay open
    Deadlines,    \* whether a search may outlive its time budget
    Panics,       \* whether a search may panic
    Refusals      \* whether a require-clean close may find the writer dirty

Classes == {"ordinary", "expensive"}

ASSUME LanesAssumption ==
    /\ IsFiniteSet(Runtimes) /\ IsFiniteSet(Flexible)
    /\ Home \in [Flexible -> Runtimes]
    /\ Runtimes \cap Flexible = {}
    /\ MaxPermits \in Nat \ {0}
    /\ MaxQueued \in Nat \ {0}
    /\ Submissions \in [Runtimes -> [Classes -> Nat]]
    /\ Closers \subseteq Runtimes
    /\ Deadlines \in BOOLEAN /\ Panics \in BOOLEAN /\ Refusals \in BOOLEAN

\* Worker 0 of a runtime is named by the runtime.
Workers == Runtimes \cup Flexible
HomeOf(w) == IF w \in Flexible THEN Home[w] ELSE w
FlexibleOf(r) == {w \in Flexible : Home[w] = r}

VARIABLES
    state,    \* Runtime.state
    q,        \* items of the two queues, by lane
    closed,   \* the queues are closed, by lane
    left,     \* searches JavaScript may still submit
    active,   \* RuntimeBudget.expensive_searches
    demand,   \* expensive_search_wakes: registered demand, by runtime
    pc,       \* control point of each worker
    job,      \* class of the command a worker executes
    permit,   \* the worker owns an ExpensiveSearchPermit
    wants,    \* the worker owns an ExpensiveWakeDemand
    fresh,    \* QueueWake: the generation is still the one the worker observed
    ending,   \* expensive_closed, as the worker read it in this round
    calls,    \* wakes collected by notify_expensive_wakes, not yet notified
    closing,  \* progress of the runtime's teardown; "refused": open after E_DIRTY_CLOSE
    call      \* class of the search whose call has found the runtime open, not yet pushed

vars == <<state, q, closed, left, active, demand, pc, job, permit, wants, fresh, ending,
          calls, closing, call>>

Points == {"pop", "acquire", "blocked", "exec", "release", "collect", "notify", "top",
           "summary", "demand", "permit", "take", "inspect", "steal", "rescue", "sleep",
           "asleep", "undemand", "drain", "poison", "tell", "shutOrdinary",
           "shutExpensive", "done"}

Jobs == Classes \cup {"none", "panicked"}

TypeOK ==
    /\ state \in [Runtimes -> {"OPEN", "CLOSING", "POISONED"}]
    /\ q \in [Runtimes -> [Classes -> Seq(Classes)]]
    /\ closed \in [Runtimes -> [Classes -> BOOLEAN]]
    /\ left \in [Runtimes -> [Classes -> Nat]]
    /\ active \in Nat
    /\ demand \in [Runtimes -> Nat]
    /\ pc \in [Workers -> Points]
    /\ job \in [Workers -> Jobs]
    /\ permit \in [Workers -> BOOLEAN]
    /\ wants \in [Workers -> BOOLEAN]
    /\ fresh \in [Workers -> BOOLEAN]
    /\ ending \in [Workers -> BOOLEAN]
    /\ calls \in [Workers -> SUBSET Runtimes]
    /\ closing \in [Runtimes -> {"open", "store", "ordinary", "expensive", "over", "refused"}]
    /\ call \in [Runtimes -> Classes \cup {"none"}]

Init ==
    /\ state = [r \in Runtimes |-> "OPEN"]
    /\ q = [r \in Runtimes |-> [l \in Classes |-> <<>>]]
    /\ closed = [r \in Runtimes |-> [l \in Classes |-> FALSE]]
    /\ left = Submissions
    /\ active = 0
    /\ demand = [r \in Runtimes |-> 0]
    /\ pc = [w \in Workers |-> IF w \in Flexible THEN "top" ELSE "pop"]
    /\ job = [w \in Workers |-> "none"]
    /\ permit = [w \in Workers |-> FALSE]
    /\ wants = [w \in Workers |-> FALSE]
    /\ fresh = [w \in Workers |-> FALSE]
    /\ ending = [w \in Workers |-> FALSE]
    /\ calls = [w \in Workers |-> {}]
    /\ closing = [r \in Runtimes |-> "open"]
    /\ call = [r \in Runtimes |-> "none"]

Goto(w, point) == pc' = [pc EXCEPT ![w] = point]

\* Runtime::search_queue
LaneOf(r, c) == IF FlexibleOf(r) = {} THEN "ordinary" ELSE c

Queued(r) == Len(q[r]["ordinary"]) + Len(q[r]["expensive"])

Sleepers(r) == {w \in FlexibleOf(r) : pc[w] = "asleep"}

\* QueueWake::notify moves the generation on; a sleeper that is woken sees it.
Stale(R) == [w \in Workers |-> fresh[w] /\ HomeOf(w) \notin R]
WokenIn(R, p) ==
    [w \in Workers |-> IF p[w] = "asleep" /\ HomeOf(w) \in R THEN "undemand" ELSE p[w]]

\* Everybody on the condition variable of the permits is woken.
Unblocked(p) == [w \in Workers |-> IF p[w] = "blocked" THEN "acquire" ELSE p[w]]

-----------------------------------------------------------------------------
(* JavaScript and the writer actor.                                        *)

\* native_search and native_trace_matches: require_open, ...
RequireOpen(r, c) ==
    /\ call[r] = "none" /\ left[r][c] > 0
    /\ state[r] = "OPEN"
    /\ left' = [left EXCEPT ![r][c] = @ - 1]
    /\ call' = [call EXCEPT ![r] = c]
    /\ UNCHANGED <<state, q, closed, active, demand, pc, job, permit, wants, fresh, ending, calls, closing>>

\* ... then, under the lane's mutex, the push, which does not look at the state
\* again, ready.notify_one and notify_shared(false), which wakes one sleeper if
\* there is any; a closed or full lane refuses.
Submit(r) ==
    LET c == call[r]
        l == LaneOf(r, c)
    IN
    /\ c # "none"
    /\ call' = [call EXCEPT ![r] = "none"]
    /\ \/ /\ ~closed[r][l] /\ Queued(r) < MaxQueued
          /\ q' = [q EXCEPT ![r][l] = Append(@, c)]
          /\ fresh' = Stale({r})
          /\ IF Sleepers(r) = {} THEN UNCHANGED pc
             ELSE \E w \in Sleepers(r) : Goto(w, "undemand")
       \/ /\ closed[r][l] \/ Queued(r) >= MaxQueued
          /\ UNCHANGED <<q, fresh, pc>>
    /\ UNCHANGED <<state, closed, left, active, demand, job, permit, wants, ending, calls, closing>>

\* native_close leaves a poisoned runtime poisoned, force_close does not.  Both run
\* on the JavaScript thread of the runtime, so between two of its calls.
BeginClose(r) ==
    /\ r \in Closers /\ closing[r] \in {"open", "refused"} /\ call[r] = "none"
    /\ \/ state' = [state EXCEPT ![r] = "CLOSING"]
       \/ state[r] = "POISONED" /\ UNCHANGED state
    /\ closing' = [closing EXCEPT ![r] = "store"]
    /\ UNCHANGED <<q, closed, left, active, demand, pc, job, permit, wants, fresh, ending, calls, call>>

\* notify_expensive_waiters
NotifyWaiters(r) ==
    /\ closing[r] = "store"
    /\ pc' = Unblocked(pc)
    /\ closing' = [closing EXCEPT ![r] = "ordinary"]
    /\ UNCHANGED <<state, q, closed, left, active, demand, job, permit, wants, fresh, ending, calls, call>>

\* The writer refuses a require-clean close with uncommitted mutations, unless
\* the runtime was poisoned meanwhile: the runtime is open again.
Refuse(r) ==
    /\ Refusals /\ closing[r] = "ordinary" /\ state[r] = "CLOSING"
    /\ state' = [state EXCEPT ![r] = "OPEN"]
    /\ closing' = [closing EXCEPT ![r] = "refused"]
    /\ UNCHANGED <<q, closed, left, active, demand, pc, job, permit, wants, fresh, ending, calls, call>>

\* Mutation: closing a lane does not wake the flexible workers.
WokenByCloseNone(r, p) == p

\* notify_shared(true)
WokenByClose(r, p) == WokenIn({r}, p)

\* A lane is closed: shutdown_after_drain leaves its commands to the workers.
CloseLane(r, l) ==
    /\ closed' = [closed EXCEPT ![r][l] = TRUE]
    /\ fresh' = Stale({r})

\* finish_runtime, up to the joins.
ShutDown(r, l, next) ==
    /\ closing[r] = l
    /\ CloseLane(r, l)
    /\ pc' = WokenByClose(r, pc)
    /\ closing' = [closing EXCEPT ![r] = next]
    /\ UNCHANGED <<state, q, left, active, demand, job, permit, wants, ending, calls, call>>

Teardown(r) ==
    \/ NotifyWaiters(r)
    \/ ShutDown(r, "ordinary", "expensive")
    \/ ShutDown(r, "expensive", "over")

-----------------------------------------------------------------------------
(* execute_search_command.                                                 *)

\* Where a worker goes on after a command.
Loop(w) == IF w \notin Flexible THEN "pop" ELSE IF ending[w] THEN "drain" ELSE "top"

\* acquire_expensive: wait while all permits are out, unless the runtime shuts
\* or the search's time is up.
Acquire(w) ==
    LET open == state[HomeOf(w)] = "OPEN" IN
    /\ pc[w] = "acquire"
    /\ \/ /\ active < MaxPermits /\ open
          /\ active' = active + 1
          /\ permit' = [permit EXCEPT ![w] = TRUE]
          /\ Goto(w, "exec")
          /\ UNCHANGED job
       \/ /\ ~open \/ (Deadlines /\ active >= MaxPermits)
          /\ job' = [job EXCEPT ![w] = "none"]
          /\ Goto(w, Loop(w))
          /\ UNCHANGED <<active, permit>>
       \/ /\ active >= MaxPermits /\ open
          /\ Goto(w, "blocked")
          /\ UNCHANGED <<active, permit, job>>
    /\ UNCHANGED <<state, q, closed, left, demand, wants, fresh, ending, calls, closing, call>>

\* wait_timeout expired
AcquireTimesOut(w) ==
    /\ pc[w] = "blocked" /\ Deadlines
    /\ Goto(w, "acquire")
    /\ UNCHANGED <<state, q, closed, left, active, demand, job, permit, wants, fresh, ending, calls, closing, call>>

\* The engine answers; the permit dies with the closure, before the answer to a
\* panic poisons the runtime.
Execute(w) ==
    /\ pc[w] = "exec"
    /\ \/ /\ job' = [job EXCEPT ![w] = IF permit[w] THEN @ ELSE "none"]
          /\ Goto(w, IF permit[w] THEN "release" ELSE Loop(w))
       \/ /\ Panics
          /\ job' = [job EXCEPT ![w] = "panicked"]
          /\ Goto(w, IF permit[w] THEN "release" ELSE "poison")
    /\ UNCHANGED <<state, q, closed, left, active, demand, permit, wants, fresh, ending, calls, closing, call>>

\* Mutation: a permit that found no command is forgotten.
ActiveAfterReleaseLeak(w) == IF permit[w] /\ job[w] # "none" THEN active - 1 ELSE active

\* The permits that are out when w has dropped its own, if it has one.
ActiveAfterRelease(w) == IF permit[w] THEN active - 1 ELSE active

\* Drop for ExpensiveSearchPermit: the counter and its condition variable, ...
ReleasePermit(w) ==
    /\ pc[w] = "release"
    /\ active' = ActiveAfterRelease(w)
    /\ permit' = [permit EXCEPT ![w] = FALSE]
    /\ pc' = [Unblocked(pc) EXCEPT ![w] = "collect"]
    /\ UNCHANGED <<state, q, closed, left, demand, job, wants, fresh, ending, calls, closing, call>>

\* Mutation: only the runtime that held the permit is woken.
DemandingOwn(w) == {r \in Runtimes : demand[r] > 0 /\ r = HomeOf(w)}

\* The wakes with registered demand.
Demanding(w) == {r \in Runtimes : demand[r] > 0}

\* ... notify_expensive_wakes: collect the wakes with demand, ...
CollectWakes(w) ==
    /\ pc[w] = "collect"
    /\ calls' = [calls EXCEPT ![w] = Demanding(w)]
    /\ Goto(w, "notify")
    /\ UNCHANGED <<state, q, closed, left, active, demand, job, permit, wants, fresh, ending, closing, call>>

\* ... and notify each of them.  The permit was that of a search, of a search
\* that panicked, or of a worker that found the lane empty.
NotifyWakes(w) ==
    /\ pc[w] = "notify"
    /\ fresh' = Stale(calls[w])
    /\ pc' = [WokenIn(calls[w], pc) EXCEPT ![w] =
                 IF job[w] = "panicked" THEN "poison"
                 ELSE IF job[w] = "none" THEN "inspect" ELSE Loop(w)]
    /\ calls' = [calls EXCEPT ![w] = {}]
    /\ job' = [job EXCEPT ![w] = "none"]
    /\ UNCHANGED <<state, q, closed, left, active, demand, permit, wants, ending, closing, call>>

\* A panic poisons: the state, ...
Poison(w) ==
    /\ pc[w] = "poison"
    /\ state' = [state EXCEPT ![HomeOf(w)] = "POISONED"]
    /\ job' = [job EXCEPT ![w] = "none"]
    /\ Goto(w, "tell")
    /\ UNCHANGED <<q, closed, left, active, demand, permit, wants, fresh, ending, calls, closing, call>>

\* ... notify_expensive_waiters, ...
PoisonTells(w) ==
    /\ pc[w] = "tell"
    /\ pc' = [Unblocked(pc) EXCEPT ![w] = "shutOrdinary"]
    /\ UNCHANGED <<state, q, closed, left, active, demand, job, permit, wants, fresh, ending, calls, closing, call>>

\* ... and both lanes closed, their commands failed.  The thread ends.
PoisonShuts(w, l, point, next) ==
    LET r == HomeOf(w) IN
    /\ pc[w] = point
    /\ CloseLane(r, l)
    /\ q' = [q EXCEPT ![r][l] = <<>>]
    /\ pc' = [WokenByClose(r, pc) EXCEPT ![w] = next]
    /\ UNCHANGED <<state, left, active, demand, job, permit, wants, ending, calls, closing, call>>

PoisonStep(w) ==
    \/ Poison(w) \/ PoisonTells(w)
    \/ PoisonShuts(w, "ordinary", "shutOrdinary", "shutExpensive")
    \/ PoisonShuts(w, "expensive", "shutExpensive", "done")

ExecuteStep(w) ==
    \/ Acquire(w) \/ AcquireTimesOut(w) \/ Execute(w)
    \/ ReleasePermit(w) \/ CollectWakes(w) \/ NotifyWakes(w)

-----------------------------------------------------------------------------
(* ordinary_search_loop.                                                   *)

Pop(w) ==
    /\ pc[w] = "pop" /\ q[w]["ordinary"] # <<>>
    /\ q' = [q EXCEPT ![w]["ordinary"] = Tail(@)]
    /\ job' = [job EXCEPT ![w] = Head(q[w]["ordinary"])]
    /\ Goto(w, IF Head(q[w]["ordinary"]) = "expensive" THEN "acquire" ELSE "exec")
    /\ UNCHANGED <<state, closed, left, active, demand, permit, wants, fresh, ending, calls, closing, call>>

PopEnds(w) ==
    /\ pc[w] = "pop" /\ q[w]["ordinary"] = <<>> /\ closed[w]["ordinary"]
    /\ Goto(w, "done")
    /\ UNCHANGED <<state, q, closed, left, active, demand, job, permit, wants, fresh, ending, calls, closing, call>>

-----------------------------------------------------------------------------
(* flexible_search_loop.                                                   *)

\* wake.snapshot()
Snapshot(w) ==
    /\ pc[w] = "top"
    /\ fresh' = [fresh EXCEPT ![w] = TRUE]
    /\ Goto(w, "summary")
    /\ UNCHANGED <<state, q, closed, left, active, demand, job, permit, wants, ending, calls, closing, call>>

\* expensive.state_summary()
Summary(w) ==
    LET any == q[Home[w]]["expensive"] # <<>> IN
    /\ pc[w] = "summary"
    /\ ending' = [ending EXCEPT ![w] = closed[Home[w]]["expensive"]]
    /\ Goto(w, IF any THEN "demand" ELSE "steal")
    /\ UNCHANGED <<state, q, closed, left, active, demand, job, permit, wants, fresh, calls, closing, call>>

\* register_expensive_wake
RegisterDemand(w) ==
    /\ pc[w] = "demand"
    /\ demand' = [demand EXCEPT ![Home[w]] = @ + 1]
    /\ wants' = [wants EXCEPT ![w] = TRUE]
    /\ Goto(w, "permit")
    /\ UNCHANGED <<state, q, closed, left, active, job, permit, fresh, ending, calls, closing, call>>

\* try_acquire_expensive
PermitFree(w) == active < MaxPermits /\ state[HomeOf(w)] = "OPEN"

TryPermit(w) ==
    /\ pc[w] = "permit"
    /\ \/ /\ PermitFree(w)
          /\ active' = active + 1
          /\ permit' = [permit EXCEPT ![w] = TRUE]
          /\ Goto(w, "take")
       \/ /\ ~PermitFree(w)
          /\ Goto(w, "inspect")
          /\ UNCHANGED <<active, permit>>
    /\ UNCHANGED <<state, q, closed, left, demand, job, wants, fresh, ending, calls, closing, call>>

\* try_pop with a permit in hand; another worker may have been faster.
Take(w) ==
    LET r == Home[w] IN
    /\ pc[w] = "take"
    /\ \/ /\ q[r]["expensive"] # <<>>
          /\ q' = [q EXCEPT ![r]["expensive"] = Tail(@)]
          /\ job' = [job EXCEPT ![w] = "expensive"]
          /\ Goto(w, "undemand")
       \/ /\ q[r]["expensive"] = <<>>
          /\ Goto(w, "release")
          /\ UNCHANGED <<q, job>>
    /\ UNCHANGED <<state, closed, left, active, demand, permit, wants, fresh, ending, calls, closing, call>>

\* Mutation: one worker's drop forgets the demand of the others.
DemandAfterCleared(w) == [demand EXCEPT ![Home[w]] = 0]

\* Drop for ExpensiveWakeDemand, if the worker owns one.
DemandAfter(w) == [demand EXCEPT ![Home[w]] = IF wants[w] THEN @ - 1 ELSE @]

\* inspect_and_take_expired: the searches past their time, some number of the
\* interchangeable commands of the lane, are failed; the demand is dropped and
\* the loop starts again.
Inspect(w) ==
    LET r == Home[w] IN
    /\ pc[w] = "inspect"
    /\ \/ /\ Goto(w, "steal")
          /\ UNCHANGED <<q, demand, wants>>
       \/ /\ Deadlines
          /\ \E n \in 1 .. Len(q[r]["expensive"]) :
                q' = [q EXCEPT ![r]["expensive"] = SubSeq(@, n + 1, Len(@))]
          /\ demand' = DemandAfter(w)
          /\ wants' = [wants EXCEPT ![w] = FALSE]
          /\ Goto(w, "top")
    /\ UNCHANGED <<state, closed, left, active, job, permit, fresh, ending, calls, closing, call>>

\* ordinary_search_queue.try_pop()
Steal(w) ==
    LET r == Home[w] IN
    /\ pc[w] = "steal"
    /\ \/ /\ q[r]["ordinary"] # <<>>
          /\ q' = [q EXCEPT ![r]["ordinary"] = Tail(@)]
          /\ job' = [job EXCEPT ![w] = "ordinary"]
          /\ Goto(w, "undemand")
       \/ /\ q[r]["ordinary"] = <<>>
          /\ Goto(w, "rescue")
          /\ UNCHANGED <<q, job>>
    /\ UNCHANGED <<state, closed, left, active, demand, permit, wants, fresh, ending, calls, closing, call>>

\* Mutation: a shut runtime's expensive lane is left alone.
RescuesNever(w) == FALSE

\* The runtime is shut and its expensive lane holds a command.
Rescues(w) == state[Home[w]] # "OPEN" /\ q[Home[w]]["expensive"] # <<>>

\* Expensive commands of a shut runtime are taken without a permit; a lane that
\* was already closed when this round began ends the worker.
Rescue(w) ==
    LET r == Home[w] IN
    /\ pc[w] = "rescue"
    /\ \/ /\ Rescues(w)
          /\ q' = [q EXCEPT ![r]["expensive"] = Tail(@)]
          /\ job' = [job EXCEPT ![w] = "expensive"]
          /\ Goto(w, "undemand")
       \/ /\ ~Rescues(w)
          /\ Goto(w, IF ending[w] THEN "undemand" ELSE "sleep")
          /\ UNCHANGED <<q, job>>
    /\ UNCHANGED <<state, closed, left, active, demand, permit, wants, fresh, ending, calls, closing, call>>

\* Mutation: the worker sleeps without comparing the generation.
StillFreshAlways(w) == TRUE

\* The generation is the one this round observed.
StillFresh(w) == fresh[w]

\* wait_for_change and wait_for_change_timeout: sleep only while the generation
\* is the observed one.
Sleep(w) ==
    /\ pc[w] = "sleep"
    /\ Goto(w, IF StillFresh(w) THEN "asleep" ELSE "undemand")
    /\ UNCHANGED <<state, q, closed, left, active, demand, job, permit, wants, fresh, ending, calls, closing, call>>

\* The earliest deadline of the lane, if it holds any search, ends the sleep.
SleepTimesOut(w) ==
    /\ pc[w] = "asleep" /\ Deadlines /\ wants[w]
    /\ Goto(w, "undemand")
    /\ UNCHANGED <<state, q, closed, left, active, demand, job, permit, wants, fresh, ending, calls, closing, call>>

\* Drop for ExpensiveWakeDemand, then execute, go round again or drain.
Undemand(w) ==
    /\ pc[w] = "undemand"
    /\ demand' = DemandAfter(w)
    /\ wants' = [wants EXCEPT ![w] = FALSE]
    /\ fresh' = [fresh EXCEPT ![w] = FALSE]
    /\ ending' = [ending EXCEPT ![w] = @ /\ job[w] = "none"]
    /\ Goto(w, IF job[w] = "expensive" /\ ~permit[w] THEN "acquire"
               ELSE IF job[w] # "none" THEN "exec"
               ELSE IF ending[w] THEN "drain" ELSE "top")
    /\ UNCHANGED <<state, q, closed, left, active, job, permit, calls, closing, call>>

\* The last loop: the remaining ordinary commands, then the thread ends.
Drain(w) ==
    LET r == Home[w] IN
    /\ pc[w] = "drain"
    /\ \/ /\ q[r]["ordinary"] # <<>>
          /\ q' = [q EXCEPT ![r]["ordinary"] = Tail(@)]
          /\ job' = [job EXCEPT ![w] = "ordinary"]
          /\ Goto(w, "exec")
       \/ /\ q[r]["ordinary"] = <<>> /\ closed[r]["ordinary"]
          /\ Goto(w, "done")
          /\ UNCHANGED <<q, job>>
    /\ UNCHANGED <<state, closed, left, active, demand, permit, wants, fresh, ending, calls, closing, call>>

FlexibleStep(w) ==
    \/ Snapshot(w) \/ Summary(w) \/ RegisterDemand(w) \/ TryPermit(w) \/ Take(w) \/ Inspect(w)
    \/ Steal(w) \/ Rescue(w) \/ Sleep(w) \/ SleepTimesOut(w) \/ Undemand(w) \/ Drain(w)

-----------------------------------------------------------------------------
WorkerStep(w) ==
    \/ ExecuteStep(w) \/ PoisonStep(w)
    \/ w \in Runtimes /\ (Pop(w) \/ PopEnds(w))
    \/ w \in Flexible /\ FlexibleStep(w)

Next ==
    \/ \E r \in Runtimes, c \in Classes : RequireOpen(r, c)
    \/ \E r \in Runtimes : Submit(r) \/ BeginClose(r) \/ Refuse(r) \/ Teardown(r)
    \/ \E w \in Workers : WorkerStep(w)

Spec == Init /\ [][Next]_vars

\* Threads run and the engine answers; the writer finishes the close it began.
Fairness ==
    /\ \A w \in Workers : WF_vars(WorkerStep(w))
    /\ \A r \in Runtimes : WF_vars(Teardown(r))

FairSpec == Spec /\ Fairness

-----------------------------------------------------------------------------
(* Properties.                                                             *)

\* The permits that are out are exactly those the workers own, never more than the
\* process allows, and a worker that waits, sleeps or has ended owns none: none leaks
\* when a search is lost to another worker, fails, panics or its runtime shuts.
PermitsExact ==
    /\ active = Cardinality({w \in Workers : permit[w]})
    /\ active <= MaxPermits
    /\ \A w \in Workers : permit[w] => pc[w] \notin {"pop", "blocked", "top", "asleep", "drain", "done"}

\* A runtime is registered for a wake-up exactly while one of its workers waits
\* for a permit, so that a released permit finds whom to wake.
DemandExact ==
    \A r \in Runtimes : demand[r] = Cardinality({w \in FlexibleOf(r) : wants[w]})

\* All flexible workers of an open runtime are asleep over an expensive search
\* although a permit is free, and no thread that has just released one is about
\* to wake them.
SleepsOverWork(r) ==
    /\ FlexibleOf(r) # {} /\ Sleepers(r) = FlexibleOf(r)
    /\ state[r] = "OPEN" /\ q[r]["expensive"] # <<>>
    /\ active < MaxPermits
    /\ ~\E w \in Workers : pc[w] = "collect" /\ demand[r] > 0
    /\ ~\E w \in Workers : pc[w] = "notify" /\ r \in calls[w]

\* Expensive searches wait for process capacity only: no wake-up is lost between
\* a worker that finds no permit and goes to sleep and one that releases a permit,
\* unless a close of the runtime was refused (see WaitsForCapacityOnly).
NoSleepOverWork == \A r \in Runtimes : closing[r] = "open" => ~SleepsOverWork(r)

\* README.md, "Expensive searches wait off the JavaScript thread for process
\* capacity, bounded by the request deadline and interrupted by close": without the
\* exception for a runtime that is open again after a refused close.
WaitsForCapacityOnly == \A r \in Runtimes : ~SleepsOverWork(r)

\* When the last search thread of a runtime has ended, no search is left in its
\* queues, so join proves that all were answered.
NothingLeftQueued ==
    \A r \in Runtimes :
        (\A w \in Workers : HomeOf(w) = r => pc[w] = "done") /\ closing[r] = "over" =>
            Queued(r) = 0

\* Without the help of deadlines, every queued search is taken: a permit
\* released in one runtime reaches the waiting workers of the others.
SearchesTaken == \A r \in Runtimes : (Queued(r) > 0) ~> (Queued(r) = 0)

\* Once the lanes are closed the search threads end, so that finish_runtime's
\* join returns.
ThreadsEnd ==
    \A r \in Runtimes :
        (closing[r] = "over") ~> (\A w \in Workers : HomeOf(w) = r => pc[w] = "done")
=============================================================================
