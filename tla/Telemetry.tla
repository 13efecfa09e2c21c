----------------------------- MODULE Telemetry -----------------------------
(* The counters of a native handle (src/src/telemetry.rs) and the tickets  *)
(* that move them. Every native operation is attempted once; it is then    *)
(* either rejected before admission or carries a ticket that is armed when *)
(* its command enters a queue, bound to a search worker and dispatched     *)
(* when it leaves it, started when it executes, and settled exactly once:  *)
(* by its actor, by the poison drain, or by the destructor of the dropped  *)
(* completion.                                                             *)
(*                                                                         *)
(* A module of operators: a pair w = [m |-> metrics, t |-> ticket] goes    *)
(* through the methods of Ticket. Clocks are abstracted to whether they    *)
(* were read, a latency to how many samples it recorded. The u64 counters  *)
(* are integers, so that a gauge that wraps below zero is seen as such.    *)
EXTENDS Integers, FiniteSets, FiniteSetsExt

CONSTANTS
    Operations,        \* the operations that are counted
    SearchOperations,  \* those with counters of their own in each worker
    Workers            \* the search workers of the handle

\* The actor whose counters a ticket moves that no worker has taken.
OperationActor == "operation"
Actors == Workers \cup {OperationActor}

Latency == [count |-> 0, histogram |-> 0]
ActorCounters == [dispatched |-> 0, succeeded |-> 0, failed |-> 0,
                  queue |-> Latency, execution |-> Latency]
Admission == [attempted |-> 0, accepted |-> 0, rejected |-> 0]
Phases == {"commit", "readerReload", "teardown"}

ASSUME TelemetryAssumption ==
    /\ SearchOperations \subseteq Operations
    /\ IsFiniteSet(Workers) /\ OperationActor \notin Workers

\* The values of the counters, and of a ticket.
Latencies == [count : Nat, histogram : Nat]
CounterSets == [dispatched : Int, succeeded : Nat, failed : Nat,
                queue : Latencies, execution : Latencies]
AdmissionSets == [attempted : Nat, accepted : Nat, rejected : Nat]
MetricsSets ==
    [admission : [Operations -> AdmissionSets],
     actor : [Actors -> [Operations -> CounterSets]],
     phases : [Phases -> [succeeded : Nat, failed : Nat]],
     histograms : BOOLEAN, snapshotBytes : BOOLEAN, teardown : BOOLEAN]
Tickets == [op : Operations, worker : Actors, accepted : BOOLEAN,
            dispatched : BOOLEAN, settled : BOOLEAN, started : BOOLEAN,
            execution : BOOLEAN]

\* A handle starts with every counter at zero and no teardown under way.
NewMetrics ==
    [admission |-> [op \in Operations |-> Admission],
     actor |-> [a \in Actors |-> [op \in Operations |-> ActorCounters]],
     phases |-> [p \in Phases |-> [succeeded |-> 0, failed |-> 0]],
     histograms |-> FALSE, snapshotBytes |-> FALSE, teardown |-> FALSE]

\* One sample; the histogram has it only while histograms are enabled.
Record(latency, enabled) ==
    [count |-> latency.count + 1,
     histogram |-> latency.histogram + (IF enabled THEN 1 ELSE 0)]

Attempt(m, op) == [m EXCEPT !.admission[op].attempted = @ + 1]
Reject(m, op) == [m EXCEPT !.admission[op].rejected = @ + 1]

\* The counters of an operation: its own and, for a search, every worker's.
ActorSum(op, Counter(_)) ==
    IF op \in SearchOperations THEN MapThenSumSet(Counter, Actors)
    ELSE Counter(OperationActor)
ActorValue(m, op, counter) == ActorSum(op, LAMBDA a : m.actor[a][op][counter])
Completed(m, op) == ActorValue(m, op, "succeeded") + ActorValue(m, op, "failed")
QueueSamples(m, op) == ActorSum(op, LAMBDA a : m.actor[a][op].queue.count)

Ticket(op) ==
    [op |-> op, worker |-> OperationActor, accepted |-> FALSE,
     dispatched |-> FALSE, settled |-> FALSE, started |-> FALSE,
     execution |-> FALSE]

\* The worker's own counters are used from the first binding on, and never
\* change once the ticket was counted as dispatched.
MayBind(t) == /\ t.worker = OperationActor
              /\ ~t.dispatched
              /\ ~t.settled
              /\ t.op \in SearchOperations
BindWorker(w, worker) ==
    IF MayBind(w.t) THEN [w EXCEPT !.t.worker = worker] ELSE w

Arm(w) ==
    IF w.t.accepted THEN w
    ELSE [m |-> [w.m EXCEPT !.admission[w.t.op].accepted = @ + 1],
          t |-> [w.t EXCEPT !.accepted = TRUE]]

Dispatch(w) ==
    IF w.t.accepted /\ ~w.t.dispatched
    THEN [m |-> [w.m EXCEPT !.actor[w.t.worker][w.t.op].dispatched = @ + 1],
          t |-> [w.t EXCEPT !.dispatched = TRUE]]
    ELSE w

\* The wait in the queue is recorded once, when the command starts.
Start(w) ==
    IF ~w.t.accepted \/ w.t.started \/ w.t.settled THEN w
    ELSE LET d == Dispatch(w) IN
         [m |-> [d.m EXCEPT !.actor[d.t.worker][d.t.op].queue =
                                Record(@, d.m.histograms)],
          t |-> [d.t EXCEPT !.started = TRUE]]

Finish(w) ==
    IF ~w.t.settled /\ w.t.started THEN [w EXCEPT !.t.execution = TRUE] ELSE w

\* Mutation: the gauge is not given back by a ticket that failed.
OutcomeLeaksGauge(counters, t, ok, enabled) ==
    [counters EXCEPT
        !.dispatched = @ - (IF t.dispatched /\ ok THEN 1 ELSE 0),
        !.execution = IF t.started THEN Record(@, enabled) ELSE @,
        !.queue = IF t.started THEN @ ELSE Record(@, enabled),
        !.succeeded = @ + (IF ok THEN 1 ELSE 0),
        !.failed = @ + (IF ok THEN 0 ELSE 1)]

\* What settling a live ticket adds to its actor: the gauge goes down, the
\* execution is recorded (or, when it never started, its wait), and the
\* outcome is counted.
Outcome(counters, t, ok, enabled) ==
    [counters EXCEPT
        !.dispatched = @ - (IF t.dispatched THEN 1 ELSE 0),
        !.execution = IF t.started THEN Record(@, enabled) ELSE @,
        !.queue = IF t.started THEN @ ELSE Record(@, enabled),
        !.succeeded = @ + (IF ok THEN 1 ELSE 0),
        !.failed = @ + (IF ok THEN 0 ELSE 1)]

\* A ticket settles once; one that was never accepted leaves no trace. The
\* destructor settles, as a failure, a ticket nobody settled.
Settle(w, ok) ==
    IF w.t.settled THEN w
    ELSE [m |-> IF ~w.t.accepted THEN w.m
                ELSE [w.m EXCEPT !.actor[w.t.worker][w.t.op] =
                                    Outcome(@, w.t, ok, w.m.histograms)],
          t |-> [w.t EXCEPT !.settled = TRUE]]

Phase(m, phase, ok) ==
    IF ok THEN [m EXCEPT !.phases[phase].succeeded = @ + 1]
    ELSE [m EXCEPT !.phases[phase].failed = @ + 1]

\* A teardown is timed from its first beginning and recorded at its end.
BeginTeardown(m) == [m EXCEPT !.teardown = TRUE]
FinishTeardown(m, ok) ==
    IF m.teardown THEN Phase([m EXCEPT !.teardown = FALSE], "teardown", ok) ELSE m

\* The last counted state of the reader (ReaderStats): which segments it
\* holds, for which segments the byte count was measured, and whether a
\* measurement is still due.
NoSignature == -1
NewReaderStats == [available |-> FALSE, signature |-> NoSignature,
                   bytesSignature |-> NoSignature, pending |-> FALSE,
                   bytesError |-> FALSE]
ReaderStats == [available : BOOLEAN, signature : Int, bytesSignature : Int,
                pending : BOOLEAN, bytesError : BOOLEAN]

\* Mutation: the size measured for the previous segments is kept.
InstallReaderKeeps(r, signature, enabled) ==
    [r EXCEPT !.available = TRUE, !.signature = signature,
              !.pending = enabled /\ r.bytesSignature # signature]

\* A measured size is forgotten as soon as the segments differ.
InstallReader(r, signature, enabled) ==
    LET kept == r.bytesSignature = signature IN
    [available |-> TRUE,
     signature |-> signature,
     bytesSignature |-> IF kept THEN signature ELSE NoSignature,
     bytesError |-> kept /\ r.bytesError,
     pending |-> enabled /\ ~kept]

\* Measuring takes time outside the lock: the result counts only for the
\* segments it was begun with.
MustMeasure(r, enabled) == enabled /\ r.bytesSignature # r.signature
ObservedBytes(r, signature, ok) ==
    IF r.signature # signature THEN r
    ELSE [r EXCEPT !.pending = FALSE,
                   !.bytesSignature = IF ok THEN signature ELSE @,
                   !.bytesError = ~ok]
Configure(r, bytes) ==
    [r EXCEPT !.pending = bytes /\ r.bytesSignature # r.signature]
=============================================================================
