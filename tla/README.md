# Formal models of the native fulltext index

This directory holds TLA+ models of `@harperfast/fulltext` (the Rust crate in
`src/src`, the TypeScript facade in `src/ts`), TLC configurations that check
them on small instances, and TLAPS proofs for every size of the constants.
`PROJECT.json` lists components, runs, the definition-to-source map, mutants,
findings, hazards and theorems.

Contents: [the system](#the-system), [plan](#plan), [modules](#modules-and-the-code-they-model),
[runs](#runs), [findings](#where-code-and-documents-disagree), [fairness](#fairness),
[proofs](#proofs), [what is not covered](#what-is-not-covered).

## The system

A Node addon embeds the Tantivy search engine. JavaScript opens a *handle* on
an index directory; behind it runs a native *runtime* with threads of its own.
Calls enter through Node-API, go into bounded queues and are answered by a
callback, at any later time, in any order.

| Component | State | Operations | Interacts with |
|---|---|---|---|
| Native runtime (`native.rs`, `lifecycle.rs`) | lifecycle byte OPEN/CLOSING/CLOSED/POISONED; writer queue; two search lanes; uncommitted-mutation count; completions | apply, commit, publish, reload, search, close, forced close, poison, teardown | the engine (calls), JavaScript (callbacks), the registry (release), the budget (reservation) |
| Registry (`native.rs`) | handles, path reservations, readers by path, opens under way, cancellations, unproven paths; the lifecycle lock file; per-environment handle sets | open, read-only open, reset, environment cleanup hook | runtimes (force_close, wait_closed), file system, other processes |
| Runtime budget (`native.rs`) | five counters, limits, count of unconfirmed opens | configure, admit, confirm, drop, retain until restart | every open and every teardown |
| Search lanes (`native.rs`) | two queues per runtime, wake generation, permits of the process, wake demand | submit, ordinary and flexible worker loops, permit acquire/release, shutdown | all runtimes of the process share the permits |
| Publication (`native.rs`, `engine.rs`, `publication.ts`, `native.ts`) | meta file with commit payload, IndexWriter buffer, `checkpoint_required`, active searcher, `PublicationState` | apply, commit, publish, reload, open, close, crash | Tantivy (commit, merge), read-only handles |
| Engine search (`engine.rs`) | analyzers, schema; none between requests | analyse, build a query, collect a window or a page, trace | called by search threads; Tantivy's searcher |
| Catalog (`catalog.rs`, `catalog_sort.rs`) | process-wide cache of dictionary maxima | validate, estimate, sort, aggregate | called by engine search |
| Request validation, protocol (`request_validation.rs`, `protocol.rs`, `codec.ts`) | none | encode, decode, bound, classify | both sides of the boundary; the classification chooses the search lane |
| Telemetry (`telemetry.rs`, `telemetry.ts`) | counters, tickets, reader observation | attempt, arm, dispatch, settle, snapshot | updated by all threads |
| Facade (`native.ts`) | logical batch state, close promise, preparation capacity, continuation key | applyMutationBatch, searchPage, trace paging, close | native runtime |

What is hard, and what makes each component correct:

- **Runtime.** Requests, poison (from the writer or any search thread), close
  and environment cleanup race on one byte and three queues. Correct means:
  every accepted request is answered exactly once; nothing enters a drained
  queue; a poisoned generation does not come back; the path and the budget are
  given up only when all threads have stopped; a require-clean close does not
  discard acknowledged mutations.
- **Registry.** Opens and resets run on their own threads, take two kinds of
  locks and may outlive their Node environment. Correct means: a reset never
  moves a directory in use; a path that could not be proven quiescent is not
  used again; a returned cleanup hook means nothing of that environment runs;
  nothing reserved is leaked; nobody waits in a cycle.
- **Budget.** Five atomics reserved one by one, rolled back on failure, released
  without a lock. Correct means exact, bounded, and no spurious refusal.
- **Search lanes.** Sleeping workers, permits released in another runtime,
  deadlines. Correct means no lost wake-up, no leaked permit, and threads that end.
- **Publication.** The host resumes from the checkpoint after a crash. Correct
  means: the checkpoint never claims what is not in the index, is never
  dropped or taken back, and a handle never reports a payload that its searches do
  not see.

- **Facade and telemetry.** A logical batch is several native calls with an await after each, and a
  page search waits for a digest. Correct means: of a batch everything or nothing is ever committed;
  nothing is searched through a closed handle; every operation is counted once, however it ends.
- **Search, catalog, protocol.** A search is classified before it is decoded, budgets are estimated before
  memory is used, pages are cut at ties, and an exhausted trace answers in three values. Correct means: expensive
  work never takes the cheap lane, estimates are upper bounds, pages put together are the ranking, and
  "no", "yes" and "complete" are said only when they are true.

`PROJECT.json` lists the hazards one by one, at the line where each bites.

## Plan

Order of work. All of it is done.

1. `NativeRuntime` - one runtime's lifecycle; proofs in `NativeRuntimeProofs`.
2. `RuntimeBudget` - admission control; proofs in `RuntimeBudgetProofs`.
3. `Registry` - open, reset and cleanup, with a runtime reduced to its phases.
4. `SearchLanes` - worker loops and permits of several runtimes.
5. `Publication` - checkpoint protocol, with crash and reopen.
6. `Telemetry` and `FacadeHandle` - counters and tickets; the facade's logical batches and page searches over a
   writer that executes frames.
7. `LogicalIndex` - the abstract specification of a handle's batches, which `FacadeHandle` implements.
8. `Analysis`, `Expressions`, `QueryBuilding`, `Collection`, `Catalog`, `TraceMatching`, composed by `SearchRequests` - what a
   search, a sort, an aggregation, a traversal and a trace compute.
9. Proofs: every safety property of NativeRuntime, RuntimeBudget, Registry, SearchLanes, Publication and FacadeHandle,
   and the refinement of `LogicalIndex` (see [proofs](#proofs)).

## Modules and the code they model

One step of a module is one critical section of the code: a mutex section, one
atomic operation, one file system call, one callback. Threads interleave between
them. Requests, payloads and documents are model values or small numbers. Next to some
definitions stands a variant marked `Mutation:`; it is a plausible bug, unused by the
specification, that the property it belongs to is known to catch.

**NativeRuntime.** `state` is the lifecycle byte, `wq`, `sq`, `wqClosed`, `sqClosed` the queues,
`cur`, `held`, `pc` what each thread executes, `res` the answer each completion got,
`fence` (history) whether a poison has begun or drained. JavaScript's synchronous
calls are two steps, the check and the push, because another thread may
act in between; JavaScript itself is one thread, so only one call is in
progress (`jcmd`, `jpc`). `Poison(t)` follows `Runtime::poison` statement by statement:
store, drain, push a kept close back, close the two lanes. `Teardown` follows
`finish_runtime`, one step per lane that it shuts down; the joins may find an owner of the engine too many, in a read-only runtime
as well, and then quiescence is unproven. `FinalAnswers` are the three outcomes of `close_result`: released, released with an error of the
shutdown (`E_CLOSE_FAILED`), unproven. The capacity of a queue counts commands; bytes are the same check
on another unit.

**Registry.** An operation is the handle number of an open, read-only open or reset; `pc` walks
through `open_runtime`/`reset_runtime` with every early return. `dir`, `retired`
and `wlock` are the file system: the directory at the path, the renamed ones and Tantivy's
writer lock. A writer of another process appears as `Foreign`. `unproven` names the runtimes, writers or readers, whose end put the path
into quarantine. An open that fails between its registration and its publication goes to `release_runtime` (`AfterFailure`), whether its
runtime had started or not; one that panics there (`rt` is "panicked") does not. `hook`, `todo` and `waits`
are `finish_environment_cleanup`. The runtime started by an open is reduced to
phases, which NativeRuntime details. There is one index path: paths do not interact except through
the table keyed by physical identity, and two directories (`Inodes`) make "the path names another
directory now" possible.

**RuntimeBudget.** `used` are the five atomics, `held` each runtime's `BudgetReservation`,
`phase` its life, `mutex` the state mutex that `admit_runtime` holds for the whole of an
admission. A drop releases counters one at a time without that mutex.

**SearchLanes.** `pc` is each worker's place in `ordinary_search_loop` or `flexible_search_loop`
including its permit and its wake demand, whose drops are steps. A search is called in two steps: `RequireOpen` looks at the lifecycle,
`Submit` pushes without looking again (`call` is the search in between). The wake *generation*
is a number in the code; the model keeps for each worker whether it is still the one that the worker
observed (`fresh`), which is all that `wait_for_change` compares.

**Publication.** `disk` is the committed meta file: segment set, batches contained, payload. The host
applies numbered batches in order and publishes the number of the last one acknowledged: the use that
`docs/native-checkpoint-publication.md` has in mind, a payload that names a position in the host's log. `queue`, `exec` and `point` are the writer,
`staged` and `active` the `SnapshotReader`, `answers` the completions that JavaScript has not seen yet (a set:
each has its own callback), `pub` the `PublicationState`. `reader` is a read-only handle of this or another
process. Tantivy is external: a commit replaces the meta file as a whole or fails with
the old one, or the new one, in place; a background merge changes the segments and
keeps the payload.

**Telemetry.** A module of operators on a record of counters: `Attempt`, `Reject`, and the methods of `Ticket`
(arm, bind, dispatch, start, settle, drop). Gauges are integers, so that one that wraps below zero is seen. `FacadeHandle` calls them
where `native.rs` does.

**FacadeHandle.** `lstate`, `promise`, `closed` and `batch` are the private fields of `NativeFullTextIndex`; the code between two
awaits is one step. The native side is what the facade can observe: the writer's FIFO (`queue`, `running`), a search worker
(`squeue`, `srunning`), lifecycle and answers; NativeRuntime has its detail. A batch is cut by `FrameEnd` and `CursorNext` as
`MutationBatchFrameCursor` does, records too large or refused by the engine become replacement deletes. `preparing`
holds the searches that wait for their digest and the capacity they occupy. `reader`, `refreshed` and `measuring` are the observation of a reader's
bytes: the writer installs a reader, answers, looks whether bytes are to be measured (`ObserveBytes`) and stores the result
(`BytesMeasured`). `configureTelemetry` is three steps of the JavaScript thread, one per store (`configuring`). A writer that panics answers
`E_NATIVE_PANIC`, or `E_QUIESCENCE_FAILED` when its teardown is unproven.

**LogicalIndex** (abstract). A batch is staged as a whole, told, committed with all that is staged, or
lost with the handle. `Logical` in FacadeHandle is the refinement mapping: a batch is staged once all its mutations are,
committed once any of them is.

**Analysis, Expressions, QueryBuilding.** Text is a sequence of letters of a small alphabet with a combining mark, a
composed letter and a compatibility character, enough for the NFKC mapping to move, join and split characters. `Tokenize`, the filters and
`SynonymFilter` give tokens with source spans. `Expressions` has the structural limits, the classification scan and the filter rules;
`QueryBuilding` builds a query value with the clause, phrase and fuzzy budgets and says what it matches.

**Collection, Catalog.** An index is a sequence of segments: documents in order, a set of dead ones, a name and a delete count.
`CollectWindow`, `CollectStableWindow` and `CollectPage` are the three ways of `collect_search`. `Catalog` has the validation and the
memory estimates, with `Checked` arithmetic at a width of `MachineMax`, the cache of longest keys (`CacheKey`: segment and field, the record IDs
being a field of their own), and the encoder, which counts buckets and bytes as it goes and answers with the first limit it meets
(`EncodeLevel`). What the collectors really hold (`MemoryHeld`, `KeysHeld`, external) is counted by the *key* of a bucket, so that two empty
ranges are two buckets; terms are kept and merged by their counts.

**TraceMatching.** `TraceClauseRecord` and `TraceExpressionRecord` are the two paths of `trace_matches_inner`, each with all
budgets; `Evaluate` is the three-valued evaluation; `Defer` and `TraceRecords` the recovery protocol.

**SearchRequests** composes these. A request is enqueued (and classified), begun on the searcher of that moment, built, collected
and answered; publishes and merges happen between any two of these, and between the pages of a traversal or a recovery. The
facade's `decodeTraceProgress` is the guard `ProgressDecodes` of the next page.

## Runs

All passing runs explore their state space completely. `CHECK_DEADLOCK FALSE` is set where these
systems may stop: all handles closed, all calls of the bounded host made. The modules define a `TypeOK`, which is
proved; the runs do not spend their time on it.

| Run | Shows | Bounds and why they suffice |
|---|---|---|
| RuntimeSafety | `AcceptedSearchesServed`, `TerminalAdmission`, `FinishedQuiescent`, `NothingLeftPending`, `CloseOkMeansStopped`, `RequireCleanKeepsMutations`, `PoisonSticks`, `SettledOnce` | 3 commands, 2 workers (one per lane kind), capacity 2. A close, a mutation and a search, or two closes and a mutation, cover each race of the code; the third command can find a queue full. Commands are symmetric. 1.5 million states. |
| RuntimeLiveness | `AcceptedSettles`, `ForcedCloseReleases` | 2 commands, 2 workers. |
| RegistrySafety | `ResetSparesLive`, `QuarantineHolds`, `HookMeansStopped`, `NothingLeftReserved` | 2 operations of 2 environments, 2 directories, a foreign writer, timeouts. Every guard of the registry compares an operation with one other. Operations, environments and directories are symmetric. 2.6 million states. |
| RegistryLiveness | `OperationsEnd`, `HooksEnd` | 2 operations of one environment. |
| BudgetSafety | `CountersExact`, `WithinLimits`, `NoneOutsideBudget`, `HonestRefusal` | 2 writers, 1 reader, three budgets that refuse at the first, a middle and the last counter. |
| LanesSafety | `PermitsExact`, `DemandExact`, `NoSleepOverWork`, `NothingLeftQueued` | Two flexible workers of one runtime against the only thread of another, one permit, three expensive searches; deadlines, panics. Only the runtime of the two flexible workers is closed, refused a close and poisoned by its writer (`Closers`), since the other's part is to hold and release the permit. A lost wake-up needs two sleepers and a release from outside or by the twin. 0.6 million states; with both runtimes closed (4.5 million states) the properties hold as well. |
| LanesLiveness | `SearchesTaken`, `ThreadsEnd` | One flexible worker that steals ordinary searches, no deadlines (a deadline would empty the queue by itself and hide a lost wake-up). |
| PublicationSafety | `CheckpointCovers`, `CheckpointKept`, `KnownPayloadExact`, `PayloadSearchable` | 2 batches, 2 numbered calls per handle generation, 2 segment sets beyond the empty one, any number of crashes and reopens. Two calls can be answered out of order; two segment sets allow a publish and a merge between the two halves of a reload. 3 calls, and separately 3 segment sets, have been explored as well. |
| FacadeBatches | `TelemetryExact`, `BytesAreOfTheReader`, `WholeBatchesCommitted`, `AwaitedIsHeld`, `NoSearchAfterClose`, `LogicalSpec` (refinement) | One batch of three frames with a rejected upsert and its replacement, one batch that is rejected in its second frame; 4 direct calls of any kind, 2 page searches against a capacity of one, a writer queue of 2, a search queue of 1, telemetry switched on and off. A batch needs two frames for a call to come between, a third frame for one to come after a replacement. |
| Requests | `ClassificationSound`, `ResponsesExact`, `CatalogSound`, `TraceSound` | Two configurations (with and without positions, surface terms, stop words and synonyms), some 120 requests, 4 documents in 2 segments of which 3 tie, a deleted version, one publish out of three, a merge. The strings of two fields and the record IDs have different lengths in every segment, so that a longest key cached for another segment or field, or a worst case in its place, gives another estimate. Every limit of the code is scaled down to a constant of `Requests.cfg` so that a request just below and one just above it are in the set: one bucket of a histogram more or less decides. 0.4 million states. |
| RuntimeCleanup, LanesRefusedClose | counterexamples, see below | |

Each property of a passing run has a mutant in `PROJECT.json`: replacing one definition by its
`Mutation:` variant makes TLC find the property violated. `CatalogSound` has four, one per way in which an estimate can fall short; the
entry is `CacheKeyOfField` (a maximum cached for the field, whatever the segment), and `CacheKeyOfSegment` (whatever the field),
`PositionsBefore` (a histogram's last bucket is not counted) and `AddKeyBudgetWrapping` (overflow) are found in the same run.

## Where code and documents disagree

1. `CleanupReleases` (RuntimeCleanup). `docs/native-backend-implementation.md` says that environment teardown
   schedules a rollback close for every tracked runtime. `force_close` does nothing when it finds CLOSING; if
   that close is a require-clean one which the writer then refuses as dirty, the runtime is OPEN again and
   nobody closes it.
2. `WaitsForCapacityOnly` (LanesRefusedClose). The README says that expensive searches wait for process capacity. A worker that
   was refused a permit because of CLOSING sleeps on after `E_DIRTY_CLOSE` has reopened the runtime, although
   the permit is free, until something else wakes it or the deadline passes. `NoSleepOverWork`
   is the same property for runtimes whose close was never refused, and holds.

Observations the models contain without a run of their own:

- `docs/terminal-writer-admission.md:9` says that close cannot reopen a poisoned generation. A forced close overwrites POISONED by
  CLOSING, and an earlier require-clean close still in the queue then restores OPEN (`native.rs:2193`). While the environment lives
  the sentence is true (`PoisonSticks`, proved).
- `docs/native-reset-quiescence.md:151` says that an environment teardown that wins before the reservation cancels the
  reset. The cancellation is read once, at the start of `reset_runtime` (`native.rs:2881`), and not again before the
  path is reserved.
- An open that was cancelled waits 30 seconds for its runtime and ignores a timeout (`expired` in Registry; the properties exempt
  exactly those operations), and a panic inside an open leaves the path reserved (`NothingLeftReserved` exempts "panicked" opens and nothing else).
- An open that the hook marks as cancelled and that then fails for another reason leaves its mark in `Registry.cancelled`; handle numbers are
  not used again, so nothing follows from it.
- A read-only runtime whose threads were not proven stopped quarantines the path for resets and later writers, but a writer that was open
  beside it keeps running; `QuarantineHolds` says so.
- A fuzzy clause that is not negated is traced against the words as written too, so a trace may say "yes" to a record
  whose indexed terms the search does not match; `TraceSound` allows exactly this.

## Fairness

- *Native threads* (writer, search workers, teardown, open and reset threads, hooks): weak fairness for each
  thread's next step. They are operating system threads that hold no lock while blocked other than by a condition
  variable, and the standard library's mutexes and condition variables wake a waiter after a notification.
- *JavaScript inside a synchronous call* finishes that call (weak fairness of the enqueue steps). Nothing obliges
  JavaScript to make a call, to close a handle, or an environment to end.
- No strong fairness is used. In the liveness runs timeouts are off where they would make a property true by themselves
  (LanesLiveness, RegistryLiveness), so that progress comes from the notifications.

## Proofs

TLAPS proves the theorems below for every value of the constants that satisfies the modules' named assumptions. The
assumptions are few and the same in kind: identities are distinct and `None` is none of them, capacities are positive,
sets of runtimes, workers and threads are finite (a process has finitely many), a plan is a function from batches to sequences of records.
`NoneAssumption` of Publication says that `None` is neither a command nor a snapshot (in the code an `Option`'s `None` is not a value),
`RegistryAssumption` that there is a directory to begin with, `TelemetryAssumption` that searches are operations and that the operation
actor is not a search worker. TLC evaluates each of them in the run of its module.

Of the 34 safety properties the runs check, these modules prove all but four. The argument is the same everywhere: none of the
properties is inductive, so each module strengthens them by what every actor's place in the code implies about shared state,
proves one lemma per action, and derives the properties.

**NativeRuntimeProofs.** That an answer is never replaced depends on
nobody else holding the completion. The invariant `IInv` therefore says who *owns* a pending command: exactly one of a queue (in
which it occurs once), the thread that executes it, or a poisoning thread that took a close out
(`QueueInv`, `WriterInv`, `WorkerInv`, `HeldInv`, `JsInv`), together with the types, `TerminalAdmission` and the fact that in a living
environment only a finished teardown follows a poison (`FenceInv`). `NextPreserves` has one step per action.
From `OwnershipInvariant` follow `TypeCorrect`, `TerminalAdmissionHolds`, `PoisonSticksHolds` and `SettledOnceHolds`.
`AcceptedSearchesServedHolds` adds who may take a search its own answer: its worker, on its way to a poison, or a poison that has stored its
state (`ServedInv`); a search that waits in a lane when the teardown shuts it down is only answered by the worker that pops it.
`FinishedQuiescentHolds` needs a second layer: what each phase of the teardown has already achieved
(lanes closed, workers joined, queue closed) is kept by every later step (`LaneStep`, `PhaseStep`). Three more layers carry
the rest: every pending command has an owner (`PendingInv`, for `NothingLeftPendingHolds`), CLOSED is stored only by a teardown
that has joined its threads (`ClosedInv`, for `CloseOkMeansStoppedHolds`), and between a require-clean close's look at the mutation
count and its answer nobody but the writer, which is busy with it, can add a mutation (`CleanInv`, for `RequireCleanHolds`).

**RuntimeBudgetProofs, SumProofs.** `BudgetInv` adds to `WithinLimits` and `NoneOutsideBudget` that `pending_opens` is the number of opens
without a budget (`PendingExact`, with cardinality facts of finite sets), that nothing is reserved without a budget, that a complete
reservation is not empty and that the mutex belongs to the admission under way. `WithinLimitsHolds`, `NoneOutsideBudgetHolds`
and `HonestRefusalHolds` follow. `CountersExactHolds` says that each counter is the sum of the reservations of all runtimes. Sums
are folds over a finite set. The library's induction rule takes an operator, which the provers cannot instantiate; `SumProofs`
does the induction with a *set* in the place of the operator (the finite sets for which the equation holds), and so
gets that a sum changes by what one summand changes by.

**RegistryProofs.** `IInv` is the type invariant, `OpInv` and `ForeignInv`. `OpInv` says of each operation what its place in `open_runtime`
or `reset_runtime` implies: which stages it can be in (`StageOf`), that it is the owner of the lifecycle and writer locks it has taken
(`LockOf`), that the directory it identified is the one at the path until its reservation is gone (`PathOf`), that no table entry outlives what it stands for
and where an operation without a runtime can have a reservation at all (`BookOf`), that the cleanup hook of its environment knows it (`HookOf`), and that nothing of a quarantined path is started (`QuarantineOf`). It
is needed as a whole, since each of the four properties compares two operations that are at different places. `ResetAlwaysSparesLive`,
`QuarantineAlwaysHolds`, `HookAlwaysMeansStopped` and `NothingStaysReserved` follow.

**SearchLanesProofs.** `WorkerInv` says for each place in the worker loops whether the worker has a job, owns a permit, is registered as
waiting, or has ended (`JobOf`, `PermitOf`, `WantsOf`, `EndOf`), and `Passes` that a worker which is about to sleep and has
missed nothing is one whose queue is empty or whose permit was refused. `LastInv` and `LaneInv` tie the last worker of a runtime to
its queues. With these `PermitsNeverLeak` and `DemandAlwaysExact` are counting arguments over finite sets, `NoWakeLost` is
the absence of a lost wake-up and `JoinMeansAnswered` that the last thread leaves nothing in a queue. Lemmas `StepKept` and
`LocalKept` say once what a step of one worker leaves alone for the others.

**PublicationProofs.** `IInv` adds to the type invariant where the writer is within a command and what the buffer holds at that
point (`PointInv`, `BufferInv`), that batches are applied one at a time and a publish carries an acknowledged one (`BatchInv`, `CallInv`), that
the writer serves calls in their order (`OrderInv`), that a payload the facade knows, or an answer under way tells, is the one on disk or
overtaken by a later publish that is outstanding, told or doubted (`ToldInv`), and that no snapshot is ahead of the index and its segments determine its documents
(`SnapshotInv`). `CheckpointNeverAhead`, `CheckpointNeverLost` (an action property: no step, a crash included, drops or takes back
a checkpoint), `KnownPayloadTrue` and `KnownPayloadSearchable` follow.

**FacadeHandleProofs.** The facade's loop over the frames of a batch is a function, `Advance`; `AdvanceFacts` says that it sends one
frame, fails or finishes, and what the cursor and the batch are in each case. `Good` is the type invariant with the shape of
the commands (`CommandsOK`: a frame is an apply, only a close comes from a close, no queued command has panicked), the ranges of the cursors
(`CursorsOK`) and `AwaitedIsHeld`. The counters of telemetry are typed through a fold over the settled tickets, again by an induction over a set.
`FacadeAwaitedIsHeld`: a batch that awaits a frame, or a promised close, has been answered or its command is still held, whatever drained or dropped
the queue. `FacadeBytesAreOfTheReader` and the action property `FacadeNoSearchAfterClose` follow from smaller invariants.

**FacadeBatchProofs.** That a commit never finds a part of a batch is nobody's guard: it follows from the latch of the facade, the
order of the writer's queue and the fact that one frame is outstanding at a time. `Atomic` adds to `Good` where the records of each batch are.
The batch that runs owes some (`Due`), its one frame carries some, the writer holds the rest (`RunOK`, `FrameOf`); every commit in the queue
is ahead of that frame and finds only whole batches (`PipeOK`); the writer holds a part of a batch that failed only while the facade is
latched or its handle is gone (`DirtOK`); and of every batch nothing or everything is committed, each record once (`StoreOK`). `GoneInv` says that
a released handle holds nothing. The pipeline of the writer (its command, then the queue) is treated as one sequence that drains, pops and
takes in commands (`Thins`, `PipeKept`, `PipeAppend`), so that a poison, an answer and a pop are one lemma. Each action gets one lemma
(`ApplyFollows`, `ResumeFollows`, ..., `StopFollows`) that shows both that `Atomic` is kept and which step of `LogicalIndex` the action is:
the last frame of a batch stages it, a commit is `Commit`, a teardown `Discard`, a settled promise `Done` or `Failed`, everything else a stutter.
From these follow `FacadeWholeBatchesCommitted` and `FacadeImplementsLogicalIndex`, the refinement, for every plan of batches, size of a frame and
capacity of the queue.

The rest of the module proves `FacadeTelemetryExact`, on lemmas at the end of `FacadeHandleProofs`. The live tickets are an *account* (`Books`): for
every set of tickets, how many of them are in the queues and with the actors. `Balanced` says of counters and an account what `TelemetryExact`
says of the counters and `Live`, and more finely that the gauge of each actor is the number of dispatched tickets of that actor, from which it
follows that no gauge wraps. One lemma per method of `Ticket` (`ArmBalanced`, `TakeBalanced`, `StartBalanced`, `SettleBalanced`) says how counters
and account move together; a drain is a fold of settlements (`DrainBalanced`, by induction over the set of drained commands). The sums over the
actors change by what one actor's counter changes by (`ActorSumChange`, on `SumProofs`). The invariant `Exact` says that the counters balance with
the account (`LedgerNow`), and what keeps it so: a ticket in a queue is accepted, neither dispatched nor settled, and counts for an actor of its
operation (`Tray`, `LiveTicket`); at most one close is on its way, the one that is promised and unanswered (`Promised`). The latter is
needed because `Runtime::poison` keeps one close of the queue and settles only what is not a close: a second queued close would lose its
ticket. `Torn` ties the one recorded teardown to the release, `Accounted` the batches to their outcomes. `StepExact` puts the lemmas of the
actions together.

Model-checked only:

- liveness (`AcceptedSettles`, `ForcedCloseReleases`, `OperationsEnd`, `HooksEnd`, `SearchesTaken`, `ThreadsEnd`), since the
  prover does not reason about fairness and ENABLED;
- what recursive operators compute (`ClassificationSound`, `ResponsesExact`, `CatalogSound`, `TraceSound`): induction over the structure
  of requests, and the modules declare RECURSIVE operators.

## What is not covered

- Tantivy, the file system, Node-API and the JavaScript engine are external; they appear as the nondeterminism their callers must cope with,
  or as what the code relies on (a collector returns the best documents by score, a dictionary is sorted).
- Scores are given numbers per document: BM25, boosts and floating-point rounding are not modelled, ties are.
- Byte layouts: a frame carries its request. The decoders' limits are modelled, the reads of `Cursor` are not; the repository's round-trip
  tests cover them. Error texts, JSON, snippets and fragments are formatting.
- Continuation tokens are their content (snapshot, score, identity). Their base64 form and MAC are out of scope.
- NFKC: reordering of several combining marks by class, and the stemmer beyond one suffix. `fuzzy_transpositions` stays at its default.
- Phrases match within one value, as the positions gap between values ensures.
- Registry: path canonicalisation, `inspect`, reclaiming of retired directories. Engine writer: schema construction, the identity sidecar and
  the conversion of documents; their failures are outcomes in Publication and FacadeHandle.
- Addon loading, packaging, exported constants, test-only code (`directory_harness.rs`, `catalog_qualification.rs`, fault injection),
  examples, benchmarks and scripts.
