---------------------------- MODULE FacadeHandle ----------------------------
(***************************************************************************)
(* The JavaScript facade of one writable handle (NativeFullTextIndex in    *)
(* src/ts/native.ts), with the native handle below it reduced to what the  *)
(* facade can observe: a FIFO of writer commands, one writer actor, one    *)
(* search worker and the telemetry of both.                                *)
(*                                                                         *)
(* A logical mutation batch is cut into frames (MutationBatchFrameCursor   *)
(* in src/ts/codec.ts); the facade awaits each frame, and between two      *)
(* frames every other call of the handle may be made. The JavaScript code  *)
(* between two awaits is one step. A search waits for a digest before it   *)
(* is admitted, and the handle may be closed meanwhile.                    *)
(***************************************************************************)
EXTENDS Telemetry, Sequences, SequencesExt

CONSTANTS
    Batches,      \* logical batches, each submitted at most once
    Plan,         \* per batch: [delete |-> BOOLEAN, records |-> Seq(record)]
    MaxFrame,     \* bytes of a frame beside its header
    DeleteSize,   \* bytes of a replacement delete
    Searches,     \* page searches, each made at most once
    IdentitySize, \* per search, the bytes whose digest it waits for
    MaxPreparing, \* maxPreparationCommands
    MaxPreparingBytes, \* maxPreparationBytes
    MaxCommands,  \* capacity of the writer queue
    MaxSearches,  \* capacity of the search queue
    MaxCalls,     \* bound: calls of the handle
    Settings,     \* bound: telemetry settings that are tried
    None          \* absence of a batch, a command or a search

VARIABLES
    lstate,     \* #logicalMutationState
    promise,    \* #closePromise is set
    closed,     \* #closed
    batch,      \* the running applyMutationBatch, or None
    told,       \* outcome of every applyMutationBatch promise
    preparing,  \* searches waiting for their digest
    searched,   \* searches made so far
    calls,      \* number of direct calls so far
    native,     \* native lifecycle state; "gone": the handle is released
    queue,      \* writer commands in the queue
    running,    \* the writer's command, or None
    squeue,     \* admitted searches in the queue
    srunning,   \* the search worker's command, or None
    closeReply, \* answer to the pending close, not yet delivered
    staged,     \* mutations the writer has applied since the last commit
    committed,  \* mutations of all commits
    metrics,    \* native counters
    reader,     \* the last observation of the reader (ReaderStats)
    refreshed,  \* the writer has answered a publish or reload and looks at the setting next
    measuring,  \* segments whose bytes the writer is measuring, or None
    configuring, \* progress of configureTelemetry
    batches,    \* the facade's counters of logical batches
    prejected   \* preparationRejections.search.total

facade == <<lstate, promise, closed, batch, told, calls, batches>>
searchside == <<preparing, searched, squeue, srunning, prejected>>
store == <<staged, committed>>
writer == <<native, queue, running, closeReply>>
observed == <<reader, refreshed, measuring, configuring>>
vars == <<facade, searchside, store, writer, metrics, observed>>

-----------------------------------------------------------------------------
(* Types *)

Records == [op : {"upsert", "delete"}, size : Nat, fault : {"none", "content", "id"}]
Mutations == [batch : Batches \cup {None}, index : Nat, op : {"upsert", "delete"}]

\* A batch between two frames: the next record, the rejected records whose
\* replacement is due, and the answer to the frame it awaits.
Runs == [id : Batches, at : Nat, replace : Seq(Nat), attempted : BOOLEAN,
         reply : {"none", "ok", "failed"}]
CallOps == {"apply", "commit", "publish", "reload"}
Commands == [op : CallOps \cup {"close"}, from : {"batch", "call", "close"},
             mutations : Seq(Mutations), rollback : BOOLEAN, panicked : BOOLEAN,
             t : Tickets]
SearchCommands == [id : Searches, t : Tickets]
Outcomes == {"ok", "E_CLOSE_FAILED", "E_QUIESCENCE_FAILED"}

ASSUME FacadeAssumption ==
    /\ None \notin Batches /\ None \notin Nat
    /\ None \notin Runs \cup Commands \cup SearchCommands
    /\ Plan \in [Batches -> [delete : BOOLEAN, records : Seq(Records)]]
    /\ MaxFrame \in Nat /\ DeleteSize \in Nat \ {0}
    /\ CallOps \cup {"close", "search"} \subseteq Operations
    /\ Settings \subseteq [histograms : BOOLEAN, bytes : BOOLEAN]

TypeOK ==
    /\ lstate \in {"idle", "active", "incomplete"}
    /\ promise \in BOOLEAN /\ closed \in BOOLEAN
    /\ batch \in Runs \cup {None}
    /\ told \in [Batches -> {"none", "done", "failed"}]
    /\ preparing \subseteq Searches /\ searched \subseteq Searches
    /\ calls \in Nat /\ prejected \in Nat
    /\ native \in {"open", "closing", "poisoned", "gone"}
    /\ queue \in Seq(Commands) /\ running \in Commands \cup {None}
    /\ squeue \in Seq(SearchCommands) /\ srunning \in SearchCommands \cup {None}
    /\ closeReply \in Outcomes \cup {"none", "E_CLOSED", "E_DIRTY_CLOSE", "E_NATIVE_PANIC"}
    /\ staged \in Seq(Mutations) /\ committed \in Seq(Mutations)
    /\ metrics \in MetricsSets
    /\ reader \in ReaderStats
    /\ refreshed \in BOOLEAN /\ measuring \in Int \cup {None}
    /\ configuring \in {"none", "enable", "disable", "reader"}
    /\ batches \in [attempted : Nat, succeeded : Nat, failed : Nat, frames : Nat]

-----------------------------------------------------------------------------
(* Frames *)

\* A record is an upsert or a delete with its encoded size; an upsert is
\* "rejected" when its content cannot be encoded, any record when its id
\* cannot.
Refused(r) == r.fault # "none"

FrameBytes(recs, from, to) ==
    MapThenSumSet(LAMBDA i : recs[i].size, {i \in from..to : ~Refused(recs[i])})

\* The first record that is not part of the frame begun at `from`: one that
\* no longer fits beside another, or the one after a rejection when the
\* caller stops at the first.
FrameEnd(recs, from, stop) ==
    Min({Len(recs) + 1}
        \cup {i \in from..Len(recs) :
                /\ ~Refused(recs[i])
                /\ \E j \in from..(i - 1) : ~Refused(recs[j])
                /\ FrameBytes(recs, from, i) > MaxFrame}
        \cup {i \in (from + 1)..(Len(recs) + 1) : stop /\ Refused(recs[i - 1])})

\* The mutation that record i of batch b stands for.
Mutation(b, i) == [batch |-> b, index |-> i,
                   op |-> IF Refused(Plan[b].records[i]) THEN "delete"
                          ELSE Plan[b].records[i].op]

\* The members of a set of numbers in ascending order.
Ascending(S) == CHOOSE s \in [1..Cardinality(S) -> S] :
                    \A i, j \in 1..Cardinality(S) : i < j => s[i] < s[j]

CursorNext ==
    [b \in Batches |-> [from \in 1..Len(Plan[b].records) |->
        LET recs == Plan[b].records
            end == FrameEnd(recs, from, ~Plan[b].delete)
            kept == Ascending({i \in from..(end - 1) : ~Refused(recs[i])})
        IN [mutations |-> [k \in 1..Len(kept) |-> Mutation(b, kept[k])],
            rejected |-> Ascending({i \in from..(end - 1) : Refused(recs[i])}),
            at |-> end]]]

\* Replacement deletes are cut into frames of their own.
ReplacementFrame(b, rejected) ==
    LET fit == Min({Len(rejected), Max({1, MaxFrame \div DeleteSize})}) IN
    [k \in 1..fit |-> Mutation(b, rejected[k])]

\* What a batch means when it succeeds.
Expected == [b \in Batches |-> {Mutation(b, i) : i \in 1..Len(Plan[b].records)}]

-----------------------------------------------------------------------------
(* Admission of native operations *)

\* One native call: attempted, then admitted with an armed ticket, or
\* rejected. The unarmed ticket of a rejected call leaves no trace.
Admitted(op) == Arm([m |-> Attempt(metrics, op), t |-> Ticket(op)])
Rejected(op) == Reject(Attempt(metrics, op), op)

\* require_writable and the capacity of the queue.
WriterAdmits == native = "open" /\ Len(queue) < MaxCommands

Command(op, from, mutations, rollback) ==
    [op |-> op, from |-> from, mutations |-> mutations, rollback |-> rollback,
     panicked |-> FALSE, t |-> Admitted(op).t]

\* The frame of a batch is submitted; a call that throws fails the batch.
Submit(cmd) == /\ queue' = Append(queue, cmd)
               /\ metrics' = Admitted(cmd.op).m
               /\ UNCHANGED <<native, running, closeReply>>

\* A native call on a released handle is not counted at all.
Refuse(op) == /\ metrics' = IF native = "gone" THEN metrics ELSE Rejected(op)
              /\ UNCHANGED writer

-----------------------------------------------------------------------------
(* applyMutationBatch *)

\* #assertOpen and #assertLogicalMutationIdle.
Open == ~closed /\ ~promise
Idle == lstate = "idle"

\* Mutation: a failed batch always returns to idle.
AfterFailureForgets(attempted) == "idle"

\* The batch stays latched when any of its frames reached the native queue.
AfterFailure(attempted) == IF attempted /\ ~closed THEN "incomplete" ELSE "idle"

FailBatch(b, bs, attempted) ==
    /\ told' = [told EXCEPT ![b] = "failed"]
    /\ batch' = None
    /\ lstate' = AfterFailure(attempted)
    /\ batches' = [bs EXCEPT !.failed = @ + 1]

FinishBatch(b, bs) ==
    /\ told' = [told EXCEPT ![b] = "done"]
    /\ batch' = None
    /\ lstate' = "idle"
    /\ batches' = [bs EXCEPT !.succeeded = @ + 1]

\* The synchronous part of the loop: from the cursor (or the replacement
\* deletes that are still due) to the next native call, or to the end.
Advance(bt, bs) ==
    LET frame == CursorNext[bt.id][bt.at]
        send(mutations, left, at) ==
            IF WriterAdmits
            THEN /\ batch' = [bt EXCEPT !.at = at, !.replace = left,
                                        !.attempted = TRUE, !.reply = "none"]
                 /\ lstate' = IF bt.attempted THEN lstate ELSE "active"
                 /\ batches' = bs
                 /\ Submit(Command("apply", "batch", mutations, FALSE))
                 /\ UNCHANGED told
            ELSE Refuse("apply") /\ FailBatch(bt.id, bs, bt.attempted)
        replace(rejected, at) ==
            LET deletes == ReplacementFrame(bt.id, rejected) IN
            send(deletes, SubSeq(rejected, Len(deletes) + 1, Len(rejected)), at)
    IN IF bt.replace # <<>> THEN replace(bt.replace, bt.at)
       ELSE IF bt.at > Len(Plan[bt.id].records)
       THEN FinishBatch(bt.id, bs) /\ UNCHANGED <<writer, metrics>>
       ELSE IF frame.rejected # <<>> /\ ~Plan[bt.id].delete
       THEN FailBatch(bt.id, bs, bt.attempted) /\ UNCHANGED <<writer, metrics>>
       ELSE IF frame.mutations = <<>> THEN replace(frame.rejected, frame.at)
       ELSE send(frame.mutations, frame.rejected, frame.at)

\* The cursor refuses a batch whose replacement deletes could not be written.
Replaceable(b) ==
    Plan[b].delete => \A i \in 1..Len(Plan[b].records) : Plan[b].records[i].fault # "id"

\* Up to the first frame there is no await: the batch takes the handle,
\* snapshots its records and submits in one step.
ApplyMutationBatch(b) ==
    /\ calls < MaxCalls /\ calls' = calls + 1
    /\ told[b] = "none" /\ (batch # None => batch.id # b)
    /\ LET bs == [batches EXCEPT !.attempted = @ + 1] IN
       IF Open /\ Idle /\ Replaceable(b)
       THEN Advance([id |-> b, at |-> 1, replace |-> <<>>,
                     attempted |-> FALSE, reply |-> "none"], bs)
       ELSE /\ told' = [told EXCEPT ![b] = "failed"]
            /\ batches' = [bs EXCEPT !.failed = @ + 1]
            /\ UNCHANGED <<lstate, batch, writer, metrics>>
    /\ UNCHANGED <<promise, closed, searchside, store>>

\* The awaited frame was answered: its count is the frame's.
ResumeBatch ==
    /\ batch # None
    /\ \/ /\ batch.reply = "ok"
          /\ Advance(batch, [batches EXCEPT !.frames = @ + 1])
       \/ /\ batch.reply = "failed"
          /\ FailBatch(batch.id, batches, TRUE)
          /\ UNCHANGED <<writer, metrics>>
    /\ UNCHANGED <<promise, closed, calls, searchside, store>>

-----------------------------------------------------------------------------
(* The other calls of the handle *)

\* apply, commit, publish and reload require that no batch is active.
MayCall(op) == Idle

\* A raw frame is a batch of nobody.
RawMutation == [batch |-> None, index |-> 0, op |-> "upsert"]

Call(op) ==
    /\ calls < MaxCalls
    /\ calls' = calls + 1
    /\ MayCall(op)
    /\ IF WriterAdmits
       THEN Submit(Command(op, "call", IF op = "apply" THEN <<RawMutation>> ELSE <<>>, FALSE))
       ELSE Refuse(op)
    /\ UNCHANGED <<lstate, promise, closed, batch, told, batches, searchside, store>>

\* close({mode}): a status of a released handle throws before the promise.
\* The native close is forced into the queue of an open or poisoned handle.
Close(rollback) ==
    /\ calls < MaxCalls
    /\ calls' = calls + 1
    /\ Open
    /\ rollback \/ Idle
    /\ native # "gone"
    /\ promise' = TRUE
    /\ IF native \in {"open", "poisoned"}
       THEN /\ queue' = Append(queue, Command("close", "close", <<>>,
                                              rollback \/ native = "poisoned"))
            /\ native' = IF native = "open" THEN "closing" ELSE native
            /\ metrics' = Admitted("close").m
            /\ UNCHANGED <<running, closeReply>>
       ELSE /\ closeReply' = "E_CLOSED"
            /\ metrics' = Rejected("close")
            /\ UNCHANGED <<native, queue, running>>
    /\ UNCHANGED <<lstate, closed, batch, told, batches, searchside, store>>

\* The promise settles. Only an outcome that ended the handle closes the
\* facade; every other one leaves it as it was.
CloseReturns ==
    /\ promise /\ ~closed /\ closeReply # "none"
    /\ closeReply' = "none"
    /\ IF closeReply \in Outcomes
       THEN closed' = TRUE /\ lstate' = "idle" /\ UNCHANGED promise
       ELSE promise' = FALSE /\ UNCHANGED <<closed, lstate>>
    /\ UNCHANGED <<batch, told, calls, batches, native, queue, running,
                   searchside, store, metrics>>

\* configureTelemetry: refused by a handle that is not open.  The histograms are
\* switched first, ...
ConfigureTelemetry ==
    /\ calls < MaxCalls /\ calls' = calls + 1
    /\ configuring = "none" /\ Open /\ native = "open"
    /\ \E c \in Settings :
        /\ metrics' = [metrics EXCEPT !.histograms = c.histograms]
        /\ configuring' = IF c.bytes THEN "enable" ELSE "disable"
    /\ UNCHANGED <<lstate, promise, closed, batch, told, batches, searchside,
                   store, writer, reader, refreshed, measuring>>

\* ... then the measurement of bytes, ...
ConfigureBytes ==
    /\ configuring \in {"enable", "disable"}
    /\ metrics' = [metrics EXCEPT !.snapshotBytes = (configuring = "enable")]
    /\ configuring' = "reader"
    /\ UNCHANGED <<facade, searchside, store, writer, reader, refreshed, measuring>>

\* ... and the reader's statistics are told under their mutex.
ConfigureReader ==
    /\ configuring = "reader"
    /\ reader' = Configure(reader, metrics.snapshotBytes)
    /\ configuring' = "none"
    /\ UNCHANGED <<facade, searchside, store, writer, metrics, refreshed, measuring>>

-----------------------------------------------------------------------------
(* Page searches *)

\* A native search call; a closing, poisoned or released handle refuses it, and so
\* does a full queue.
AdmitSearch(s) ==
    IF native = "open" /\ Len(squeue) < MaxSearches
    THEN /\ squeue' = Append(squeue, [id |-> s, t |-> Admitted("search").t])
         /\ metrics' = Admitted("search").m
    ELSE /\ metrics' = IF native = "gone" THEN metrics ELSE Rejected("search")
         /\ UNCHANGED squeue

PreparingBytes == MapThenSumSet(LAMBDA s : IdentitySize[s], preparing)
MayPrepare(s) ==
    /\ Cardinality(preparing) < MaxPreparing
    /\ IdentitySize[s] <= MaxPreparingBytes - PreparingBytes

\* A page search with a large identity waits for its digest, within the
\* capacity of preparations; a refusal is the facade's own.
SearchPage(s) ==
    /\ calls < MaxCalls /\ calls' = calls + 1
    /\ s \notin searched
    /\ searched' = searched \cup {s}
    /\ IF Open /\ MayPrepare(s)
       THEN preparing' = preparing \cup {s} /\ UNCHANGED prejected
       ELSE prejected' = prejected + 1 /\ UNCHANGED preparing
    /\ UNCHANGED <<lstate, promise, closed, batch, told, batches,
                   squeue, srunning, store, writer, metrics>>

\* Mutation: the handle is not looked at again after the digest.
StillAdmissibleBlind == TRUE

\* #assertPreparationOpen after the await.
StillAdmissible == Open

\* The digest is there: the capacity is given back whatever happened, and
\* the search goes on if the handle is still open and its time not over.
DigestReady(s) ==
    /\ s \in preparing
    /\ preparing' = preparing \ {s}
    /\ \/ StillAdmissible /\ AdmitSearch(s) /\ UNCHANGED prejected
       \/ prejected' = prejected + 1 /\ UNCHANGED <<squeue, metrics>>
    /\ UNCHANGED <<facade, searched, srunning, store, writer>>

\* The search worker takes a command: its ticket is bound and dispatched.
Settling(w, ok) == metrics' = Settle(w, ok).m
SearchTake(worker) ==
    /\ srunning = None /\ squeue # <<>>
    /\ LET d == Dispatch(BindWorker([m |-> metrics, t |-> Head(squeue).t], worker))
       IN srunning' = [Head(squeue) EXCEPT !.t = d.t] /\ metrics' = d.m
    /\ squeue' = Tail(squeue)
    /\ UNCHANGED <<facade, preparing, searched, prejected, store, writer>>

\* A search that waited too long is failed out of the queue.
SearchExpire ==
    /\ squeue # <<>>
    /\ Settling([m |-> metrics, t |-> Head(squeue).t], FALSE)
    /\ squeue' = Tail(squeue)
    /\ UNCHANGED <<facade, preparing, searched, srunning, prejected, store, writer>>

\* With its permit the search starts; without one it fails unstarted.
SearchStart ==
    /\ srunning # None /\ ~srunning.t.started
    /\ LET w == [m |-> metrics, t |-> srunning.t] IN
       \/ srunning' = [srunning EXCEPT !.t = Start(w).t] /\ metrics' = Start(w).m
       \/ srunning' = None /\ Settling(w, FALSE)
    /\ UNCHANGED <<facade, preparing, searched, squeue, prejected, store, writer>>

SearchFinish ==
    /\ srunning # None /\ srunning.t.started
    /\ \E ok \in BOOLEAN : Settling(Finish([m |-> metrics, t |-> srunning.t]), ok)
    /\ srunning' = None
    /\ UNCHANGED <<facade, preparing, searched, squeue, prejected, store, writer>>

-----------------------------------------------------------------------------
(* Poison and the writer actor *)

\* The tickets of the drained commands q[i], i \in drained, settle as failures.
SettleAll(m, q, drained) ==
    FoldFunctionOnSet(LAMBDA c, acc : Settle([m |-> acc, t |-> c.t], FALSE).m,
                      m, q, drained)

\* Mutation: a frame that failed is taken for applied.
AnswerOk(bt, cmds, reply) ==
    IF bt # None /\ \E c \in cmds : c.from = "batch"
    THEN [bt EXCEPT !.reply = "ok"] ELSE bt

\* The batch or the close that waits for one of these commands is answered.
Answer(bt, cmds, reply) ==
    IF bt # None /\ \E c \in cmds : c.from = "batch"
    THEN [bt EXCEPT !.reply = reply] ELSE bt

AnswerClose(cmds, reply) ==
    IF \E c \in cmds : c.from = "close" THEN reply ELSE closeReply

\* Mutation: the drain fails a queued close with the rest, unanswered.
KeptNone(q) == <<>>

\* Runtime::poison drains both queues; a queued close is kept as a rollback.
Kept(q) == LET closes == {i \in 1..Len(q) : q[i].op = "close"} IN
           IF closes = {} THEN <<>>
           ELSE <<[q[Min(closes)] EXCEPT !.rollback = TRUE]>>

Failed(q) == {i \in 1..Len(q) : q[i].op # "close"}
Poison(m, bt) ==
    /\ native' = "poisoned"
    /\ queue' = Kept(queue)
    /\ squeue' = <<>>
    /\ metrics' = SettleAll(SettleAll(m, queue, Failed(queue)), squeue, 1..Len(squeue))
    /\ batch' = Answer(bt, {queue[i] : i \in Failed(queue)}, "failed")

\* A search panics: it fails, and the handle is poisoned.
SearchPanic ==
    /\ srunning # None /\ srunning.t.started
    /\ srunning' = None
    /\ Poison(Settle([m |-> metrics, t |-> srunning.t], FALSE).m, batch)
    /\ UNCHANGED <<lstate, promise, closed, told, calls, batches,
                   preparing, searched, prejected, store, running, closeReply>>

WriterPop ==
    /\ running = None /\ ~refreshed /\ measuring = None /\ queue # <<>> /\ native # "gone"
    /\ LET w == Start([m |-> metrics, t |-> Head(queue).t]) IN
       running' = [Head(queue) EXCEPT !.t = w.t] /\ metrics' = w.m
    /\ queue' = Tail(queue)
    /\ UNCHANGED <<facade, searchside, store, native, closeReply>>

\* The writer's command ends in `ok`; the loop goes on.
WriterContinue(m, ok) ==
    /\ metrics' = Settle([m |-> m, t |-> running.t], ok).m
    /\ batch' = Answer(batch, {running}, IF ok THEN "ok" ELSE "failed")
    /\ closeReply' = AnswerClose({running}, "E_DIRTY_CLOSE")
    /\ running' = None
    /\ UNCHANGED <<queue, squeue>>

Commits == staged' = <<>> /\ committed' = committed \o staged

\* A publish or a reload gives the reader the segments of the last commit;
\* the bytes are measured after the command was answered.
Refresh(segments) ==
    /\ reader' = InstallReader(reader, segments, metrics.snapshotBytes)
    /\ refreshed' = TRUE
    /\ UNCHANGED <<measuring, configuring>>

\* A command that succeeds, with the phases it measures.
WriterSucceed ==
    /\ running # None /\ ~running.panicked /\ running.op # "close"
    /\ LET commit == Phase(metrics, "commit", TRUE) IN
       \/ /\ running.op = "apply"
          /\ staged' = staged \o running.mutations
          /\ UNCHANGED <<committed, observed>>
          /\ WriterContinue(metrics, TRUE)
       \/ /\ running.op = "commit" /\ Commits
          /\ WriterContinue(commit, TRUE)
          /\ UNCHANGED observed
       \/ /\ running.op = "publish" /\ Commits
          /\ Refresh(Len(committed \o staged))
          /\ WriterContinue(Phase(commit, "readerReload", TRUE), TRUE)
       \/ /\ running.op = "reload"
          /\ UNCHANGED store
          /\ Refresh(Len(committed))
          /\ WriterContinue(Phase(metrics, "readerReload", TRUE), TRUE)
    /\ UNCHANGED <<lstate, promise, closed, told, calls, batches, preparing,
                   searched, srunning, prejected, native>>

\* A frame that cannot be prepared, a commit without its checkpoint and a
\* failed reload change nothing.
WriterRefuse ==
    /\ running # None /\ ~running.panicked /\ running.op \in {"apply", "commit", "reload"}
    /\ WriterContinue(IF running.op = "apply" THEN metrics
                      ELSE Phase(metrics, IF running.op = "commit" THEN "commit"
                                          ELSE "readerReload", FALSE), FALSE)
    /\ UNCHANGED <<lstate, promise, closed, told, calls, batches, preparing,
                   searched, srunning, prejected, native, store>>

\* A mutation or a commit fails after the writer changed: a part of the
\* frame is applied, or the commit may have become durable, and the
\* handle is poisoned.
WriterFail ==
    /\ running # None /\ ~running.panicked /\ running.op \in {"apply", "commit", "publish"}
    /\ LET fail(m) ==
               Poison(Settle([m |-> m, t |-> running.t], FALSE).m,
                      Answer(batch, {running}, "failed"))
       IN \/ /\ running.op = "apply"
             /\ \E k \in 0..Len(running.mutations) :
                   staged' = staged \o SubSeq(running.mutations, 1, k)
             /\ UNCHANGED committed
             /\ fail(metrics)
          \/ /\ running.op # "apply"
             /\ Commits \/ UNCHANGED store
             /\ fail(Phase(metrics, "commit", FALSE))
          \/ /\ running.op = "publish" /\ Commits
             /\ fail(Phase(Phase(metrics, "commit", TRUE), "readerReload", FALSE))
    /\ running' = None
    /\ UNCHANGED <<lstate, promise, closed, told, calls, batches, preparing,
                   searched, srunning, prejected, closeReply>>

\* A clean close of a handle with uncommitted mutations reopens it, unless
\* it was poisoned meanwhile.
Reopens == /\ running # None /\ ~running.panicked /\ running.op = "close"
           /\ ~running.rollback /\ staged # <<>> /\ native = "closing"
CloseDirty ==
    /\ Reopens
    /\ native' = "open"
    /\ WriterContinue(metrics, FALSE)
    /\ UNCHANGED <<lstate, promise, closed, told, calls, batches, preparing,
                   searched, srunning, prejected, store>>

\* The end of the actor: the tickets left in the queue are dropped, the
\* teardown is recorded, the handle released, its own command settled.
Released(ok, clean) ==
    /\ metrics' = Settle([m |-> FinishTeardown(
                             SettleAll(BeginTeardown(metrics), queue, 1..Len(queue)), clean),
                         t |-> running.t], ok).m
    /\ native' = "gone"
    /\ queue' = <<>>
    /\ running' = None
    /\ staged' = <<>>

\* Teardown: the searches end, what is left in the queue is dropped with
\* its tickets, the handle is released, and the close is answered last.
CloseStop ==
    /\ running # None /\ ~running.panicked /\ running.op = "close" /\ ~Reopens
    /\ squeue = <<>> /\ srunning = None
    /\ \E reply \in Outcomes :
        Released(reply = "ok", reply = "ok") /\ closeReply' = reply
    /\ batch' = Answer(batch, ToSet(queue), "failed")
    /\ UNCHANGED <<lstate, promise, closed, told, calls, batches, searchside,
                   committed>>

\* After the answer the writer looks whether the bytes are to be measured.
ObserveBytes ==
    /\ refreshed
    /\ refreshed' = FALSE
    /\ measuring' = IF MustMeasure(reader, metrics.snapshotBytes) THEN reader.signature ELSE None
    /\ UNCHANGED <<facade, searchside, store, writer, metrics, reader, configuring>>

\* The measurement ends, in a result or in an error.
BytesMeasured ==
    /\ measuring # None
    /\ \E ok \in BOOLEAN : reader' = ObservedBytes(reader, measuring, ok)
    /\ measuring' = None
    /\ UNCHANGED <<facade, searchside, store, writer, metrics, refreshed, configuring>>

\* The writer panics: the handle is poisoned at once; a commit may have
\* become durable.
WriterPanic ==
    /\ running # None /\ ~running.panicked
    /\ \/ UNCHANGED store
       \/ running.op \in {"commit", "publish"} /\ Commits
    /\ Poison(metrics, batch)
    /\ running' = [running EXCEPT !.panicked = TRUE]
    /\ UNCHANGED <<lstate, promise, closed, told, calls, batches, preparing,
                   searched, srunning, prejected, closeReply>>

\* Then it is torn down and released; the panicking command is answered
\* last, a close that was still queued when it is dropped.
PanicStop ==
    /\ running # None /\ running.panicked
    /\ squeue = <<>> /\ srunning = None
    /\ \E reply \in {"E_NATIVE_PANIC", "E_QUIESCENCE_FAILED"}, clean \in BOOLEAN :
        /\ clean => reply = "E_NATIVE_PANIC"
        /\ Released(FALSE, clean)
        /\ closeReply' = IF running.from = "close" THEN reply
                         ELSE AnswerClose(ToSet(queue), "E_CLOSED")
    /\ batch' = Answer(batch, ToSet(queue) \cup {running}, "failed")
    /\ UNCHANGED <<lstate, promise, closed, told, calls, batches, searchside,
                   committed>>

-----------------------------------------------------------------------------
Init ==
    /\ lstate = "idle" /\ promise = FALSE /\ closed = FALSE
    /\ batch = None /\ told = [b \in Batches |-> "none"]
    /\ preparing = {} /\ searched = {} /\ calls = 0
    /\ native = "open" /\ queue = <<>> /\ running = None
    /\ squeue = <<>> /\ srunning = None /\ closeReply = "none"
    /\ staged = <<>> /\ committed = <<>>
    /\ metrics = NewMetrics
    /\ reader = InstallReader(NewReaderStats, 0, FALSE) /\ measuring = None
    /\ refreshed = FALSE /\ configuring = "none"
    /\ batches = [attempted |-> 0, succeeded |-> 0, failed |-> 0, frames |-> 0]
    /\ prejected = 0

\* The JavaScript thread takes one call or callback at a time.
JsStep ==
    /\ configuring = "none"
    /\ \/ \E b \in Batches : ApplyMutationBatch(b)
       \/ ResumeBatch
       \/ \E op \in CallOps : Call(op)
       \/ \E rollback \in BOOLEAN : Close(rollback)
       \/ CloseReturns
       \/ \E s \in Searches : SearchPage(s) \/ DigestReady(s)
SearchStep ==
    \/ \E worker \in Workers : SearchTake(worker)
    \/ SearchExpire \/ SearchStart \/ SearchFinish

Next ==
    \/ /\ JsStep \/ SearchStep \/ SearchPanic \/ WriterPop \/ WriterRefuse
          \/ WriterFail \/ CloseDirty \/ CloseStop \/ WriterPanic \/ PanicStop
       /\ UNCHANGED observed
    \/ WriterSucceed
    \/ ConfigureTelemetry \/ ConfigureBytes \/ ConfigureReader
    \/ ObserveBytes \/ BytesMeasured

Spec == Init /\ [][Next]_vars

-----------------------------------------------------------------------------
(* Properties *)

\* The commands whose ticket is live.
Live == queue \o squeue \o (IF running = None THEN <<>> ELSE <<running>>)
              \o (IF srunning = None THEN <<>> ELSE <<srunning>>)

\* However an operation ends (its actor, a poison drain, a dropped queue, a
\* teardown), its ticket is counted once: accepted operations are exactly
\* the completed and the live ones, the gauge of dispatched work is the
\* number of dispatched live tickets and never wraps, each accepted ticket
\* leaves one queue sample, a released handle recorded one teardown, and
\* every logical batch that was attempted is running or has one outcome.
TelemetryExact ==
    /\ LET all == Live IN
       \A op \in Operations :
        LET a == metrics.admission[op]
            live == {i \in 1..Len(all) : all[i].t.op = op}
            dispatched == {i \in live : all[i].t.dispatched}
            waiting == {i \in live : ~all[i].t.started}
        IN /\ a.attempted = a.accepted + a.rejected
           /\ a.accepted = Completed(metrics, op) + Cardinality(live)
           /\ ActorValue(metrics, op, "dispatched") = Cardinality(dispatched)
           /\ QueueSamples(metrics, op) = a.accepted - Cardinality(waiting)
    /\ \A actor \in Actors, op \in Operations :
        metrics.actor[actor][op].dispatched >= 0
    /\ native = "gone" => /\ ~metrics.teardown
                          /\ metrics.phases["teardown"].succeeded
                               + metrics.phases["teardown"].failed = 1
    /\ batches.attempted = batches.succeeded + batches.failed
                             + (IF batch = None THEN 0 ELSE 1)

\* The bytes telemetry reports were measured on the segments it reports,
\* whatever publish, reload or reconfiguration came between the beginning
\* and the end of the measurement, and a measurement is announced as due only while it
\* is missing and, but for the moment between the stores of a reconfiguration, enabled.
BytesAreOfTheReader ==
    /\ reader.bytesSignature \in {NoSignature, reader.signature}
    /\ reader.pending /\ configuring # "reader" => metrics.snapshotBytes
    /\ reader.pending => reader.bytesSignature # reader.signature

\* A search that waited for its digest reaches the native handle only while
\* the facade is open: a close that was called meanwhile stops it.
NoSearchAfterClose ==
    [][metrics'.admission["search"].attempted > metrics.admission["search"].attempted
         => Open]_vars

\* A batch that awaits a frame is never orphaned: the frame is queued or
\* with the writer, so that somebody answers it, whatever drained, dropped
\* or tore down the queue; and so is the close the facade has promised.
AwaitedIsHeld ==
    LET held(from) == \/ \E i \in 1..Len(queue) : queue[i].from = from
                      \/ running # None /\ running.from = from
    IN /\ batch # None /\ batch.reply = "none" => held("batch")
       /\ promise /\ ~closed /\ closeReply = "none" => held("close")

\* A logical batch is atomic for the committed index: of its frames either
\* nothing is in the index or everything is, each record once, a rejected
\* upsert as the delete that replaces it.
WholeBatchesCommitted ==
    \A b \in Batches :
        LET mine == {i \in 1..Len(committed) : committed[i].batch = b} IN
        mine # {} => /\ Cardinality(mine) = Len(Plan[b].records)
                     /\ {committed[i] : i \in mine} = Expected[b]

\* The handle implements the logical index: frames, queue, awaits, poison
\* and rollback are invisible to who sees whole batches and promises.
NonEmpty == {b \in Batches : Plan[b].records # <<>>}
PhaseOf(b) ==
    IF \E i \in 1..Len(committed) : committed[i].batch = b THEN "committed"
    ELSE IF Expected[b] \subseteq ToSet(staged) THEN "staged" ELSE "none"
Logical == INSTANCE LogicalIndex WITH
    Batches <- NonEmpty,
    phase <- [b \in NonEmpty |-> PhaseOf(b)],
    told <- [b \in NonEmpty |-> told[b]],
    lost <- native = "gone"
LogicalSpec == Logical!Spec
=============================================================================
