--------------------------- MODULE NativeRuntime ---------------------------
(***************************************************************************)
(* One open index handle of the native addon (src/src/native.rs): the      *)
(* lifecycle byte `state`, the writer queue with its single writer actor,  *)
(* the two search lanes with their worker threads, the synchronous calls   *)
(* of the JavaScript thread and the environment cleanup hook.              *)
(*                                                                         *)
(* Every critical section of the code (a queue mutex, an atomic store or   *)
(* compare_exchange) is one step; threads interleave between them.  A      *)
(* command is a member of Cmds; its payload is abstracted away, its `op`   *)
(* and the answer its completion received (`res`) are kept.                *)
(***************************************************************************)
EXTENDS Integers, Sequences, FiniteSets

CONSTANTS
    Cmds,         \* identities of the commands JavaScript may issue
    EnvClose,     \* the completion-less Close{rollback} of Runtime::force_close
    Workers,      \* search threads
    OrdinaryWorker, \* worker 0, which serves only the ordinary lane
    Writer,       \* the writer actor
    None,         \* absence of a command
    ReadOnly,     \* the handle has no writer (read_only)
    MaxCommands   \* limits.max_queued_commands

ASSUME RuntimeAssumption ==
    /\ EnvClose \notin Cmds
    /\ None \notin Cmds \cup {EnvClose}
    /\ Writer \notin Workers
    /\ OrdinaryWorker \in Workers
    /\ ReadOnly \in BOOLEAN
    /\ MaxCommands \in Nat \ {0}

AllCmds == Cmds \cup {EnvClose}
Threads == Workers \cup {Writer}

States == {"OPEN", "CLOSING", "CLOSED", "POISONED"}

Lanes == {"ordinary", "expensive"}

WriterOps == {"apply", "commit", "publish", "reload"}

CloseOps == {"closeClean", "closeRollback"}

SearchOps == {"search", "expensiveSearch"}

Ops == WriterOps \cup CloseOps \cup SearchOps

\* "unused": not issued; "rejected": the synchronous call threw; "pending":
\* accepted into a queue; the others are the answers a completion may carry.
Answers == {"ok", "failed", "E_DIRTY_CLOSE", "E_POISONED", "E_NATIVE_PANIC",
            "E_CLOSED", "E_CLOSE_FAILED", "E_QUIESCENCE_FAILED"}
Results == {"unused", "rejected", "pending"} \cup Answers

\* The answers of a close that released the runtime: E_CLOSE_FAILED reports an
\* error of the shutdown beside it.
ReleasedAnswers == {"ok", "E_CLOSE_FAILED"}

VARIABLES
    state,      \* Runtime.state
    dirty,      \* uncommitted_mutations > 0
    wq,         \* writer_queue items
    wqClosed,   \* writer_queue closed
    sq,         \* search queues' items, by lane
    sqClosed,   \* search queues closed, by lane
    op,         \* operation of each command
    res,        \* answer of each command
    pc,         \* control point of the writer actor and the search workers
    cur,        \* the command a thread is executing
    held,       \* the Close a poisoning thread took out of the writer queue
    crashed,    \* the writer actor unwound and is tearing the runtime down
    quiesced,   \* WriterCloseOutcome.quiesced
    resources,  \* registry handle, path reservation and budget reservation
    jpc,        \* control point of the JavaScript thread
    jcmd,       \* the command of its current synchronous call
    fence       \* history: how far the first poison got

queueVars == <<wq, wqClosed, sq, sqClosed>>
cmdVars == <<op, res>>
threadVars == <<pc, cur, held, crashed, quiesced>>
jsVars == <<jpc, jcmd>>
vars == <<state, dirty, wq, wqClosed, sq, sqClosed, op, res, pc, cur, held,
          crashed, quiesced, resources, jpc, jcmd, fence>>

ThreadPoints == {"pop", "exec", "poison", "drain", "repush", "closeOrdinary",
                 "closeExpensive", "closeWriter", "shutdown",
                 "shutdownExpensive", "join", "closeQueue", "store", "release",
                 "answer", "done"}

JsPoints == {"idle", "enqueue", "enqueueSearch", "pushClose", "cleanup", "gone"}

TypeOK ==
    /\ state \in States
    /\ dirty \in BOOLEAN
    /\ wq \in Seq(AllCmds)
    /\ wqClosed \in BOOLEAN
    /\ sq \in [Lanes -> Seq(AllCmds)]
    /\ sqClosed \in [Lanes -> BOOLEAN]
    /\ op \in [AllCmds -> Ops]
    /\ res \in [AllCmds -> Results]
    /\ pc \in [Threads -> ThreadPoints]
    /\ cur \in [Threads -> AllCmds \cup {None}]
    /\ held \in [Threads -> AllCmds \cup {None}]
    /\ crashed \in BOOLEAN
    /\ quiesced \in BOOLEAN
    /\ resources \in {"held", "released", "quarantined"}
    /\ jpc \in JsPoints
    /\ jcmd \in AllCmds \cup {None}
    /\ fence \in {"live", "poisoned", "drained"}

Settled(c) == res[c] \in Answers
InSeq(q, c) == \E i \in 1..Len(q) : q[i] = c
IsClose(c) == op[c] \in CloseOps

\* Runtime::search_queue: a single worker has no expensive queue.
SearchLane(o) ==
    IF o = "expensiveSearch" /\ Workers # {OrdinaryWorker}
    THEN "expensive" ELSE "ordinary"

\* Worker 0 runs ordinary_search_loop, the others flexible_search_loop.
Serves(w) == IF w = OrdinaryWorker THEN {"ordinary"} ELSE Lanes

\* finish_environment_cleanup has not run.
EnvAlive == jpc \notin {"cleanup", "gone"}

Goto(t, point) == pc' = [pc EXCEPT ![t] = point]

Answer(c, answer) == res' = [res EXCEPT ![c] = answer]

\* Every command of S receives the same answer.
AnswerAll(S, answer) ==
    res' = [c \in AllCmds |-> IF c \in S THEN answer ELSE res[c]]

Init ==
    /\ state = "OPEN"
    /\ dirty = FALSE
    /\ wq = <<>>
    /\ wqClosed = FALSE
    /\ sq = [l \in Lanes |-> <<>>]
    /\ sqClosed = [l \in Lanes |-> FALSE]
    /\ op = [c \in AllCmds |-> "closeRollback"]
    /\ res = [c \in AllCmds |-> "unused"]
    /\ pc = [t \in Threads |-> "pop"]
    /\ cur = [t \in Threads |-> None]
    /\ held = [t \in Threads |-> None]
    /\ crashed = FALSE
    /\ quiesced = TRUE
    /\ resources = "held"
    /\ jpc = "idle"
    /\ jcmd = None
    /\ fence = "live"

-----------------------------------------------------------------------------
(* The JavaScript thread: synchronous N-API calls.                         *)

\* native_apply, native_commit, native_publish, native_reload up to the early
\* require_open/require_writable; the queue is entered in EnqueueWriter.
RequestWriter(c, o) ==
    /\ jpc = "idle" /\ resources = "held"
    /\ res[c] = "unused"
    /\ state = "OPEN"
    /\ ReadOnly => o = "reload"
    /\ op' = [op EXCEPT ![c] = o]
    /\ jpc' = "enqueue"
    /\ jcmd' = c
    /\ UNCHANGED <<state, dirty, queueVars, res, threadVars, resources, fence>>

\* Mutation: the state is not checked again under the queue mutex.
WriterAdmitsUnfenced == ~wqClosed /\ Len(wq) < MaxCommands

\* The admission of try_push_tracked: state, closed and capacity.
WriterAdmits == state = "OPEN" /\ ~wqClosed /\ Len(wq) < MaxCommands

\* Runtime::enqueue_writer: admission and push are one critical section.
EnqueueWriter ==
    /\ jpc = "enqueue"
    /\ IF WriterAdmits
       THEN /\ wq' = Append(wq, jcmd)
            /\ Answer(jcmd, "pending")
       ELSE /\ Answer(jcmd, "rejected")
            /\ UNCHANGED wq
    /\ jpc' = "idle" /\ jcmd' = None
    /\ UNCHANGED <<state, dirty, wqClosed, sq, sqClosed, op, threadVars, resources, fence>>

\* native_search and native_trace_matches up to the early require_open.
RequestSearch(c, o) ==
    /\ jpc = "idle" /\ resources = "held"
    /\ res[c] = "unused"
    /\ state = "OPEN"
    /\ op' = [op EXCEPT ![c] = o]
    /\ jpc' = "enqueueSearch"
    /\ jcmd' = c
    /\ UNCHANGED <<state, dirty, queueVars, res, threadVars, resources, fence>>

\* try_push_tracked on a search queue, whose admission does not look at the
\* state again; the lanes share one QueueBudget of MaxCommands.
EnqueueSearch ==
    LET l == SearchLane(op[jcmd]) IN
    /\ jpc = "enqueueSearch"
    /\ IF ~sqClosed[l] /\ Len(sq["ordinary"]) + Len(sq["expensive"]) < MaxCommands
       THEN /\ sq' = [sq EXCEPT ![l] = Append(sq[l], jcmd)]
            /\ Answer(jcmd, "pending")
       ELSE /\ Answer(jcmd, "rejected")
            /\ UNCHANGED sq
    /\ jpc' = "idle" /\ jcmd' = None
    /\ UNCHANGED <<state, dirty, wq, wqClosed, sqClosed, op, threadVars, resources, fence>>

\* NativeFulltextIndex.close: one close in flight, and none after a final one.
MayClose ==
    \A c \in Cmds : IsClose(c) =>
        res[c] \notin ReleasedAnswers \cup {"pending", "E_QUIESCENCE_FAILED"}

\* Mutation: a poisoned handle answers success as a closed one does.
AnswersAtOncePoisoned == state \in {"CLOSED", "POISONED"}

\* The compare_exchange of native_close failed with STATE_CLOSED.
AnswersAtOnce == state = "CLOSED"

\* native_close up to its compare_exchange on the state.
RequestClose(c, o) ==
    /\ jpc = "idle" /\ resources = "held"
    /\ res[c] = "unused"
    /\ MayClose
    /\ \/ /\ state = "OPEN"
          /\ state' = "CLOSING"
          /\ op' = [op EXCEPT ![c] = o]
          /\ jpc' = "pushClose" /\ jcmd' = c
          /\ UNCHANGED res
       \/ /\ state = "POISONED"
          /\ op' = [op EXCEPT ![c] = "closeRollback"]
          /\ jpc' = "pushClose" /\ jcmd' = c
          /\ UNCHANGED <<state, res>>
       \/ /\ AnswersAtOnce
          /\ op' = [op EXCEPT ![c] = o]
          /\ Answer(c, "ok")
          /\ UNCHANGED <<state, jsVars>>
    /\ UNCHANGED <<dirty, queueVars, threadVars, resources, fence>>

\* push_force_tracked of the Close command: only a closed queue refuses it.
PushClose ==
    /\ jpc = "pushClose"
    /\ IF wqClosed
       THEN /\ Answer(jcmd, "rejected")
            /\ UNCHANGED wq
       ELSE /\ Answer(jcmd, "pending")
            /\ wq' = Append(wq, jcmd)
    /\ jpc' = "idle" /\ jcmd' = None
    /\ UNCHANGED <<state, dirty, wqClosed, sq, sqClosed, op, threadVars, resources, fence>>

\* finish_environment_cleanup up to the registry lookup of cleanup_handle.
EnvironmentCleanup ==
    /\ jpc = "idle"
    /\ jpc' = IF resources = "held" THEN "cleanup" ELSE "gone"
    /\ UNCHANGED <<state, dirty, queueVars, cmdVars, threadVars, resources, jcmd, fence>>

\* Runtime::force_close: under the writer queue mutex, a runtime that is
\* neither closing nor closed becomes CLOSING and its rollback Close is pushed.
ForceClose ==
    /\ jpc = "cleanup"
    /\ IF ~wqClosed /\ state \notin {"CLOSED", "CLOSING"}
       THEN /\ state' = "CLOSING"
            /\ wq' = Append(wq, EnvClose)
            /\ Answer(EnvClose, "pending")
       ELSE UNCHANGED <<state, wq, res>>
    /\ jpc' = "gone"
    /\ UNCHANGED <<dirty, wqClosed, sq, sqClosed, op, threadVars, resources, jcmd, fence>>

-----------------------------------------------------------------------------
(* Runtime::poison, run by the writer actor or by a search worker.         *)

\* The error the drained commands are failed with.
PoisonError(t) == IF t = Writer /\ ~crashed THEN "E_POISONED" ELSE "E_NATIVE_PANIC"

\* state.store(POISONED).
PoisonStore(t) ==
    /\ pc[t] = "poison"
    /\ state' = "POISONED"
    /\ fence' = IF fence = "live" THEN "poisoned" ELSE fence
    /\ Goto(t, "drain")
    /\ UNCHANGED <<dirty, queueVars, cmdVars, cur, held, crashed, quiesced, resources, jsVars>>

\* writer_queue.drain(): the first Close is kept, the others fail.
FirstClose(q) ==
    LET closes == {i \in 1..Len(q) : IsClose(q[i])}
    IN IF closes = {} THEN None
       ELSE q[CHOOSE i \in closes : \A j \in closes : i <= j]

\* Mutation: the Close that is kept is failed with the others.
DrainFailsClose(q) == {c \in AllCmds : InSeq(q, c)}

\* Mutation: the drained commands are forgotten.
DrainFailsNone(q) == {}

\* What the drain of queue q fails.
DrainFails(q) == {c \in AllCmds : InSeq(q, c) /\ c # FirstClose(q)}

PoisonDrain(t) ==
    /\ pc[t] = "drain"
    /\ wq' = <<>>
    /\ held' = [held EXCEPT ![t] = FirstClose(wq)]
    /\ AnswerAll(DrainFails(wq), PoisonError(t))
    /\ fence' = "drained"
    /\ Goto(t, "repush")
    /\ UNCHANGED <<state, dirty, wqClosed, sq, sqClosed, op, cur, crashed, quiesced, resources, jsVars>>

\* The drain kept a Close.
Kept(t) == held[t] # None

\* push_force(close.force_rollback()); a closed queue drops the completion.
PoisonRepush(t) ==
    LET c == held[t] IN
    /\ pc[t] = "repush"
    /\ \/ /\ ~Kept(t)
          /\ UNCHANGED <<wq, op, res>>
       \/ /\ Kept(t)
          /\ op' = [op EXCEPT ![c] = "closeRollback"]
          /\ IF wqClosed THEN Answer(c, "E_CLOSED") /\ UNCHANGED wq
                         ELSE wq' = Append(wq, c) /\ UNCHANGED res
    /\ held' = [held EXCEPT ![t] = None]
    /\ Goto(t, "closeOrdinary")
    /\ UNCHANGED <<state, dirty, wqClosed, sq, sqClosed, cur, crashed, quiesced, resources, jsVars, fence>>

\* ordinary_search_queue.close(), then expensive_search_queue.close().
PoisonCloseLane(t, l, here, next) ==
    /\ pc[t] = here
    /\ sq' = [sq EXCEPT ![l] = <<>>]
    /\ sqClosed' = [sqClosed EXCEPT ![l] = TRUE]
    /\ AnswerAll({c \in AllCmds : InSeq(sq[l], c)}, PoisonError(t))
    /\ Goto(t, next)
    /\ UNCHANGED <<state, dirty, wq, wqClosed, op, cur, held, crashed, quiesced, resources, jsVars, fence>>

\* After poison a search worker exits, a writer that unwound tears down and a
\* writer that failed an operation returns to its queue.
AfterPoison(t) ==
    IF t # Writer THEN "done" ELSE IF crashed THEN "closeWriter" ELSE "pop"

Poison(t) ==
    \/ PoisonStore(t)
    \/ PoisonDrain(t)
    \/ PoisonRepush(t)
    \/ PoisonCloseLane(t, "ordinary", "closeOrdinary", "closeExpensive")
    \/ PoisonCloseLane(t, "expensive", "closeExpensive", AfterPoison(t))

-----------------------------------------------------------------------------
(* The writer actor: writer_loop_inner, close_writer, finish_runtime.      *)

WriterPop ==
    /\ pc[Writer] = "pop"
    /\ wq # <<>>
    /\ cur' = [cur EXCEPT ![Writer] = Head(wq)]
    /\ wq' = Tail(wq)
    /\ Goto(Writer, "exec")
    /\ UNCHANGED <<state, dirty, wqClosed, sq, sqClosed, cmdVars, held, crashed,
                   quiesced, resources, jsVars, fence>>

\* WriterOutcome::Continue(Ok) of apply, commit, publish and reload.  An empty
\* batch applies without raising uncommitted_mutations.
WriterSucceed ==
    LET c == cur[Writer] IN
    /\ pc[Writer] = "exec" /\ ~IsClose(c)
    /\ \/ op[c] = "apply" /\ dirty' \in {dirty, TRUE}
       \/ op[c] \in {"commit", "publish"} /\ dirty' = FALSE
       \/ op[c] = "reload" /\ UNCHANGED dirty
    /\ Answer(c, "ok")
    /\ cur' = [cur EXCEPT ![Writer] = None]
    /\ Goto(Writer, "pop")
    /\ UNCHANGED <<state, queueVars, op, held, crashed, quiesced, resources, jsVars, fence>>

\* WriterOutcome::Continue(Err): an invalid batch, E_CHECKPOINT_REQUIRED from a
\* plain commit, or a failed reload.  A publish never fails this way.
WriterRefuse ==
    LET c == cur[Writer] IN
    /\ pc[Writer] = "exec"
    /\ op[c] \in {"apply", "commit", "reload"}
    /\ Answer(c, "failed")
    /\ cur' = [cur EXCEPT ![Writer] = None]
    /\ Goto(Writer, "pop")
    /\ UNCHANGED <<state, dirty, queueVars, op, held, crashed, quiesced, resources, jsVars, fence>>

\* WriterOutcome::Poison: the completion is settled, then poison runs.
WriterFail ==
    LET c == cur[Writer] IN
    /\ pc[Writer] = "exec"
    /\ op[c] \in {"apply", "commit", "publish"}
    /\ Answer(c, "failed")
    /\ cur' = [cur EXCEPT ![Writer] = None]
    /\ Goto(Writer, "poison")
    /\ UNCHANGED <<state, dirty, queueVars, op, held, crashed, quiesced, resources, jsVars, fence>>

\* catch_unwind reported a panic: poison, then teardown, then the completion.
WriterPanic ==
    /\ pc[Writer] = "exec"
    /\ crashed' = TRUE
    /\ Goto(Writer, "poison")
    /\ UNCHANGED <<state, dirty, queueVars, cmdVars, cur, held, quiesced, resources, jsVars, fence>>

\* Mutation: the reopening is a plain store instead of a compare_exchange.
ReopensAnyState(c) == op[c] = "closeClean" /\ dirty

\* Mutation: the dirty check ignores the rollback flag.
ReopensRollback(c) == IsClose(c) /\ dirty /\ state = "CLOSING"

\* Mutation: a dirty index is closed.
ReopensNever(c) == FALSE

\* A Close{rollback: false} found uncommitted mutations and its
\* compare_exchange(CLOSING, OPEN) succeeds.
Reopens(c) == op[c] = "closeClean" /\ dirty /\ state = "CLOSING"

\* The dirty close is refused and the handle is open again.
CloseDirty ==
    LET c == cur[Writer] IN
    /\ pc[Writer] = "exec"
    /\ Reopens(c)
    /\ state' = "OPEN"
    /\ Answer(c, "E_DIRTY_CLOSE")
    /\ cur' = [cur EXCEPT ![Writer] = None]
    /\ Goto(Writer, "pop")
    /\ UNCHANGED <<dirty, queueVars, op, held, crashed, quiesced, resources, jsVars, fence>>

\* Any other Close stops the actor.
CloseStop ==
    LET c == cur[Writer] IN
    /\ pc[Writer] = "exec"
    /\ IsClose(c)
    /\ ~Reopens(c)
    /\ Goto(Writer, "closeWriter")
    /\ UNCHANGED <<state, dirty, queueVars, cmdVars, cur, held, crashed, quiesced, resources, jsVars, fence>>

\* finish_writer_close: Writer::close may fail or panic, which leaves
\* quiescence unproven; a read-only handle has no writer to close.
CloseWriter ==
    /\ pc[Writer] = "closeWriter"
    /\ quiesced' \in IF ReadOnly THEN {TRUE} ELSE BOOLEAN
    /\ Goto(Writer, "shutdown")
    /\ UNCHANGED <<state, dirty, queueVars, cmdVars, cur, held, crashed, resources, jsVars, fence>>

\* Mutation: the lane is closed with what it holds, as poison closes it.
ShutdownLaneDropping(l, here, next) ==
    /\ pc[Writer] = here
    /\ sq' = [sq EXCEPT ![l] = <<>>]
    /\ sqClosed' = [sqClosed EXCEPT ![l] = TRUE]
    /\ AnswerAll({c \in AllCmds : InSeq(sq[l], c)}, "E_CLOSED")
    /\ Goto(Writer, next)
    /\ UNCHANGED <<state, dirty, wq, wqClosed, op, cur, held, crashed, quiesced,
                   resources, jsVars, fence>>

\* shutdown_after_drain of one search queue: what it holds stays in it.
ShutdownLane(l, here, next) ==
    /\ pc[Writer] = here
    /\ sqClosed' = [sqClosed EXCEPT ![l] = TRUE]
    /\ Goto(Writer, next)
    /\ UNCHANGED <<state, dirty, wq, wqClosed, sq, cmdVars, cur, held, crashed,
                   quiesced, resources, jsVars, fence>>

\* finish_runtime shuts the ordinary queue down, then the expensive one.
ShutdownSearch ==
    \/ ShutdownLane("ordinary", "shutdown", "shutdownExpensive")
    \/ ShutdownLane("expensive", "shutdownExpensive", "join")

\* Mutation: the search threads are not joined.
SearchJoinedAlways == TRUE

\* Every search thread has exited, so join returns.
SearchJoined == \A w \in Workers : pc[w] = "done"

\* The joins, the count of the remaining owners of engine and reader and the
\* drop of both.  An owner too many, or a panic that leads to
\* finish_unproven_runtime, leaves quiescence unproven, for a read-only handle
\* as well.
JoinSearch ==
    /\ pc[Writer] = "join"
    /\ SearchJoined
    /\ quiesced' \in {quiesced, FALSE}
    /\ Goto(Writer, "closeQueue")
    /\ UNCHANGED <<state, dirty, queueVars, cmdVars, cur, held, crashed,
                   resources, jsVars, fence>>

\* Mutation: the queue is emptied without dropping what it held.
DroppedNone == {}

\* The commands whose completions die with the writer queue.
Dropped == {c \in AllCmds : InSeq(wq, c)}

\* writer_queue.close(): the drained completions are dropped with E_CLOSED.
CloseWriterQueue ==
    /\ pc[Writer] = "closeQueue"
    /\ wqClosed' = TRUE
    /\ wq' = <<>>
    /\ AnswerAll(Dropped, "E_CLOSED")
    /\ Goto(Writer, "store")
    /\ UNCHANGED <<state, dirty, sq, sqClosed, op, cur, held, crashed, quiesced,
                   resources, jsVars, fence>>

\* The final state.
StoreFinalState ==
    /\ pc[Writer] = "store"
    /\ state' = IF quiesced THEN "CLOSED" ELSE "POISONED"
    /\ Goto(Writer, "release")
    /\ UNCHANGED <<dirty, queueVars, cmdVars, cur, held, crashed, quiesced,
                   resources, jsVars, fence>>

\* release_reservation and release_runtime, or retain_reservation_until_restart
\* and release_runtime_handle, which quarantines the path.
ReleaseRuntime ==
    /\ pc[Writer] = "release"
    /\ resources' = IF quiesced THEN "released" ELSE "quarantined"
    /\ Goto(Writer, "answer")
    /\ UNCHANGED <<state, dirty, queueVars, cmdVars, cur, held, crashed, quiesced,
                   jsVars, fence>>

\* close_result, or the panic's answer: a close that is proven may still report
\* an error of the shutdown (a search thread that ended in a panic).
FinalAnswers ==
    IF ~quiesced THEN {"E_QUIESCENCE_FAILED"}
    ELSE IF crashed THEN {"E_NATIVE_PANIC"} ELSE ReleasedAnswers

\* settle, then closed.signal().
WriterAnswer ==
    /\ pc[Writer] = "answer"
    /\ \E answer \in FinalAnswers : Answer(cur[Writer], answer)
    /\ cur' = [cur EXCEPT ![Writer] = None]
    /\ Goto(Writer, "done")
    /\ UNCHANGED <<state, dirty, queueVars, op, held, crashed, quiesced, resources, jsVars, fence>>

Teardown ==
    \/ CloseWriter \/ ShutdownSearch \/ JoinSearch \/ CloseWriterQueue
    \/ StoreFinalState \/ ReleaseRuntime \/ WriterAnswer

WriterStep ==
    \/ WriterPop \/ WriterSucceed \/ WriterRefuse \/ WriterFail \/ WriterPanic
    \/ CloseDirty \/ CloseStop \/ Teardown

-----------------------------------------------------------------------------
(* The search workers: ordinary_search_loop, flexible_search_loop and      *)
(* execute_search_command.  Which lane a flexible worker prefers, and the  *)
(* permits it needs, are the subject of module SearchLanes.                *)

SearchPop(w, l) ==
    /\ pc[w] = "pop"
    /\ l \in Serves(w)
    /\ sq[l] # <<>>
    /\ cur' = [cur EXCEPT ![w] = Head(sq[l])]
    /\ sq' = [sq EXCEPT ![l] = Tail(sq[l])]
    /\ Goto(w, "exec")
    /\ UNCHANGED <<state, dirty, wq, wqClosed, sqClosed, cmdVars, held, crashed,
                   quiesced, resources, jsVars, fence>>

\* The search answered, timed out, was refused a permit or was invalid.
SearchFinish(w) ==
    /\ pc[w] = "exec"
    /\ \E answer \in {"ok", "failed"} : Answer(cur[w], answer)
    /\ cur' = [cur EXCEPT ![w] = None]
    /\ Goto(w, "pop")
    /\ UNCHANGED <<state, dirty, queueVars, op, held, crashed, quiesced, resources, jsVars, fence>>

\* A panicking search fails its completion, poisons the runtime and exits.
SearchPanic(w) ==
    /\ pc[w] = "exec"
    /\ Answer(cur[w], "E_NATIVE_PANIC")
    /\ cur' = [cur EXCEPT ![w] = None]
    /\ Goto(w, "poison")
    /\ UNCHANGED <<state, dirty, queueVars, op, held, crashed, quiesced, resources, jsVars, fence>>

\* pop() of a closed, drained queue returns None.
SearchExit(w) ==
    /\ pc[w] = "pop"
    /\ \A l \in Serves(w) : sqClosed[l] /\ sq[l] = <<>>
    /\ Goto(w, "done")
    /\ UNCHANGED <<state, dirty, queueVars, cmdVars, cur, held, crashed, quiesced,
                   resources, jsVars, fence>>

SearchStep(w) ==
    \/ \E l \in Lanes : SearchPop(w, l)
    \/ SearchFinish(w) \/ SearchPanic(w) \/ SearchExit(w)

-----------------------------------------------------------------------------
JsStep ==
    \/ \E c \in Cmds, o \in WriterOps : RequestWriter(c, o)
    \/ \E c \in Cmds, o \in SearchOps : RequestSearch(c, o)
    \/ \E c \in Cmds, o \in CloseOps : RequestClose(c, o)
    \/ EnqueueWriter \/ EnqueueSearch \/ PushClose
    \/ EnvironmentCleanup \/ ForceClose

Next ==
    \/ JsStep
    \/ WriterStep
    \/ \E w \in Workers : SearchStep(w)
    \/ \E t \in Threads : Poison(t)

Spec == Init /\ [][Next]_vars

\* Threads are scheduled and native calls return; JavaScript finishes a call it
\* began, but nothing obliges it to make another.
Fairness ==
    /\ WF_vars(WriterStep \/ Poison(Writer))
    /\ \A w \in Workers : WF_vars(SearchStep(w) \/ Poison(w))
    /\ WF_vars(EnqueueWriter \/ EnqueueSearch \/ PushClose \/ ForceClose)

FairSpec == Spec /\ Fairness

-----------------------------------------------------------------------------
(* Properties.                                                             *)

\* Every completion is settled at most once: whatever poison, teardown and the
\* executing thread race for, an answer already given is never replaced
\* (Completion::success/failure/drop consume the completion).
SettledOnce == [][\A c \in AllCmds : Settled(c) => res'[c] = res[c]]_vars

\* docs/terminal-writer-admission.md: once a poison has drained the writer
\* queue, no apply, commit, publish or reload enters it, however early the
\* caller saw the runtime open; only Close commands may.
TerminalAdmission ==
    fence = "drained" => \A c \in AllCmds : InSeq(wq, c) => IsClose(c)

\* The handle, path and budget are given up only when nothing native can touch
\* the index: all search threads have exited, no command is queued, executing
\* or held by a poisoning thread, and the state is final.
FinishedQuiescent ==
    resources # "held" =>
        /\ \A w \in Workers : pc[w] = "done" /\ cur[w] = None
        /\ \A t \in Threads : held[t] = None
        /\ wqClosed /\ wq = <<>>
        /\ \A l \in Lanes : sqClosed[l] /\ sq[l] = <<>>
        /\ state = IF resources = "released" THEN "CLOSED" ELSE "POISONED"

\* When the writer actor has signalled its end, every accepted command has its
\* answer: none is left in a queue or with an exited thread.
NothingLeftPending ==
    pc[Writer] = "done" => \A c \in AllCmds : res[c] # "pending"

\* A close that answers success, or success with a cleanup error, proves the
\* native actors stopped, even when the caller only observed CLOSED while a
\* panicked writer was tearing down.
CloseOkMeansStopped ==
    \A c \in Cmds : IsClose(c) /\ res[c] \in ReleasedAnswers =>
        /\ state = "CLOSED" /\ wqClosed
        /\ \A w \in Workers : pc[w] = "done"

\* A require-clean close never releases the runtime over uncommitted mutations,
\* unless a poison had already made them worthless.
RequireCleanKeepsMutations ==
    \A c \in Cmds : op[c] = "closeClean" /\ res[c] \in ReleasedAnswers =>
        ~dirty \/ fence # "live"

\* A close serves the searches accepted before it: a search in a lane that the
\* teardown shuts down is still executed.  Only a poison takes an accepted search
\* its own answer, and it says so: no search ever ends with the E_CLOSED of a
\* dropped completion, and before the first poison took effect the only other
\* outcome is the panic of a search whose worker is about to poison the runtime.
AcceptedSearchesServed ==
    \A c \in Cmds : op[c] \in SearchOps =>
        /\ res[c] # "E_CLOSED"
        /\ Settled(c) /\ res[c] \notin {"ok", "failed"} =>
              fence # "live" \/ \E w \in Workers : pc[w] = "poison"

\* While its environment lives, a poisoned generation never answers as OPEN
\* again: the reopening of a dirty close loses to a poison.
PoisonSticks == EnvAlive /\ fence # "live" => state # "OPEN"

\* Every accepted command is eventually answered.
AcceptedSettles == \A c \in AllCmds : (res[c] = "pending") ~> (res[c] # "pending")

\* A close the environment hook managed to queue does end the runtime.
ForcedCloseReleases == (res[EnvClose] = "pending") ~> (resources # "held")

\* docs/native-backend-implementation.md: environment teardown schedules
\* rollback close for every tracked runtime and waits for its path release.
CleanupReleases == (jpc = "gone") ~> (resources # "held")
=============================================================================
