---------------------------- MODULE Publication ----------------------------
(***************************************************************************)
(* Checkpoint publication: how the host, the writer actor, Tantivy's index *)
(* and a read-only handle agree on what is committed.  Sources: the writer *)
(* commands and SnapshotReader of src/src/native.rs, Writer and the        *)
(* payload checks of src/src/engine.rs, publish, commit and reload of      *)
(* src/ts/native.ts and PublicationState of src/ts/publication.ts.         *)
(*                                                                         *)
(* The host applies numbered batches in order and publishes the number of  *)
(* the last one acknowledged; applying a batch twice does no harm.  An     *)
(* index holding n contains the batches 1 to n.  `seg` names the set of    *)
(* segments; a commit without mutations leaves it alone, a merge does not. *)
(* Every completion has a callback of its own, so JavaScript may see       *)
(* answers in another order than the one in which they were given.         *)
(***************************************************************************)
EXTENDS Integers, Sequences, FiniteSets

CONSTANTS
    MaxBatch,    \* bound: batches of the host
    MaxCalls,    \* bound: publishes and reloads of a writer handle
    MaxSegments, \* bound: segment sets ever written
    None         \* no payload, no command

ASSUME PublicationAssumption ==
    /\ MaxBatch \in Nat /\ MaxCalls \in Nat /\ MaxSegments \in Nat
    /\ None \notin Nat

VARIABLES
    disk,     \* meta.json: segment set, batches in it, commit payload
    gen,      \* the writer handle: "closed", "open" or "poisoned"
    buffer,   \* batches in the IndexWriter, committed or not
    dirty,    \* the IndexWriter holds uncommitted operations
    required, \* Writer.checkpoint_required
    queue,    \* writer queue
    exec,     \* the command the writer executes
    point,    \* how far it is
    active,   \* SnapshotReader.active of the writer handle
    staged,   \* the candidate of its reload, while one is under way
    answers,  \* completions on their way to JavaScript
    pub,      \* PublicationState of the writer handle
    acked,    \* the last batch the host knows to be applied
    reader    \* a read-only handle: reload candidate, active snapshot, known payload

handleVars == <<gen, buffer, dirty, required, queue, exec, point, active, staged>>
vars == <<disk, handleVars, answers, pub, acked, reader>>

Payloads == 0 .. MaxBatch \cup {None}
Snapshots == [seg : 0 .. MaxSegments, docs : 0 .. MaxBatch]

\* A command: what to do, its sequence number in PublicationState if it has
\* one, and its batch or payload.
Commands == [op : {"apply", "commit", "publish", "reload"}, seq : 0 .. MaxCalls, arg : Payloads]
Answers == [cmd : Commands, ok : BOOLEAN, payload : Payloads]

ASSUME NoneAssumption == None \notin Commands /\ None \notin Snapshots

\* The segments and documents of the committed index, as a searcher sees them.
Snapshot == [seg |-> disk.seg, docs |-> disk.docs]

TypeOK ==
    /\ disk \in [seg : 0 .. MaxSegments, docs : 0 .. MaxBatch, payload : Payloads]
    /\ gen \in {"closed", "open", "poisoned"}
    /\ buffer \in 0 .. MaxBatch
    /\ dirty \in BOOLEAN /\ required \in BOOLEAN
    /\ queue \in Seq(Commands)
    /\ exec \in Commands \cup {None}
    /\ point \in {"idle", "ready", "committed", "staged"}
    /\ active \in Snapshots \cup {None} /\ staged \in Snapshots \cup {None}
    /\ answers \subseteq Answers
    /\ pub \in [payload : Payloads, next : 0 .. MaxCalls, published : 0 .. MaxCalls,
                uncertain : 0 .. MaxCalls]
    /\ pub.published <= pub.next /\ pub.uncertain <= pub.next
    /\ acked \in 0 .. MaxBatch
    /\ reader \in [staged : Snapshots \cup {None}, active : Snapshots, payload : Payloads]

NoPublication(p) == [payload |-> p, next |-> 0, published |-> 0, uncertain |-> 0]

\* An empty index without a checkpoint; the read-only handle is open.
Init ==
    /\ disk = [seg |-> 0, docs |-> 0, payload |-> None]
    /\ gen = "closed"
    /\ buffer = 0 /\ dirty = FALSE /\ required = FALSE
    /\ queue = <<>> /\ exec = None /\ point = "idle"
    /\ active = None /\ staged = None
    /\ answers = {}
    /\ pub = NoPublication(None)
    /\ acked = 0
    /\ reader = [staged |-> None, active |-> Snapshot, payload |-> None]

-----------------------------------------------------------------------------
(* Open, close and crash of the process that writes.                       *)

\* Mutation: a new writer does not know of the checkpoint it inherits.
RequiredAtOpenNever == FALSE

\* writer_with_payload: the payload is read under the writer lock.
RequiredAtOpen == disk.payload # None

\* open_runtime_with_directory; the host goes on after its checkpoint.  Nobody
\* else commits while the handle has the writer lock.
Open ==
    /\ gen = "closed"
    /\ gen' = "open"
    /\ buffer' = disk.docs /\ dirty' = FALSE
    /\ required' = RequiredAtOpen
    /\ active' = Snapshot
    /\ pub' = NoPublication(disk.payload)
    /\ acked' = IF disk.payload = None THEN 0 ELSE disk.payload
    /\ UNCHANGED <<disk, queue, exec, point, staged, answers, reader>>

\* What the process had in memory is gone, uncommitted mutations included.
Gone ==
    /\ gen' = "closed"
    /\ buffer' = 0 /\ dirty' = FALSE /\ required' = FALSE
    /\ queue' = <<>> /\ exec' = None /\ point' = "idle"
    /\ active' = None /\ staged' = None
    /\ answers' = {} /\ pub' = NoPublication(None) /\ acked' = 0
    /\ UNCHANGED <<disk, reader>>

\* A close is answered after everything before it.
Close == gen # "closed" /\ queue = <<>> /\ exec = None /\ answers = {} /\ Gone

Crash == gen # "closed" /\ Gone

-----------------------------------------------------------------------------
(* The facade.                                                             *)

\* PublicationState.begin
Begun == [pub EXCEPT !.next = @ + 1]

\* The commands JavaScript has not heard of yet.
Outstanding ==
    {queue[i] : i \in DOMAIN queue} \cup ({exec} \ {None}) \cup {a.cmd : a \in answers}

\* applyMutations, commit, publish and reload that the writer queue accepts.  A
\* refused call only uses up a sequence number.  The host awaits each batch and
\* each commit before the next, not its publishes and reloads.
Call(op) ==
    LET numbered == op \in {"publish", "reload"}
        arg == IF op = "apply" THEN acked + 1 ELSE IF op = "publish" THEN acked ELSE None
    IN
    /\ gen = "open"
    /\ IF numbered THEN pub.next < MaxCalls
       ELSE \A c \in Outstanding : c.op # op
    /\ op = "apply" => acked < MaxBatch
    /\ pub' = IF numbered THEN Begun ELSE pub
    /\ queue' = Append(queue, [op |-> op, seq |-> IF numbered THEN pub.next + 1 ELSE 0, arg |-> arg])
    /\ UNCHANGED <<disk, gen, buffer, dirty, required, exec, point, active, staged, answers,
                   acked, reader>>

\* Mutation: the answer that comes last wins.
SupersedesAlways(seq) == TRUE

\* succeed and refresh ignore what a later call has already told.
Supersedes(seq) == seq > pub.published

\* PublicationState.succeed and refresh
Told(seq, p) ==
    IF Supersedes(seq) THEN [pub EXCEPT !.published = seq, !.payload = p] ELSE pub

\* PublicationState.fail
Doubted(seq) == [pub EXCEPT !.uncertain = IF seq > @ THEN seq ELSE @]

\* The callback of a completion.
Deliver(a) ==
    /\ answers' = answers \ {a}
    /\ pub' = IF a.cmd.op = "publish" /\ a.ok THEN Told(a.cmd.seq, a.cmd.arg)
              ELSE IF a.cmd.op = "publish" THEN Doubted(a.cmd.seq)
              ELSE IF a.cmd.op = "reload" /\ a.ok THEN Told(a.cmd.seq, a.payload)
              ELSE pub
    /\ acked' = IF a.cmd.op = "apply" /\ a.ok THEN a.cmd.arg ELSE acked
    /\ UNCHANGED <<disk, handleVars, reader>>

-----------------------------------------------------------------------------
(* The writer actor.                                                       *)

Take ==
    /\ exec = None /\ queue # <<>>
    /\ exec' = Head(queue)
    /\ queue' = Tail(queue)
    /\ point' = "ready"
    /\ UNCHANGED <<disk, gen, buffer, dirty, required, active, staged, answers, pub, acked, reader>>

Answer(ok, p) == [cmd |-> exec, ok |-> ok, payload |-> p]
Failures == {[cmd |-> queue[i], ok |-> FALSE, payload |-> None] : i \in DOMAIN queue}

\* WriterOutcome::Continue
Continue(ok, p) ==
    /\ answers' = answers \cup {Answer(ok, p)}
    /\ exec' = None /\ point' = "idle"
    /\ UNCHANGED <<gen, queue>>

\* WriterOutcome::Poison: the command fails, then all that is queued.
PoisonOutcome ==
    /\ answers' = answers \cup {Answer(FALSE, None)} \cup Failures
    /\ exec' = None /\ point' = "idle"
    /\ gen' = "poisoned" /\ queue' = <<>>

\* A search thread panics and poisons; the writer finishes what it executes.
SearchPanic ==
    /\ gen = "open"
    /\ gen' = "poisoned"
    /\ answers' = answers \cup Failures
    /\ queue' = <<>>
    /\ UNCHANGED <<disk, buffer, dirty, required, exec, point, active, staged, pub, acked, reader>>

\* Mutation: a batch that could not be prepared is acknowledged.
PreparedAnyway(ok) == TRUE

\* The answer to a batch whose preparation went ok or not.
Prepared(ok) == ok

\* prepare may refuse the batch; a failure of apply_prepared poisons.
Apply ==
    /\ point = "ready" /\ exec.op = "apply"
    /\ \/ /\ buffer' = IF exec.arg > buffer THEN exec.arg ELSE buffer
          /\ dirty' = TRUE
          /\ Continue(TRUE, None)
       \/ /\ Continue(Prepared(FALSE), None)
          /\ UNCHANGED <<buffer, dirty>>
       \/ /\ dirty' = TRUE
          /\ PoisonOutcome
          /\ UNCHANGED buffer
    /\ UNCHANGED <<disk, required, active, staged, pub, acked, reader>>

\* The index after a commit with payload p.
Committed(p) ==
    [seg |-> IF dirty THEN disk.seg + 1 ELSE disk.seg, docs |-> buffer, payload |-> p]

\* commit_with_payload: the meta file is replaced as a whole, or an error leaves
\* it old or, when only the last sync failed, new.
CommitWrites(p) ==
    /\ disk.seg < MaxSegments
    /\ required' = (required \/ p # None)
    /\ disk' = Committed(p)
    /\ dirty' = FALSE

CommitFails(p) ==
    /\ disk.seg < MaxSegments
    /\ required' \in {required, required \/ p # None}
    /\ disk' \in {disk, Committed(p)}
    /\ UNCHANGED dirty

\* A plain commit would drop the payload, so a checkpointed index refuses it.
Commit ==
    /\ point = "ready" /\ exec.op = "commit"
    /\ \/ /\ required
          /\ Continue(FALSE, None)
          /\ UNCHANGED <<disk, dirty, required>>
       \/ /\ ~required
          /\ CommitWrites(None)
          /\ Continue(TRUE, None)
       \/ /\ ~required
          /\ CommitFails(None)
          /\ PoisonOutcome
    /\ UNCHANGED <<buffer, active, staged, pub, acked, reader>>

PublishCommits ==
    /\ point = "ready" /\ exec.op = "publish"
    /\ \/ /\ CommitWrites(exec.arg)
          /\ point' = "committed"
          /\ UNCHANGED <<gen, queue, exec, answers>>
       \/ /\ CommitFails(exec.arg)
          /\ PoisonOutcome
    /\ UNCHANGED <<buffer, active, staged, pub, acked, reader>>

\* reload_after_owned_publish
ActiveAfterPublish == Snapshot

PublishReloads ==
    /\ point = "committed"
    /\ \/ /\ active' = ActiveAfterPublish
          /\ Continue(TRUE, None)
       \/ /\ PoisonOutcome
          /\ UNCHANGED active
    /\ UNCHANGED <<disk, buffer, dirty, required, staged, pub, acked, reader>>

\* Mutation: the payload is taken without comparing the segments.
AlignedAlways(s) == TRUE

\* committed_payload_for_searcher: the searcher's segments are the committed ones.
Aligned(s) == s.seg = disk.seg

\* reload_aligned: reload the staging reader, ...
ReloadStages ==
    /\ point = "ready" /\ exec.op = "reload"
    /\ \/ /\ staged' = Snapshot
          /\ point' = "staged"
          /\ UNCHANGED <<gen, queue, exec, answers>>
       \/ /\ Continue(FALSE, None)
          /\ UNCHANGED staged
    /\ UNCHANGED <<disk, buffer, dirty, required, active, pub, acked, reader>>

\* ... compare it with the meta file, and try again for a bounded number of
\* times while a merge changes it.
ReloadChecks ==
    /\ point = "staged"
    /\ \/ /\ Aligned(staged)
          /\ active' = staged
          /\ Continue(TRUE, disk.payload)
       \/ /\ ~Aligned(staged)
          /\ point' = "ready"
          /\ UNCHANGED <<gen, queue, exec, answers, active>>
       \/ /\ ~Aligned(staged)
          /\ Continue(FALSE, None)
          /\ UNCHANGED active
    /\ staged' = None
    /\ UNCHANGED <<disk, buffer, dirty, required, pub, acked, reader>>

\* A panic of the writer actor while it executes poisons as well; what is left
\* to the handle is to be closed.
WriterPanic ==
    /\ exec # None
    /\ PoisonOutcome
    /\ staged' = None
    /\ UNCHANGED <<disk, buffer, dirty, required, active, pub, acked, reader>>

WriterStep ==
    \/ Take \/ Apply \/ Commit \/ PublishCommits \/ PublishReloads
    \/ ReloadStages \/ ReloadChecks \/ WriterPanic

\* A background merge of the writer replaces segments and keeps the payload.
Merge ==
    /\ gen # "closed" /\ disk.docs > 0 /\ disk.seg < MaxSegments
    /\ disk' = [disk EXCEPT !.seg = @ + 1]
    /\ UNCHANGED <<handleVars, answers, pub, acked, reader>>

-----------------------------------------------------------------------------
(* The read-only handle, perhaps of another process, runs reload_aligned   *)
(* with no writer of its own; its facade refreshes the known payload.      *)

ReaderStages ==
    /\ reader.staged = None
    /\ reader' = [reader EXCEPT !.staged = Snapshot]
    /\ UNCHANGED <<disk, handleVars, answers, pub, acked>>

ReaderChecks ==
    /\ reader.staged # None
    /\ reader' = IF Aligned(reader.staged)
                 THEN [staged |-> None, active |-> reader.staged, payload |-> disk.payload]
                 ELSE [reader EXCEPT !.staged = None]
    /\ UNCHANGED <<disk, handleVars, answers, pub, acked>>

-----------------------------------------------------------------------------
Next ==
    \/ Open \/ Close \/ Crash \/ SearchPanic \/ Merge
    \/ \E op \in {"apply", "commit", "publish", "reload"} : Call(op)
    \/ \E a \in answers : Deliver(a)
    \/ WriterStep
    \/ ReaderStages \/ ReaderChecks

Spec == Init /\ [][Next]_vars

-----------------------------------------------------------------------------
(* Properties.                                                             *)

\* The checkpoint on disk never claims a batch that is not in the index, across
\* refused batches, failed commits, poison and crashes.
CheckpointCovers == disk.payload # None => disk.payload <= disk.docs

\* Once an index has a checkpoint no step drops it or takes it back: what a
\* crash leaves behind is where the host goes on.
CheckpointKept ==
    [][disk.payload # None => disk'.payload # None /\ disk'.payload >= disk.payload]_vars

\* committedPayload answers (it throws while a failed publish may have changed
\* the checkpoint).
Known == pub.uncertain <= pub.published

\* With all publishes answered, committedPayload is the checkpoint on disk or
\* throws, in whatever order the answers arrived.
KnownPayloadExact ==
    gen # "closed" /\ Known /\ (\A c \in Outstanding : c.op # "publish") =>
        pub.payload = disk.payload

\* A search sees every batch of the checkpoint that committedPayload reports:
\* of a writer handle, and of a read-only one that reloads while the writer
\* publishes and merges (SnapshotReader::reload_aligned).
PayloadSearchable ==
    /\ gen # "closed" /\ Known /\ pub.payload # None => pub.payload <= active.docs
    /\ reader.payload # None => reader.payload <= reader.active.docs
=============================================================================
