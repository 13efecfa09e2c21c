------------------------- MODULE PublicationProofs -------------------------
(***************************************************************************)
(* Proofs about Publication for every number of batches, calls and         *)
(* segment sets.                                                           *)
(*                                                                         *)
(* Two orders carry the argument.  The writer serves its queue in the      *)
(* order of the calls, so the payloads it commits never decrease and a     *)
(* value JavaScript may still be told about is older than every publish    *)
(* not yet executed.  And such a value, once it differs from the           *)
(* checkpoint on disk, has left a later publish behind it that is still    *)
(* outstanding, told or doubted.                                           *)
(***************************************************************************)
EXTENDS Publication, SequenceTheorems, WellFoundedInduction, NaturalsInduction, TLAPS

Live == gen # "closed"
Numbered(c) == c.op \in {"publish", "reload"}

\* c was called before d.
Before(c, d) ==
    /\ c.op = "publish" /\ d.op = "publish" => c.arg <= d.arg
    /\ Numbered(c) /\ Numbered(d) => c.seq < d.seq

\* The handle and the point its writer has reached.
PointInv ==
    /\ ~Live => queue = <<>> /\ exec = None /\ answers = {}
    /\ Live => active \in Snapshots
    /\ gen = "poisoned" => queue = <<>>
    /\ point = "idle" <=> exec = None
    /\ point = "committed" => exec.op = "publish" /\ disk.payload = exec.arg
    /\ point = "staged" => exec.op = "reload" /\ staged \in Snapshots

\* The IndexWriter holds what is committed and what is acknowledged.
BufferInv ==
    Live =>
        /\ acked <= buffer /\ disk.docs <= buffer
        /\ ~dirty => buffer = disk.docs
        /\ gen = "open" \/ exec # None => (disk.payload # None => required)
        /\ disk.payload # None => disk.payload <= acked

\* Batches are applied one at a time, and acknowledged when they are in.
BatchInv ==
    /\ \A c, d \in Outstanding : c.op = "apply" /\ d.op = "apply" => c = d
    /\ \A c \in Outstanding : c.op = "apply" => c.arg \in {acked, acked + 1}
    /\ \A a \in answers : a.cmd.op = "apply" /\ a.ok => a.cmd.arg <= buffer

\* A publish carries an acknowledged batch, a numbered call its number.
CallInv ==
    \A c \in Outstanding :
        /\ c.op = "publish" => c.arg # None /\ c.arg <= acked
        /\ Numbered(c) => c.seq <= pub.next

\* The writer serves the calls in their order.
OrderInv ==
    /\ \A i, j \in 1 .. Len(queue) : i < j => Before(queue[i], queue[j])
    /\ exec # None => \A i \in 1 .. Len(queue) : Before(exec, queue[i])
    /\ \A i \in 1 .. Len(queue) : queue[i].op = "publish" /\ disk.payload # None
                                     => disk.payload <= queue[i].arg
    /\ exec # None /\ exec.op = "publish" /\ disk.payload # None => disk.payload <= exec.arg

\* Call s is answered before the numbered calls the writer still has to serve.
Served(s) ==
    /\ exec # None /\ Numbered(exec) => s < exec.seq
    /\ \A i \in 1 .. Len(queue) : Numbered(queue[i]) => s < queue[i].seq

\* A publish called after s is outstanding, told or doubted.
Overtaken(s) ==
    \/ \E c \in Outstanding : c.op = "publish" /\ s < c.seq
    \/ s < pub.published \/ s < pub.uncertain

\* What is or may become the known payload: the value v of call s.
Sound(s, v) ==
    /\ Served(s)
    /\ v = disk.payload \/ Overtaken(s)
    /\ v # None => v <= active.docs

ToldInv ==
    Live =>
        /\ Sound(pub.published, pub.payload)
        /\ \A a \in answers : a.cmd.op = "publish" /\ a.ok => Sound(a.cmd.seq, a.cmd.arg)
        /\ \A a \in answers : a.cmd.op = "reload" /\ a.ok => Sound(a.cmd.seq, a.payload)

\* A snapshot is not ahead of the index, and its segments determine its documents.
OfDisk(x) ==
    /\ x.seg <= disk.seg /\ x.docs <= disk.docs
    /\ x.seg = disk.seg => x.docs = disk.docs

SnapshotInv ==
    /\ Live => OfDisk(active)
    /\ point = "staged" => OfDisk(staged)
    /\ OfDisk(reader.active)
    /\ reader.staged # None => OfDisk(reader.staged)
    /\ reader.payload # None => reader.payload <= reader.active.docs

IInv ==
    /\ TypeOK /\ PointInv /\ BufferInv /\ BatchInv /\ CallInv /\ OrderInv
    /\ ToldInv /\ SnapshotInv /\ CheckpointCovers

-----------------------------------------------------------------------------
(* Facts about the queue and the outstanding calls.                        *)

\* What an outstanding call is: queued, executed or answered and not heard of.
LEMMA OutstandingFacts ==
    ASSUME NEW q \in Seq(Commands), NEW e, NEW A, NEW c
    PROVE  c \in {q[i] : i \in DOMAIN q} \cup ({e} \ {None}) \cup {a.cmd : a \in A}
             <=> \/ \E i \in 1 .. Len(q) : q[i] = c
                 \/ e # None /\ c = e
                 \/ \E a \in A : a.cmd = c
  BY LenProperties

\* Appending a call to the writer queue.
LEMMA AppendFacts ==
    ASSUME NEW q \in Seq(Commands), NEW c \in Commands
    PROVE  /\ Append(q, c) \in Seq(Commands)
           /\ Len(q) \in Nat /\ Len(Append(q, c)) = Len(q) + 1
           /\ \A i \in 1 .. Len(q) : Append(q, c)[i] = q[i]
           /\ Append(q, c)[Len(q) + 1] = c
  BY AppendProperties, LenProperties

\* Taking the front of the writer queue.
LEMMA TakeFacts ==
    ASSUME NEW q \in Seq(Commands), q # <<>>
    PROVE  /\ Head(q) \in Commands /\ Head(q) = q[1] /\ Tail(q) \in Seq(Commands)
           /\ Len(q) \in Nat /\ Len(q) >= 1 /\ Len(Tail(q)) = Len(q) - 1
           /\ \A i \in 1 .. Len(Tail(q)) : Tail(q)[i] = q[i + 1]
  BY HeadTailProperties, LenProperties, EmptySeq

\* What the queue holds is a command.
LEMMA QueueFacts ==
    ASSUME NEW q \in Seq(Commands)
    PROVE  /\ Len(q) \in Nat /\ DOMAIN q = 1 .. Len(q)
           /\ \A i \in 1 .. Len(q) : q[i] \in Commands
           /\ Len(<<>>) = 0 /\ <<>> \in Seq(Commands)
  BY LenProperties, ElementOfSeq, EmptySeq

\* Every outstanding call is a command.
LEMMA OutstandingTyped ==
    ASSUME TypeOK
    PROVE  /\ Outstanding \subseteq Commands
           /\ exec # None => exec \in Outstanding
           /\ \A i \in 1 .. Len(queue) : queue[i] \in Outstanding
           /\ \A a \in answers : a.cmd \in Outstanding
  <1>1. queue \in Seq(Commands) /\ exec \in Commands \cup {None} /\ answers \subseteq Answers
    BY DEF TypeOK
  <1>2. \A c : c \in Outstanding <=>
             \/ \E i \in 1 .. Len(queue) : queue[i] = c
             \/ exec # None /\ c = exec
             \/ \E a \in answers : a.cmd = c
    BY <1>1, OutstandingFacts DEF Outstanding
  <1>3. \A i \in 1 .. Len(queue) : queue[i] \in Commands
    BY <1>1, QueueFacts
  <1>4. \A a \in answers : a.cmd \in Commands
    BY <1>1 DEF Answers
  <1> HIDE DEF Commands, Outstanding
  <1> QED BY <1>1, <1>2, <1>3, <1>4

-----------------------------------------------------------------------------
(* What most steps have in common.                                         *)

\* A command handed on, from the queue to the writer or to its answer, stays
\* outstanding; nothing else becomes so.
LEMMA HandOn ==
    ASSUME TypeOK,
           \/ /\ exec # None
              /\ \/ \E ok \in BOOLEAN, p \in Payloads : Continue(ok, p)
                 \/ PoisonOutcome
           \/ /\ answers' = answers \cup Failures
              /\ queue' = <<>> /\ exec' = exec
           \/ /\ queue' = queue /\ exec' = exec /\ answers' = answers
    PROVE  /\ Outstanding' = Outstanding
           /\ answers' \subseteq Answers /\ queue' \in Seq(Commands)
           /\ exec' \in {exec, None} /\ queue' \in {queue, <<>>}
           /\ \A a \in answers' : a \in answers \/ ~a.ok \/ (exec # None /\ a.cmd = exec)
  <1>1. queue \in Seq(Commands) /\ exec \in Commands \cup {None} /\ answers \subseteq Answers
    BY DEF TypeOK
  <1>2. /\ DOMAIN queue = 1 .. Len(queue) /\ <<>> \in Seq(Commands) /\ Len(<<>>) = 0
        /\ \A i \in 1 .. Len(queue) : queue[i] \in Commands
    BY <1>1, QueueFacts
  <1>3. CASE exec # None /\ \E ok \in BOOLEAN, p \in Payloads : Continue(ok, p)
    <2> PICK ok \in BOOLEAN, p \in Payloads : Continue(ok, p)
      BY <1>3
    <2>1. /\ queue' = queue /\ exec' = None
          /\ answers' = answers \cup {[cmd |-> exec, ok |-> ok, payload |-> p]}
      BY DEF Continue, Answer
    <2>2. [cmd |-> exec, ok |-> ok, payload |-> p] \in Answers
      BY <1>1, <1>3 DEF Answers
    <2>3. {a.cmd : a \in answers'} = {a.cmd : a \in answers} \cup {exec}
      <3> DEFINE r == [cmd |-> exec, ok |-> ok, payload |-> p]
      <3>1. r.cmd = exec /\ answers' = answers \cup {r}
        BY <2>1
      <3> HIDE DEF r
      <3> QED BY <3>1
    <2>4. Outstanding' = Outstanding
      BY <1>3, <2>1, <2>3 DEF Outstanding
    <2> QED BY <1>1, <1>3, <2>1, <2>2, <2>4
  <1>4. /\ Failures \subseteq Answers /\ \A a \in Failures : ~a.ok
        /\ {a.cmd : a \in Failures} = {queue[i] : i \in DOMAIN queue}
    <2>1. \A i \in 1 .. Len(queue) : [cmd |-> queue[i], ok |-> FALSE, payload |-> None] \in Answers
      BY <1>2 DEF Answers, Payloads
    <2>2. Failures = {[cmd |-> queue[i], ok |-> FALSE, payload |-> None] : i \in 1 .. Len(queue)}
      BY <1>2 DEF Failures
    <2>3. Failures \subseteq Answers /\ \A a \in Failures : ~a.ok
      BY <2>1, <2>2
    <2>4. \A c : (\E a \in Failures : a.cmd = c) <=> \E i \in 1 .. Len(queue) : queue[i] = c
      <3> DEFINE f(i) == [cmd |-> queue[i], ok |-> FALSE, payload |-> None]
      <3>1. Failures = {f(i) : i \in 1 .. Len(queue)} /\ \A i : f(i).cmd = queue[i]
        BY <2>2
      <3> HIDE DEF f
      <3> QED BY <3>1
    <2>5. {a.cmd : a \in Failures} = {queue[i] : i \in 1 .. Len(queue)}
      BY <2>4, Zenon
    <2> QED BY <1>2, <2>3, <2>5
  <1>5. {<<>>[i] : i \in DOMAIN <<>>} = {}
    OBVIOUS
  <1>6. CASE exec # None /\ PoisonOutcome
    <2>1. /\ queue' = <<>> /\ exec' = None
          /\ answers' = answers \cup {[cmd |-> exec, ok |-> FALSE, payload |-> None]} \cup Failures
      BY <1>6 DEF PoisonOutcome, Answer
    <2>2. [cmd |-> exec, ok |-> FALSE, payload |-> None] \in Answers
      BY <1>1, <1>6 DEF Answers, Payloads
    <2>3. {a.cmd : a \in answers'} =
              {a.cmd : a \in answers} \cup {exec} \cup {a.cmd : a \in Failures}
      <3> DEFINE r == [cmd |-> exec, ok |-> FALSE, payload |-> None]
      <3>1. r.cmd = exec /\ answers' = answers \cup {r} \cup Failures
        BY <2>1
      <3> HIDE DEF r
      <3> QED BY <3>1
    <2>4. Outstanding' = Outstanding
      BY <1>4, <1>5, <1>6, <2>1, <2>3 DEF Outstanding
    <2>5. \A a \in answers' : a \in answers \/ ~a.ok
      BY <1>4, <2>1
    <2> QED BY <1>1, <1>2, <1>4, <2>1, <2>2, <2>4, <2>5
  <1>7. CASE answers' = answers \cup Failures /\ queue' = <<>> /\ exec' = exec
    <2>1. {a.cmd : a \in answers'} = {a.cmd : a \in answers} \cup {a.cmd : a \in Failures}
      BY <1>7
    <2>2. Outstanding' = Outstanding
      BY <1>4, <1>5, <1>7, <2>1 DEF Outstanding
    <2> QED BY <1>1, <1>2, <1>4, <1>7, <2>2
  <1>8. CASE queue' = queue /\ exec' = exec /\ answers' = answers
    BY <1>1, <1>8 DEF Outstanding
  <1> QED BY <1>3, <1>6, <1>7, <1>8

\* A step that calls nothing, answers nothing to the host and lets the index
\* grow keeps what is known of the batches and of the calls.
LEMMA CallsKept ==
    ASSUME IInv, TypeOK', Outstanding' \subseteq Outstanding,
           acked' = acked, pub' = pub, buffer' >= buffer,
           \A a \in answers' : a.cmd.op = "apply" /\ a.ok =>
               a \in answers \/ a.cmd.arg <= buffer'
    PROVE  BatchInv' /\ CallInv'
  <1>1. \A a \in answers : a.cmd.op = "apply" => a.cmd.arg \in 0 .. MaxBatch + 1
    <2>1. acked \in 0 .. MaxBatch /\ \A a \in answers : a.cmd \in Outstanding
      BY OutstandingTyped DEF IInv, TypeOK
    <2> QED BY <2>1, PublicationAssumption DEF IInv, BatchInv
  <1>2. BatchInv'
    BY <1>1, PublicationAssumption, SMTT(40) DEF IInv, TypeOK, BatchInv
  <1>3. CallInv'
    BY DEF IInv, CallInv, Numbered
  <1> QED BY <1>2, <1>3

\* A step that takes nothing from the queue, except all of it, and leaves the
\* checkpoint alone keeps the order of the calls.
LEMMA OrderKept ==
    ASSUME IInv, exec' \in {exec, None}, queue' \in {queue, <<>>},
           disk'.payload = disk.payload
    PROVE  OrderInv' /\ \A s : Served(s) => Served(s)'
  <1>1. queue \in Seq(Commands) /\ Len(<<>>) = 0
    BY QueueFacts DEF IInv, TypeOK
  <1>2. OrderInv'
    BY <1>1 DEF IInv, OrderInv, Before, Numbered
  <1>3. \A s : Served(s) => Served(s)'
    BY <1>1 DEF Served, Numbered
  <1> QED BY <1>2, <1>3

\* Such a step, if it takes no outstanding call away and the snapshot of the
\* handle does not shrink, keeps what is or may become the known payload.
LEMMA ToldKept ==
    ASSUME IInv, TypeOK', exec' \in {exec, None}, queue' \in {queue, <<>>},
           disk'.payload = disk.payload, Outstanding \subseteq Outstanding', pub' = pub,
           Live' = Live, Live => active.docs <= active'.docs /\ active' \in Snapshots,
           Live => \A a \in answers' : a.ok /\ a \notin answers =>
               /\ a.cmd.op = "publish" => Sound(a.cmd.seq, a.cmd.arg)'
               /\ a.cmd.op = "reload" => Sound(a.cmd.seq, a.payload)'
    PROVE  ToldInv'
  <1>1. \A s : Served(s) => Served(s)'
    BY OrderKept
  <1>2. \A s : Overtaken(s) => Overtaken(s)'
    BY DEF Overtaken
  <1>3. ASSUME Live, NEW s, NEW v \in Payloads, Sound(s, v)
        PROVE  Sound(s, v)'
    <2>1. v # None => v \in Nat
      BY PublicationAssumption DEF Payloads
    <2>2. active.docs \in Nat /\ active'.docs \in Nat /\ active.docs <= active'.docs
      BY <1>3 DEF IInv, PointInv, Snapshots
    <2> QED BY <1>1, <1>2, <1>3, <2>1, <2>2 DEF Sound
  <1>4. pub.payload \in Payloads /\ \A a \in answers : a.cmd.arg \in Payloads /\ a.payload \in Payloads
    BY DEF IInv, TypeOK, Answers, Commands
  <1> HIDE DEF Sound, Live, Payloads, Snapshots
  <1>5. ASSUME Live
        PROVE  /\ Sound(pub.published, pub.payload)'
               /\ \A a \in answers' : a.cmd.op = "publish" /\ a.ok => Sound(a.cmd.seq, a.cmd.arg)'
               /\ \A a \in answers' : a.cmd.op = "reload" /\ a.ok => Sound(a.cmd.seq, a.payload)'
    <2>1. Sound(pub.published, pub.payload)
      BY <1>5 DEF IInv, ToldInv
    <2>2. Sound(pub.published, pub.payload)'
      BY <1>3, <1>4, <1>5, <2>1
    <2>3. \A a \in answers : a.cmd.op = "publish" /\ a.ok => Sound(a.cmd.seq, a.cmd.arg)'
      BY <1>3, <1>4, <1>5 DEF IInv, ToldInv
    <2>4. \A a \in answers : a.cmd.op = "reload" /\ a.ok => Sound(a.cmd.seq, a.payload)'
      BY <1>3, <1>4, <1>5 DEF IInv, ToldInv
    <2> QED BY <1>5, <2>2, <2>3, <2>4
  <1> QED BY <1>5 DEF ToldInv

\* A publish that reaches the meta file, or may have, overtakes every value that
\* is or may become the known payload.
LEMMA PublishOvertakes ==
    ASSUME IInv, exec # None, exec.op = "publish",
           exec' \in {exec, None}, queue' \in {queue, <<>>},
           Outstanding' = Outstanding, pub' = pub, active' = active, Live' = Live,
           \A a \in answers' : a \in answers \/ ~a.ok
    PROVE  ToldInv'
  <1>1. queue \in Seq(Commands) /\ Len(<<>>) = 0
    BY QueueFacts DEF IInv, TypeOK
  <1>2. \A s : Served(s) => Served(s)'
    BY <1>1 DEF Served, Numbered
  <1>3. exec \in Outstanding
    BY OutstandingTyped DEF IInv
  <1>4. \A s : Served(s) => Overtaken(s)'
    BY <1>3 DEF Served, Overtaken, Numbered
  <1>5. ASSUME NEW s, NEW v, Sound(s, v)
        PROVE  Sound(s, v)'
    BY <1>2, <1>4, <1>5 DEF Sound
  <1> HIDE DEF Sound, Live
  <1>6. ASSUME Live
        PROVE  /\ Sound(pub.published, pub.payload)'
               /\ \A a \in answers' : a.cmd.op = "publish" /\ a.ok => Sound(a.cmd.seq, a.cmd.arg)'
               /\ \A a \in answers' : a.cmd.op = "reload" /\ a.ok => Sound(a.cmd.seq, a.payload)'
    <2>1. Sound(pub.published, pub.payload)'
      BY <1>5, <1>6 DEF IInv, ToldInv
    <2> QED BY <1>5, <1>6, <2>1 DEF IInv, ToldInv
  <1> QED BY <1>6 DEF ToldInv

\* A commit writes all the IndexWriter holds, under a payload that does not
\* claim more and does not go back; no snapshot gets ahead of the index.
LEMMA CommitFacts ==
    ASSUME IInv, Live, NEW p \in Payloads, disk.seg < MaxSegments,
           p # None => p <= acked,
           disk.payload # None => p # None /\ disk.payload <= p,
           disk' \in {disk, Committed(p)}
    PROVE  /\ disk' \in [seg : 0 .. MaxSegments, docs : 0 .. MaxBatch, payload : Payloads]
           /\ disk'.payload \in {disk.payload, p}
           /\ disk.docs <= disk'.docs /\ disk'.docs <= buffer
           /\ disk' = Committed(p) => disk'.docs = buffer /\ disk'.payload = p
           /\ \A x \in Snapshots : OfDisk(x) => OfDisk(x)'
           /\ CheckpointCovers'
  <1> USE PublicationAssumption
  <1>1. /\ disk \in [seg : 0 .. MaxSegments, docs : 0 .. MaxBatch, payload : Payloads]
        /\ buffer \in 0 .. MaxBatch /\ acked \in 0 .. MaxBatch /\ dirty \in BOOLEAN
        /\ acked <= buffer /\ disk.docs <= buffer /\ (~dirty => buffer = disk.docs)
        /\ (disk.payload # None => disk.payload <= disk.docs)
    BY DEF IInv, TypeOK, BufferInv, CheckpointCovers
  <1>2. CASE disk' = disk
    <2>1. /\ disk' \in [seg : 0 .. MaxSegments, docs : 0 .. MaxBatch, payload : Payloads]
          /\ disk'.payload \in {disk.payload, p}
          /\ disk.docs <= disk'.docs /\ disk'.docs <= buffer
      BY <1>1, <1>2
    <2>2. disk' = Committed(p) => disk'.docs = buffer /\ disk'.payload = p
      BY DEF Committed
    <2> QED BY <1>1, <1>2, <2>1, <2>2 DEF OfDisk, CheckpointCovers
  <1>3. CASE disk' = Committed(p)
    <2>1. /\ disk'.docs = buffer /\ disk'.payload = p
          /\ disk'.seg = IF dirty THEN disk.seg + 1 ELSE disk.seg
      BY <1>3 DEF Committed
    <2>2. disk' \in [seg : 0 .. MaxSegments, docs : 0 .. MaxBatch, payload : Payloads]
      BY <1>1, <1>3 DEF Committed
    <2>3. \A x \in Snapshots : OfDisk(x) => OfDisk(x)'
      BY <1>1, <2>1 DEF OfDisk, Snapshots
    <2>4. CheckpointCovers'
      BY <1>1, <2>1 DEF CheckpointCovers, Payloads
    <2> QED BY <1>1, <2>1, <2>2, <2>3, <2>4
  <1> QED BY <1>2, <1>3
-----------------------------------------------------------------------------
(* The steps, one lemma for each group of actions.                         *)

\* An empty index satisfies the invariant.
LEMMA InitInv == Init => IInv
  <1> SUFFICES ASSUME Init PROVE IInv
    OBVIOUS
  <1> USE PublicationAssumption, NoneAssumption
  <1>1. Outstanding = {} /\ Len(queue) = 0
    BY DEF Init, Outstanding
  <1>2. TypeOK
    <2>1. disk \in [seg : 0 .. MaxSegments, docs : 0 .. MaxBatch, payload : Payloads]
      BY DEF Init, Payloads
    <2>2. /\ pub \in [payload : Payloads, next : 0 .. MaxCalls, published : 0 .. MaxCalls,
                      uncertain : 0 .. MaxCalls]
          /\ pub.published <= pub.next /\ pub.uncertain <= pub.next
      BY DEF Init, NoPublication, Payloads
    <2>3. reader \in [staged : Snapshots \cup {None}, active : Snapshots, payload : Payloads]
      BY DEF Init, Snapshot, Snapshots, Payloads
    <2>4. queue \in Seq(Commands)
      BY EmptySeq DEF Init
    <2> QED BY <2>1, <2>2, <2>3, <2>4 DEF Init, TypeOK
  <1>3. PointInv /\ BufferInv /\ CheckpointCovers /\ ToldInv
    BY DEF Init, PointInv, BufferInv, CheckpointCovers, ToldInv, Live
  <1>4. BatchInv /\ CallInv /\ OrderInv
    BY <1>1 DEF Init, BatchInv, CallInv, OrderInv
  <1>5. SnapshotInv
    BY DEF Init, SnapshotInv, OfDisk, Live, Snapshot
  <1> QED BY <1>2, <1>3, <1>4, <1>5 DEF IInv

\* A writer that opens starts from the committed index and its checkpoint.
LEMMA OpenInv == IInv /\ Open => IInv'
  <1> SUFFICES ASSUME IInv, Open PROVE IInv'
    OBVIOUS
  <1> USE PublicationAssumption, NoneAssumption
  <1>1. /\ queue = <<>> /\ queue' = <<>> /\ exec = None /\ exec' = None
        /\ answers = {} /\ answers' = {} /\ point' = point
        /\ disk' = disk /\ gen' = "open" /\ reader' = reader /\ staged' = staged
        /\ buffer' = disk.docs /\ dirty' = FALSE /\ required' = (disk.payload # None)
        /\ active' = Snapshot /\ pub' = NoPublication(disk.payload)
        /\ acked' = IF disk.payload = None THEN 0 ELSE disk.payload
    BY DEF IInv, PointInv, Live, Open, RequiredAtOpen
  <1>2. /\ disk \in [seg : 0 .. MaxSegments, docs : 0 .. MaxBatch, payload : Payloads]
        /\ disk.payload # None => disk.payload <= disk.docs
    BY DEF IInv, TypeOK, CheckpointCovers
  <1>3. Outstanding' = {} /\ Len(queue') = 0
    BY <1>1 DEF Outstanding
  <1>4. Snapshot \in Snapshots /\ OfDisk(Snapshot)
    BY <1>2 DEF Snapshot, Snapshots, OfDisk
  <1>5. TypeOK'
    <2>1. pub' \in [payload : Payloads, next : 0 .. MaxCalls, published : 0 .. MaxCalls,
                    uncertain : 0 .. MaxCalls]
          /\ pub'.published <= pub'.next /\ pub'.uncertain <= pub'.next
      BY <1>1, <1>2 DEF NoPublication
    <2>2. acked' \in 0 .. MaxBatch /\ buffer' \in 0 .. MaxBatch /\ required' \in BOOLEAN
      BY <1>1, <1>2 DEF Payloads
    <2> QED BY <1>1, <1>2, <1>4, <2>1, <2>2 DEF IInv, TypeOK
  <1>6. PointInv'
    BY <1>1, <1>4 DEF IInv, PointInv, Live
  <1>7. BufferInv'
    <2>1. disk'.payload # None => required'
      BY <1>1
    <2>2. /\ acked' <= buffer' /\ disk'.docs <= buffer' /\ buffer' = disk'.docs
          /\ disk'.payload # None => disk'.payload <= acked'
      BY <1>1, <1>2 DEF Payloads
    <2> QED BY <2>1, <2>2 DEF BufferInv
  <1>8. BatchInv' /\ CallInv' /\ OrderInv'
    BY <1>1, <1>3 DEF BatchInv, CallInv, OrderInv
  <1>9. ToldInv'
    <2>1. pub'.payload = disk.payload /\ active'.docs = disk.docs
      BY <1>1 DEF NoPublication, Snapshot
    <2> QED BY <1>1, <1>2, <1>3, <2>1 DEF ToldInv, Sound, Served
  <1>10. SnapshotInv' /\ CheckpointCovers'
    BY <1>1, <1>4 DEF IInv, SnapshotInv, CheckpointCovers, OfDisk, PointInv
  <1> QED BY <1>5, <1>6, <1>7, <1>8, <1>9, <1>10 DEF IInv

\* Whatever the writing process was doing, its end leaves an index of which
\* the checkpoint is true.
LEMMA GoneInv == IInv /\ Gone => IInv'
  <1> SUFFICES ASSUME IInv, Gone PROVE IInv'
    OBVIOUS
  <1> USE PublicationAssumption, NoneAssumption
  <1>1. Outstanding' = {} /\ Len(queue') = 0
    BY DEF Gone, Outstanding
  <1>2. TypeOK'
    <2>1. /\ pub' \in [payload : Payloads, next : 0 .. MaxCalls, published : 0 .. MaxCalls,
                       uncertain : 0 .. MaxCalls]
          /\ pub'.published <= pub'.next /\ pub'.uncertain <= pub'.next
      BY DEF Gone, NoPublication, Payloads
    <2>2. queue' \in Seq(Commands)
      BY EmptySeq DEF Gone
    <2>3. /\ disk' \in [seg : 0 .. MaxSegments, docs : 0 .. MaxBatch, payload : Payloads]
          /\ reader' \in [staged : Snapshots \cup {None}, active : Snapshots, payload : Payloads]
      BY DEF Gone, IInv, TypeOK
    <2>4. /\ gen' \in {"closed", "open", "poisoned"}
          /\ buffer' \in 0 .. MaxBatch /\ acked' \in 0 .. MaxBatch
          /\ point' \in {"idle", "ready", "committed", "staged"}
      BY DEF Gone
    <2>5. /\ dirty' \in BOOLEAN /\ required' \in BOOLEAN
          /\ exec' \in Commands \cup {None} /\ answers' \subseteq Answers
          /\ active' \in Snapshots \cup {None} /\ staged' \in Snapshots \cup {None}
      BY Zenon DEF Gone
    <2> QED BY <2>1, <2>2, <2>3, <2>4, <2>5 DEF TypeOK
  <1>3. PointInv' /\ BufferInv' /\ CheckpointCovers' /\ ToldInv'
    BY DEF Gone, IInv, PointInv, BufferInv, CheckpointCovers, ToldInv, Live
  <1>4. BatchInv' /\ CallInv' /\ OrderInv'
    BY <1>1 DEF Gone, BatchInv, CallInv, OrderInv
  <1>5. SnapshotInv'
    BY DEF Gone, IInv, SnapshotInv, OfDisk, Live
  <1> QED BY <1>2, <1>3, <1>4, <1>5 DEF IInv

\* A call is numbered after all others and carries the last acknowledged batch.
LEMMA CallStepInv ==
    ASSUME IInv, NEW o \in {"apply", "commit", "publish", "reload"}, Call(o)
    PROVE  IInv'
  <1> USE PublicationAssumption, NoneAssumption
  <1> DEFINE numbered == o \in {"publish", "reload"}
             c == [op |-> o, seq |-> IF numbered THEN pub.next + 1 ELSE 0,
                   arg |-> IF o = "apply" THEN acked + 1 ELSE IF o = "publish" THEN acked ELSE None]
  <1>1. /\ gen = "open" /\ (IF numbered THEN pub.next < MaxCalls ELSE \A d \in Outstanding : d.op # o)
        /\ o = "apply" => acked < MaxBatch
        /\ pub' = IF numbered THEN [pub EXCEPT !.next = @ + 1] ELSE pub
        /\ queue' = Append(queue, c)
        /\ UNCHANGED <<disk, gen, buffer, dirty, required, exec, point, active, staged, answers,
                       acked, reader>>
    BY DEF Call, Begun
  <1>2. /\ pub \in [payload : Payloads, next : 0 .. MaxCalls, published : 0 .. MaxCalls,
                    uncertain : 0 .. MaxCalls]
        /\ pub.published <= pub.next /\ pub.uncertain <= pub.next
        /\ acked \in 0 .. MaxBatch /\ queue \in Seq(Commands)
        /\ disk \in [seg : 0 .. MaxSegments, docs : 0 .. MaxBatch, payload : Payloads]
    BY DEF IInv, TypeOK
  <1>3. /\ c \in Commands /\ c.op = o
        /\ numbered => c.seq = pub.next + 1
        /\ o = "apply" => c.arg = acked + 1
        /\ o = "publish" => c.arg = acked
    BY <1>1, <1>2, SMTT(40) DEF Commands, Payloads
  <1> HIDE DEF c
  <1>4. /\ pub' \in [payload : Payloads, next : 0 .. MaxCalls, published : 0 .. MaxCalls,
                     uncertain : 0 .. MaxCalls]
        /\ pub'.payload = pub.payload /\ pub'.published = pub.published
        /\ pub'.uncertain = pub.uncertain /\ pub.next <= pub'.next
        /\ numbered => pub'.next = pub.next + 1
    <2>1. CASE numbered
      <3>1. pub' = [pub EXCEPT !.next = @ + 1] /\ pub.next < MaxCalls
        BY <1>1, <2>1
      <3>2. pub.next + 1 \in 0 .. MaxCalls
        BY <1>2, <3>1
      <3> QED BY <1>2, <3>1, <3>2, SMTT(40)
    <2>2. CASE ~numbered
      BY <1>1, <1>2, <2>2
    <2> QED BY <2>1, <2>2
  <1>5. /\ queue' \in Seq(Commands) /\ Len(queue) \in Nat /\ Len(queue') = Len(queue) + 1
        /\ \A i \in 1 .. Len(queue) : queue'[i] = queue[i]
        /\ queue'[Len(queue) + 1] = c
        /\ \A i \in 1 .. Len(queue') : i \in 1 .. Len(queue) \/ i = Len(queue) + 1
        /\ Len(queue) + 1 \in 1 .. Len(queue') /\ 1 .. Len(queue) \subseteq 1 .. Len(queue')
        /\ \A i \in 1 .. Len(queue) : queue[i] \in Commands
    BY <1>1, <1>2, <1>3, AppendFacts, QueueFacts
  <1>6. Outstanding' = Outstanding \cup {c}
    <2>1. {queue'[i] : i \in 1 .. Len(queue')} = {queue[i] : i \in 1 .. Len(queue)} \cup {c}
      BY <1>5
    <2>2. DOMAIN queue = 1 .. Len(queue) /\ DOMAIN queue' = 1 .. Len(queue')
      BY <1>2, <1>5, QueueFacts
    <2> QED BY <1>1, <2>1, <2>2 DEF Outstanding
  <1>7. \A d \in Outstanding : d \in Commands
    BY OutstandingTyped DEF IInv
  <1>8. TypeOK'
    <2>1. /\ pub'.published <= pub'.next /\ pub'.uncertain <= pub'.next
      BY <1>2, <1>4
    <2> QED BY <1>1, <1>4, <1>5, <2>1 DEF IInv, TypeOK
  <1>9. PointInv' /\ BufferInv' /\ SnapshotInv' /\ CheckpointCovers'
    BY <1>1 DEF IInv, PointInv, BufferInv, SnapshotInv, CheckpointCovers, OfDisk, Live
  <1>10. BatchInv'
    <2>1. \A d \in Outstanding : o = "apply" => d.op # "apply"
      BY <1>1
    <2>2. \A d \in Outstanding' : d.op = "apply" => d.arg \in {acked, acked + 1}
      BY <1>3, <1>6 DEF IInv, BatchInv
    <2> QED BY <1>1, <1>3, <1>6, <2>1, <2>2 DEF IInv, BatchInv
  <1>11. CallInv'
    <2>1. \A d \in Outstanding : d.seq \in Nat
      BY <1>7 DEF Commands
    <2>2. \A d \in Outstanding : Numbered(d) => d.seq <= pub'.next
      BY <1>2, <1>4, <2>1 DEF IInv, CallInv
    <2>3. o = "publish" => c.arg # None /\ c.arg <= acked
      BY <1>2, <1>3
    <2>4. Numbered(c) => c.seq <= pub'.next
      BY <1>2, <1>3, <1>4 DEF Numbered
    <2> QED BY <1>1, <1>3, <1>6, <2>2, <2>3, <2>4 DEF IInv, CallInv
  <1>12. \A d \in Outstanding : Before(d, c)
    BY <1>2, <1>3, <1>7, SMTT(40) DEF IInv, CallInv, Before, Numbered, Commands, Payloads
  <1>13. /\ exec # None => exec \in Outstanding
         /\ \A i \in 1 .. Len(queue) : queue[i] \in Outstanding
    BY OutstandingTyped DEF IInv
  <1>14. OrderInv'
    <2>1. \A i, j \in 1 .. Len(queue') : i < j => Before(queue'[i], queue'[j])
      BY <1>5, <1>12, <1>13 DEF IInv, OrderInv
    <2>2. exec # None => \A i \in 1 .. Len(queue') : Before(exec, queue'[i])
      BY <1>5, <1>12, <1>13 DEF IInv, OrderInv
    <2>3. o = "publish" /\ disk.payload # None => disk.payload <= c.arg
      BY <1>1, <1>3 DEF IInv, BufferInv, Live
    <2> QED BY <1>1, <1>3, <1>5, <2>1, <2>2, <2>3 DEF IInv, OrderInv
  <1>15. ASSUME NEW s \in Nat, s <= pub.next, Served(s)
         PROVE  Served(s)'
    BY <1>1, <1>2, <1>3, <1>5, <1>15, SMTT(40) DEF Served, Numbered
  <1>16. \A s : Overtaken(s) => Overtaken(s)'
    BY <1>4, <1>6 DEF Overtaken
  <1>17. ASSUME NEW s \in Nat, NEW v, s <= pub.next, Sound(s, v)
         PROVE  Sound(s, v)'
    BY <1>1, <1>15, <1>16, <1>17 DEF Sound
  <1>18. ToldInv'
    <2>1. Live
      BY <1>1 DEF Live
    <2>2. \A a \in answers : Numbered(a.cmd) => a.cmd.seq \in Nat /\ a.cmd.seq <= pub.next
      BY <1>7, OutstandingTyped DEF IInv, CallInv, Commands
    <2> HIDE DEF Sound
    <2>3. /\ \A a \in answers : a.cmd.op = "publish" /\ a.ok => Sound(a.cmd.seq, a.cmd.arg)'
          /\ \A a \in answers : a.cmd.op = "reload" /\ a.ok => Sound(a.cmd.seq, a.payload)'
      BY <1>17, <2>1, <2>2 DEF IInv, ToldInv, Numbered
    <2>4. Sound(pub.published, pub.payload)'
      <3>1. Sound(pub.published, pub.payload) /\ pub.published \in Nat /\ pub.published <= pub.next
        BY <1>2, <2>1 DEF IInv, ToldInv
      <3>2. Served(pub.published)'
        <4>1. Served(pub.published)
          BY <3>1 DEF Sound
        <4>2. pub'.published = pub.published /\ exec' = exec
          BY <1>1, <1>4
        <4>3. Numbered(c) => pub.published < c.seq
          BY <1>3, <3>1, <1>2 DEF Numbered
        <4>4. \A i \in 1 .. Len(queue') : Numbered(queue'[i]) => pub.published < queue'[i].seq
          BY <1>5, <4>1, <4>3 DEF Served
        <4> QED BY <4>1, <4>2, <4>4 DEF Served, Numbered
      <3>3. Overtaken(pub.published) => Overtaken(pub.published)'
        BY <1>4, <1>6 DEF Overtaken
      <3> QED BY <1>1, <1>4, <3>1, <3>2, <3>3 DEF Sound
    <2> QED BY <1>1, <2>3, <2>4 DEF ToldInv
  <1> QED BY <1>8, <1>9, <1>10, <1>11, <1>14, <1>18 DEF IInv

\* Hearing of an answer, in whatever order, makes the known payload one of a
\* later call or leaves it.
LEMMA DeliverInv ==
    ASSUME IInv, NEW a \in answers, Deliver(a)
    PROVE  IInv'
  <1> USE PublicationAssumption, NoneAssumption
  <1>1. /\ answers' = answers \ {a}
        /\ UNCHANGED <<disk, gen, buffer, dirty, required, queue, exec, point, active, staged, reader>>
    BY DEF Deliver, handleVars
  <1>2. /\ pub \in [payload : Payloads, next : 0 .. MaxCalls, published : 0 .. MaxCalls,
                    uncertain : 0 .. MaxCalls]
        /\ pub.published <= pub.next /\ pub.uncertain <= pub.next
        /\ acked \in 0 .. MaxBatch /\ queue \in Seq(Commands)
        /\ a.cmd \in Commands /\ a.ok \in BOOLEAN /\ a.payload \in Payloads
    BY DEF IInv, TypeOK, Answers
  <1>3. a.cmd \in Outstanding /\ \A d \in Outstanding : d \in Commands
    BY OutstandingTyped DEF IInv
  <1>4. Live
    BY DEF IInv, PointInv
  <1>5. Outstanding' \subseteq Outstanding /\ Outstanding \subseteq Outstanding' \cup {a.cmd}
    <2>1. /\ {b.cmd : b \in answers'} \subseteq {b.cmd : b \in answers}
          /\ {b.cmd : b \in answers} \subseteq {b.cmd : b \in answers'} \cup {a.cmd}
      BY <1>1
    <2> QED BY <1>1, <2>1 DEF Outstanding
  <1>7. /\ acked' \in 0 .. MaxBatch /\ acked <= acked' /\ acked' <= buffer
        /\ \A d \in Outstanding : d.op = "apply" => d.arg \in {acked', acked' + 1}
    <2>1. acked <= buffer
      BY <1>4 DEF IInv, BufferInv
    <2>2. CASE a.cmd.op = "apply" /\ a.ok
      <3>1. acked' = a.cmd.arg /\ acked' \in {acked, acked + 1} /\ acked' <= buffer
        BY <1>3, <2>2 DEF Deliver, IInv, BatchInv
      <3>2. \A d \in Outstanding : d.op = "apply" => d.arg = acked'
        BY <1>3, <2>2, <3>1 DEF IInv, BatchInv
      <3>3. acked' \in 0 .. MaxBatch
        BY <1>2, <3>1 DEF Commands, Payloads
      <3> QED BY <1>2, <3>1, <3>2, <3>3
    <2>3. CASE ~(a.cmd.op = "apply" /\ a.ok)
      BY <1>2, <2>1, <2>3 DEF Deliver, IInv, BatchInv
    <2> QED BY <2>2, <2>3
  <1>8. /\ pub' \in [payload : Payloads, next : 0 .. MaxCalls, published : 0 .. MaxCalls,
                     uncertain : 0 .. MaxCalls]
        /\ pub'.next = pub.next
        /\ pub.published <= pub'.published /\ pub'.published <= pub'.next
        /\ pub.uncertain <= pub'.uncertain /\ pub'.uncertain <= pub'.next
        /\ a.cmd.op = "publish" => a.cmd.seq <= pub'.published \/ a.cmd.seq <= pub'.uncertain
        /\ \/ pub'.published = pub.published /\ pub'.payload = pub.payload
           \/ /\ a.cmd.op = "publish" /\ a.ok
              /\ pub'.published = a.cmd.seq /\ pub'.payload = a.cmd.arg
           \/ /\ a.cmd.op = "reload" /\ a.ok
              /\ pub'.published = a.cmd.seq /\ pub'.payload = a.payload
    <2>1. /\ a.cmd.seq \in 0 .. MaxCalls /\ a.cmd.arg \in Payloads
          /\ a.cmd.op \in {"publish", "reload"} => a.cmd.seq <= pub.next
      BY <1>2, <1>3 DEF IInv, CallInv, Numbered, Commands
    <2>2. CASE a.cmd.op = "publish" /\ a.ok
      <3>1. CASE a.cmd.seq > pub.published
        <4>1. pub' = [pub EXCEPT !.published = a.cmd.seq, !.payload = a.cmd.arg]
          BY <2>2, <3>1 DEF Deliver, Told, Supersedes
        <4>2. /\ pub' \in [payload : Payloads, next : 0 .. MaxCalls, published : 0 .. MaxCalls,
                           uncertain : 0 .. MaxCalls]
              /\ pub'.next = pub.next /\ pub'.uncertain = pub.uncertain
              /\ pub'.published = a.cmd.seq /\ pub'.payload = a.cmd.arg
          BY <1>2, <2>1, <4>1
        <4>3. pub.published \in Nat /\ pub.uncertain \in Nat /\ a.cmd.seq \in Nat
          BY <1>2, <2>1
        <4> QED BY <1>2, <2>1, <2>2, <3>1, <4>2, <4>3
      <3>2. CASE ~(a.cmd.seq > pub.published)
        <4>1. pub' = pub
          BY <2>2, <3>2 DEF Deliver, Told, Supersedes
        <4> QED BY <1>2, <2>1, <3>2, <4>1
      <3> QED BY <3>1, <3>2
    <2>3. CASE a.cmd.op = "publish" /\ ~a.ok
      BY <1>2, <2>1, <2>3, SMTT(40) DEF Deliver, Doubted
    <2>4. CASE a.cmd.op = "reload" /\ a.ok
      <3>1. CASE a.cmd.seq > pub.published
        <4>1. pub' = [pub EXCEPT !.published = a.cmd.seq, !.payload = a.payload]
          BY <2>4, <3>1 DEF Deliver, Told, Supersedes
        <4>2. /\ pub' \in [payload : Payloads, next : 0 .. MaxCalls, published : 0 .. MaxCalls,
                           uncertain : 0 .. MaxCalls]
              /\ pub'.next = pub.next /\ pub'.uncertain = pub.uncertain
              /\ pub'.published = a.cmd.seq /\ pub'.payload = a.payload
          BY <1>2, <2>1, <4>1
        <4>3. pub.published \in Nat /\ pub.uncertain \in Nat /\ a.cmd.seq \in Nat
          BY <1>2, <2>1
        <4> QED BY <1>2, <2>1, <2>4, <3>1, <4>2, <4>3
      <3>2. CASE ~(a.cmd.seq > pub.published)
        <4>1. pub' = pub
          BY <2>4, <3>2 DEF Deliver, Told, Supersedes
        <4> QED BY <1>2, <2>1, <3>2, <4>1
      <3> QED BY <3>1, <3>2
    <2>5. CASE a.cmd.op # "publish" /\ ~(a.cmd.op = "reload" /\ a.ok)
      BY <1>2, <2>5 DEF Deliver
    <2> QED BY <2>2, <2>3, <2>4, <2>5
  <1>9. TypeOK'
    BY <1>1, <1>7, <1>8 DEF IInv, TypeOK
  <1>10. PointInv' /\ SnapshotInv' /\ CheckpointCovers'
    BY <1>1, <1>4 DEF IInv, PointInv, SnapshotInv, CheckpointCovers, OfDisk, Live
  <1>11. BufferInv'
    <2>1. disk.payload # None => disk.payload \in Nat
      BY DEF IInv, TypeOK, Payloads
    <2> QED BY <1>1, <1>2, <1>4, <1>7, <2>1 DEF IInv, BufferInv, Live
  <1>12. BatchInv'
    BY <1>1, <1>5, <1>7 DEF IInv, BatchInv
  <1>13. CallInv'
    <2>1. \A d \in Outstanding : d.op = "publish" => d.arg \in Nat
      BY <1>3 DEF IInv, CallInv, Commands, Payloads
    <2> QED BY <1>2, <1>5, <1>7, <1>8, <2>1 DEF IInv, CallInv
  <1>14. OrderInv' /\ \A s : Served(s) => Served(s)'
    BY <1>1, OrderKept
  <1>15. ASSUME NEW s \in Nat, Overtaken(s)
         PROVE  Overtaken(s)'
    <2>1. CASE \E d \in Outstanding : d.op = "publish" /\ s < d.seq
      <3> PICK d \in Outstanding : d.op = "publish" /\ s < d.seq
        BY <2>1
      <3>1. CASE d = a.cmd
        <4>1. a.cmd.seq \in Nat
          BY <1>2 DEF Commands
        <4> QED BY <1>2, <1>8, <3>1, <4>1 DEF Overtaken
      <3>2. CASE d # a.cmd
        BY <1>5, <3>2 DEF Overtaken
      <3> QED BY <3>1, <3>2
    <2>2. CASE s < pub.published \/ s < pub.uncertain
      BY <1>2, <1>8, <2>2 DEF Overtaken
    <2> QED BY <1>15, <2>1, <2>2 DEF Overtaken
  <1>16. ASSUME NEW s \in Nat, NEW v, Sound(s, v)
         PROVE  Sound(s, v)'
    BY <1>1, <1>14, <1>15, <1>16 DEF Sound
  <1>17. ToldInv'
    <2>1. \A b \in answers : b.cmd.seq \in Nat
      BY DEF IInv, TypeOK, Answers, Commands
    <2>2. /\ \A b \in answers' : b.cmd.op = "publish" /\ b.ok => Sound(b.cmd.seq, b.cmd.arg)'
          /\ \A b \in answers' : b.cmd.op = "reload" /\ b.ok => Sound(b.cmd.seq, b.payload)'
      <3> HIDE DEF Sound
      <3> QED BY <1>1, <1>4, <1>16, <2>1 DEF IInv, ToldInv
    <2>3. \E s \in Nat, v \in Payloads : s = pub'.published /\ v = pub'.payload /\ Sound(s, v)
      <3> HIDE DEF Sound
      <3>1. pub'.published \in Nat /\ pub'.payload \in Payloads
        BY <1>8
      <3>2. Sound(pub'.published, pub'.payload)
        BY <1>4, <1>8 DEF IInv, ToldInv
      <3> QED BY <3>1, <3>2
    <2>4. Sound(pub.published, pub.payload)'
      <3> PICK s \in Nat, v \in Payloads : s = pub'.published /\ v = pub'.payload /\ Sound(s, v)
        BY <2>3
      <3>1. Sound(s, v)'
        BY <1>16
      <3> QED BY <3>1 DEF Sound, Served, Overtaken
    <2> QED BY <2>2, <2>4 DEF ToldInv
  <1> QED BY <1>9, <1>10, <1>11, <1>12, <1>13, <1>14, <1>17 DEF IInv

\* The writer takes the calls in their order.
LEMMA TakeInv == IInv /\ Take => IInv'
  <1> SUFFICES ASSUME IInv, Take PROVE IInv'
    OBVIOUS
  <1> USE PublicationAssumption, NoneAssumption
  <1>1. /\ exec = None /\ queue # <<>> /\ exec' = Head(queue) /\ queue' = Tail(queue)
        /\ point' = "ready" /\ point = "idle"
        /\ UNCHANGED <<disk, gen, buffer, dirty, required, active, staged, answers, pub, acked, reader>>
    BY DEF Take, IInv, PointInv
  <1>2. queue \in Seq(Commands)
    BY DEF IInv, TypeOK
  <1>3. /\ exec' \in Commands /\ exec' = queue[1] /\ queue' \in Seq(Commands) /\ exec' # None
        /\ Len(queue) \in Nat /\ Len(queue) >= 1 /\ Len(queue') = Len(queue) - 1
        /\ \A i \in 1 .. Len(queue') : queue'[i] = queue[i + 1]
    BY <1>1, <1>2, TakeFacts
  <1>4. /\ 1 \in 1 .. Len(queue)
        /\ \A i \in 1 .. Len(queue') : i + 1 \in 1 .. Len(queue) /\ 1 < i + 1
        /\ \A i \in 1 .. Len(queue) : i = 1 \/ (i - 1 \in 1 .. Len(queue') /\ queue'[i - 1] = queue[i])
    BY <1>3
  <1>5. Outstanding' = Outstanding
    <2>1. \A c : (\E i \in 1 .. Len(queue) : queue[i] = c)
                   <=> c = exec' \/ \E i \in 1 .. Len(queue') : queue'[i] = c
      BY <1>3, <1>4
    <2>2. {queue[i] : i \in 1 .. Len(queue)} = {queue'[i] : i \in 1 .. Len(queue')} \cup {exec'}
      BY <2>1
    <2>3. DOMAIN queue = 1 .. Len(queue) /\ DOMAIN queue' = 1 .. Len(queue')
      BY <1>2, <1>3, QueueFacts
    <2> QED BY <1>1, <1>3, <2>2, <2>3 DEF Outstanding
  <1>6. TypeOK'
    BY <1>1, <1>3 DEF IInv, TypeOK
  <1>7. gen = "open"
    BY <1>1 DEF IInv, PointInv, Live, TypeOK
  <1>8. PointInv'
    BY <1>1, <1>3, <1>7 DEF IInv, PointInv, Live
  <1>9. BufferInv' /\ SnapshotInv' /\ CheckpointCovers'
    BY <1>1, <1>7 DEF IInv, BufferInv, SnapshotInv, CheckpointCovers, OfDisk, Live
  <1>10. BatchInv' /\ CallInv'
    BY <1>1, <1>5 DEF IInv, BatchInv, CallInv
  <1>11. OrderInv'
    <2>1. \A i \in 1 .. Len(queue') : Before(exec', queue'[i])
      BY <1>3, <1>4 DEF IInv, OrderInv
    <2>2. \A i, j \in 1 .. Len(queue') : i < j => Before(queue'[i], queue'[j])
      BY <1>3, <1>4 DEF IInv, OrderInv
    <2>3. /\ \A i \in 1 .. Len(queue') : queue'[i].op = "publish" /\ disk.payload # None
                                            => disk.payload <= queue'[i].arg
          /\ exec'.op = "publish" /\ disk.payload # None => disk.payload <= exec'.arg
      BY <1>3, <1>4 DEF IInv, OrderInv
    <2> QED BY <1>1, <2>1, <2>2, <2>3 DEF OrderInv
  <1>12. \A s : Served(s) => Served(s)'
    BY <1>1, <1>3, <1>4 DEF Served, Numbered
  <1>13. \A s, v : Sound(s, v) => Sound(s, v)'
    BY <1>1, <1>5, <1>12 DEF Sound, Overtaken
  <1>14. ToldInv'
    <2>1. Live /\ Live'
      BY <1>1, <1>7 DEF Live
    <2>2. Sound(pub.published, pub.payload)'
      BY <1>1, <1>13, <2>1 DEF IInv, ToldInv, Sound, Served, Overtaken
    <2> HIDE DEF Sound
    <2> QED BY <1>1, <1>13, <2>1, <2>2 DEF IInv, ToldInv
  <1> QED BY <1>6, <1>8, <1>9, <1>10, <1>11, <1>14 DEF IInv

\* A poison by a search thread fails what is queued and nothing else.
LEMMA SearchPanicInv == IInv /\ SearchPanic => IInv'
  <1> SUFFICES ASSUME IInv, SearchPanic PROVE IInv'
    OBVIOUS
  <1> USE PublicationAssumption, NoneAssumption
  <1>1. /\ gen = "open" /\ gen' = "poisoned" /\ answers' = answers \cup Failures /\ queue' = <<>>
        /\ UNCHANGED <<disk, buffer, dirty, required, exec, point, active, staged, pub, acked, reader>>
    BY DEF SearchPanic
  <1>2. /\ Outstanding' = Outstanding /\ answers' \subseteq Answers /\ queue' \in Seq(Commands)
        /\ exec' \in {exec, None} /\ queue' \in {queue, <<>>}
    BY <1>1, HandOn DEF IInv
  <1>3. \A a \in answers' : a \in answers \/ ~a.ok
    BY <1>1 DEF Failures
  <1>4. Live /\ Live'
    BY <1>1 DEF Live
  <1>5. TypeOK'
    BY <1>1, <1>2 DEF IInv, TypeOK
  <1>6. PointInv' /\ BufferInv' /\ SnapshotInv' /\ CheckpointCovers'
    BY <1>1, <1>4 DEF IInv, PointInv, BufferInv, SnapshotInv, CheckpointCovers, OfDisk, Live
  <1>7. BatchInv' /\ CallInv'
    <2>1. buffer' >= buffer
      BY <1>1 DEF IInv, TypeOK
    <2> QED BY <1>1, <1>2, <1>3, <1>5, <2>1, CallsKept
  <1>8. OrderInv'
    BY <1>1, <1>2, OrderKept
  <1>9. ToldInv'
    <2>1. active.docs <= active'.docs /\ active' \in Snapshots
      BY <1>1, <1>4 DEF IInv, PointInv, Snapshots
    <2> QED BY <1>1, <1>2, <1>3, <1>4, <1>5, <2>1, ToldKept
  <1> QED BY <1>5, <1>6, <1>7, <1>8, <1>9 DEF IInv

\* A batch is acknowledged only when the IndexWriter holds it.
LEMMA ApplyInv == IInv /\ Apply => IInv'
  <1> SUFFICES ASSUME IInv, Apply PROVE IInv'
    OBVIOUS
  <1> USE PublicationAssumption, NoneAssumption
  <1>1. /\ point = "ready" /\ exec.op = "apply" /\ exec # None /\ Live
        /\ UNCHANGED <<disk, required, active, staged, pub, acked, reader>>
    BY DEF Apply, IInv, PointInv
  <1>2. \/ \E ok \in BOOLEAN, p \in Payloads : Continue(ok, p)
        \/ PoisonOutcome
    BY DEF Apply, Payloads, Prepared
  <1>3. /\ Outstanding' = Outstanding /\ answers' \subseteq Answers /\ queue' \in Seq(Commands)
        /\ exec' \in {exec, None} /\ queue' \in {queue, <<>>}
        /\ \A a \in answers' : a \in answers \/ ~a.ok \/ a.cmd = exec
    BY <1>1, <1>2, HandOn DEF IInv
  <1>4. /\ exec' = None /\ point' = "idle" /\ Live' /\ gen' \in {gen, "poisoned"}
        /\ gen' = "poisoned" => gen = "poisoned" \/ queue' = <<>>
        /\ gen = gen' => queue' = queue \/ queue' = <<>>
    BY <1>1 DEF Apply, Continue, PoisonOutcome, Live
  <1>5. exec.arg \in 0 .. MaxBatch /\ buffer \in 0 .. MaxBatch /\ dirty \in BOOLEAN
    <2>1. exec \in Outstanding /\ exec \in Commands
      BY <1>1, OutstandingTyped DEF IInv, TypeOK
    <2>2. exec.arg \in {acked, acked + 1} /\ exec.arg \in Payloads
      BY <1>1, <2>1 DEF IInv, BatchInv, Commands
    <2> QED BY <2>2 DEF IInv, TypeOK, Payloads
  <1>6. /\ buffer' \in 0 .. MaxBatch /\ dirty' \in BOOLEAN /\ buffer' >= buffer
        /\ dirty' = TRUE \/ (dirty' = dirty /\ buffer' = buffer)
        /\ \A a \in answers' : a \in answers \/ ~a.ok \/ (a.cmd = exec /\ exec.arg <= buffer')
    <2>1. CASE /\ buffer' = IF exec.arg > buffer THEN exec.arg ELSE buffer
               /\ dirty' = TRUE /\ Continue(TRUE, None)
      BY <1>3, <1>5, <2>1
    <2>2. CASE Continue(Prepared(FALSE), None) /\ UNCHANGED <<buffer, dirty>>
      BY <1>5, <2>2 DEF Continue, Prepared, Answer
    <2>3. CASE dirty' = TRUE /\ PoisonOutcome /\ UNCHANGED buffer
      BY <1>5, <2>3 DEF PoisonOutcome, Answer, Failures
    <2> QED BY <2>1, <2>2, <2>3 DEF Apply
  <1>7. TypeOK'
    BY <1>1, <1>3, <1>4, <1>6 DEF IInv, TypeOK
  <1>8. PointInv'
    BY <1>1, <1>3, <1>4 DEF IInv, PointInv, Live
  <1>9. BufferInv'
    BY <1>1, <1>4, <1>5, <1>6 DEF IInv, BufferInv, TypeOK, Live
  <1>10. SnapshotInv' /\ CheckpointCovers'
    BY <1>1, <1>4 DEF IInv, SnapshotInv, CheckpointCovers, OfDisk
  <1>11. BatchInv' /\ CallInv'
    BY <1>1, <1>3, <1>6, <1>7, CallsKept
  <1>12. OrderInv'
    BY <1>1, <1>3, OrderKept
  <1>13. ToldInv'
    <2>1. active.docs <= active'.docs /\ active' \in Snapshots
      BY <1>1 DEF IInv, PointInv, Snapshots
    <2> QED BY <1>1, <1>3, <1>4, <1>7, <2>1, ToldKept DEF Live
  <1> QED BY <1>7, <1>8, <1>9, <1>10, <1>11, <1>12, <1>13 DEF IInv

\* A plain commit is refused on a checkpointed index, so it drops no payload.
LEMMA CommitInv == IInv /\ Commit => IInv' /\ disk'.payload = disk.payload
  <1> SUFFICES ASSUME IInv, Commit PROVE IInv' /\ disk'.payload = disk.payload
    OBVIOUS
  <1> USE PublicationAssumption, NoneAssumption
  <1>1. /\ point = "ready" /\ exec.op = "commit" /\ exec # None /\ Live
        /\ UNCHANGED <<buffer, active, staged, pub, acked, reader>>
    BY DEF Commit, IInv, PointInv
  <1>2. \/ \E ok \in BOOLEAN, p \in Payloads : Continue(ok, p)
        \/ PoisonOutcome
    BY DEF Commit, Payloads
  <1>3. /\ Outstanding' = Outstanding /\ answers' \subseteq Answers /\ queue' \in Seq(Commands)
        /\ exec' \in {exec, None} /\ queue' \in {queue, <<>>}
        /\ \A a \in answers' : a \in answers \/ ~a.ok \/ a.cmd = exec
    BY <1>1, <1>2, HandOn DEF IInv
  <1>4. /\ exec' = None /\ point' = "idle" /\ Live' /\ gen' \in {gen, "poisoned"}
        /\ gen' = "poisoned" => gen = "poisoned" \/ queue' = <<>>
        /\ gen = gen' => queue' = queue \/ queue' = <<>>
    BY <1>1 DEF Commit, Continue, PoisonOutcome, Live
  <1>5. /\ disk \in [seg : 0 .. MaxSegments, docs : 0 .. MaxBatch, payload : Payloads]
        /\ None \in Payloads /\ dirty \in BOOLEAN /\ required \in BOOLEAN
        /\ buffer \in 0 .. MaxBatch /\ acked \in 0 .. MaxBatch
    BY DEF IInv, TypeOK, Payloads
  <1>6. CASE required /\ UNCHANGED <<disk, dirty, required>>
    <2>1. TypeOK'
      BY <1>1, <1>3, <1>4, <1>6 DEF IInv, TypeOK
    <2>2. PointInv'
      BY <1>1, <1>3, <1>4 DEF IInv, PointInv, Live
    <2>3. BufferInv' /\ SnapshotInv' /\ CheckpointCovers'
      BY <1>1, <1>4, <1>6 DEF IInv, BufferInv, SnapshotInv, CheckpointCovers, OfDisk
    <2>4. BatchInv' /\ CallInv'
      <3>1. buffer' >= buffer
        BY <1>1, <1>5
      <3> QED BY <1>1, <1>3, <2>1, <3>1, CallsKept
    <2>5. OrderInv'
      BY <1>1, <1>3, <1>6, OrderKept
    <2>6. ToldInv'
      <3>1. active.docs <= active'.docs /\ active' \in Snapshots
        BY <1>1 DEF IInv, PointInv, Snapshots
      <3> QED BY <1>1, <1>3, <1>4, <1>6, <2>1, <3>1, ToldKept DEF Live
    <2> QED BY <1>6, <2>1, <2>2, <2>3, <2>4, <2>5, <2>6 DEF IInv
  <1>7. CASE ~required /\ (CommitWrites(None) \/ (CommitFails(None) /\ PoisonOutcome))
    <2>1. disk.payload = None
      BY <1>1, <1>7 DEF IInv, BufferInv
    <2>2. /\ disk.seg < MaxSegments /\ disk' \in {disk, Committed(None)}
          /\ required' \in BOOLEAN /\ dirty' \in BOOLEAN
          /\ ~dirty' => ~dirty \/ disk' = Committed(None)
      <3>1. CASE CommitWrites(None)
        BY <1>5, <3>1, Zenon DEF CommitWrites
      <3>2. CASE CommitFails(None)
        BY <1>5, <3>2, Zenon DEF CommitFails
      <3> QED BY <1>7, <3>1, <3>2
    <2>3. /\ disk' \in [seg : 0 .. MaxSegments, docs : 0 .. MaxBatch, payload : Payloads]
          /\ disk'.payload = None /\ disk.docs <= disk'.docs /\ disk'.docs <= buffer
          /\ disk' = Committed(None) => disk'.docs = buffer
          /\ \A x \in Snapshots : OfDisk(x) => OfDisk(x)'
          /\ CheckpointCovers'
      BY <1>1, <1>5, <2>1, <2>2, CommitFacts
    <2>4. TypeOK'
      BY <1>1, <1>3, <1>4, <2>2, <2>3 DEF IInv, TypeOK
    <2>5. PointInv'
      BY <1>1, <1>3, <1>4 DEF IInv, PointInv, Live
    <2>6. BufferInv'
      <3>1. ~dirty' => buffer = disk'.docs
        BY <1>1, <1>5, <2>2, <2>3 DEF IInv, BufferInv
      <3> QED BY <1>1, <2>3, <3>1 DEF IInv, BufferInv
    <2>7. SnapshotInv'
      BY <1>1, <1>4, <2>3 DEF IInv, SnapshotInv, TypeOK, PointInv
    <2>8. BatchInv' /\ CallInv'
      <3>1. buffer' >= buffer
        BY <1>1, <1>5
      <3> QED BY <1>1, <1>3, <2>4, <3>1, CallsKept
    <2>9. OrderInv'
      BY <1>3, <2>1, <2>3, OrderKept
    <2>10. ToldInv'
      <3>1. active.docs <= active'.docs /\ active' \in Snapshots
        BY <1>1 DEF IInv, PointInv, Snapshots
      <3> QED BY <1>1, <1>3, <1>4, <2>1, <2>3, <2>4, <3>1, ToldKept DEF Live
    <2> QED BY <2>1, <2>3, <2>4, <2>5, <2>6, <2>7, <2>8, <2>9, <2>10 DEF IInv
  <1>8. \/ required /\ UNCHANGED <<disk, dirty, required>>
        \/ ~required /\ (CommitWrites(None) \/ (CommitFails(None) /\ PoisonOutcome))
    BY Zenon DEF Commit
  <1> QED BY <1>6, <1>7, <1>8, Zenon

\* A publish commits a payload that is not behind the one on disk, of batches
\* the IndexWriter holds.
LEMMA PublishCommitsInv ==
    IInv /\ PublishCommits =>
        IInv' /\ (disk.payload # None => disk'.payload # None /\ disk'.payload >= disk.payload)
  <1> SUFFICES ASSUME IInv, PublishCommits
               PROVE  IInv' /\ (disk.payload # None =>
                                   disk'.payload # None /\ disk'.payload >= disk.payload)
    OBVIOUS
  <1> USE PublicationAssumption, NoneAssumption
  <1>1. /\ point = "ready" /\ exec.op = "publish" /\ exec # None /\ Live /\ exec \in Outstanding
        /\ exec \in Commands
        /\ UNCHANGED <<buffer, active, staged, pub, acked, reader>>
    BY OutstandingTyped DEF PublishCommits, IInv, PointInv, TypeOK
  <1>2. /\ disk \in [seg : 0 .. MaxSegments, docs : 0 .. MaxBatch, payload : Payloads]
        /\ dirty \in BOOLEAN /\ required \in BOOLEAN
        /\ buffer \in 0 .. MaxBatch /\ acked \in 0 .. MaxBatch
        /\ exec.arg \in 0 .. MaxBatch /\ exec.arg \in Payloads /\ exec.arg <= acked
        /\ disk.payload # None => disk.payload <= exec.arg
    BY <1>1 DEF IInv, TypeOK, Commands, Payloads, CallInv, OrderInv
  <1>3. /\ disk.seg < MaxSegments /\ disk' \in {disk, Committed(exec.arg)}
        /\ required' \in BOOLEAN /\ dirty' \in BOOLEAN
        /\ ~dirty' => ~dirty \/ disk' = Committed(exec.arg)
    BY <1>2 DEF PublishCommits, CommitWrites, CommitFails
  <1>4. exec.arg # None
    BY <1>2
  <1>5. /\ disk' \in [seg : 0 .. MaxSegments, docs : 0 .. MaxBatch, payload : Payloads]
        /\ disk'.payload \in {disk.payload, exec.arg}
        /\ disk.docs <= disk'.docs /\ disk'.docs <= buffer
        /\ disk' = Committed(exec.arg) => disk'.docs = buffer /\ disk'.payload = exec.arg
        /\ \A x \in Snapshots : OfDisk(x) => OfDisk(x)'
        /\ CheckpointCovers'
    BY <1>1, <1>2, <1>3, <1>4, CommitFacts
  <1>6. disk.payload # None => disk'.payload # None /\ disk'.payload >= disk.payload
    BY <1>2, <1>4, <1>5 DEF Payloads
  <1>7. /\ Outstanding' = Outstanding /\ answers' \subseteq Answers /\ queue' \in Seq(Commands)
        /\ exec' \in {exec, None} /\ queue' \in {queue, <<>>}
        /\ \A a \in answers' : a \in answers \/ ~a.ok
    <2>1. \/ PoisonOutcome
          \/ UNCHANGED <<gen, queue, exec, answers>>
      BY DEF PublishCommits
    <2>2. /\ Outstanding' = Outstanding /\ answers' \subseteq Answers /\ queue' \in Seq(Commands)
          /\ exec' \in {exec, None} /\ queue' \in {queue, <<>>}
      BY <1>1, <2>1, HandOn DEF IInv
    <2>3. \A a \in answers' : a \in answers \/ ~a.ok
      BY <2>1 DEF PoisonOutcome, Answer, Failures
    <2> QED BY <2>2, <2>3
  <1>8. \/ /\ exec' = exec /\ point' = "committed" /\ gen' = gen /\ queue' = queue
           /\ disk' = Committed(exec.arg) /\ required' = TRUE
        \/ exec' = None /\ point' = "idle" /\ gen' = "poisoned" /\ queue' = <<>>
    BY <1>2, <1>4 DEF PublishCommits, CommitWrites, PoisonOutcome
  <1>9. TypeOK'
    BY <1>1, <1>3, <1>5, <1>7, <1>8 DEF IInv, TypeOK
  <1>10. PointInv'
    BY <1>1, <1>5, <1>8 DEF IInv, PointInv, Live
  <1>11. Live'
    BY <1>1, <1>8 DEF Live
  <1>12. BufferInv'
    <2>1. ~dirty' => buffer = disk'.docs
      BY <1>1, <1>2, <1>3, <1>5 DEF IInv, BufferInv
    <2>2. disk'.payload # None => disk'.payload <= acked
      BY <1>1, <1>2, <1>5 DEF IInv, BufferInv
    <2>3. acked <= buffer
      BY <1>1 DEF IInv, BufferInv
    <2>4. gen' = "open" \/ exec' # None => required'
      BY <1>8
    <2> QED BY <1>1, <1>5, <2>1, <2>2, <2>3, <2>4 DEF BufferInv
  <1>13. SnapshotInv'
    BY <1>1, <1>5, <1>8 DEF IInv, SnapshotInv, TypeOK, PointInv
  <1>14. BatchInv' /\ CallInv'
    <2>1. buffer' >= buffer
      BY <1>1, <1>2
    <2> QED BY <1>1, <1>7, <1>9, <2>1, CallsKept
  <1>15. OrderInv'
    <2>1. CASE queue' = queue /\ exec' = exec
      <3>1. \A i \in 1 .. Len(queue) : queue[i].op = "publish" => exec.arg <= queue[i].arg
        BY <1>1 DEF IInv, OrderInv, Before
      <3> QED BY <1>1, <1>2, <1>5, <2>1, <3>1, SMTT(40) DEF IInv, OrderInv
    <2>2. CASE queue' = <<>> /\ exec' = None
      BY <2>2 DEF OrderInv
    <2> QED BY <1>8, <2>1, <2>2
  <1>16. ToldInv'
    BY <1>1, <1>7, <1>11, PublishOvertakes
  <1> QED BY <1>5, <1>6, <1>9, <1>10, <1>12, <1>13, <1>14, <1>15, <1>16 DEF IInv

\* A publish is answered after the handle searches what it committed.
LEMMA PublishReloadsInv == IInv /\ PublishReloads => IInv'
  <1> SUFFICES ASSUME IInv, PublishReloads PROVE IInv'
    OBVIOUS
  <1> USE PublicationAssumption, NoneAssumption
  <1>1. /\ point = "committed" /\ exec # None /\ exec.op = "publish" /\ disk.payload = exec.arg
        /\ Live /\ exec \in Commands
        /\ UNCHANGED <<disk, buffer, dirty, required, staged, pub, acked, reader>>
    BY DEF PublishReloads, IInv, PointInv, TypeOK
  <1>2. \/ \E ok \in BOOLEAN, p \in Payloads : Continue(ok, p)
        \/ PoisonOutcome
    BY DEF PublishReloads, Payloads
  <1>3. /\ Outstanding' = Outstanding /\ answers' \subseteq Answers /\ queue' \in Seq(Commands)
        /\ exec' \in {exec, None} /\ queue' \in {queue, <<>>}
        /\ \A a \in answers' : a \in answers \/ ~a.ok \/ a.cmd = exec
    BY <1>1, <1>2, HandOn DEF IInv
  <1>4. /\ exec' = None /\ point' = "idle" /\ Live' /\ gen' \in {gen, "poisoned"}
        /\ gen' = "poisoned" => gen = "poisoned" \/ queue' = <<>>
        /\ gen = gen' => queue' = queue \/ queue' = <<>>
    BY <1>1 DEF PublishReloads, Continue, PoisonOutcome, Live
  <1>5. /\ disk \in [seg : 0 .. MaxSegments, docs : 0 .. MaxBatch, payload : Payloads]
        /\ buffer \in 0 .. MaxBatch /\ (disk.payload # None => disk.payload <= disk.docs)
    BY DEF IInv, TypeOK, CheckpointCovers
  <1>6. active' \in {active, Snapshot}
    BY DEF PublishReloads, ActiveAfterPublish
  <1>7. /\ Snapshot \in Snapshots /\ OfDisk(Snapshot) /\ Snapshot.docs = disk.docs
        /\ active \in Snapshots /\ OfDisk(active)
    BY <1>1, <1>5 DEF Snapshot, Snapshots, OfDisk, IInv, PointInv, SnapshotInv
  <1>8. active' \in Snapshots /\ OfDisk(active') /\ active.docs <= active'.docs
    BY <1>5, <1>6, <1>7 DEF OfDisk, Snapshots
  <1>9. TypeOK'
    BY <1>1, <1>3, <1>4, <1>8 DEF IInv, TypeOK
  <1>10. PointInv'
    BY <1>1, <1>3, <1>4, <1>8 DEF IInv, PointInv, Live
  <1>11. BufferInv' /\ CheckpointCovers'
    BY <1>1, <1>4 DEF IInv, BufferInv, CheckpointCovers
  <1>12. SnapshotInv'
    BY <1>1, <1>4, <1>8 DEF IInv, SnapshotInv, OfDisk
  <1>13. BatchInv' /\ CallInv'
    <2>1. buffer' >= buffer
      BY <1>1, <1>5
    <2> QED BY <1>1, <1>3, <1>9, <2>1, CallsKept
  <1>14. OrderInv'
    BY <1>1, <1>3, OrderKept
  <1>15. ASSUME NEW a \in answers', a.ok, a \notin answers
         PROVE  a.cmd = exec /\ Sound(a.cmd.seq, a.cmd.arg)'
    <2>1. Continue(TRUE, None) /\ active' = Snapshot
      <3>1. CASE PoisonOutcome
        <4>1. \A b \in answers' : b \in answers \/ ~b.ok
          BY <3>1 DEF PoisonOutcome, Answer, Failures
        <4> QED BY <1>15, <4>1
      <3> QED BY <3>1 DEF PublishReloads, ActiveAfterPublish
    <2>2. queue' = queue /\ a.cmd = exec
      BY <1>15, <2>1 DEF Continue, Answer
    <2>3. \A i \in 1 .. Len(queue) : Numbered(queue[i]) => a.cmd.seq < queue[i].seq
      BY <1>1, <2>2 DEF IInv, OrderInv, Before, Numbered
    <2>4. Served(a.cmd.seq)'
      BY <1>4, <2>2, <2>3 DEF Served, Numbered
    <2>5. /\ a.cmd.arg = disk'.payload
          /\ a.cmd.arg # None => a.cmd.arg <= active'.docs
      BY <1>1, <1>5, <1>7, <2>1, <2>2
    <2> QED BY <2>2, <2>4, <2>5 DEF Sound
  <1>16. ToldInv'
    <2>1. \A a \in answers' : a.ok /\ a \notin answers =>
             /\ a.cmd.op = "publish" => Sound(a.cmd.seq, a.cmd.arg)'
             /\ a.cmd.op = "reload" => Sound(a.cmd.seq, a.payload)'
      BY <1>1, <1>15
    <2> QED BY <1>1, <1>3, <1>4, <1>8, <1>9, <2>1, ToldKept DEF Live
  <1> QED BY <1>9, <1>10, <1>11, <1>12, <1>13, <1>14, <1>16 DEF IInv

\* A reload takes its candidate from the index as it is.
LEMMA ReloadStagesInv == IInv /\ ReloadStages => IInv'
  <1> SUFFICES ASSUME IInv, ReloadStages PROVE IInv'
    OBVIOUS
  <1> USE PublicationAssumption, NoneAssumption
  <1>1. /\ point = "ready" /\ exec # None /\ exec.op = "reload" /\ Live
        /\ UNCHANGED <<disk, buffer, dirty, required, active, pub, acked, reader>>
    BY DEF ReloadStages, IInv, PointInv
  <1>2. \/ Continue(FALSE, None) /\ staged' = staged
        \/ UNCHANGED <<gen, queue, exec, answers>> /\ staged' = Snapshot /\ point' = "staged"
    BY DEF ReloadStages
  <1>3. /\ Outstanding' = Outstanding /\ answers' \subseteq Answers /\ queue' \in Seq(Commands)
        /\ exec' \in {exec, None} /\ queue' \in {queue, <<>>}
    <2>1. None \in Payloads
      BY DEF Payloads
    <2> QED BY <1>1, <1>2, <2>1, HandOn DEF IInv
  <1>4. \A a \in answers' : a \in answers \/ ~a.ok
    BY <1>2 DEF Continue, Answer
  <1>5. /\ gen' = gen /\ queue' = queue
        /\ \/ exec' = None /\ point' = "idle" /\ staged' = staged
           \/ exec' = exec /\ point' = "staged" /\ staged' = Snapshot
    BY <1>2 DEF Continue
  <1>6. Snapshot \in Snapshots /\ OfDisk(Snapshot)
    BY DEF Snapshot, Snapshots, OfDisk, IInv, TypeOK
  <1>7. TypeOK'
    BY <1>1, <1>3, <1>5, <1>6 DEF IInv, TypeOK
  <1>8. PointInv'
    BY <1>1, <1>5, <1>6 DEF IInv, PointInv, Live
  <1>9. BufferInv' /\ CheckpointCovers'
    BY <1>1, <1>5 DEF IInv, BufferInv, CheckpointCovers, Live
  <1>10. SnapshotInv'
    BY <1>1, <1>5, <1>6 DEF IInv, SnapshotInv, OfDisk, Live
  <1>11. BatchInv' /\ CallInv'
    <2>1. buffer' >= buffer
      BY <1>1 DEF IInv, TypeOK
    <2> QED BY <1>1, <1>3, <1>4, <1>7, <2>1, CallsKept
  <1>12. OrderInv'
    BY <1>1, <1>3, OrderKept
  <1>13. ToldInv'
    <2>1. active.docs <= active'.docs /\ active' \in Snapshots
      BY <1>1 DEF IInv, PointInv, Snapshots
    <2> QED BY <1>1, <1>3, <1>4, <1>5, <1>7, <2>1, ToldKept DEF Live
  <1> QED BY <1>7, <1>8, <1>9, <1>10, <1>11, <1>12, <1>13 DEF IInv

\* A reload answers with the payload of the very segments it makes searchable.
LEMMA ReloadChecksInv == IInv /\ ReloadChecks => IInv'
  <1> SUFFICES ASSUME IInv, ReloadChecks PROVE IInv'
    OBVIOUS
  <1> USE PublicationAssumption, NoneAssumption
  <1>1. /\ point = "staged" /\ exec # None /\ exec.op = "reload" /\ Live /\ staged' = None
        /\ staged \in Snapshots /\ OfDisk(staged) /\ active \in Snapshots /\ OfDisk(active)
        /\ UNCHANGED <<disk, buffer, dirty, required, pub, acked, reader>>
    BY DEF ReloadChecks, IInv, PointInv, SnapshotInv
  <1>2. /\ disk \in [seg : 0 .. MaxSegments, docs : 0 .. MaxBatch, payload : Payloads]
        /\ buffer \in 0 .. MaxBatch /\ (disk.payload # None => disk.payload <= disk.docs)
        /\ None \in Payloads
    BY DEF IInv, TypeOK, CheckpointCovers, Payloads
  <1>3. \/ staged.seg = disk.seg /\ active' = staged /\ Continue(TRUE, disk.payload)
        \/ active' = active /\ Continue(FALSE, None)
        \/ active' = active /\ point' = "ready" /\ UNCHANGED <<gen, queue, exec, answers>>
    BY DEF ReloadChecks, Aligned
  <1>4. /\ Outstanding' = Outstanding /\ answers' \subseteq Answers /\ queue' \in Seq(Commands)
        /\ exec' \in {exec, None} /\ queue' \in {queue, <<>>}
        /\ \A a \in answers' : a \in answers \/ ~a.ok \/ a.cmd = exec
    BY <1>1, <1>2, <1>3, HandOn DEF IInv
  <1>5. /\ gen' = gen /\ queue' = queue
        /\ \/ exec' = None /\ point' = "idle"
           \/ exec' = exec /\ point' = "ready"
    BY <1>3 DEF Continue
  <1>6. active' \in Snapshots /\ OfDisk(active') /\ active.docs <= active'.docs
    <2>1. active.docs \in Nat /\ active.docs <= disk.docs /\ (staged.seg = disk.seg => staged.docs = disk.docs)
      BY <1>1 DEF OfDisk, Snapshots
    <2>2. active' = active \/ (active' = staged /\ staged.seg = disk.seg)
      BY <1>3
    <2> QED BY <1>1, <2>1, <2>2
  <1>7. TypeOK'
    BY <1>1, <1>4, <1>5, <1>6 DEF IInv, TypeOK
  <1>8. PointInv'
    BY <1>1, <1>5, <1>6 DEF IInv, PointInv, Live
  <1>9. BufferInv' /\ CheckpointCovers'
    BY <1>1, <1>5 DEF IInv, BufferInv, CheckpointCovers, Live
  <1>10. SnapshotInv'
    BY <1>1, <1>5, <1>6 DEF IInv, SnapshotInv, OfDisk, Live
  <1>11. BatchInv' /\ CallInv'
    <2>1. buffer' >= buffer
      BY <1>1, <1>2
    <2> QED BY <1>1, <1>4, <1>7, <2>1, CallsKept
  <1>12. OrderInv'
    BY <1>1, <1>4, OrderKept
  <1>13. ASSUME NEW a \in answers', a.ok, a \notin answers
         PROVE  a.cmd = exec /\ Sound(a.cmd.seq, a.payload)'
    <2>1. staged.seg = disk.seg /\ active' = staged /\ Continue(TRUE, disk.payload)
      BY <1>3, <1>13 DEF Continue, Answer
    <2>2. queue' = queue /\ exec' = None /\ a.cmd = exec /\ a.payload = disk.payload
      BY <1>13, <2>1 DEF Continue, Answer
    <2>3. \A i \in 1 .. Len(queue) : Numbered(queue[i]) => a.cmd.seq < queue[i].seq
      BY <1>1, <2>2 DEF IInv, OrderInv, Before, Numbered
    <2>4. active'.docs = disk.docs
      BY <1>1, <2>1 DEF OfDisk
    <2>5. Served(a.cmd.seq)'
      BY <1>1, <2>2, <2>3 DEF Served, Numbered
    <2> QED BY <1>1, <1>2, <2>2, <2>4, <2>5 DEF Sound
  <1>14. ToldInv'
    <2>1. \A a \in answers' : a.ok /\ a \notin answers =>
             /\ a.cmd.op = "publish" => Sound(a.cmd.seq, a.cmd.arg)'
             /\ a.cmd.op = "reload" => Sound(a.cmd.seq, a.payload)'
      BY <1>1, <1>13
    <2> QED BY <1>1, <1>4, <1>5, <1>6, <1>7, <2>1, ToldKept DEF Live
  <1> QED BY <1>7, <1>8, <1>9, <1>10, <1>11, <1>12, <1>14 DEF IInv

\* A panic of the writer fails its command and what is queued; what the command
\* has committed stays.
LEMMA WriterPanicInv == IInv /\ WriterPanic => IInv'
  <1> SUFFICES ASSUME IInv, WriterPanic PROVE IInv'
    OBVIOUS
  <1> USE PublicationAssumption, NoneAssumption
  <1>1. /\ exec # None /\ PoisonOutcome /\ staged' = None /\ Live
        /\ UNCHANGED <<disk, buffer, dirty, required, active, pub, acked, reader>>
    BY DEF WriterPanic, IInv, PointInv
  <1>2. /\ Outstanding' = Outstanding /\ answers' \subseteq Answers /\ queue' \in Seq(Commands)
        /\ exec' \in {exec, None} /\ queue' \in {queue, <<>>}
    BY <1>1, HandOn DEF IInv
  <1>3. \A a \in answers' : a \in answers \/ ~a.ok
    BY <1>1 DEF PoisonOutcome, Answer, Failures
  <1>4. exec' = None /\ point' = "idle" /\ gen' = "poisoned" /\ queue' = <<>> /\ Live'
    BY <1>1 DEF PoisonOutcome, Live
  <1>5. TypeOK'
    BY <1>1, <1>2, <1>4 DEF IInv, TypeOK
  <1>6. PointInv'
    BY <1>1, <1>4 DEF IInv, PointInv, Live
  <1>7. BufferInv' /\ SnapshotInv' /\ CheckpointCovers'
    BY <1>1, <1>4 DEF IInv, BufferInv, SnapshotInv, CheckpointCovers, OfDisk, Live
  <1>8. BatchInv' /\ CallInv'
    <2>1. buffer' >= buffer
      BY <1>1 DEF IInv, TypeOK
    <2> QED BY <1>1, <1>2, <1>3, <1>5, <2>1, CallsKept
  <1>9. OrderInv'
    BY <1>1, <1>2, OrderKept
  <1>10. ToldInv'
    <2>1. active.docs <= active'.docs /\ active' \in Snapshots
      BY <1>1 DEF IInv, PointInv, Snapshots
    <2> QED BY <1>1, <1>2, <1>3, <1>4, <1>5, <2>1, ToldKept DEF Live
  <1> QED BY <1>5, <1>6, <1>7, <1>8, <1>9, <1>10 DEF IInv

\* A merge changes the segments under every snapshot and nothing they tell.
LEMMA MergeInv == IInv /\ Merge => IInv' /\ disk'.payload = disk.payload
  <1> SUFFICES ASSUME IInv, Merge PROVE IInv' /\ disk'.payload = disk.payload
    OBVIOUS
  <1> USE PublicationAssumption, NoneAssumption
  <1>1. /\ Live /\ disk.seg < MaxSegments /\ disk' = [disk EXCEPT !.seg = @ + 1]
        /\ UNCHANGED <<gen, buffer, dirty, required, queue, exec, point, active, staged,
                       answers, pub, acked, reader>>
    BY DEF Merge, Live, handleVars
  <1>2. disk \in [seg : 0 .. MaxSegments, docs : 0 .. MaxBatch, payload : Payloads]
    BY DEF IInv, TypeOK
  <1>3. /\ disk' \in [seg : 0 .. MaxSegments, docs : 0 .. MaxBatch, payload : Payloads]
        /\ disk'.docs = disk.docs /\ disk'.payload = disk.payload /\ disk'.seg = disk.seg + 1
    BY <1>1, <1>2
  <1>4. \A x \in Snapshots : OfDisk(x) => OfDisk(x)'
    BY <1>2, <1>3 DEF OfDisk, Snapshots
  <1>5. /\ Outstanding' = Outstanding
    BY <1>1 DEF Outstanding
  <1>6. TypeOK'
    BY <1>1, <1>3 DEF IInv, TypeOK
  <1>7. PointInv'
    BY <1>1, <1>3 DEF IInv, PointInv, Live
  <1>8. BufferInv' /\ CheckpointCovers'
    BY <1>1, <1>3 DEF IInv, BufferInv, CheckpointCovers, Live
  <1>9. SnapshotInv'
    BY <1>1, <1>4 DEF IInv, SnapshotInv, TypeOK, PointInv, Live
  <1>10. BatchInv' /\ CallInv'
    BY <1>1, <1>5 DEF IInv, BatchInv, CallInv
  <1>11. OrderInv'
    BY <1>1, <1>3, OrderKept
  <1>12. ToldInv'
    <2>1. active.docs <= active'.docs /\ active' \in Snapshots
      BY <1>1 DEF IInv, PointInv, Snapshots
    <2> QED BY <1>1, <1>3, <1>5, <1>6, <2>1, ToldKept DEF Live
  <1> QED BY <1>3, <1>6, <1>7, <1>8, <1>9, <1>10, <1>11, <1>12 DEF IInv

\* A read-only handle takes over a payload with the segments it belongs to.
LEMMA ReaderInv == IInv /\ (ReaderStages \/ ReaderChecks) => IInv'
  <1> SUFFICES ASSUME IInv, ReaderStages \/ ReaderChecks PROVE IInv'
    OBVIOUS
  <1> USE PublicationAssumption, NoneAssumption
  <1>1. UNCHANGED <<disk, gen, buffer, dirty, required, queue, exec, point, active, staged,
                    answers, pub, acked>>
    BY DEF ReaderStages, ReaderChecks, handleVars
  <1>2. /\ disk \in [seg : 0 .. MaxSegments, docs : 0 .. MaxBatch, payload : Payloads]
        /\ reader \in [staged : Snapshots \cup {None}, active : Snapshots, payload : Payloads]
        /\ (disk.payload # None => disk.payload <= disk.docs)
    BY DEF IInv, TypeOK, CheckpointCovers
  <1>3. Snapshot \in Snapshots /\ OfDisk(Snapshot)
    BY <1>2 DEF Snapshot, Snapshots, OfDisk
  <1>4. /\ reader' \in [staged : Snapshots \cup {None}, active : Snapshots, payload : Payloads]
        /\ OfDisk(reader'.active)
        /\ reader'.staged # None => OfDisk(reader'.staged)
        /\ reader'.payload # None => reader'.payload <= reader'.active.docs
    <2>1. CASE ReaderStages
      <3>1. reader' = [reader EXCEPT !.staged = Snapshot]
        BY <2>1 DEF ReaderStages
      <3>2. /\ reader' \in [staged : Snapshots \cup {None}, active : Snapshots, payload : Payloads]
            /\ reader'.active = reader.active /\ reader'.payload = reader.payload
            /\ reader'.staged = Snapshot
        BY <1>2, <1>3, <3>1
      <3> QED BY <1>3, <3>2 DEF IInv, SnapshotInv
    <2>2. CASE ReaderChecks /\ Aligned(reader.staged)
      <3>1. /\ reader' = [staged |-> None, active |-> reader.staged, payload |-> disk.payload]
            /\ reader.staged # None /\ reader.staged.seg = disk.seg
        BY <2>2 DEF ReaderChecks, Aligned
      <3>2. reader.staged \in Snapshots /\ OfDisk(reader.staged)
        BY <1>2, <3>1 DEF IInv, SnapshotInv
      <3>3. /\ reader' \in [staged : Snapshots \cup {None}, active : Snapshots, payload : Payloads]
            /\ reader'.active = reader.staged /\ reader'.payload = disk.payload
            /\ reader'.staged = None
        BY <1>2, <3>1, <3>2
      <3>4. reader.staged.docs = disk.docs
        BY <3>1, <3>2 DEF OfDisk
      <3> QED BY <1>2, <3>2, <3>3, <3>4
    <2>3. CASE ReaderChecks /\ ~Aligned(reader.staged)
      <3>1. reader' = [reader EXCEPT !.staged = None]
        BY <2>3 DEF ReaderChecks
      <3>2. /\ reader' \in [staged : Snapshots \cup {None}, active : Snapshots, payload : Payloads]
            /\ reader'.active = reader.active /\ reader'.payload = reader.payload
            /\ reader'.staged = None
        BY <1>2, <3>1
      <3> QED BY <3>2 DEF IInv, SnapshotInv
    <2> QED BY <2>1, <2>2, <2>3
  <1>5. TypeOK'
    BY <1>1, <1>4 DEF IInv, TypeOK
  <1>6. SnapshotInv'
    BY <1>1, <1>4 DEF IInv, SnapshotInv, OfDisk, Live
  <1>7. Outstanding' = Outstanding
    BY <1>1 DEF Outstanding
  <1>8. PointInv' /\ BufferInv' /\ BatchInv' /\ CallInv' /\ CheckpointCovers'
    BY <1>1, <1>7 DEF IInv, PointInv, BufferInv, BatchInv, CallInv, CheckpointCovers, Live
  <1>9. OrderInv' /\ ToldInv'
    BY <1>1, <1>7 DEF IInv, OrderInv, ToldInv, Sound, Served, Overtaken, Live
  <1> QED BY <1>5, <1>6, <1>8, <1>9 DEF IInv
-----------------------------------------------------------------------------
(* The theorems.                                                           *)

\* Every step keeps the invariant, and no step drops a checkpoint or takes it back.
LEMMA StepInv ==
    IInv /\ [Next]_vars =>
        IInv' /\ (disk.payload # None => disk'.payload # None /\ disk'.payload >= disk.payload)
  <1> SUFFICES ASSUME IInv, [Next]_vars
               PROVE  IInv' /\ (disk.payload # None =>
                                   disk'.payload # None /\ disk'.payload >= disk.payload)
    OBVIOUS
  <1>1. disk.payload # None /\ disk'.payload = disk.payload =>
            disk'.payload # None /\ disk'.payload >= disk.payload
    BY PublicationAssumption DEF IInv, TypeOK, Payloads
  <1>2. CASE Open
    BY <1>1, <1>2, OpenInv DEF Open
  <1>3. CASE Close \/ Crash
    BY <1>1, <1>3, GoneInv DEF Close, Crash, Gone
  <1>4. CASE SearchPanic
    BY <1>1, <1>4, SearchPanicInv DEF SearchPanic
  <1>5. CASE Merge
    BY <1>1, <1>5, MergeInv
  <1>6. CASE \E o \in {"apply", "commit", "publish", "reload"} : Call(o)
    BY <1>1, <1>6, CallStepInv DEF Call
  <1>7. CASE \E a \in answers : Deliver(a)
    BY <1>1, <1>7, DeliverInv DEF Deliver
  <1>8. CASE Take
    BY <1>1, <1>8, TakeInv DEF Take
  <1>9. CASE Apply
    BY <1>1, <1>9, ApplyInv DEF Apply
  <1>10. CASE Commit
    BY <1>1, <1>10, CommitInv
  <1>11. CASE PublishCommits
    BY <1>11, PublishCommitsInv
  <1>12. CASE PublishReloads
    BY <1>1, <1>12, PublishReloadsInv DEF PublishReloads
  <1>13. CASE ReloadStages
    BY <1>1, <1>13, ReloadStagesInv DEF ReloadStages
  <1>14. CASE ReloadChecks
    BY <1>1, <1>14, ReloadChecksInv DEF ReloadChecks
  <1>15. CASE WriterPanic
    BY <1>1, <1>15, WriterPanicInv DEF WriterPanic
  <1>16. CASE ReaderStages \/ ReaderChecks
    BY <1>1, <1>16, ReaderInv DEF ReaderStages, ReaderChecks
  <1>17. CASE UNCHANGED vars
    <2>1. Outstanding' = Outstanding
      BY <1>17 DEF vars, handleVars, Outstanding
    <2>2. TypeOK' /\ PointInv' /\ BufferInv' /\ BatchInv' /\ CallInv' /\ CheckpointCovers'
      BY <1>17, <2>1 DEF vars, handleVars, IInv, TypeOK, PointInv, BufferInv, BatchInv, CallInv,
                         CheckpointCovers, Live
    <2>3. OrderInv' /\ ToldInv' /\ SnapshotInv'
      BY <1>17, <2>1 DEF vars, handleVars, IInv, OrderInv, ToldInv, SnapshotInv, Sound, Served,
                         Overtaken, OfDisk, Live
    <2> QED BY <1>1, <1>17, <2>2, <2>3 DEF IInv, vars
  <1> QED BY <1>2, <1>3, <1>4, <1>5, <1>6, <1>7, <1>8, <1>9, <1>10, <1>11, <1>12, <1>13, <1>14,
             <1>15, <1>16, <1>17 DEF Next, WriterStep

\* The invariant holds throughout.
LEMMA Invariance == Spec => []IInv
  <1>1. IInv /\ [Next]_vars => IInv'
    BY StepInv
  <1> QED BY InitInv, <1>1, PTL DEF Spec

\* Every variable of the publication protocol keeps its type.
THEOREM PublicationTyped == Spec => []TypeOK
  BY Invariance, PTL DEF IInv

\* The checkpoint in the meta file never claims a batch the index does not hold,
\* whatever was refused, failed, poisoned or crashed (Writer::publish_checkpoint).
THEOREM CheckpointNeverAhead == Spec => []CheckpointCovers
  BY Invariance, PTL DEF IInv

\* No step drops a checkpoint or takes it back: plain commits refuse, publishes
\* are served in the order of their calls, merges keep the payload.
THEOREM CheckpointNeverLost == Spec => CheckpointKept
  <1>1. IInv /\ [Next]_vars =>
          [disk.payload # None => disk'.payload # None /\ disk'.payload >= disk.payload]_vars
    BY StepInv
  <1> QED BY Invariance, <1>1, PTL DEF Spec, CheckpointKept

\* Once all publishes are answered, committedPayload is what the meta file holds
\* or throws, in whatever order the callbacks ran (PublicationState).
THEOREM KnownPayloadTrue == Spec => []KnownPayloadExact
  <1>1. IInv => KnownPayloadExact
    <2> SUFFICES ASSUME IInv, Live, Known, \A c \in Outstanding : c.op # "publish"
                 PROVE  pub.payload = disk.payload
      BY DEF KnownPayloadExact, Live
    <2>1. ~Overtaken(pub.published)
      BY PublicationAssumption DEF Overtaken, Known, IInv, TypeOK
    <2> QED BY <2>1 DEF IInv, ToldInv, Sound
  <1> QED BY Invariance, <1>1, PTL

\* A search sees every batch of the checkpoint committedPayload reports, of the
\* writing handle and of a read-only one (SnapshotReader::reload_aligned).
THEOREM KnownPayloadSearchable == Spec => []PayloadSearchable
  <1>1. IInv => PayloadSearchable
    BY DEF IInv, ToldInv, Sound, SnapshotInv, PayloadSearchable, Live
  <1> QED BY Invariance, <1>1, PTL
=============================================================================
