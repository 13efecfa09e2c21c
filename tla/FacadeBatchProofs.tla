-------------------------- MODULE FacadeBatchProofs --------------------------
(***************************************************************************)
(* What a logical batch promises, for every plan of batches, every size of *)
(* a frame, every capacity and every number of calls: what is committed of *)
(* a batch is the batch (WholeBatchesCommitted), the handle implements the *)
(* index of whole batches (LogicalSpec), and the telemetry of batches and  *)
(* of their commands adds up (TelemetryExact).                             *)
(*                                                                         *)
(* The inductive invariant Atomic adds to Good where the records of every  *)
(* batch are: still due to the batch that runs, in its one frame on the    *)
(* way, held by the writer or committed (RunOK, FrameOf, StoreOK); that    *)
(* every commit on its way is ahead of that frame and finds whole batches  *)
(* (PipeOK); and that the writer holds a part of a batch that failed only  *)
(* while the facade is latched (DirtOK).                                   *)
(*                                                                         *)
(* Batch, pipeline and store are related by an operator of nine values, so *)
(* that each kind of step (a thinner pipeline, a frame taken in, a commit, *)
(* a loss) is one lemma about values; one lemma per action then names the  *)
(* kind of its step, and the step of the logical index it is.              *)
(*                                                                         *)
(* For the telemetry, Exact adds to Atomic that the counters balance with  *)
(* the live tickets, actor by actor (Ledger), that a command in a queue    *)
(* has a ticket nobody dispatched (Tray), that at most one close is on its *)
(* way, the one that is promised (Promised: without it the poison drain    *)
(* would keep one close and lose the ticket of another), and that the      *)
(* teardown is recorded when the handle is released (Torn).                *)
(***************************************************************************)
EXTENDS FacadeHandleProofs

\* The writer's pipeline: slot 0 is the running command, slot i the i-th of the queue.
Slots(q, r) == {i \in 0..Len(q) : i = 0 => r # None}
At(q, r, i) == IF i = 0 THEN r ELSE q[i]
Frames(q, r) == {i \in Slots(q, r) : At(q, r, i).from = "batch"}
CommitSlots(q, r) == {i \in Slots(q, r) : At(q, r, i).op \in {"commit", "publish"}}

\* The records of a batch.
All(b) == 1..Len(Plan[b].records)

\* The records of batch b that a sequence of mutations holds, and that it holds
\* each of them once, as the mutation it stands for.
Idx(s, b) == {s[k].index : k \in {k \in 1..Len(s) : s[k].batch = b}}
Proper(s, b) == \A k \in 1..Len(s) : s[k].batch = b =>
    /\ s[k].index \in All(b) /\ s[k] = Mutation(b, s[k].index)
    /\ \A l \in 1..Len(s) : s[l] = s[k] => l = k

\* Every mutation is of nobody or of a batch that succeeded.
Clean(s, tl) == \A k \in 1..Len(s) : s[k].batch # None => tl[s[k].batch] = "done"

\* A released handle holds nothing and stays released; the facade is closed, and
\* told so, only by a handle that is.
GoneInv ==
    /\ native = "gone" => /\ queue = <<>> /\ running = None /\ staged = <<>>
                          /\ squeue = <<>> /\ srunning = None
    /\ closed => native = "gone"
    /\ closeReply \in Outcomes => native = "gone"

\* The batch that runs: it has the handle, nobody was told its outcome, and when
\* its last frame succeeded the writer holds every record it does not owe.
RunOK(bt, tl, ls, cl, nat, st) ==
    bt # None => /\ bt.attempted /\ tl[bt.id] = "none"
                 /\ ls = "active" \/ cl
                 /\ bt.reply = "ok" => nat = "gone" \/ Idx(st, bt.id) = All(bt.id) \ Due(bt)

\* A command of a direct call carries mutations of nobody; the command of a batch
\* carries what is neither held by the writer nor still due.
Foreign(ms) == \A k \in 1..Len(ms) : ms[k].batch = None
FrameOf(bt, st, ms) ==
    /\ bt # None /\ bt.reply = "none"
    /\ \E J \in SUBSET (All(bt.id) \ Due(bt)) :
          /\ Carries(ms, bt.id, J)
          /\ Idx(st, bt.id) = (All(bt.id) \ Due(bt)) \ J

\* At most one frame is outstanding, and every commit that is on its way comes
\* before it and finds only whole batches.
PipeOK(q, r, bt, st, tl) ==
    /\ \A i \in Slots(q, r) :
          IF At(q, r, i).from = "batch" THEN FrameOf(bt, st, At(q, r, i).mutations)
          ELSE Foreign(At(q, r, i).mutations)
    /\ \A i, j \in Frames(q, r) : i = j
    /\ \A i \in CommitSlots(q, r) : Clean(st, tl) /\ \A j \in Frames(q, r) : i < j

\* Unless a batch failed in its course, the writer holds mutations of nobody, of
\* the batch that runs and of batches that succeeded.
DirtOK(ls, bt, st, tl) == ls # "incomplete" =>
    \A k \in 1..Len(st) : \/ st[k].batch = None
                          \/ bt # None /\ bt.id = st[k].batch
                          \/ tl[st[k].batch] = "done"

\* Where the records of a batch are.
StoreOK(b, cm, st, t, bt, nat) ==
    /\ Proper(cm, b) /\ Proper(st, b)
    /\ Idx(cm, b) \in {{}, All(b)}
    /\ Idx(st, b) # {} => Idx(cm, b) = {}
    /\ t # "done" => Idx(cm, b) = {}
    /\ t = "none" /\ ~(bt # None /\ bt.id = b) => Idx(st, b) = {}
    /\ t = "done" => Idx(cm, b) = All(b) \/ Idx(st, b) = All(b) \/ nat = "gone"

\* Batch, pipeline and store together.
Whole(bt, tl, ls, cl, nat, q, r, st, cm) ==
    /\ bt # None => bt.id \in Batches
    /\ RunOK(bt, tl, ls, cl, nat, st)
    /\ PipeOK(q, r, bt, st, tl)
    /\ DirtOK(ls, bt, st, tl)
    /\ \A b \in Batches : StoreOK(b, cm, st, tl[b], bt, nat)

\* The three of them now, with the handle around them.
WholeNow == Whole(batch, told, lstate, closed, native, queue, running, staged, committed)

Atomic == Good /\ GoneInv /\ WholeNow

-----------------------------------------------------------------------------
(* Sequences of mutations.                                                 *)

\* The records a sequence holds of a batch, element by element.
LEMMA IdxIn ==
    ASSUME NEW s, NEW b, NEW x
    PROVE  x \in Idx(s, b) <=> \E k \in 1..Len(s) : s[k].batch = b /\ s[k].index = x
  BY DEF Idx

\* A sequence holds nothing of a batch none of its mutations is of.
LEMMA IdxNone ==
    ASSUME NEW s, NEW b
    PROVE  (\A k \in 1..Len(s) : s[k].batch # b) <=> Idx(s, b) = {}
  <1>1. ASSUME \A k \in 1..Len(s) : s[k].batch # b PROVE Idx(s, b) = {}
    BY <1>1 DEF Idx
  <1>2. ASSUME NEW k \in 1..Len(s), s[k].batch = b PROVE Idx(s, b) # {}
    BY <1>2 DEF Idx
  <1> QED BY <1>1, <1>2

\* What follows another sequence is held beside it.
LEMMA ConcatElements ==
    ASSUME NEW s \in Seq(Mutations), NEW t \in Seq(Mutations)
    PROVE  /\ s \o t \in Seq(Mutations) /\ Len(s) \in Nat /\ Len(t) \in Nat
           /\ Len(s \o t) = Len(s) + Len(t)
           /\ \A k \in 1..Len(s) : k \in 1..Len(s \o t) /\ (s \o t)[k] = s[k]
           /\ \A k \in 1..Len(t) : Len(s) + k \in 1..Len(s \o t) /\ (s \o t)[Len(s) + k] = t[k]
           /\ \A k \in 1..Len(s \o t) :
                 k \in 1..Len(s) \/ \E j \in 1..Len(t) : k = Len(s) + j
  <1>1. /\ s \o t \in Seq(Mutations) /\ Len(s) \in Nat /\ Len(t) \in Nat
        /\ Len(s \o t) = Len(s) + Len(t)
        /\ \A i \in 1..(Len(s) + Len(t)) : (s \o t)[i] = IF i <= Len(s) THEN s[i] ELSE t[i - Len(s)]
    BY ConcatProperties, LenProperties
  <1>2. PICK u, n, m : u = s \o t /\ n = Len(s) /\ m = Len(t)
    OBVIOUS
  <1>3. /\ n \in Nat /\ m \in Nat /\ Len(u) = n + m
        /\ \A i \in 1..(n + m) : u[i] = IF i <= n THEN s[i] ELSE t[i - n]
    BY <1>1, <1>2
  <1>4. \A k \in 1..n : k \in 1..(n + m) /\ u[k] = s[k]
    BY <1>3
  <1>5. \A k \in 1..m : n + k \in 1..(n + m) /\ u[n + k] = t[k]
    <2>1. SUFFICES ASSUME NEW k \in 1..m PROVE n + k \in 1..(n + m) /\ u[n + k] = t[k]
      OBVIOUS
    <2>2. n + k \in 1..(n + m) /\ ~(n + k <= n) /\ (n + k) - n = k
      BY <1>3
    <2> QED BY <1>3, <2>2
  <1>6. \A k \in 1..(n + m) : k \in 1..n \/ \E j \in 1..m : k = n + j
    <2>1. SUFFICES ASSUME NEW k \in 1..(n + m), k \notin 1..n PROVE \E j \in 1..m : k = n + j
      OBVIOUS
    <2>2. k - n \in 1..m /\ k = n + (k - n)
      BY <1>3, <2>1
    <2> QED BY <2>2
  <1> QED BY <1>1, <1>2, <1>3, <1>4, <1>5, <1>6

\* The first sequence holds what the two others hold.
Adds(u, s, t, b) == Idx(u, b) = Idx(s, b) \cup Idx(t, b)

\* Two sequences, one after the other, hold what both hold.
LEMMA IdxConcat ==
    ASSUME NEW s \in Seq(Mutations), NEW t \in Seq(Mutations), NEW b
    PROVE  Adds(s \o t, s, t, b)
  <1>1. PICK u : u = s \o t
    OBVIOUS
  <1>2. /\ \A k \in 1..Len(s) : k \in 1..Len(u) /\ u[k] = s[k]
        /\ \A k \in 1..Len(t) : Len(s) + k \in 1..Len(u) /\ u[Len(s) + k] = t[k]
        /\ \A k \in 1..Len(u) : k \in 1..Len(s) \/ \E j \in 1..Len(t) : k = Len(s) + j
    BY <1>1, ConcatElements
  <1>3. ASSUME NEW x PROVE x \in Idx(u, b) <=> x \in Idx(s, b) \cup Idx(t, b)
    <2>1. ASSUME x \in Idx(u, b) PROVE x \in Idx(s, b) \cup Idx(t, b)
      <3>1. PICK k \in 1..Len(u) : u[k].batch = b /\ u[k].index = x
        BY <2>1, IdxIn
      <3>2. CASE k \in 1..Len(s)
        <4>1. s[k].batch = b /\ s[k].index = x
          BY <1>2, <3>1, <3>2
        <4> QED BY <3>2, <4>1, IdxIn
      <3>3. CASE \E j \in 1..Len(t) : k = Len(s) + j
        <4>1. PICK j \in 1..Len(t) : k = Len(s) + j
          BY <3>3
        <4>2. t[j].batch = b /\ t[j].index = x
          BY <1>2, <3>1, <4>1
        <4> QED BY <4>2, IdxIn
      <3> QED BY <1>2, <3>2, <3>3
    <2>2. ASSUME x \in Idx(s, b) PROVE x \in Idx(u, b)
      <3>1. PICK k \in 1..Len(s) : s[k].batch = b /\ s[k].index = x
        BY <2>2, IdxIn
      <3>2. k \in 1..Len(u) /\ u[k] = s[k]
        BY <1>2
      <3> QED BY <3>1, <3>2, IdxIn
    <2>3. ASSUME x \in Idx(t, b) PROVE x \in Idx(u, b)
      <3>1. PICK k \in 1..Len(t) : t[k].batch = b /\ t[k].index = x
        BY <2>3, IdxIn
      <3>2. PICK j \in 1..Len(u) : u[j] = t[k]
        BY <1>2
      <3> QED BY <3>1, <3>2, IdxIn
    <2> QED BY <2>1, <2>2, <2>3
  <1> QED BY <1>1, <1>3 DEF Adds

\* They hold each record once when they have none in common.
LEMMA ProperConcat ==
    ASSUME NEW s \in Seq(Mutations), NEW t \in Seq(Mutations), NEW b,
           Proper(s, b), Proper(t, b), Idx(s, b) \cap Idx(t, b) = {}
    PROVE  Proper(s \o t, b)
  <1>1. PICK u : u = s \o t
    OBVIOUS
  <1>2. /\ \A k \in 1..Len(s) : u[k] = s[k]
        /\ \A k \in 1..Len(t) : u[Len(s) + k] = t[k]
        /\ \A k \in 1..Len(u) : k \in 1..Len(s) \/ \E j \in 1..Len(t) : k = Len(s) + j
    BY <1>1, ConcatElements
  <1>3. ASSUME NEW i \in 1..Len(s), NEW j \in 1..Len(t), s[i].batch = b \/ t[j].batch = b PROVE s[i] # t[j]
    <2>1. SUFFICES ASSUME s[i] = t[j] PROVE FALSE
      OBVIOUS
    <2>2. s[i].index \in Idx(s, b)
      BY <1>3, <2>1, IdxIn
    <2>3. t[j].index \in Idx(t, b)
      BY <1>3, <2>1, IdxIn
    <2> QED BY <2>1, <2>2, <2>3
  <1>4. SUFFICES ASSUME NEW k \in 1..Len(u), u[k].batch = b
                 PROVE  /\ u[k].index \in All(b) /\ u[k] = Mutation(b, u[k].index)
                        /\ \A l \in 1..Len(u) : u[l] = u[k] => l = k
    BY <1>1 DEF Proper
  <1>5. CASE k \in 1..Len(s)
    <2>1. u[k] = s[k] /\ s[k].batch = b
      BY <1>2, <1>4, <1>5
    <2>2. /\ s[k].index \in All(b) /\ s[k] = Mutation(b, s[k].index)
          /\ \A l \in 1..Len(s) : s[l] = s[k] => l = k
      BY <1>5, <2>1 DEF Proper
    <2>3. ASSUME NEW l \in 1..Len(u), u[l] = u[k] PROVE l = k
      <3>1. CASE l \in 1..Len(s)
        BY <1>2, <2>1, <2>2, <2>3, <3>1
      <3>2. CASE \E j \in 1..Len(t) : l = Len(s) + j
        <4>1. PICK j \in 1..Len(t) : l = Len(s) + j
          BY <3>2
        <4>2. u[l] = t[j]
          BY <1>2, <4>1
        <4>3. s[k] # t[j]
          BY <1>3, <1>5, <2>1
        <4> QED BY <2>1, <2>3, <4>2, <4>3
      <3> QED BY <1>2, <3>1, <3>2
    <2> QED BY <2>1, <2>2, <2>3
  <1>6. CASE \E j \in 1..Len(t) : k = Len(s) + j
    <2>1. PICK j \in 1..Len(t) : k = Len(s) + j
      BY <1>6
    <2>2. u[k] = t[j] /\ t[j].batch = b
      BY <1>2, <1>4, <2>1
    <2>3. /\ t[j].index \in All(b) /\ t[j] = Mutation(b, t[j].index)
          /\ \A l \in 1..Len(t) : t[l] = t[j] => l = j
      BY <2>2 DEF Proper
    <2>4. ASSUME NEW l \in 1..Len(u), u[l] = u[k] PROVE l = k
      <3>1. CASE l \in 1..Len(s)
        <4>1. u[l] = s[l] /\ s[l] # t[j]
          BY <1>2, <1>3, <2>2, <3>1
        <4> QED BY <2>2, <2>4, <4>1
      <3>2. CASE \E i \in 1..Len(t) : l = Len(s) + i
        <4>1. PICK i \in 1..Len(t) : l = Len(s) + i
          BY <3>2
        <4>2. t[i] = t[j]
          BY <1>2, <2>2, <2>4, <4>1
        <4>3. i = j
          BY <2>3, <4>2
        <4> QED BY <2>1, <4>1, <4>3
      <3> QED BY <1>2, <3>1, <3>2
    <2> QED BY <2>2, <2>3, <2>4
  <1> QED BY <1>2, <1>5, <1>6

\* Part of a frame was applied, or all of it; all its mutations are of one batch.
Applied(p, ms, b, J) == /\ b \in Batches /\ J \subseteq All(b) /\ Carries(ms, b, J)
                        /\ \E k \in 0..Len(ms) : p = SubSeq(ms, 1, k)
Only(p, b) == \A k \in 1..Len(p) : p[k].batch = b
Holds(p, ms, b, J) == /\ ms \in Seq(Mutations) /\ Idx(ms, b) = J
                      /\ p \in Seq(Mutations) /\ Idx(p, b) \subseteq J /\ Proper(p, b) /\ Only(p, b)

\* The mutations of a frame, and of the part of it that was applied.
LEMMA CarriesHeld ==
    ASSUME NEW b, NEW J, NEW ms, NEW p, Applied(p, ms, b, J)
    PROVE  Holds(p, ms, b, J)
  <1>a. b \in Batches /\ J \subseteq All(b) /\ Carries(ms, b, J)
    BY DEF Applied
  <1>b. PICK k \in 0..Len(ms) : p = SubSeq(ms, 1, k)
    BY DEF Applied
  <1>1. /\ ms \in Seq(Mutations) /\ Len(ms) \in Nat
        /\ \A i, j \in 1..Len(ms) : ms[i] = ms[j] => i = j
        /\ \A i \in 1..Len(ms) : \E x \in J : ms[i] = Mutation(b, x)
        /\ \A x \in J : \E i \in 1..Len(ms) : ms[i] = Mutation(b, x)
    BY <1>a, LenProperties DEF Carries
  <1>2. \A x \in J : /\ Mutation(b, x) \in Mutations
                     /\ Mutation(b, x).batch = b /\ Mutation(b, x).index = x
    BY <1>a, MutationFacts DEF All
  <1>3. \A i \in 1..Len(ms) : /\ ms[i].batch = b /\ ms[i].index \in J
                              /\ ms[i] = Mutation(b, ms[i].index)
    BY <1>1, <1>2
  <1>4. Idx(ms, b) = J
    <2>1. ASSUME NEW x PROVE x \in Idx(ms, b) <=> x \in J
      <3>1. ASSUME x \in Idx(ms, b) PROVE x \in J
        <4>1. PICK i \in 1..Len(ms) : ms[i].batch = b /\ ms[i].index = x
          BY <3>1, IdxIn
        <4> QED BY <1>3, <4>1
      <3>2. ASSUME x \in J PROVE x \in Idx(ms, b)
        <4>1. PICK i \in 1..Len(ms) : ms[i] = Mutation(b, x)
          BY <1>1, <3>2
        <4>2. ms[i].batch = b /\ ms[i].index = x
          BY <1>2, <3>2, <4>1
        <4> QED BY <4>2, IdxIn
      <3> QED BY <3>1, <3>2
    <2> QED BY <2>1
  <1>6. /\ p \in Seq(Mutations) /\ Len(p) = k /\ k \in Nat
        /\ \A i \in 1..k : i \in 1..Len(ms) /\ p[i] = ms[i]
    <2>1. \A i \in 1..k : i \in 1..Len(ms) /\ ms[i] \in Mutations
      BY <1>1, <1>b, ElementOfSeq
    <2>2. p \in Seq(Mutations)
      BY <2>1, <1>b, SubSeqProperties
    <2>3. Len(p) = IF 1 <= k THEN k - 1 + 1 ELSE 0
      BY <1>1, <2>1, <1>b, SubSeqProperties
    <2>4. \A i \in 1..(k - 1 + 1) : p[i] = ms[1 + i - 1]
      BY <1>1, <2>1, <1>b, SubSeqProperties
    <2>5. k - 1 + 1 = k /\ \A i \in 1..k : 1 + i - 1 = i
      BY <1>1
    <2> QED BY <1>1, <2>1, <2>2, <2>3, <2>4, <2>5
  <1>7. Proper(p, b)
    <2>1. ASSUME NEW i \in 1..Len(p)
          PROVE  /\ p[i].index \in All(b) /\ p[i] = Mutation(b, p[i].index)
                 /\ \A j \in 1..Len(p) : p[j] = p[i] => j = i
      <3>1. i \in 1..Len(ms) /\ p[i] = ms[i]
        BY <1>6
      <3>2. ASSUME NEW j \in 1..Len(p), p[j] = p[i] PROVE j = i
        <4>1. j \in 1..Len(ms) /\ p[j] = ms[j]
          BY <1>6
        <4> QED BY <1>1, <3>1, <3>2, <4>1
      <3> QED BY <1>a, <1>3, <3>1, <3>2
    <2> QED BY <2>1 DEF Proper
  <1>8. Idx(p, b) \subseteq J
    <2>1. SUFFICES ASSUME NEW x, x \in Idx(p, b) PROVE x \in J
      OBVIOUS
    <2>3. PICK i \in 1..Len(p) : p[i].batch = b /\ p[i].index = x
      BY <2>1 DEF Idx
    <2>2. i \in 1..k /\ p[i].index = x
      BY <1>6, <2>3
    <2> QED BY <1>3, <1>6, <2>2
  <1>9. Only(p, b)
    BY <1>3, <1>6 DEF Only
  <1> QED BY <1>1, <1>4, <1>6, <1>7, <1>8, <1>9 DEF Holds

\* A frame of nobody holds nothing of a batch.
LEMMA ForeignHeld ==
    ASSUME NEW ms \in Seq(Mutations), Foreign(ms), NEW k \in 0..Len(ms), NEW p, p = SubSeq(ms, 1, k)
    PROVE  /\ p \in Seq(Mutations) /\ Foreign(p)
           /\ \A b \in Batches : /\ Idx(ms, b) = {} /\ Proper(ms, b)
                                 /\ Idx(p, b) = {} /\ Proper(p, b)
  <1>1. Len(ms) \in Nat
    BY LenProperties
  <1>6. /\ p \in Seq(Mutations) /\ Len(p) = k /\ k \in Nat
        /\ \A i \in 1..k : i \in 1..Len(ms) /\ p[i] = ms[i]
    <2>1. \A i \in 1..k : i \in 1..Len(ms) /\ ms[i] \in Mutations
      BY <1>1, ElementOfSeq
    <2>2. p \in Seq(Mutations)
      BY <2>1, SubSeqProperties
    <2>3. Len(p) = IF 1 <= k THEN k - 1 + 1 ELSE 0
      BY <1>1, <2>1, SubSeqProperties
    <2>4. \A i \in 1..(k - 1 + 1) : p[i] = ms[1 + i - 1]
      BY <1>1, <2>1, SubSeqProperties
    <2>5. k - 1 + 1 = k /\ \A i \in 1..k : 1 + i - 1 = i
      BY <1>1
    <2> QED BY <1>1, <2>1, <2>2, <2>3, <2>4, <2>5
  <1>7. Foreign(p)
    BY <1>6 DEF Foreign
  <1>8. ASSUME NEW b \in Batches, NEW s, Foreign(s) PROVE Idx(s, b) = {} /\ Proper(s, b)
    <2>1. \A i \in 1..Len(s) : s[i].batch # b
      BY <1>8, FacadeAssumption DEF Foreign
    <2> QED BY <2>1, IdxNone DEF Proper
  <1> QED BY <1>6, <1>7, <1>8

\* Nothing holds nothing.
LEMMA EmptyHeld ==
    ASSUME NEW b PROVE Idx(<<>>, b) = {} /\ Proper(<<>>, b)
  <1>1. Len(<<>>) = 0
    BY EmptySeq
  <1> QED BY <1>1, IdxNone DEF Proper

-----------------------------------------------------------------------------
(* The pipeline.                                                           *)

\* Two commands that differ in their ticket and their flags alone.
Similar(c, d) == c.op = d.op /\ c.from = d.from /\ c.mutations = d.mutations

\* The commands of the second pipeline, some of them, in their order.
Thins(q2, r2, q, r) ==
    \E f \in [Slots(q2, r2) -> Slots(q, r)] :
        /\ \A i \in Slots(q2, r2) : Similar(At(q2, r2, i), At(q, r, f[i]))
        /\ \A i, j \in Slots(q2, r2) : i < j => f[i] < f[j]

\* Slots are numbers.
LEMMA SlotsAre ==
    ASSUME NEW q, NEW r, NEW i \in Slots(q, r), Len(q) \in Nat
    PROVE  i \in Nat /\ (i = 0 => r # None) /\ (i # 0 => i \in 1..Len(q))
  BY DEF Slots

\* A thinner pipeline is as good, as long as its frame is of the same batch beside
\* the same store, and its commits find a clean one.
LEMMA PipeKept ==
    ASSUME NEW q, NEW r, NEW bt, NEW st, NEW tl, PipeOK(q, r, bt, st, tl), Len(q) \in Nat,
           NEW q2, NEW r2, Thins(q2, r2, q, r), Len(q2) \in Nat,
           NEW bt2, NEW st2, NEW tl2,
           Frames(q2, r2) # {} /\ Frames(q, r) # {} =>
               bt2 = bt /\ Idx(st2, bt.id) = Idx(st, bt.id),
           CommitSlots(q2, r2) # {} /\ CommitSlots(q, r) # {} => Clean(st2, tl2)
    PROVE  PipeOK(q2, r2, bt2, st2, tl2)
  <1>1. PICK f \in [Slots(q2, r2) -> Slots(q, r)] :
           /\ \A i \in Slots(q2, r2) : Similar(At(q2, r2, i), At(q, r, f[i]))
           /\ \A i, j \in Slots(q2, r2) : i < j => f[i] < f[j]
    BY Zenon DEF Thins
  <1>2. \A i \in Slots(q2, r2) : f[i] \in Slots(q, r) /\ f[i] \in Nat /\ i \in Nat
    BY SlotsAre
  <1>3. ASSUME NEW i \in Frames(q2, r2)
        PROVE  i \in Slots(q2, r2) /\ f[i] \in Frames(q, r)
    BY <1>1, <1>2, <1>3 DEF Frames, Similar
  <1>4. ASSUME NEW i \in CommitSlots(q2, r2)
        PROVE  i \in Slots(q2, r2) /\ f[i] \in CommitSlots(q, r)
    BY <1>1, <1>2, <1>4 DEF CommitSlots, Similar
  <1>5. ASSUME NEW i \in Slots(q2, r2)
        PROVE  IF At(q2, r2, i).from = "batch" THEN FrameOf(bt2, st2, At(q2, r2, i).mutations)
               ELSE Foreign(At(q2, r2, i).mutations)
    <2>1. /\ f[i] \in Slots(q, r) /\ At(q2, r2, i).from = At(q, r, f[i]).from
          /\ At(q2, r2, i).mutations = At(q, r, f[i]).mutations
      BY <1>1, <1>2 DEF Similar
    <2>2. IF At(q, r, f[i]).from = "batch" THEN FrameOf(bt, st, At(q, r, f[i]).mutations)
          ELSE Foreign(At(q, r, f[i]).mutations)
      BY <2>1 DEF PipeOK
    <2>3. CASE At(q2, r2, i).from = "batch"
      <3>1. i \in Frames(q2, r2)
        BY <2>3 DEF Frames
      <3>2. bt2 = bt /\ Idx(st2, bt.id) = Idx(st, bt.id)
        BY <1>3, <3>1
      <3>3. FrameOf(bt, st, At(q2, r2, i).mutations)
        BY <2>1, <2>2, <2>3
      <3>4. FrameOf(bt2, st2, At(q2, r2, i).mutations)
        BY <3>2, <3>3 DEF FrameOf
      <3> QED BY <2>3, <3>4
    <2>4. CASE At(q2, r2, i).from # "batch"
      BY <2>1, <2>2, <2>4
    <2> QED BY <2>3, <2>4
  <1>6. ASSUME NEW i \in Frames(q2, r2), NEW j \in Frames(q2, r2) PROVE i = j
    <2>1. f[i] = f[j]
      BY <1>3 DEF PipeOK
    <2>2. i \in Slots(q2, r2) /\ j \in Slots(q2, r2)
      BY <1>3
    <2> QED BY <1>1, <1>2, <2>1, <2>2
  <1>7. ASSUME NEW i \in CommitSlots(q2, r2)
        PROVE  Clean(st2, tl2) /\ \A j \in Frames(q2, r2) : i < j
    <2>1. f[i] \in CommitSlots(q, r) /\ i \in Slots(q2, r2)
      BY <1>4
    <2>2. ASSUME NEW j \in Frames(q2, r2) PROVE i < j
      <3>1. f[i] < f[j] /\ j \in Slots(q2, r2)
        BY <1>3, <2>1 DEF PipeOK
      <3> QED BY <1>1, <1>2, <2>1, <3>1
    <2> QED BY <2>1, <2>2
  <1> QED BY <1>5, <1>6, <1>7 DEF PipeOK

\* A pipeline that takes one more command.
LEMMA PipeAppend ==
    ASSUME NEW q \in Seq(Commands), NEW r, NEW bt, NEW st, NEW tl, PipeOK(q, r, bt, st, tl),
           NEW c \in Commands, NEW bt2,
           c.from = "batch" => Frames(q, r) = {} /\ FrameOf(bt2, st, c.mutations) /\ c.op = "apply",
           c.from # "batch" => bt2 = bt /\ Foreign(c.mutations),
           c.op \in {"commit", "publish"} => Clean(st, tl) /\ Frames(q, r) = {}
    PROVE  PipeOK(Append(q, c), r, bt2, st, tl)
  <1>1. PICK p : p = Append(q, c)
    OBVIOUS
  <1>2. PICK n \in Nat : n = Len(q)
    BY LenProperties
  <1>3. /\ Len(p) = n + 1 /\ p[n + 1] = c /\ \A i \in 1..n : p[i] = q[i]
    BY <1>1, <1>2, AppendFacts
  <1>4. /\ Slots(p, r) = Slots(q, r) \cup {n + 1}
        /\ \A i \in Slots(q, r) : At(p, r, i) = At(q, r, i) /\ i < n + 1 /\ i \in Nat
        /\ At(p, r, n + 1) = c
    <2>1. Slots(p, r) = {i \in 0..(n + 1) : i = 0 => r # None} /\ Slots(q, r) = {i \in 0..n : i = 0 => r # None}
      BY <1>2, <1>3 DEF Slots
    <2>2. Slots(p, r) = Slots(q, r) \cup {n + 1}
      BY <2>1
    <2>3. ASSUME NEW i \in Slots(q, r) PROVE At(p, r, i) = At(q, r, i) /\ i < n + 1 /\ i \in Nat
      BY <1>3, <2>1, <2>3 DEF At
    <2>4. At(p, r, n + 1) = c
      BY <1>3 DEF At
    <2> QED BY <2>2, <2>3, <2>4
  <1>5. /\ \A i \in Frames(p, r) : i \in Frames(q, r) \/ (i = n + 1 /\ c.from = "batch")
        /\ \A i \in CommitSlots(p, r) : i \in CommitSlots(q, r)
                                        \/ (i = n + 1 /\ c.op \in {"commit", "publish"})
        /\ \A i \in CommitSlots(q, r) : i < n + 1
    BY <1>4 DEF Frames, CommitSlots
  <1>6. ASSUME NEW i \in Slots(p, r)
        PROVE  IF At(p, r, i).from = "batch" THEN FrameOf(bt2, st, At(p, r, i).mutations)
               ELSE Foreign(At(p, r, i).mutations)
    <2>1. CASE i = n + 1
      BY <1>4, <2>1
    <2>2. CASE i \in Slots(q, r)
      <3>1. IF At(q, r, i).from = "batch" THEN FrameOf(bt, st, At(q, r, i).mutations)
            ELSE Foreign(At(q, r, i).mutations)
        BY <2>2 DEF PipeOK
      <3>2. At(q, r, i).from = "batch" => i \in Frames(q, r)
        BY <2>2 DEF Frames
      <3>3. At(q, r, i).from = "batch" => bt2 = bt
        BY <3>2
      <3> QED BY <1>4, <2>2, <3>1, <3>3
    <2> QED BY <1>4, <2>1, <2>2
  <1>7. ASSUME NEW i \in Frames(p, r), NEW j \in Frames(p, r) PROVE i = j
    BY <1>5 DEF PipeOK
  <1>8. ASSUME NEW i \in CommitSlots(p, r) PROVE Clean(st, tl) /\ \A j \in Frames(p, r) : i < j
    <2>1. CASE i \in CommitSlots(q, r)
      BY <1>5, <2>1 DEF PipeOK
    <2>2. CASE i = n + 1 /\ c.op \in {"commit", "publish"}
      BY <1>5, <2>2
    <2> QED BY <1>5, <2>1, <2>2
  <1>9. PipeOK(p, r, bt2, st, tl)
    BY <1>6, <1>7, <1>8 DEF PipeOK
  <1> QED BY <1>1, <1>9

\* A queue that keeps some of its commands, in their order, beside a writer that
\* has answered its command or still has it.
LEMMA ThinsBy ==
    ASSUME NEW q, NEW q2, NEW r, NEW r2, Len(q) \in Nat, Len(q2) \in Nat,
           r2 # None => r # None /\ Similar(r2, r),
           NEW g \in [1..Len(q2) -> 1..Len(q)],
           \A i \in 1..Len(q2) : Similar(q2[i], q[g[i]]),
           \A i, j \in 1..Len(q2) : i < j => g[i] < g[j]
    PROVE  Thins(q2, r2, q, r)
  <1> DEFINE f == [i \in Slots(q2, r2) |-> IF i = 0 THEN 0 ELSE g[i]]
  <1>1. ASSUME NEW i \in Slots(q2, r2)
        PROVE  /\ i \in Nat /\ (i = 0 => r2 # None) /\ (i # 0 => i \in 1..Len(q2))
               /\ f[i] = IF i = 0 THEN 0 ELSE g[i]
    BY <1>1, SlotsAre
  <1>2. ASSUME NEW i \in Slots(q2, r2)
        PROVE  f[i] \in Slots(q, r) /\ f[i] \in Nat /\ (i # 0 => f[i] > 0)
    BY <1>1 DEF Slots
  <1>3. f \in [Slots(q2, r2) -> Slots(q, r)]
    BY <1>2
  <1>4. ASSUME NEW i \in Slots(q2, r2) PROVE Similar(At(q2, r2, i), At(q, r, f[i]))
    <2>1. CASE i = 0
      BY <1>1, <2>1 DEF At
    <2>2. CASE i # 0
      <3>1. At(q2, r2, i) = q2[i] /\ f[i] = g[i] /\ f[i] # 0
        BY <1>1, <1>2, <2>2 DEF At
      <3>2. At(q, r, f[i]) = q[g[i]]
        BY <3>1 DEF At
      <3> QED BY <1>1, <2>2, <3>1, <3>2
    <2> QED BY <2>1, <2>2
  <1>5. ASSUME NEW i \in Slots(q2, r2), NEW j \in Slots(q2, r2), i < j PROVE f[i] < f[j]
    <2>1. j # 0
      BY <1>1, <1>5
    <2>2. CASE i = 0
      BY <1>1, <1>2, <2>1, <2>2
    <2>3. CASE i # 0
      BY <1>1, <1>5, <2>1, <2>3
    <2> QED BY <2>2, <2>3
  <1> HIDE DEF f
  <1> QED BY <1>3, <1>4, <1>5 DEF Thins

\* The queue stays as it is.
LEMMA ThinsSame ==
    ASSUME NEW q, NEW r, NEW r2, Len(q) \in Nat, r2 # None => r # None /\ Similar(r2, r)
    PROVE  Thins(q, r2, q, r)
  <1>1. PICK g : g = [i \in 1..Len(q) |-> i]
    OBVIOUS
  <1>2. g \in [1..Len(q) -> 1..Len(q)] /\ \A i \in 1..Len(q) : g[i] = i
    BY <1>1
  <1>3. \A i \in 1..Len(q) : Similar(q[i], q[g[i]])
    BY <1>2 DEF Similar
  <1>4. \A i, j \in 1..Len(q) : i < j => g[i] < g[j]
    BY <1>2
  <1> QED BY <1>2, <1>3, <1>4, ThinsBy

\* Nothing is left.
LEMMA ThinsEmpty ==
    ASSUME NEW q, NEW r, Len(q) \in Nat
    PROVE  Thins(<<>>, None, q, r)
  <1>1. PICK e : e = <<>>
    OBVIOUS
  <1>2. Len(e) = 0
    BY <1>1, EmptySeq
  <1>3. PICK g : g = [i \in 1..0 |-> 1]
    OBVIOUS
  <1>4. g \in [1..0 -> 1..Len(q)]
    BY <1>3
  <1>5. Len(e) \in Nat /\ g \in [1..Len(e) -> 1..Len(q)] /\ \A i \in 1..Len(e) : FALSE
    BY <1>2, <1>4
  <1>6. Thins(e, None, q, r)
    BY <1>5, ThinsBy
  <1> QED BY <1>1, <1>6

\* Runtime::poison keeps a close.
LEMMA ThinsKept ==
    ASSUME NEW q \in Seq(Commands), NEW r, NEW r2, r2 # None => r # None /\ Similar(r2, r)
    PROVE  Thins(Kept(q), r2, q, r) /\ Len(Kept(q)) \in Nat
  <1>1. PICK p : p = Kept(q)
    OBVIOUS
  <1>2. Len(q) \in Nat
    BY LenProperties
  <1>3. CASE p = <<>>
    <2>1. Len(p) = 0
      BY <1>3, EmptySeq
    <2>2. PICK g : g = [i \in 1..0 |-> 1]
      OBVIOUS
    <2>3. Len(p) \in Nat /\ g \in [1..Len(p) -> 1..Len(q)] /\ \A i \in 1..Len(p) : FALSE
      BY <2>1, <2>2
    <2>4. Thins(p, r2, q, r)
      BY <1>2, <2>3, ThinsBy
    <2> QED BY <1>1, <2>1, <2>4
  <1>4. CASE p # <<>>
    <2>1. PICK k \in 1..Len(q), c \in Commands :
             p = <<c>> /\ c.op = q[k].op /\ c.from = q[k].from /\ c.mutations = q[k].mutations
      <3>1. \E k \in 1..Len(q), c \in Commands :
               /\ q[k].op = "close" /\ Kept(q) = <<c>>
               /\ c.op = "close" /\ c.from = q[k].from /\ c.rollback = TRUE
               /\ c.mutations = q[k].mutations /\ c.panicked = q[k].panicked /\ c.t = q[k].t
        BY <1>1, <1>4, KeptFacts
      <3>2. PICK k \in 1..Len(q), c \in Commands :
               /\ q[k].op = "close" /\ Kept(q) = <<c>>
               /\ c.op = "close" /\ c.from = q[k].from /\ c.mutations = q[k].mutations
        BY <3>1
      <3> QED BY <1>1, <3>2
    <2>2. Len(p) = 1 /\ p[1] = c
      BY <2>1
    <2>3. PICK g : g = [i \in 1..1 |-> k]
      OBVIOUS
    <2>4. Len(p) \in Nat /\ g \in [1..Len(p) -> 1..Len(q)]
      BY <2>2, <2>3
    <2>5. \A i \in 1..Len(p) : i = 1 /\ g[i] = k
      BY <2>2, <2>3
    <2>6. \A i \in 1..Len(p) : Similar(p[i], q[g[i]])
      BY <2>1, <2>2, <2>5 DEF Similar
    <2>7. Thins(p, r2, q, r)
      BY <1>2, <2>4, <2>5, <2>6, ThinsBy
    <2> QED BY <1>1, <2>4, <2>7
  <1> QED BY <1>3, <1>4

\* The writer takes the head of the queue.
LEMMA ThinsPop ==
    ASSUME NEW q \in Seq(Commands), q # <<>>, NEW c, c # None, Similar(c, q[1])
    PROVE  Thins(Tail(q), c, q, None) /\ Len(Tail(q)) \in Nat
  <1>1. PICK p : p = Tail(q)
    OBVIOUS
  <1>2. PICK n \in Nat \ {0} : n = Len(q)
    BY TailFacts
  <1>3. Len(p) = n - 1 /\ \A i \in 1..(n - 1) : p[i] = q[i + 1]
    BY <1>1, <1>2, TailFacts
  <1> DEFINE f == [i \in Slots(p, c) |-> i + 1]
  <1>4. Slots(p, c) = 0..(n - 1) /\ Slots(q, None) = 1..n
    BY <1>2, <1>3 DEF Slots
  <1>5. \A i \in 0..(n - 1) : f[i] = i + 1
    BY <1>4
  <1>6. f \in [Slots(p, c) -> Slots(q, None)]
    BY <1>2, <1>4
  <1>7. ASSUME NEW i \in Slots(p, c) PROVE Similar(At(p, c, i), At(q, None, f[i]))
    <2>1. f[i] = i + 1 /\ i \in 0..(n - 1) /\ i + 1 # 0
      BY <1>2, <1>4, <1>5
    <2>2. At(q, None, f[i]) = q[i + 1]
      BY <2>1 DEF At
    <2>3. CASE i = 0
      BY <2>2, <2>3 DEF At
    <2>4. CASE i # 0
      <3>1. At(p, c, i) = p[i] /\ i \in 1..(n - 1)
        BY <1>2, <2>1, <2>4 DEF At
      <3> QED BY <1>3, <2>2, <3>1 DEF Similar
    <2> QED BY <2>3, <2>4
  <1>8. \A i, j \in Slots(p, c) : i < j => f[i] < f[j]
    BY <1>2, <1>4, <1>5
  <1> HIDE DEF f
  <1>9. Thins(p, c, q, None)
    BY <1>6, <1>7, <1>8 DEF Thins
  <1> QED BY <1>1, <1>2, <1>3, <1>9

\* The frame of a batch is the only one, and no commit waits behind it.
LEMMA FrameRuns ==
    ASSUME NEW q, NEW r, NEW bt, NEW st, NEW tl, PipeOK(q, r, bt, st, tl), Len(q) \in Nat,
           r # None, r.from = "batch"
    PROVE  Frames(q, None) = {} /\ CommitSlots(q, r) = {} /\ FrameOf(bt, st, r.mutations)
  <1>1. 0 \in Slots(q, r) /\ At(q, r, 0) = r
    BY DEF Slots, At
  <1>2. 0 \in Frames(q, r)
    BY <1>1 DEF Frames
  <1>3. ASSUME NEW i \in Frames(q, None) PROVE FALSE
    <2>1. i \in Slots(q, None) /\ At(q, None, i).from = "batch"
      BY DEF Frames
    <2>2. i # 0 /\ i \in Slots(q, r) /\ At(q, r, i) = At(q, None, i)
      BY <2>1 DEF Slots, At
    <2>3. i \in Frames(q, r)
      BY <2>1, <2>2 DEF Frames
    <2> QED BY <1>2, <2>2, <2>3 DEF PipeOK
  <1>4. ASSUME NEW i \in CommitSlots(q, r) PROVE FALSE
    <2>1. i \in Slots(q, r) /\ i < 0
      BY <1>2 DEF CommitSlots, PipeOK
    <2> QED BY <2>1, SlotsAre
  <1>5. FrameOf(bt, st, r.mutations)
    BY <1>1 DEF PipeOK
  <1> QED BY <1>3, <1>4, <1>5

\* A frame in the pipeline is awaited by the batch that runs.
LEMMA FramesAwaited ==
    ASSUME NEW q, NEW r, NEW bt, NEW st, NEW tl, PipeOK(q, r, bt, st, tl), Frames(q, r) # {}
    PROVE  bt # None /\ bt.reply = "none"
  BY DEF PipeOK, Frames, FrameOf

-----------------------------------------------------------------------------
(* The store.                                                              *)

\* The answer to a batch, and a handle that goes, change nothing of the store.
LEMMA StoreKept ==
    ASSUME NEW b, NEW cm, NEW st, NEW t, NEW bt, NEW nat, StoreOK(b, cm, st, t, bt, nat),
           NEW bt2, NEW nat2, bt # None => bt2 # None /\ bt2.id = bt.id, nat = "gone" => nat2 = "gone"
    PROVE  StoreOK(b, cm, st, t, bt2, nat2)
  BY DEF StoreOK

\* The writer takes in mutations that are not of batch b.
LEMMA StoreAside ==
    ASSUME NEW b, NEW cm, NEW st \in Seq(Mutations), NEW t, NEW bt, NEW nat, StoreOK(b, cm, st, t, bt, nat),
           NEW p \in Seq(Mutations), Idx(p, b) = {}
    PROVE  StoreOK(b, cm, st \o p, t, bt, nat) /\ Idx(st \o p, b) = Idx(st, b)
  <1>1. Idx(st \o p, b) = Idx(st, b)
    <2>1. Adds(st \o p, st, p, b)
      BY IdxConcat
    <2> QED BY <2>1 DEF Adds
  <1>2. Proper(p, b)
    BY IdxNone DEF Proper
  <1>3. Proper(st \o p, b)
    BY <1>2, ProperConcat DEF StoreOK
  <1> QED BY <1>1, <1>3 DEF StoreOK

\* The writer takes in mutations of the batch that runs.
LEMMA StoreFrame ==
    ASSUME NEW b, NEW cm, NEW st \in Seq(Mutations), NEW t, NEW bt, NEW nat, StoreOK(b, cm, st, t, bt, nat),
           t = "none", bt # None, bt.id = b,
           NEW p \in Seq(Mutations), Proper(p, b), Idx(st, b) \cap Idx(p, b) = {}
    PROVE  StoreOK(b, cm, st \o p, t, bt, nat)
  <1>1. Proper(st \o p, b)
    BY ProperConcat DEF StoreOK
  <1> QED BY <1>1 DEF StoreOK

\* What a sequence holds of a batch are records of its plan.
LEMMA ProperIdx ==
    ASSUME NEW s, NEW b, Proper(s, b)
    PROVE  Idx(s, b) \subseteq All(b)
  BY DEF Proper, Idx

\* A commit that finds whole batches makes whole batches durable.
LEMMA StoreCommit ==
    ASSUME NEW b, NEW cm \in Seq(Mutations), NEW st \in Seq(Mutations), NEW tl, NEW bt, NEW nat,
           StoreOK(b, cm, st, tl[b], bt, nat), Clean(st, tl), b # None, nat # "gone"
    PROVE  /\ StoreOK(b, cm \o st, <<>>, tl[b], bt, nat)
           /\ Idx(cm \o st, b) = Idx(cm, b) \cup Idx(st, b)
           /\ Idx(st, b) # {} => Idx(st, b) = All(b) /\ tl[b] = "done" /\ Idx(cm, b) = {}
  <1>1. Idx(cm \o st, b) = Idx(cm, b) \cup Idx(st, b)
    <2>1. Adds(cm \o st, cm, st, b)
      BY IdxConcat
    <2> QED BY <2>1 DEF Adds
  <1>2. Idx(cm, b) \cap Idx(st, b) = {}
    BY DEF StoreOK
  <1>3. Proper(cm \o st, b)
    BY <1>2, ProperConcat DEF StoreOK
  <1>4. Idx(<<>>, b) = {} /\ Proper(<<>>, b)
    BY EmptyHeld
  <1>5. Idx(st, b) \subseteq All(b) /\ Idx(cm, b) \subseteq All(b)
    BY ProperIdx DEF StoreOK
  <1>6. Idx(st, b) # {} => tl[b] = "done"
    <2>1. ASSUME Idx(st, b) # {} PROVE tl[b] = "done"
      <3>1. PICK k \in 1..Len(st) : st[k].batch = b
        BY <2>1, IdxNone
      <3> QED BY <3>1 DEF Clean
    <2> QED BY <2>1
  <1>7. Idx(st, b) # {} => Idx(st, b) = All(b) /\ Idx(cm, b) = {}
    BY <1>5, <1>6 DEF StoreOK
  <1>8. PICK e : e = <<>>
    OBVIOUS
  <1>9. Idx(e, b) = {} /\ Proper(e, b)
    BY <1>4, <1>8
  <1>10. PICK u : u = cm \o st
    OBVIOUS
  <1>11. Proper(u, b) /\ Idx(u, b) = Idx(cm, b) \cup Idx(st, b)
    BY <1>1, <1>3, <1>10
  <1>12. StoreOK(b, u, e, tl[b], bt, nat)
    <2>1. Idx(u, b) \in {{}, All(b)}
      BY <1>7, <1>11 DEF StoreOK
    <2>2. tl[b] # "done" => Idx(u, b) = {}
      BY <1>6, <1>11 DEF StoreOK
    <2>3. tl[b] = "done" => Idx(u, b) = All(b)
      BY <1>5, <1>7, <1>11 DEF StoreOK
    <2> QED BY <1>9, <1>11, <2>1, <2>2, <2>3 DEF StoreOK
  <1> QED BY <1>1, <1>6, <1>7, <1>8, <1>10, <1>12

\* What was not committed is lost with the handle.
LEMMA StoreLost ==
    ASSUME NEW b, NEW cm, NEW st, NEW t, NEW bt, NEW nat, StoreOK(b, cm, st, t, bt, nat), NEW bt2
    PROVE  StoreOK(b, cm, <<>>, t, bt2, "gone")
  <1>1. PICK e : e = <<>>
    OBVIOUS
  <1>2. Idx(e, b) = {} /\ Proper(e, b)
    BY <1>1, EmptyHeld
  <1>3. StoreOK(b, cm, e, t, bt2, "gone")
    BY <1>2 DEF StoreOK
  <1> QED BY <1>1, <1>3

\* A clean store stays clean beside mutations of nobody.
LEMMA CleanForeign ==
    ASSUME NEW st \in Seq(Mutations), NEW p \in Seq(Mutations), NEW tl, Clean(st, tl), Foreign(p)
    PROVE  Clean(st \o p, tl)
  <1>1. PICK u : u = st \o p
    OBVIOUS
  <1>2. /\ \A k \in 1..Len(st) : u[k] = st[k]
        /\ \A k \in 1..Len(p) : u[Len(st) + k] = p[k]
        /\ \A k \in 1..Len(u) : k \in 1..Len(st) \/ \E j \in 1..Len(p) : k = Len(st) + j
    BY <1>1, ConcatElements
  <1>3. ASSUME NEW k \in 1..Len(u), u[k].batch # None PROVE tl[u[k].batch] = "done"
    <2>1. CASE k \in 1..Len(st)
      <3>1. u[k] = st[k]
        BY <1>2, <2>1
      <3> QED BY <1>3, <2>1, <3>1 DEF Clean
    <2>2. CASE \E j \in 1..Len(p) : k = Len(st) + j
      <3>1. PICK j \in 1..Len(p) : k = Len(st) + j
        BY <2>2
      <3>2. u[k] = p[j]
        BY <1>2, <3>1
      <3> QED BY <1>3, <3>2 DEF Foreign
    <2> QED BY <1>2, <2>1, <2>2
  <1>4. Clean(u, tl)
    BY <1>3 DEF Clean
  <1> QED BY <1>1, <1>4

\* A store with mutations of the batch that runs, or of nobody.
LEMMA DirtConcat ==
    ASSUME NEW st \in Seq(Mutations), NEW p \in Seq(Mutations), NEW ls, NEW bt, NEW tl,
           DirtOK(ls, bt, st, tl),
           \A k \in 1..Len(p) : p[k].batch = None \/ (bt # None /\ bt.id = p[k].batch)
    PROVE  DirtOK(ls, bt, st \o p, tl)
  <1>1. PICK u : u = st \o p
    OBVIOUS
  <1>2. /\ \A k \in 1..Len(st) : u[k] = st[k]
        /\ \A k \in 1..Len(p) : u[Len(st) + k] = p[k]
        /\ \A k \in 1..Len(u) : k \in 1..Len(st) \/ \E j \in 1..Len(p) : k = Len(st) + j
    BY <1>1, ConcatElements
  <1>3. ASSUME ls # "incomplete", NEW k \in 1..Len(u)
        PROVE  u[k].batch = None \/ (bt # None /\ bt.id = u[k].batch) \/ tl[u[k].batch] = "done"
    <2>1. CASE k \in 1..Len(st)
      <3>1. u[k] = st[k]
        BY <1>2, <2>1
      <3> QED BY <1>3, <2>1, <3>1 DEF DirtOK
    <2>2. CASE \E j \in 1..Len(p) : k = Len(st) + j
      <3>1. PICK j \in 1..Len(p) : k = Len(st) + j
        BY <2>2
      <3>2. u[k] = p[j]
        BY <1>2, <3>1
      <3> QED BY <3>2
    <2> QED BY <1>2, <2>1, <2>2
  <1>4. DirtOK(ls, bt, u, tl)
    BY <1>3 DEF DirtOK
  <1> QED BY <1>1, <1>4

-----------------------------------------------------------------------------
(* Steps of the writer.                                                    *)

\* The batch that runs got an answer, or none.
Reanswered(bt, bt2) ==
    \/ bt2 = bt
    \/ /\ bt # None /\ bt2 # None /\ bt2.id = bt.id /\ bt2.attempted = bt.attempted
       /\ Due(bt2) = Due(bt)

\* The pipeline after a step of the writer: thinner, its frame still awaited.
Drains(q2, r2, bt2, q, r, bt) ==
    /\ Len(q) \in Nat /\ Len(q2) \in Nat /\ Thins(q2, r2, q, r)
    /\ Reanswered(bt, bt2)
    /\ Frames(q2, r2) # {} => bt2 = bt

\* The writer takes in mutations of a direct call.
TakesForeign(bt, tl, ls, cl, nat, q, r, st, cm, bt2, q2, r2, st2, p) ==
    /\ Whole(bt, tl, ls, cl, nat, q, r, st, cm) /\ nat # "gone"
    /\ Drains(q2, r2, bt2, q, r, bt) /\ (bt2 # bt => bt2.reply # "ok")
    /\ st \in Seq(Mutations) /\ p \in Seq(Mutations) /\ Foreign(p) /\ st2 = st \o p

\* The writer takes in mutations of the frame of the batch that runs.
TakesFrame(bt, tl, ls, cl, nat, q, r, st, cm, bt2, q2, r2, st2, p) ==
    /\ Whole(bt, tl, ls, cl, nat, q, r, st, cm) /\ nat # "gone"
    /\ Drains(q2, r2, bt2, q, r, bt) /\ bt # None /\ bt2 # bt
    /\ Frames(q2, r2) = {} /\ CommitSlots(q, r) = {}
    /\ st \in Seq(Mutations) /\ p \in Seq(Mutations) /\ st2 = st \o p
    /\ Proper(p, bt.id) /\ Only(p, bt.id) /\ Idx(st, bt.id) \cap Idx(p, bt.id) = {}
    /\ bt2.reply = "ok" => Idx(st2, bt.id) = All(bt.id) \ Due(bt)

\* The writer commits.
TakesCommit(bt, tl, ls, cl, nat, q, r, st, cm, bt2, q2, r2, st2, cm2) ==
    /\ Whole(bt, tl, ls, cl, nat, q, r, st, cm) /\ nat # "gone" /\ CommitSlots(q, r) # {}
    /\ Drains(q2, r2, bt2, q, r, bt) /\ (bt2 # bt => bt2.reply # "ok")
    /\ st \in Seq(Mutations) /\ cm \in Seq(Mutations) /\ st2 = <<>> /\ cm2 = cm \o st

\* Two stores that hold the same of every batch but b; a commit.
SameBut(st2, st, b) == \A c \in Batches : c # b => Idx(st2, c) = Idx(st, c)
Moves(cm2, st2, cm, st, tl) == \A b \in Batches :
    /\ Idx(cm2, b) = Idx(cm, b) \cup Idx(st, b) /\ Idx(st2, b) = {}
    /\ Idx(st, b) # {} => Idx(st, b) = All(b) /\ tl[b] = "done" /\ Idx(cm, b) = {}

\* The store stays as it is.
LEMMA WholeSame ==
    ASSUME NEW bt, NEW tl, NEW ls, NEW cl, NEW nat, NEW q, NEW r, NEW st, NEW cm,
           Whole(bt, tl, ls, cl, nat, q, r, st, cm), nat # "gone",
           NEW bt2, NEW nat2, NEW q2, NEW r2, Drains(q2, r2, bt2, q, r, bt),
           bt2 # bt => bt2.reply # "ok"
    PROVE  Whole(bt2, tl, ls, cl, nat2, q2, r2, st, cm)
  <1>1. (bt # None <=> bt2 # None) /\ (bt # None => bt2.id = bt.id)
    BY DEF Drains, Reanswered
  <1>2. RunOK(bt2, tl, ls, cl, nat2, st)
    BY DEF Whole, RunOK, Drains, Reanswered
  <1>3. PipeOK(q2, r2, bt2, st, tl)
    <2>1. CommitSlots(q, r) # {} => Clean(st, tl)
      BY DEF Whole, PipeOK
    <2> QED BY <2>1, PipeKept DEF Whole, Drains
  <1>4. DirtOK(ls, bt2, st, tl)
    BY <1>1 DEF Whole, DirtOK
  <1>5. ASSUME NEW b \in Batches PROVE StoreOK(b, cm, st, tl[b], bt2, nat2)
    BY <1>1, StoreKept DEF Whole
  <1> QED BY <1>1, <1>2, <1>3, <1>4, <1>5 DEF Whole

\* It takes in mutations of a direct call.
LEMMA WholeForeign ==
    ASSUME NEW bt, NEW tl, NEW ls, NEW cl, NEW nat, NEW q, NEW r, NEW st, NEW cm,
           NEW bt2, NEW q2, NEW r2, NEW st2, NEW p,
           TakesForeign(bt, tl, ls, cl, nat, q, r, st, cm, bt2, q2, r2, st2, p), NEW nat2
    PROVE  Whole(bt2, tl, ls, cl, nat2, q2, r2, st2, cm) /\ SameBut(st2, st, None)
  <1>0. /\ Whole(bt, tl, ls, cl, nat, q, r, st, cm) /\ nat # "gone"
        /\ Drains(q2, r2, bt2, q, r, bt) /\ (bt2 # bt => bt2.reply # "ok")
        /\ st \in Seq(Mutations) /\ p \in Seq(Mutations) /\ Foreign(p) /\ st2 = st \o p
    BY DEF TakesForeign
  <1> USE <1>0
  <1>1. (bt # None <=> bt2 # None) /\ (bt # None => bt2.id = bt.id /\ bt.id \in Batches)
    BY DEF Drains, Reanswered, Whole
  <1>2. ASSUME NEW b \in Batches
        PROVE  StoreOK(b, cm, st2, tl[b], bt2, nat2) /\ Idx(st2, b) = Idx(st, b)
    <2>1. \A k \in 1..Len(p) : p[k].batch # b
      BY FacadeAssumption DEF Foreign
    <2>2. Idx(p, b) = {}
      BY <2>1, IdxNone
    <2>3. StoreOK(b, cm, st2, tl[b], bt, nat) /\ Idx(st2, b) = Idx(st, b)
      BY <2>2, StoreAside DEF Whole
    <2> QED BY <1>1, <2>3, StoreKept
  <1>3. RunOK(bt2, tl, ls, cl, nat2, st2)
    <2>1. bt # None => Idx(st2, bt.id) = Idx(st, bt.id)
      BY <1>1, <1>2
    <2> QED BY <2>1 DEF Whole, RunOK, Drains, Reanswered
  <1>4. PipeOK(q2, r2, bt2, st2, tl)
    <2>1. CommitSlots(q, r) # {} => Clean(st2, tl)
      BY CleanForeign DEF Whole, PipeOK
    <2>2. Frames(q, r) # {} => bt # None
      BY FramesAwaited DEF Whole
    <2>3. Frames(q2, r2) # {} /\ Frames(q, r) # {} => bt2 = bt /\ Idx(st2, bt.id) = Idx(st, bt.id)
      BY <1>1, <1>2, <2>2 DEF Drains
    <2> QED BY <2>1, <2>3, PipeKept DEF Whole, Drains
  <1>5. DirtOK(ls, bt2, st2, tl)
    <2>1. DirtOK(ls, bt, st2, tl)
      BY DirtConcat DEF Whole, Foreign
    <2> QED BY <1>1, <2>1 DEF DirtOK
  <1> QED BY <1>1, <1>2, <1>3, <1>4, <1>5 DEF Whole, SameBut

\* It takes in mutations of the frame of the batch that runs.
LEMMA WholeFrame ==
    ASSUME NEW bt, NEW tl, NEW ls, NEW cl, NEW nat, NEW q, NEW r, NEW st, NEW cm,
           NEW bt2, NEW q2, NEW r2, NEW st2, NEW p,
           TakesFrame(bt, tl, ls, cl, nat, q, r, st, cm, bt2, q2, r2, st2, p), NEW nat2
    PROVE  Whole(bt2, tl, ls, cl, nat2, q2, r2, st2, cm) /\ SameBut(st2, st, bt.id)
  <1>0. /\ Whole(bt, tl, ls, cl, nat, q, r, st, cm) /\ nat # "gone"
        /\ Drains(q2, r2, bt2, q, r, bt) /\ bt # None /\ bt2 # bt
        /\ Frames(q2, r2) = {} /\ CommitSlots(q, r) = {}
        /\ st \in Seq(Mutations) /\ p \in Seq(Mutations) /\ st2 = st \o p
        /\ Proper(p, bt.id) /\ Only(p, bt.id) /\ Idx(st, bt.id) \cap Idx(p, bt.id) = {}
        /\ bt2.reply = "ok" => Idx(st2, bt.id) = All(bt.id) \ Due(bt)
    BY DEF TakesFrame
  <1> USE <1>0
  <1>1. bt2 # None /\ bt2.id = bt.id /\ bt.id \in Batches /\ tl[bt.id] = "none"
    BY DEF Drains, Reanswered, Whole, RunOK
  <1>3. ASSUME NEW b \in Batches
        PROVE  StoreOK(b, cm, st2, tl[b], bt2, nat2) /\ (b # bt.id => Idx(st2, b) = Idx(st, b))
    <2>1. StoreOK(b, cm, st, tl[b], bt, nat)
      BY DEF Whole
    <2>2. CASE b # bt.id
      <3>1. StoreOK(b, cm, st2, tl[b], bt, nat) /\ Idx(st2, b) = Idx(st, b)
        <4>1. Idx(p, b) = {}
          BY <2>2, IdxNone DEF Only
        <4> QED BY <2>1, <4>1, StoreAside
      <3> QED BY <1>1, <3>1, StoreKept
    <2>3. CASE b = bt.id
      <3>1. StoreOK(b, cm, st2, tl[b], bt, nat)
        BY <1>1, <2>1, <2>3, StoreFrame
      <3> QED BY <1>1, <2>3, <3>1, StoreKept
    <2> QED BY <2>2, <2>3
  <1>4. RunOK(bt2, tl, ls, cl, nat2, st2)
    BY <1>1 DEF Whole, RunOK, Drains, Reanswered
  <1>5. PipeOK(q2, r2, bt2, st2, tl)
    BY PipeKept DEF Whole, Drains
  <1>6. DirtOK(ls, bt2, st2, tl)
    <2>1. \A k \in 1..Len(p) : bt.id = p[k].batch
      BY DEF Only
    <2>2. DirtOK(ls, bt, st2, tl)
      BY <2>1, DirtConcat DEF Whole
    <2> QED BY <1>1, <2>2 DEF DirtOK
  <1> QED BY <1>1, <1>3, <1>4, <1>5, <1>6 DEF Whole, SameBut

\* It commits.
LEMMA WholeCommit ==
    ASSUME NEW bt, NEW tl, NEW ls, NEW cl, NEW nat, NEW q, NEW r, NEW st, NEW cm,
           NEW bt2, NEW q2, NEW r2, NEW st2, NEW cm2,
           TakesCommit(bt, tl, ls, cl, nat, q, r, st, cm, bt2, q2, r2, st2, cm2), NEW nat2
    PROVE  Whole(bt2, tl, ls, cl, nat2, q2, r2, st2, cm2) /\ Moves(cm2, st2, cm, st, tl)
  <1>0. /\ Whole(bt, tl, ls, cl, nat, q, r, st, cm) /\ nat # "gone" /\ CommitSlots(q, r) # {}
        /\ Drains(q2, r2, bt2, q, r, bt) /\ (bt2 # bt => bt2.reply # "ok")
        /\ st \in Seq(Mutations) /\ cm \in Seq(Mutations) /\ st2 = <<>> /\ cm2 = cm \o st
    BY DEF TakesCommit
  <1> USE <1>0
  <1>1. (bt # None <=> bt2 # None) /\ (bt # None => bt2.id = bt.id /\ bt.id \in Batches)
    BY DEF Drains, Reanswered, Whole
  <1>2. Clean(st, tl) /\ Len(st2) = 0
    BY EmptySeq DEF Whole, PipeOK
  <1>3. ASSUME NEW b \in Batches
        PROVE  /\ StoreOK(b, cm2, st2, tl[b], bt2, nat2)
               /\ Idx(cm2, b) = Idx(cm, b) \cup Idx(st, b) /\ Idx(st2, b) = {}
               /\ Idx(st, b) # {} => Idx(st, b) = All(b) /\ tl[b] = "done" /\ Idx(cm, b) = {}
    <2>1. b # None
      BY FacadeAssumption
    <2>2. /\ StoreOK(b, cm2, st2, tl[b], bt, nat)
          /\ Idx(cm2, b) = Idx(cm, b) \cup Idx(st, b)
          /\ Idx(st, b) # {} => Idx(st, b) = All(b) /\ tl[b] = "done" /\ Idx(cm, b) = {}
      BY <1>2, <2>1, StoreCommit DEF Whole
    <2>3. Idx(st2, b) = {}
      BY EmptyHeld
    <2> QED BY <1>1, <2>2, <2>3, StoreKept
  <1>4. bt # None => tl[bt.id] = "none" /\ Idx(st, bt.id) = {} /\ Idx(st2, bt.id) = {}
    <2>1. bt # None => tl[bt.id] = "none"
      BY DEF Whole, RunOK
    <2> QED BY <1>1, <1>3, <2>1
  <1>5. RunOK(bt2, tl, ls, cl, nat2, st2)
    BY <1>4 DEF Whole, RunOK, Drains, Reanswered
  <1>6. PipeOK(q2, r2, bt2, st2, tl)
    <2>1. Clean(st2, tl)
      BY <1>2 DEF Clean
    <2>2. Frames(q, r) # {} => bt # None
      BY FramesAwaited DEF Whole
    <2>3. Frames(q2, r2) # {} /\ Frames(q, r) # {} => bt2 = bt /\ Idx(st2, bt.id) = Idx(st, bt.id)
      BY <1>4, <2>2 DEF Drains
    <2> QED BY <2>1, <2>3, PipeKept DEF Whole, Drains
  <1>7. DirtOK(ls, bt2, st2, tl)
    BY <1>2 DEF DirtOK
  <1> QED BY <1>1, <1>3, <1>5, <1>6, <1>7 DEF Whole, Moves

\* The handle is released, and what was not committed with it.
LEMMA WholeLost ==
    ASSUME NEW bt, NEW tl, NEW ls, NEW cl, NEW nat, NEW q, NEW r, NEW st, NEW cm,
           Whole(bt, tl, ls, cl, nat, q, r, st, cm),
           NEW bt2, Reanswered(bt, bt2), Len(q) \in Nat, NEW nat2, nat2 = "gone",
           NEW q2, q2 = <<>>, NEW st2, st2 = <<>>
    PROVE  /\ Whole(bt2, tl, ls, cl, nat2, q2, None, st2, cm)
           /\ \A b \in Batches : Idx(st2, b) = {}
  <1>1. (bt # None <=> bt2 # None) /\ (bt # None => bt2.id = bt.id /\ bt.id \in Batches)
    BY DEF Reanswered, Whole
  <1>2. Len(st2) = 0 /\ Len(q2) = 0
    BY EmptySeq
  <1>3. ASSUME NEW b \in Batches PROVE StoreOK(b, cm, st2, tl[b], bt2, nat2) /\ Idx(st2, b) = {}
    BY StoreLost, EmptyHeld DEF Whole
  <1>4. RunOK(bt2, tl, ls, cl, nat2, st2)
    BY DEF Whole, RunOK, Reanswered
  <1>5. PipeOK(q2, None, bt2, st2, tl)
    <2>1. Slots(q2, None) = {}
      BY <1>2 DEF Slots
    <2> QED BY <2>1 DEF PipeOK, Frames, CommitSlots
  <1>6. DirtOK(ls, bt2, st2, tl)
    BY <1>2 DEF DirtOK
  <1> QED BY <1>1, <1>3, <1>4, <1>5, <1>6 DEF Whole

-----------------------------------------------------------------------------
(* What the abstract index sees.                                           *)

\* The phase of a batch, from the records the store holds of it.
Ph(b, cm, st) == IF Idx(cm, b) # {} THEN "committed" ELSE IF Idx(st, b) = All(b) THEN "staged" ELSE "none"

\* It is the phase the refinement mapping gives it.
LEMMA PhaseValue ==
    ASSUME NEW cm \in Seq(Mutations), NEW st \in Seq(Mutations), NEW b \in Batches, Proper(st, b)
    PROVE  Ph(b, cm, st) = IF \E i \in 1..Len(cm) : cm[i].batch = b THEN "committed"
                           ELSE IF Expected[b] \subseteq ToSet(st) THEN "staged" ELSE "none"
  <1>1. (\E i \in 1..Len(cm) : cm[i].batch = b) <=> Idx(cm, b) # {}
    BY IdxNone
  <1>2. Expected[b] = {Mutation(b, i) : i \in All(b)}
    BY DEF Expected, All
  <1>3. ToSet(st) = {st[k] : k \in 1..Len(st)}
    <2>1. DOMAIN st = 1..Len(st)
      BY LenProperties
    <2> QED BY <2>1 DEF ToSet
  <1>4. \A i \in All(b) : Mutation(b, i).batch = b /\ Mutation(b, i).index = i
    BY MutationFacts DEF All
  <1>5. ASSUME Expected[b] \subseteq ToSet(st) PROVE Idx(st, b) = All(b)
    <2>1. ASSUME NEW i \in All(b) PROVE i \in Idx(st, b)
      <3>1. PICK k \in 1..Len(st) : st[k] = Mutation(b, i)
        BY <1>2, <1>3, <1>5
      <3> QED BY <1>4, <3>1, IdxIn
    <2> QED BY <2>1, ProperIdx
  <1>6. ASSUME Idx(st, b) = All(b) PROVE Expected[b] \subseteq ToSet(st)
    <2>1. ASSUME NEW i \in All(b) PROVE Mutation(b, i) \in ToSet(st)
      <3>1. PICK k \in 1..Len(st) : st[k].batch = b /\ st[k].index = i
        BY <1>6, IdxIn
      <3>2. st[k] = Mutation(b, i)
        BY <3>1 DEF Proper
      <3> QED BY <1>3, <3>2
    <2> QED BY <1>2, <2>1
  <1> QED BY <1>1, <1>5, <1>6 DEF Ph

\* A step that changes no phase and tells nobody is none for the index.
LEMMA LogicalStutters ==
    ASSUME \A b \in NonEmpty : PhaseOf(b)' = PhaseOf(b) /\ told'[b] = told[b],
           native' = "gone" <=> native = "gone"
    PROVE  UNCHANGED Logical!vars
  BY DEF Logical!vars

\* The last frame of a batch stages it.
LEMMA LogicalStages ==
    ASSUME NEW b \in NonEmpty, PhaseOf(b) = "none", PhaseOf(b)' = "staged", told[b] = "none",
           \A c \in NonEmpty : c # b => PhaseOf(c)' = PhaseOf(c),
           told' = told, native # "gone", native' # "gone"
    PROVE  Logical!Next
  <1>1. Logical!Stage(b)
    BY DEF Logical!Stage
  <1> QED BY <1>1 DEF Logical!Next

\* A promise settles.
LEMMA LogicalTells ==
    ASSUME told \in [Batches -> {"none", "done", "failed"}],
           NEW b \in NonEmpty, told[b] = "none", NEW x, told' = [told EXCEPT ![b] = x],
           \A c \in NonEmpty : PhaseOf(c)' = PhaseOf(c),
           native' = native,
           \/ x = "done" /\ (PhaseOf(b) = "staged" \/ native = "gone")
           \/ x = "failed" /\ PhaseOf(b) # "committed"
    PROVE  Logical!Next
  <1>1. \A c \in NonEmpty : c \in Batches
    BY DEF NonEmpty
  <1>2. [c \in NonEmpty |-> told'[c]] = [[c \in NonEmpty |-> told[c]] EXCEPT ![b] = x]
    BY <1>1
  <1>3. [c \in NonEmpty |-> PhaseOf(c)'] = [c \in NonEmpty |-> PhaseOf(c)]
    OBVIOUS
  <1>4. CASE x = "done"
    BY <1>2, <1>3, <1>4 DEF Logical!Done, Logical!Next
  <1>5. CASE x = "failed"
    BY <1>2, <1>3, <1>5 DEF Logical!Failed, Logical!Next
  <1> QED BY <1>4, <1>5

\* The staged batches, all of them successful, become durable.
LEMMA LogicalCommits ==
    ASSUME native # "gone", native' # "gone", told' = told,
           \A b \in NonEmpty : IF PhaseOf(b) = "staged"
                               THEN told[b] = "done" /\ PhaseOf(b)' = "committed"
                               ELSE PhaseOf(b)' = PhaseOf(b)
    PROVE  Logical!Next
  <1>1. Logical!Commit
    BY DEF Logical!Commit, Logical!Staged
  <1> QED BY <1>1 DEF Logical!Next

\* The staged batches are lost.
LEMMA LogicalDiscards ==
    ASSUME native' = "gone", told' = told,
           \A b \in NonEmpty : IF PhaseOf(b) = "staged" THEN PhaseOf(b)' = "none"
                               ELSE PhaseOf(b)' = PhaseOf(b)
    PROVE  Logical!Next
  <1>1. Logical!Discard
    BY DEF Logical!Discard, Logical!Staged
  <1> QED BY <1>1 DEF Logical!Next

\* The state after a step.
WholeNext == Whole(batch', told', lstate', closed', native', queue', running', staged', committed')

\* The phases before a step.
LEMMA PhaseNow ==
    ASSUME Good, WholeNow, NEW b \in NonEmpty
    PROVE  PhaseOf(b) = Ph(b, committed, staged) /\ b \in Batches /\ All(b) # {}
  <1>1. b \in Batches /\ Plan[b].records # <<>>
    BY DEF NonEmpty
  <1>2. committed \in Seq(Mutations) /\ staged \in Seq(Mutations) /\ Proper(staged, b)
    BY <1>1 DEF Good, TypeOK, WholeNow, Whole, StoreOK
  <1>3. All(b) # {}
    <2>1. Plan[b].records \in Seq(Records)
      BY <1>1, FacadeAssumption
    <2>2. Len(Plan[b].records) \in Nat \ {0}
      BY <1>1, <2>1, LenProperties, EmptySeq
    <2>3. 1 \in 1..Len(Plan[b].records)
      BY <2>2
    <2> QED BY <2>3 DEF All
  <1> QED BY <1>1, <1>2, <1>3, PhaseValue DEF PhaseOf

\* The same of the phases after it.
LEMMA PhaseNext ==
    ASSUME Good', WholeNext, NEW b \in NonEmpty
    PROVE  PhaseOf(b)' = Ph(b, committed', staged')
  <1>1. b \in Batches
    BY DEF NonEmpty
  <1>2. committed' \in Seq(Mutations) /\ staged' \in Seq(Mutations)
    BY DEF Good, TypeOK
  <1>3. Proper(staged', b)
    BY <1>1 DEF WholeNext, Whole, StoreOK
  <1>4. PICK cm, st : cm = committed' /\ st = staged'
    OBVIOUS
  <1>5. Ph(b, cm, st) = IF \E i \in 1..Len(cm) : cm[i].batch = b THEN "committed"
                        ELSE IF Expected[b] \subseteq ToSet(st) THEN "staged" ELSE "none"
    BY <1>1, <1>2, <1>3, <1>4, PhaseValue
  <1>6. PhaseOf(b)' = IF \E i \in 1..Len(committed') : committed'[i].batch = b THEN "committed"
                      ELSE IF Expected[b] \subseteq ToSet(staged') THEN "staged" ELSE "none"
    BY DEF PhaseOf, ToSet, Expected, Mutation, Refused
  <1> QED BY <1>4, <1>5, <1>6

\* What the facade does not see of a step of the writer.
Unseen == UNCHANGED <<told, lstate, closed>> /\ native # "gone"

\* The writer's step on the pipeline.
DrainsNow == Drains(queue', running', batch', queue, running, batch)

\* A step of the writer that leaves the store alone.
LEMMA SameStep ==
    ASSUME Good, WholeNow, Unseen, native' # "gone", DrainsNow,
           batch' # batch => batch'.reply # "ok", UNCHANGED store
    PROVE  WholeNext /\ UNCHANGED Logical!vars
  <1>1. Whole(batch', told, lstate, closed, native', queue', running', staged, committed)
    BY WholeSame DEF WholeNow, DrainsNow, Unseen
  <1>2. WholeNext
    BY <1>1 DEF WholeNext, Unseen, store
  <1>3. \A b \in NonEmpty : PhaseOf(b)' = PhaseOf(b) /\ told'[b] = told[b]
    BY DEF PhaseOf, store, Unseen, ToSet, Expected, Mutation, Refused
  <1> QED BY <1>2, <1>3, LogicalStutters DEF Unseen

\* Batches that keep their records keep their phases.
LEMMA PhasesKept ==
    ASSUME Good, WholeNow, Good', WholeNext, NEW B,
           \A b \in Batches \ B : Idx(committed', b) = Idx(committed, b) /\ Idx(staged', b) = Idx(staged, b)
    PROVE  \A b \in NonEmpty \ B : PhaseOf(b)' = PhaseOf(b)
  <1>1. SUFFICES ASSUME NEW b \in NonEmpty, b \notin B PROVE PhaseOf(b)' = PhaseOf(b)
    OBVIOUS
  <1>2. PhaseOf(b) = Ph(b, committed, staged) /\ b \in Batches
    BY PhaseNow
  <1>3. PhaseOf(b)' = Ph(b, committed', staged')
    BY PhaseNext
  <1> QED BY <1>1, <1>2, <1>3 DEF Ph

\* The writer takes in a frame of a direct call, or a part of it.
LEMMA ForeignStep ==
    ASSUME Good, WholeNow, Good', Unseen, native' # "gone", DrainsNow,
           batch' # batch => batch'.reply # "ok",
           NEW p \in Seq(Mutations), Foreign(p), staged' = staged \o p, committed' = committed
    PROVE  WholeNext /\ UNCHANGED Logical!vars
  <1>1. staged \in Seq(Mutations)
    BY DEF Good, TypeOK
  <1>2. PICK st2 : st2 = staged \o p
    OBVIOUS
  <1>6. PICK bt2, nat2, q2, r2 : bt2 = batch' /\ nat2 = native' /\ q2 = queue' /\ r2 = running'
    OBVIOUS
  <1>7. PICK st \in Seq(Mutations) : st = staged
    BY <1>1
  <1>8. TakesForeign(batch, told, lstate, closed, native, queue, running, st, committed,
                     bt2, q2, r2, st2, p)
    BY <1>2, <1>6, <1>7 DEF WholeNow, DrainsNow, Unseen, TakesForeign
  <1>3. Whole(bt2, told, lstate, closed, nat2, q2, r2, st2, committed) /\ SameBut(st2, st, None)
    BY <1>8, WholeForeign
  <1>4. WholeNext
    BY <1>2, <1>3, <1>6 DEF WholeNext, Unseen
  <1>5. \A b \in NonEmpty : PhaseOf(b)' = PhaseOf(b)
    <2>1. \A b \in Batches : Idx(committed', b) = Idx(committed, b) /\ Idx(staged', b) = Idx(staged, b)
      BY <1>2, <1>3, <1>7, FacadeAssumption DEF SameBut
    <2>2. PICK B : B = {}
      OBVIOUS
    <2> QED BY <1>4, <2>1, <2>2, PhasesKept
  <1> QED BY <1>4, <1>5, LogicalStutters DEF Unseen

\* The writer takes in the frame of the batch that runs, or a part of it.
LEMMA FrameStep ==
    ASSUME Good, WholeNow, Good', Unseen, native' # "gone", DrainsNow,
           running # None, running.from = "batch", batch' # batch, Frames(queue', running') = {},
           NEW k \in 0..Len(running.mutations), NEW p, p = SubSeq(running.mutations, 1, k),
           batch'.reply = "ok" => p = running.mutations,
           staged' = staged \o p, committed' = committed
    PROVE  WholeNext /\ [Logical!Next]_(Logical!vars)
  <1>0. queue \in Seq(Commands) /\ staged \in Seq(Mutations) /\ Len(queue) \in Nat
    BY LenProperties DEF Good, TypeOK
  <1>1. CommitSlots(queue, running) = {} /\ FrameOf(batch, staged, running.mutations)
    BY <1>0, FrameRuns DEF WholeNow, Whole
  <1>2. batch # None /\ batch.id \in Batches /\ batch.reply = "none" /\ told[batch.id] = "none"
    BY <1>1 DEF FrameOf, WholeNow, Whole, RunOK
  <1>3. PICK b \in Batches : b = batch.id
    BY <1>2
  <1>4. PICK J \in SUBSET (All(b) \ Due(batch)) :
           Carries(running.mutations, b, J) /\ Idx(staged, b) = (All(b) \ Due(batch)) \ J
    BY <1>1, <1>3 DEF FrameOf
  <1>5. /\ Idx(running.mutations, b) = J /\ p \in Seq(Mutations)
        /\ Idx(p, b) \subseteq J /\ Proper(p, b) /\ Only(p, b)
    <2>1. PICK ms : ms = running.mutations
      OBVIOUS
    <2>2. Applied(p, ms, b, J)
      BY <1>4, <2>1 DEF Applied
    <2>3. Holds(p, ms, b, J)
      BY <2>2, CarriesHeld
    <2> QED BY <2>1, <2>3 DEF Holds
  <1>6. PICK st2 : st2 = staged \o p
    OBVIOUS
  <1>7. Idx(st2, b) = Idx(staged, b) \cup Idx(p, b)
    <2>1. PICK st \in Seq(Mutations) : st = staged
      BY <1>0
    <2>2. Adds(st \o p, st, p, b)
      BY <1>5, IdxConcat
    <2> QED BY <1>6, <2>1, <2>2 DEF Adds
  <1>8. batch'.reply = "ok" => Idx(st2, b) = All(b) \ Due(batch)
    BY <1>4, <1>5, <1>7
  <1>14. PICK bt2, nat2, q2, r2 : bt2 = batch' /\ nat2 = native' /\ q2 = queue' /\ r2 = running'
    OBVIOUS
  <1>9. /\ Whole(bt2, told, lstate, closed, nat2, q2, r2, st2, committed)
        /\ \A c \in Batches : c # b => Idx(st2, c) = Idx(staged, c)
    <2>1. Idx(staged, b) \cap Idx(p, b) = {}
      BY <1>4, <1>5
    <2>2. PICK st \in Seq(Mutations) : st = staged
      BY <1>0
    <2>3. PICK bt : bt = batch
      OBVIOUS
    <2>4. /\ Proper(p, bt.id) /\ Idx(st, bt.id) \cap Idx(p, bt.id) = {} /\ Only(p, bt.id)
          /\ bt2.reply = "ok" => Idx(st2, bt.id) = All(bt.id) \ Due(bt)
      BY <1>3, <1>5, <1>8, <1>14, <2>1, <2>2, <2>3
    <2>5. /\ Whole(bt, told, lstate, closed, native, queue, running, st, committed)
          /\ Drains(q2, r2, bt2, queue, running, bt) /\ bt # None /\ bt2 # bt
          /\ Frames(q2, r2) = {} /\ native # "gone"
      BY <1>2, <1>14, <2>2, <2>3 DEF WholeNow, DrainsNow, Unseen
    <2>6. TakesFrame(bt, told, lstate, closed, native, queue, running, st, committed,
                     bt2, q2, r2, st2, p)
      BY <1>1, <1>5, <1>6, <2>2, <2>4, <2>5 DEF TakesFrame
    <2>7. /\ Whole(bt2, told, lstate, closed, nat2, q2, r2, st2, committed)
          /\ SameBut(st2, st, bt.id)
      BY <2>6, WholeFrame
    <2> QED BY <1>3, <2>2, <2>3, <2>7 DEF SameBut
  <1>10. WholeNext
    BY <1>6, <1>9, <1>14 DEF WholeNext, Unseen
  <1>11. \A c \in NonEmpty \ {b} : PhaseOf(c)' = PhaseOf(c)
    <2>1. \A c \in Batches \ {b} :
             Idx(committed', c) = Idx(committed, c) /\ Idx(staged', c) = Idx(staged, c)
      BY <1>6, <1>9
    <2>2. PICK B : B = {b}
      OBVIOUS
    <2> QED BY <1>10, <2>1, <2>2, PhasesKept
  <1>12. CASE b \notin NonEmpty
    BY <1>10, <1>11, <1>12, LogicalStutters DEF Unseen
  <1>13. CASE b \in NonEmpty
    <2>1. PhaseOf(b) = Ph(b, committed, staged) /\ PhaseOf(b)' = Ph(b, committed', staged')
      BY <1>10, <1>13, PhaseNow, PhaseNext
    <2>2. Idx(committed, b) = {}
      BY <1>2, <1>3 DEF WholeNow, Whole, StoreOK
    <2>3. CASE PhaseOf(b)' = PhaseOf(b)
      BY <1>10, <1>11, <2>3, LogicalStutters DEF Unseen
    <2>4. CASE PhaseOf(b)' # PhaseOf(b)
      <3>1. PhaseOf(b) \in {"staged", "none"} /\ PhaseOf(b)' \in {"staged", "none"}
        BY <2>1, <2>2 DEF Ph
      <3>2. PhaseOf(b) # "staged"
        <4>1. ASSUME PhaseOf(b) = "staged" PROVE FALSE
          <5>1. Idx(staged, b) = All(b)
            BY <2>1, <2>2, <4>1 DEF Ph
          <5>2. Idx(st2, b) = All(b)
            BY <1>4, <1>5, <1>7, <5>1
          <5> QED BY <1>6, <2>1, <2>2, <2>4, <4>1, <5>2 DEF Ph
        <4> QED BY <4>1
      <3> QED BY <1>2, <1>3, <1>10, <1>11, <1>13, <2>4, <3>1, <3>2, LogicalStages DEF Unseen
    <2> QED BY <2>3, <2>4
  <1> QED BY <1>12, <1>13

\* The writer commits.
LEMMA CommitStep ==
    ASSUME Good, WholeNow, Good', Unseen, native' # "gone", DrainsNow,
           running # None, running.op \in {"commit", "publish"},
           batch' # batch => batch'.reply # "ok", Commits
    PROVE  WholeNext /\ [Logical!Next]_(Logical!vars)
  <1>0. staged \in Seq(Mutations) /\ committed \in Seq(Mutations) /\ Len(queue) \in Nat
    BY LenProperties DEF Good, TypeOK
  <1>1. 0 \in CommitSlots(queue, running)
    BY <1>0 DEF CommitSlots, Slots, At
  <1>2. PICK cm2, st2 : cm2 = committed \o staged /\ st2 = <<>>
    OBVIOUS
  <1>7. PICK bt2, nat2, q2, r2 : bt2 = batch' /\ nat2 = native' /\ q2 = queue' /\ r2 = running'
    OBVIOUS
  <1>8. PICK cm \in Seq(Mutations), st \in Seq(Mutations) : cm = committed /\ st = staged
    BY <1>0
  <1>9. TakesCommit(batch, told, lstate, closed, native, queue, running, st, cm,
                    bt2, q2, r2, st2, cm2)
    BY <1>1, <1>2, <1>7, <1>8 DEF WholeNow, DrainsNow, Unseen, TakesCommit
  <1>3. /\ Whole(bt2, told, lstate, closed, nat2, q2, r2, st2, cm2)
        /\ Moves(cm2, st2, committed, staged, told)
    BY <1>8, <1>9, WholeCommit
  <1>4. committed' = cm2 /\ staged' = st2
    BY <1>2 DEF Commits
  <1>5. WholeNext
    BY <1>3, <1>4, <1>7 DEF WholeNext, Unseen
  <1>6. ASSUME NEW b \in NonEmpty
        PROVE  IF PhaseOf(b) = "staged" THEN told[b] = "done" /\ PhaseOf(b)' = "committed"
               ELSE PhaseOf(b)' = PhaseOf(b)
    <2>1. PhaseOf(b) = Ph(b, committed, staged) /\ b \in Batches /\ All(b) # {}
      BY PhaseNow
    <2>2. PhaseOf(b)' = Ph(b, cm2, st2)
      BY <1>4, <1>5, PhaseNext
    <2> QED BY <1>3, <2>1, <2>2 DEF Ph, Moves
  <1> QED BY <1>5, <1>6, LogicalCommits DEF Unseen

\* The handle is released.
LEMMA LostStep ==
    ASSUME Good, WholeNow, Good', Unseen, native' = "gone", queue' = <<>>, running' = None,
           staged' = <<>>, committed' = committed, Reanswered(batch, batch')
    PROVE  WholeNext /\ [Logical!Next]_(Logical!vars)
  <1>0. Len(queue) \in Nat
    BY LenProperties DEF Good, TypeOK
  <1>1. PICK q2, st2, nat2 : q2 = <<>> /\ st2 = <<>> /\ nat2 = "gone"
    OBVIOUS
  <1>2. /\ Whole(batch', told, lstate, closed, nat2, q2, None, st2, committed)
        /\ \A b \in Batches : Idx(st2, b) = {}
    BY <1>0, <1>1, WholeLost DEF WholeNow
  <1>3. WholeNext
    BY <1>1, <1>2 DEF WholeNext, Unseen
  <1>4. ASSUME NEW b \in NonEmpty
        PROVE  IF PhaseOf(b) = "staged" THEN PhaseOf(b)' = "none" ELSE PhaseOf(b)' = PhaseOf(b)
    <2>1. PhaseOf(b) = Ph(b, committed, staged) /\ b \in Batches /\ All(b) # {}
      BY PhaseNow
    <2>2. PhaseOf(b)' = Ph(b, committed, st2)
      BY <1>1, <1>3, PhaseNext
    <2> QED BY <1>2, <2>1, <2>2 DEF Ph
  <1> QED BY <1>3, <1>4, LogicalDiscards DEF Unseen

-----------------------------------------------------------------------------
(* The actions of the writer.                                              *)

\* What a step does: the layer holds after it, and the abstract index takes a
\* step of its own or none.
Follows == WholeNext /\ [Logical!Next]_(Logical!vars)

\* An answer gives the batch that runs its reply, and no more.
LEMMA AnswerAnswers ==
    ASSUME NEW bt \in Runs \cup {None}, NEW cmds, NEW reply \in {"ok", "failed"},
           NEW n, n = Answer(bt, cmds, reply)
    PROVE  /\ n \in Runs \cup {None} /\ Reanswered(bt, n)
           /\ ~(\E c \in cmds : c.from = "batch") => n = bt
           /\ n # bt => n # None /\ n.reply = reply
           /\ bt # None /\ (\E c \in cmds : c.from = "batch") => n # None /\ n.reply = reply
  <1>1. /\ n \in Runs \cup {None} /\ (n = None <=> bt = None)
        /\ bt # None => /\ n.id = bt.id /\ n.at = bt.at /\ n.replace = bt.replace
                        /\ n.attempted = bt.attempted
                        /\ n.reply = IF \E c \in cmds : c.from = "batch" THEN reply ELSE bt.reply
        /\ ~(\E c \in cmds : c.from = "batch") => n = bt
    BY AnswerFacts
  <1>2. bt # None => Due(n) = Due(bt)
    BY <1>1 DEF Due
  <1>3. Reanswered(bt, n)
    BY <1>1, <1>2 DEF Reanswered
  <1> QED BY <1>1, <1>3

\* Two answers in a row are answers.
LEMMA ReansweredTwice ==
    ASSUME NEW a, NEW b, NEW c, Reanswered(a, b), Reanswered(b, c)
    PROVE  Reanswered(a, c)
  BY DEF Reanswered

\* The writer's command is answered and the loop goes on.
LEMMA ContinueDrains ==
    ASSUME Good, WholeNow, running # None, NEW m, NEW ok \in BOOLEAN, WriterContinue(m, ok)
    PROVE  /\ DrainsNow
           /\ running.from # "batch" => batch' = batch
           /\ running.from = "batch" =>
                 /\ batch' # batch /\ batch'.reply = IF ok THEN "ok" ELSE "failed"
                 /\ Frames(queue', running') = {}
  <1>1. PICK reply \in {"ok", "failed"} : reply = IF ok THEN "ok" ELSE "failed"
    OBVIOUS
  <1>2. PICK n : n = Answer(batch, {running}, reply)
    OBVIOUS
  <1>3. batch' = n /\ running' = None /\ queue' = queue
    BY <1>1, <1>2 DEF WriterContinue
  <1>4. batch \in Runs \cup {None} /\ queue \in Seq(Commands) /\ Len(queue) \in Nat
    BY LenProperties DEF Good, TypeOK
  <1>5. PICK S : S = {running}
    OBVIOUS
  <1>6. n = Answer(batch, S, reply) /\ (running.from = "batch" <=> \E c \in S : c.from = "batch")
    BY <1>2, <1>5
  <1>7. /\ Reanswered(batch, n) /\ (running.from # "batch" => n = batch)
        /\ batch # None /\ running.from = "batch" => n # None /\ n.reply = reply
    <2>1. /\ Reanswered(batch, n)
          /\ ~(\E c \in S : c.from = "batch") => n = batch
          /\ batch # None /\ (\E c \in S : c.from = "batch") => n # None /\ n.reply = reply
      BY <1>4, <1>6, AnswerAnswers
    <2> QED BY <1>6, <2>1
  <1>8. running.from = "batch" =>
           Frames(queue, None) = {} /\ batch # None /\ batch.reply = "none"
    <2>1. ASSUME running.from = "batch"
          PROVE  Frames(queue, None) = {} /\ FrameOf(batch, staged, running.mutations)
      BY <1>4, <2>1, FrameRuns DEF WholeNow, Whole
    <2> QED BY <2>1 DEF FrameOf
  <1>9. PICK r2 : r2 = None
    OBVIOUS
  <1>10. Thins(queue, r2, queue, running)
    BY <1>4, <1>9, ThinsSame
  <1>11. running.from = "batch" => n # batch
    BY <1>1, <1>7, <1>8
  <1>12. Frames(queue, None) # {} => n = batch
    BY <1>7, <1>8
  <1>13. DrainsNow
    BY <1>3, <1>4, <1>7, <1>9, <1>10, <1>12 DEF DrainsNow, Drains
  <1> QED BY <1>1, <1>3, <1>7, <1>8, <1>11, <1>13

\* A command with nothing of a batch in it.
LEMMA RunningForeign ==
    ASSUME Good, WholeNow, running # None, running.from # "batch"
    PROVE  running.mutations \in Seq(Mutations) /\ Foreign(running.mutations)
  <1>1. running \in Commands /\ Len(queue) \in Nat
    BY LenProperties DEF Good, TypeOK
  <1>2. 0 \in Slots(queue, running) /\ At(queue, running, 0) = running
    BY <1>1 DEF Slots, At
  <1>3. Foreign(running.mutations)
    BY <1>2 DEF WholeNow, Whole, PipeOK
  <1> QED BY <1>1, <1>3 DEF Commands

\* A handle with a command at the writer is there.
LEMMA RunningThere ==
    ASSUME GoneInv, running # None PROVE native # "gone"
  BY DEF GoneInv

\* A refused command and a clean close of a dirty handle.
LEMMA RefuseFollows ==
    ASSUME Good, GoneInv, WholeNow, WriterRefuse \/ CloseDirty
    PROVE  Follows
  <1>1. PICK m : running # None /\ WriterContinue(m, FALSE)
    BY DEF WriterRefuse, CloseDirty, Reopens
  <1>2. PICK no \in BOOLEAN : no = FALSE
    OBVIOUS
  <1>3. WriterContinue(m, no)
    BY <1>1, <1>2
  <1>4. DrainsNow /\ (batch' # batch => batch'.reply = "failed")
    BY <1>1, <1>2, <1>3, ContinueDrains
  <1>5. native # "gone" /\ native' # "gone"
    BY <1>1, RunningThere DEF WriterRefuse, CloseDirty
  <1>6. Unseen /\ UNCHANGED store
    BY <1>5 DEF WriterRefuse, CloseDirty, Unseen
  <1> QED BY <1>4, <1>5, <1>6, SameStep DEF Follows

\* The whole of a frame is a part of it.
LEMMA WholePart ==
    ASSUME NEW S, NEW ms \in Seq(S)
    PROVE  Len(ms) \in 0..Len(ms) /\ SubSeq(ms, 1, Len(ms)) = ms
  <1>1. Len(ms) \in Nat
    BY LenProperties
  <1>2. PICK p : p = SubSeq(ms, 1, Len(ms))
    OBVIOUS
  <1>3. p \in Seq(S) /\ Len(p) = Len(ms) /\ \A i \in 1..Len(ms) : p[i] = ms[i]
    BY <1>1, <1>2, SubSeqProperties, ElementOfSeq
  <1>4. p = ms
    BY <1>3, SeqEqual
  <1> QED BY <1>1, <1>2, <1>4

\* A command succeeds.
LEMMA SucceedFollows ==
    ASSUME Good, GoneInv, WholeNow, Good', WriterSucceed
    PROVE  Follows
  <1>1. PICK m : running # None /\ WriterContinue(m, TRUE)
    BY DEF WriterSucceed
  <1>2. PICK yes \in BOOLEAN : yes = TRUE
    OBVIOUS
  <1>3. WriterContinue(m, yes)
    BY <1>1, <1>2
  <1>4. /\ DrainsNow
        /\ running.from # "batch" => batch' = batch
        /\ running.from = "batch" => /\ batch' # batch /\ batch'.reply = "ok"
                                     /\ Frames(queue', running') = {}
    BY <1>1, <1>2, <1>3, ContinueDrains
  <1>5. native # "gone" /\ native' # "gone"
    BY <1>1, RunningThere DEF WriterSucceed
  <1>6. Unseen
    BY <1>5 DEF WriterSucceed, Unseen
  <1>7. running \in Commands /\ Fits(running) /\ running.mutations \in Seq(Mutations)
    BY <1>1 DEF Good, TypeOK, CommandsOK, Commands
  <1>8. CASE running.op = "apply"
    <2>1. staged' = staged \o running.mutations /\ committed' = committed
      BY <1>8 DEF WriterSucceed
    <2>2. CASE running.from = "batch"
      <3>0. PICK k \in 0..Len(running.mutations) : SubSeq(running.mutations, 1, k) = running.mutations
        BY <1>7, WholePart
      <3>1. PICK p : p = SubSeq(running.mutations, 1, k) /\ p = running.mutations
        BY <3>0
      <3> QED BY <1>1, <1>4, <1>5, <1>6, <2>1, <2>2, <3>1, FrameStep DEF Follows
    <2>3. CASE running.from # "batch"
      <3>1. PICK p \in Seq(Mutations) : p = running.mutations /\ Foreign(p)
        BY <1>1, <2>3, RunningForeign
      <3> QED BY <1>4, <1>5, <1>6, <2>1, <2>3, <3>1, ForeignStep DEF Follows
    <2> QED BY <2>2, <2>3
  <1>9. CASE running.op \in {"commit", "publish"}
    <2>1. Commits /\ batch' = batch
      BY <1>4, <1>7, <1>9 DEF WriterSucceed, Fits
    <2> QED BY <1>1, <1>4, <1>5, <1>6, <1>9, <2>1, CommitStep DEF Follows
  <1>10. CASE running.op = "reload"
    <2>1. UNCHANGED store /\ batch' = batch
      BY <1>4, <1>7, <1>10 DEF WriterSucceed, Fits
    <2> QED BY <1>4, <1>5, <1>6, <2>1, SameStep DEF Follows
  <1> QED BY <1>8, <1>9, <1>10 DEF WriterSucceed

\* The command it takes is one.
LEMMA PopTakes ==
    ASSUME Good, WriterPop PROVE running' # None
  <1>1. queue \in Seq(Commands) /\ queue # <<>> /\ metrics \in MetricsSets
    BY DEF Good, TypeOK, WriterPop
  <1>2. Head(queue) \in Commands /\ Head(queue).t \in Tickets
    <2>1. PICK c \in Commands : c = Head(queue)
      BY <1>1, TailFacts
    <2>2. c.t \in Tickets
      BY DEF Commands
    <2> QED BY <2>1, <2>2
  <1>3. PICK t : t = Start([m |-> metrics, t |-> Head(queue).t]).t
    OBVIOUS
  <1>4. t \in Tickets
    BY <1>1, <1>2, <1>3, StartQuiet
  <1>5. running' = [Head(queue) EXCEPT !.t = t]
    BY <1>3 DEF WriterPop
  <1>6. running' \in Commands
    BY <1>2, <1>4, <1>5 DEF Commands
  <1> QED BY <1>6, FacadeAssumption

\* The writer takes a command.
LEMMA PopFollows ==
    ASSUME Good, GoneInv, WholeNow, WriterPop
    PROVE  Follows
  <1>1. queue \in Seq(Commands) /\ queue # <<>> /\ running = None /\ queue' = Tail(queue)
    BY DEF Good, TypeOK, WriterPop
  <1>2. PICK t : running' = [Head(queue) EXCEPT !.t = t]
    BY DEF WriterPop
  <1>3. Head(queue) = queue[1] /\ queue[1] \in Commands /\ Len(queue) \in Nat
    BY <1>1, TailFacts, LenProperties
  <1>4. PICK c : c = running'
    OBVIOUS
  <1>5. c = [queue[1] EXCEPT !.t = t]
    BY <1>2, <1>3, <1>4
  <1>6. Similar(c, queue[1])
    BY <1>3, <1>5 DEF Similar, Commands
  <1>7. c # None
    BY <1>4, PopTakes
  <1>8. Thins(Tail(queue), c, queue, running) /\ Len(Tail(queue)) \in Nat
    BY <1>1, <1>6, <1>7, ThinsPop
  <1>9. batch' = batch /\ native' = native /\ native # "gone" /\ Unseen /\ UNCHANGED store
    BY DEF WriterPop, facade, Unseen
  <1>10. DrainsNow
    BY <1>1, <1>3, <1>4, <1>8, <1>9 DEF DrainsNow, Drains, Reanswered
  <1> QED BY <1>9, <1>10, SameStep DEF Follows

\* The drain leaves no frame in the queue, and answers the one it drained.
LEMMA PoisonDrains ==
    ASSUME Good, WholeNow, Good', NEW m, NEW bt \in Runs \cup {None}, Reanswered(batch, bt),
           Poison(m, bt), bt # batch => bt.reply = "failed",
           running' # None => running # None /\ Similar(running', running) /\ bt = batch
    PROVE  /\ DrainsNow /\ (batch' # batch => batch'.reply = "failed")
           /\ running' = None => Frames(queue', running') = {}
  <1>1. PICK S : S = {queue[i] : i \in Failed(queue)}
    OBVIOUS
  <1>2. PICK n : n = Answer(bt, S, "failed")
    OBVIOUS
  <1>3. batch' = n /\ queue' = Kept(queue)
    BY <1>1, <1>2 DEF Poison
  <1>4. /\ Reanswered(bt, n) /\ (~(\E c \in S : c.from = "batch") => n = bt)
        /\ n # bt => n.reply = "failed"
    BY <1>2, AnswerAnswers
  <1>5. Reanswered(batch, n)
    BY <1>4, ReansweredTwice
  <1>6. queue \in Seq(Commands) /\ Len(queue) \in Nat
    BY LenProperties DEF Good, TypeOK
  <1>7. PICK r2 : r2 = running'
    OBVIOUS
  <1>8. Thins(Kept(queue), r2, queue, running) /\ Len(Kept(queue)) \in Nat
    BY <1>6, <1>7, ThinsKept
  <1>9. PICK q2 : q2 = Kept(queue)
    OBVIOUS
  <1>10. \A i \in 1..Len(q2) : q2[i].from # "batch"
    <2>1. \A i \in 1..Len(q2) : Fits(q2[i])
      BY <1>3, <1>9 DEF Good, CommandsOK
    <2>2. \A i \in 1..Len(q2) : q2[i].op = "close"
      <3>1. CASE q2 = <<>>
        BY <3>1, EmptySeq
      <3>2. CASE q2 # <<>>
        <4>1. PICK c \in Commands : q2 = <<c>> /\ c.op = "close"
          BY <1>6, <1>9, <3>2, KeptFacts
        <4>2. Len(q2) = 1 /\ q2[1] = c
          BY <4>1
        <4> QED BY <4>1, <4>2
      <3> QED BY <3>1, <3>2
    <2> QED BY <2>1, <2>2 DEF Fits
  <1>11. Frames(q2, r2) # {} => r2 # None /\ r2.from = "batch"
    BY <1>10 DEF Frames, Slots, At
  <1>12. Frames(q2, r2) # {} => n = batch
    <2>1. SUFFICES ASSUME Frames(q2, r2) # {} PROVE n = batch
      OBVIOUS
    <2>2. running # None /\ running.from = "batch" /\ bt = batch
      BY <1>7, <1>11, <2>1 DEF Similar
    <2>3. Frames(queue, None) = {}
      BY <1>6, <2>2, FrameRuns DEF WholeNow, Whole
    <2>4. ASSUME NEW i \in Failed(queue), queue[i].from = "batch" PROVE FALSE
      <3>1. i \in 1..Len(queue) /\ i # 0
        BY <2>4 DEF Failed
      <3>2. i \in Slots(queue, None) /\ At(queue, None, i) = queue[i]
        BY <1>6, <3>1 DEF Slots, At
      <3> QED BY <2>3, <2>4, <3>2 DEF Frames
    <2> QED BY <1>1, <1>4, <2>2, <2>4
  <1>13. DrainsNow
    BY <1>3, <1>5, <1>6, <1>7, <1>8, <1>9, <1>12 DEF DrainsNow, Drains
  <1>14. n # batch => n.reply = "failed"
    BY <1>4
  <1> QED BY <1>3, <1>7, <1>9, <1>11, <1>13, <1>14

\* A search panics.
LEMMA SearchPanicFollows ==
    ASSUME Good, GoneInv, WholeNow, Good', SearchPanic
    PROVE  Follows
  <1>1. PICK m : Poison(m, batch)
    BY DEF SearchPanic
  <1>2. running' = running /\ native' = "poisoned" /\ native # "gone" /\ UNCHANGED store
    BY <1>1 DEF SearchPanic, Poison, GoneInv
  <1>3. batch \in Runs \cup {None} /\ Reanswered(batch, batch) /\ Similar(running, running)
    BY DEF Good, TypeOK, Reanswered, Similar
  <1>4. DrainsNow /\ (batch' # batch => batch'.reply = "failed")
    BY <1>1, <1>2, <1>3, PoisonDrains
  <1>5. Unseen
    BY <1>2 DEF SearchPanic, Unseen
  <1> QED BY <1>2, <1>4, <1>5, SameStep DEF Follows

\* The writer panics.
LEMMA PanicFollows ==
    ASSUME Good, GoneInv, WholeNow, Good', WriterPanic
    PROVE  Follows
  <1>1. Poison(metrics, batch) /\ running # None /\ native' = "poisoned" /\ native # "gone"
    BY DEF WriterPanic, Poison, GoneInv
  <1>2. PICK yes \in BOOLEAN : yes = TRUE
    OBVIOUS
  <1>3. running' = [running EXCEPT !.panicked = yes] /\ running \in Commands
    BY <1>1, <1>2 DEF WriterPanic, Good, TypeOK
  <1>4. Similar(running', running)
    BY <1>3 DEF Similar, Commands
  <1>5. batch \in Runs \cup {None} /\ Reanswered(batch, batch)
    BY DEF Good, TypeOK, Reanswered
  <1>6. DrainsNow /\ (batch' # batch => batch'.reply = "failed")
    BY <1>1, <1>4, <1>5, PoisonDrains
  <1>7. Unseen
    BY <1>1 DEF WriterPanic, Unseen
  <1>8. CASE UNCHANGED store
    BY <1>1, <1>6, <1>7, <1>8, SameStep DEF Follows
  <1>9. CASE running.op \in {"commit", "publish"} /\ Commits
    BY <1>1, <1>6, <1>7, <1>9, CommitStep DEF Follows
  <1> QED BY <1>8, <1>9 DEF WriterPanic

\* A command fails after the writer changed.
LEMMA FailFollows ==
    ASSUME Good, GoneInv, WholeNow, Good', WriterFail
    PROVE  Follows
  <1>1. PICK bt : bt = Answer(batch, {running}, "failed")
    OBVIOUS
  <1>2. PICK m : Poison(m, bt)
    BY <1>1 DEF WriterFail
  <1>3. running # None /\ running' = None /\ native' = "poisoned" /\ native # "gone"
    BY <1>2 DEF WriterFail, Poison, GoneInv
  <1>4. batch \in Runs \cup {None} /\ Len(queue) \in Nat
    BY LenProperties DEF Good, TypeOK
  <1>5. PICK S : S = {running}
    OBVIOUS
  <1>6. /\ bt \in Runs \cup {None} /\ Reanswered(batch, bt)
        /\ ~(\E c \in S : c.from = "batch") => bt = batch
        /\ bt # batch => bt.reply = "failed"
        /\ batch # None /\ (\E c \in S : c.from = "batch") => bt # None /\ bt.reply = "failed"
    BY <1>1, <1>4, <1>5, AnswerAnswers
  <1>7. /\ DrainsNow /\ (batch' # batch => batch'.reply = "failed")
        /\ Frames(queue', running') = {}
    BY <1>2, <1>3, <1>6, PoisonDrains
  <1>8. Unseen
    BY <1>3 DEF WriterFail, Unseen
  <1>9. running \in Commands /\ Fits(running) /\ running.mutations \in Seq(Mutations)
    BY <1>3 DEF Good, TypeOK, CommandsOK, Commands
  <1>10. CASE running.op = "apply"
    <2>1. PICK k \in 0..Len(running.mutations) :
             staged' = staged \o SubSeq(running.mutations, 1, k) /\ committed' = committed
      BY <1>10 DEF WriterFail
    <2>2. PICK p : p = SubSeq(running.mutations, 1, k)
      OBVIOUS
    <2>3. staged' = staged \o p
      BY <2>1, <2>2
    <2>4. CASE running.from = "batch"
      <3>1. FrameOf(batch, staged, running.mutations)
        BY <1>3, <1>4, <2>4, FrameRuns DEF WholeNow, Whole
      <3>2. batch # None /\ batch.reply = "none" /\ bt # None /\ bt.reply = "failed"
        BY <1>5, <1>6, <2>4, <3>1 DEF FrameOf
      <3>3. batch'.reply = "failed"
        <4>1. PICK T : T = {queue[i] : i \in Failed(queue)}
          OBVIOUS
        <4>2. PICK n : n = Answer(bt, T, "failed")
          OBVIOUS
        <4>3. batch' = n /\ (n # bt => n.reply = "failed")
          BY <1>2, <1>6, <4>1, <4>2, AnswerAnswers DEF Poison
        <4> QED BY <3>2, <4>3
      <3>4. batch' # batch /\ batch'.reply # "ok"
        BY <3>2, <3>3
      <3> QED BY <1>3, <1>7, <1>8, <2>1, <2>2, <2>3, <2>4, <3>4, FrameStep DEF Follows
    <2>5. CASE running.from # "batch"
      <3>1. Foreign(running.mutations)
        BY <1>3, <2>5, RunningForeign
      <3>2. p \in Seq(Mutations) /\ Foreign(p)
        BY <1>9, <2>2, <3>1, ForeignHeld
      <3> QED BY <1>3, <1>7, <1>8, <2>1, <2>3, <3>2, ForeignStep DEF Follows
    <2> QED BY <2>4, <2>5
  <1>11. CASE running.op # "apply" /\ Commits
    <2>1. running.op \in {"commit", "publish"}
      BY <1>11 DEF WriterFail
    <2> QED BY <1>3, <1>7, <1>8, <1>11, <2>1, CommitStep DEF Follows
  <1>12. CASE UNCHANGED store
    BY <1>3, <1>7, <1>8, <1>12, SameStep DEF Follows
  <1> QED BY <1>10, <1>11, <1>12 DEF WriterFail

\* The actor ends.
LEMMA StopFollows ==
    ASSUME Good, GoneInv, WholeNow, Good', CloseStop \/ PanicStop
    PROVE  Follows
  <1>1. PICK S : batch' = Answer(batch, S, "failed")
    BY DEF CloseStop, PanicStop
  <1>2. /\ running # None /\ native' = "gone" /\ queue' = <<>> /\ running' = None
        /\ staged' = <<>> /\ committed' = committed
    BY DEF CloseStop, PanicStop, Released
  <1>3. PICK n : n = batch'
    OBVIOUS
  <1>4. batch \in Runs \cup {None} /\ n = Answer(batch, S, "failed")
    BY <1>1, <1>3 DEF Good, TypeOK
  <1>5. Reanswered(batch, n)
    BY <1>4, AnswerAnswers
  <1>6. Unseen
    BY <1>2, RunningThere DEF CloseStop, PanicStop, Unseen
  <1> QED BY <1>2, <1>3, <1>5, <1>6, LostStep DEF Follows

-----------------------------------------------------------------------------
(* The actions of the facade.                                              *)

\* What the store holds of the batches, in the words of the abstract index, is
\* told of a state in which nothing of it changed.
LEMMA StillPhases ==
    ASSUME UNCHANGED store PROVE \A b \in NonEmpty : PhaseOf(b)' = PhaseOf(b)
  BY DEF PhaseOf, store, ToSet, Expected, Mutation, Refused

\* A step that changes neither batch, nor pipeline, nor store.
LEMMA StillFollows ==
    ASSUME WholeNow, UNCHANGED <<batch, told, lstate, closed, native, queue, running, store>>
    PROVE  Follows
  <1>1. WholeNext
    BY DEF WholeNow, WholeNext, store
  <1>2. \A b \in NonEmpty : PhaseOf(b)' = PhaseOf(b) /\ told'[b] = told[b]
    BY StillPhases
  <1> QED BY <1>1, <1>2, LogicalStutters DEF Follows

\* The records a batch owes are records of its plan.
LEMMA DueIn ==
    ASSUME NEW bt, CursorOK(bt)
    PROVE  bt.id \in Batches /\ Due(bt) \subseteq All(bt.id)
  <1>1. bt \in Runs /\ bt.id \in Batches /\ bt.at \in 1..(Len(Plan[bt.id].records) + 1)
    BY DEF CursorOK, Runs
  <1>2. PICK n \in Nat : n = Len(Plan[bt.id].records)
    BY <1>1, PlanFacts
  <1>3. PICK I \in SUBSET (1..(bt.at - 1)) : Lists(bt.replace, I)
    BY DEF CursorOK
  <1>4. \A k \in 1..Len(bt.replace) : bt.replace[k] \in 1..(bt.at - 1)
    BY <1>3 DEF Lists
  <1>5. bt.at \in 1..(n + 1)
    BY <1>1, <1>2
  <1>6. \A x \in 1..(bt.at - 1) : x \in 1..n
    BY <1>5
  <1>7. \A x \in bt.at..n : x \in 1..n
    BY <1>5
  <1>8. Due(bt) = (bt.at..n) \cup {bt.replace[k] : k \in 1..Len(bt.replace)}
    BY <1>2 DEF Due
  <1>9. All(bt.id) = 1..n
    BY <1>2 DEF All
  <1> QED BY <1>1, <1>4, <1>6, <1>7, <1>8, <1>9

\* A command enters the queue that is no frame.
LEMMA EnqueueFollows ==
    ASSUME Good, WholeNow, NEW c \in Commands, c.from # "batch", Foreign(c.mutations),
           c.op \in {"commit", "publish"} => Clean(staged, told) /\ Frames(queue, running) = {},
           queue' = Append(queue, c), native # "gone", native' # "gone",
           UNCHANGED <<batch, told, lstate, closed, running, store>>
    PROVE  Follows
  <1>1. queue \in Seq(Commands)
    BY DEF Good, TypeOK
  <1>2. PipeOK(queue, running, batch, staged, told)
    BY DEF WholeNow, Whole
  <1>3. PICK bt2 : bt2 = batch
    OBVIOUS
  <1>4. PipeOK(Append(queue, c), running, bt2, staged, told)
    BY <1>1, <1>2, <1>3, PipeAppend
  <1>5. PICK nat2 : nat2 = native'
    OBVIOUS
  <1>6. RunOK(batch, told, lstate, closed, nat2, staged)
    BY <1>5 DEF WholeNow, Whole, RunOK
  <1>7. ASSUME NEW b \in Batches PROVE StoreOK(b, committed, staged, told[b], batch, nat2)
    BY <1>5, StoreKept DEF WholeNow, Whole
  <1>8. Whole(batch, told, lstate, closed, nat2, queue', running, staged, committed)
    BY <1>3, <1>4, <1>6, <1>7 DEF WholeNow, Whole
  <1>9. WholeNext
    BY <1>5, <1>8 DEF WholeNext, store
  <1>10. \A b \in NonEmpty : PhaseOf(b)' = PhaseOf(b) /\ told'[b] = told[b]
    BY StillPhases
  <1> QED BY <1>9, <1>10, LogicalStutters DEF Follows

\* apply, commit, publish and reload.
LEMMA CallFollows ==
    ASSUME Good, GoneInv, WholeNow, NEW op \in CallOps, Call(op)
    PROVE  Follows
  <1>1. CASE ~WriterAdmits
    <2>1. UNCHANGED <<batch, told, lstate, closed, native, queue, running, store>>
      BY <1>1 DEF Call, Refuse, writer
    <2> QED BY <2>1, StillFollows
  <1>2. CASE WriterAdmits
    <2>1. PICK ms : ms = IF op = "apply" THEN <<RawMutation>> ELSE <<>>
      OBVIOUS
    <2>2. PICK no \in BOOLEAN : no = FALSE
      OBVIOUS
    <2>3. ms \in Seq(Mutations) /\ Foreign(ms)
      <3>1. CASE op = "apply"
        <4>1. PICK r : r = RawMutation
          OBVIOUS
        <4>2. r \in Mutations /\ r.batch = None
          BY <4>1 DEF RawMutation, Mutations
        <4>3. ms = <<r>>
          BY <2>1, <3>1, <4>1
        <4> QED BY <4>2, <4>3 DEF Foreign
      <3>2. CASE op # "apply"
        <4>1. ms = <<>>
          BY <2>1, <3>2
        <4> QED BY <4>1, EmptySeq DEF Foreign
      <3> QED BY <3>1, <3>2
    <2>4. queue' = Append(queue, Command(op, "call", ms, no))
      BY <1>2, <2>1, <2>2 DEF Call, Submit
    <2>5. PICK c \in Commands : /\ Command(op, "call", ms, no) = c /\ c.op = op /\ c.from = "call"
                                /\ c.mutations = ms
      BY <2>3, CommandFacts DEF Good
    <2>6. Idle /\ native = "open" /\ ~closed
      BY <1>2 DEF Call, MayCall, WriterAdmits, GoneInv
    <2>7. batch = None
      BY <2>6 DEF WholeNow, Whole, RunOK, Idle
    <2>8. Clean(staged, told)
      BY <2>6, <2>7 DEF WholeNow, Whole, DirtOK, Idle, Clean
    <2>9. Frames(queue, running) = {}
      BY <2>7, FramesAwaited DEF WholeNow, Whole
    <2>10. UNCHANGED <<batch, told, lstate, closed, running, store>> /\ native' = native
      BY <1>2 DEF Call, Submit
    <2> QED BY <2>3, <2>4, <2>5, <2>6, <2>8, <2>9, <2>10, EnqueueFollows
  <1> QED BY <1>1, <1>2

\* close.
LEMMA CloseFollows ==
    ASSUME Good, GoneInv, WholeNow, NEW rollback \in BOOLEAN, Close(rollback)
    PROVE  Follows
  <1>1. CASE native \notin {"open", "poisoned"}
    <2>1. UNCHANGED <<batch, told, lstate, closed, native, queue, running, store>>
      BY <1>1 DEF Close
    <2> QED BY <2>1, StillFollows
  <1>2. CASE native \in {"open", "poisoned"}
    <2>1. PICK rb \in BOOLEAN : rb = (rollback \/ native = "poisoned")
      OBVIOUS
    <2>2. PICK e : e = <<>>
      OBVIOUS
    <2>3. e \in Seq(Mutations) /\ Foreign(e)
      BY <2>2, EmptySeq DEF Foreign
    <2>4. queue' = Append(queue, Command("close", "close", e, rb))
      BY <1>2, <2>1, <2>2 DEF Close
    <2>5. PICK c \in Commands : /\ Command("close", "close", e, rb) = c /\ c.op = "close"
                                /\ c.from = "close" /\ c.mutations = e
      BY <2>3, CommandFacts DEF Good
    <2>6. native # "gone" /\ native' # "gone"
      BY <1>2 DEF Close
    <2>7. UNCHANGED <<batch, told, lstate, closed, running, store>>
      BY <1>2 DEF Close
    <2> QED BY <2>3, <2>4, <2>5, <2>6, <2>7, EnqueueFollows
  <1> QED BY <1>1, <1>2

\* The promise of a close settles: a handle that is gone has nothing left.
LEMMA ReturnsFollows ==
    ASSUME Good, GoneInv, WholeNow, CloseReturns
    PROVE  Follows
  <1>1. CASE closeReply \notin Outcomes
    <2>1. UNCHANGED <<batch, told, lstate, closed, native, queue, running, store>>
      BY <1>1 DEF CloseReturns
    <2> QED BY <2>1, StillFollows
  <1>2. CASE closeReply \in Outcomes
    <2>1. /\ native = "gone" /\ staged = <<>> /\ Len(staged) = 0
          /\ closed' = TRUE /\ lstate' = "idle"
      BY <1>2, EmptySeq DEF GoneInv, CloseReturns
    <2>2. UNCHANGED <<batch, told, native, queue, running, store>>
      BY DEF CloseReturns
    <2>3. PICK ls2, cl2 : ls2 = lstate' /\ cl2 = closed'
      OBVIOUS
    <2>4. RunOK(batch, told, ls2, cl2, native, staged)
      BY <2>1, <2>3 DEF WholeNow, Whole, RunOK
    <2>5. DirtOK(ls2, batch, staged, told)
      BY <2>1 DEF DirtOK
    <2>6. Whole(batch, told, ls2, cl2, native, queue, running, staged, committed)
      BY <2>4, <2>5 DEF WholeNow, Whole
    <2>7. WholeNext
      BY <2>2, <2>3, <2>6 DEF WholeNext, store
    <2>8. \A b \in NonEmpty : PhaseOf(b)' = PhaseOf(b) /\ told'[b] = told[b]
      BY <2>2, StillPhases
    <2> QED BY <2>2, <2>7, <2>8, LogicalStutters DEF Follows
  <1> QED BY <1>1, <1>2

\* The promise of a batch settles: of one that was refused, beside the one that
\* runs, or of the one that runs, with none of its frames on the way.
LEMMA TellFollows ==
    ASSUME Good, WholeNow, NEW b \in Batches, told[b] = "none", NEW x \in {"done", "failed"},
           told' = [told EXCEPT ![b] = x], UNCHANGED <<closed, native, queue, running, store>>,
           \/ /\ batch' = batch /\ lstate' = lstate /\ x = "failed" /\ (batch # None => batch.id # b)
           \/ /\ batch' = None /\ Frames(queue, running) = {} /\ (batch # None => batch.id = b)
              /\ DirtOK(lstate', batch', staged, told')
              /\ x = "done" => native = "gone" \/ Idx(staged, b) = All(b)
    PROVE  Follows
  <1>1. PICK bt2, ls2, tl2 : bt2 = batch' /\ ls2 = lstate' /\ tl2 = told'
    OBVIOUS
  <1>2. told \in [Batches -> {"none", "done", "failed"}] /\ staged \in Seq(Mutations)
        /\ Len(queue) \in Nat
    BY LenProperties DEF Good, TypeOK
  <1>3. tl2[b] = x /\ \A c \in Batches : c # b => tl2[c] = told[c]
    BY <1>1, <1>2
  <1>4. \A k \in 1..Len(staged) : staged[k].batch \in Batches \cup {None}
    <2>1. ASSUME NEW k \in 1..Len(staged) PROVE staged[k].batch \in Batches \cup {None}
      <3>1. staged[k] \in Mutations
        BY <1>2, ElementOfSeq
      <3> QED BY <3>1 DEF Mutations
    <2> QED BY <2>1
  <1>5. \A k \in 1..Len(staged) : staged[k].batch # None /\ told[staged[k].batch] = "done"
                                     => tl2[staged[k].batch] = "done"
    BY <1>3, <1>4
  <1>6. RunOK(bt2, tl2, ls2, closed, native, staged)
    BY <1>1, <1>3 DEF WholeNow, Whole, RunOK
  <1>7. PipeOK(queue, running, bt2, staged, tl2)
    <2>1. PICK r2 : r2 = running
      OBVIOUS
    <2>2. Thins(queue, r2, queue, running)
      BY <1>2, <2>1, ThinsSame DEF Similar
    <2>3. CommitSlots(queue, running) # {} => Clean(staged, tl2)
      BY <1>5 DEF WholeNow, Whole, PipeOK, Clean
    <2>4. Frames(queue, running) # {} => bt2 = batch
      BY <1>1
    <2>5. PICK st2 : st2 = staged
      OBVIOUS
    <2>6. PipeOK(queue, r2, bt2, st2, tl2)
      BY <1>2, <2>1, <2>2, <2>3, <2>4, <2>5, PipeKept DEF WholeNow, Whole
    <2> QED BY <2>1, <2>5, <2>6
  <1>8. DirtOK(ls2, bt2, staged, tl2)
    <2>1. CASE batch' = batch /\ lstate' = lstate
      BY <1>1, <1>5, <2>1 DEF WholeNow, Whole, DirtOK
    <2>2. CASE DirtOK(lstate', batch', staged, told')
      BY <1>1, <2>2
    <2> QED BY <2>1, <2>2
  <1>9. \A c \in Batches : StoreOK(c, committed, staged, told[c], batch, native)
    BY DEF WholeNow, Whole
  <1>10. ASSUME NEW c \in Batches PROVE StoreOK(c, committed, staged, tl2[c], bt2, native)
    <2>1. CASE c # b
      BY <1>1, <1>3, <1>9, <2>1 DEF StoreOK
    <2>2. CASE c = b
      BY <1>1, <1>3, <1>9, <2>2 DEF StoreOK
    <2> QED BY <2>1, <2>2
  <1>11. Whole(bt2, tl2, ls2, closed, native, queue, running, staged, committed)
    BY <1>1, <1>6, <1>7, <1>8, <1>10 DEF WholeNow, Whole
  <1>12. WholeNext
    BY <1>1, <1>11 DEF WholeNext, store
  <1>13. \A c \in NonEmpty : PhaseOf(c)' = PhaseOf(c) /\ c \in Batches
    BY StillPhases DEF NonEmpty
  <1>14. CASE b \notin NonEmpty
    <2>1. \A c \in NonEmpty : told'[c] = told[c]
      BY <1>1, <1>3, <1>13, <1>14
    <2> QED BY <1>12, <1>13, <2>1, LogicalStutters DEF Follows
  <1>15. CASE b \in NonEmpty
    <2>1. PhaseOf(b) = Ph(b, committed, staged) /\ Idx(committed, b) = {}
      BY <1>9, <1>15, PhaseNow DEF StoreOK
    <2>2. /\ PhaseOf(b) # "committed"
          /\ x = "done" => PhaseOf(b) = "staged" \/ native = "gone"
      BY <2>1 DEF Ph
    <2>3. Logical!Next
      BY <1>2, <1>13, <1>15, <2>2, LogicalTells
    <2> QED BY <1>12, <2>3 DEF Follows
  <1> QED BY <1>14, <1>15

\* A batch sends a frame.
LEMMA SendFollows ==
    ASSUME Good, WholeNow, NEW bt, NEW bs, NEW J, NEW n, NEW ms, CursorOK(bt), Sends(bt, bs, J, n, ms),
           told[bt.id] = "none", Frames(queue, running) = {}, batch # None => batch.id = bt.id,
           Idx(staged, bt.id) = All(bt.id) \ Due(bt), lstate' = "active" \/ closed,
           DirtOK(lstate', n, staged, told), UNCHANGED <<closed, store>>
    PROVE  Follows
  <1>1. /\ J \subseteq Due(bt) /\ Due(n) = Due(bt) \ J /\ Carries(ms, bt.id, J)
        /\ n.id = bt.id /\ n.attempted /\ n.reply = "none" /\ batch' = n
        /\ queue' = Append(queue, Command("apply", "batch", ms, FALSE))
        /\ UNCHANGED <<native, running, told>>
    BY DEF Sends
  <1>2. n # None
    BY FacadeAssumption DEF Sends, CursorOK
  <1>3. bt.id \in Batches /\ Due(bt) \subseteq All(bt.id)
    BY DueIn
  <1>4. FrameOf(n, staged, ms)
    <2>1. J \in SUBSET (All(n.id) \ Due(n)) /\ Carries(ms, n.id, J)
      BY <1>1, <1>3
    <2>2. Idx(staged, n.id) = (All(n.id) \ Due(n)) \ J
      BY <1>1, <1>3
    <2> QED BY <1>1, <1>2, <2>1, <2>2 DEF FrameOf
  <1>5. PICK no \in BOOLEAN : no = FALSE
    OBVIOUS
  <1>6. ms \in Seq(Mutations) /\ "apply" \in CallOps \cup {"close"} /\ TypeOK
    BY <1>1 DEF Carries, CallOps, Good
  <1>7. PICK c \in Commands : /\ Command("apply", "batch", ms, no) = c /\ c.op = "apply"
                              /\ c.from = "batch" /\ c.mutations = ms
    BY <1>6, CommandFacts
  <1>8. queue \in Seq(Commands) /\ PipeOK(queue, running, batch, staged, told)
    BY DEF Good, TypeOK, WholeNow, Whole
  <1>9. PipeOK(Append(queue, c), running, n, staged, told)
    BY <1>4, <1>7, <1>8, PipeAppend
  <1>10. PICK ls2 : ls2 = lstate'
    OBVIOUS
  <1>11. RunOK(n, told, ls2, closed, native, staged)
    BY <1>1, <1>10 DEF RunOK
  <1>12. ASSUME NEW b \in Batches PROVE StoreOK(b, committed, staged, told[b], n, native)
    BY <1>1, <1>2, StoreKept DEF WholeNow, Whole
  <1>13. Whole(n, told, ls2, closed, native, Append(queue, c), running, staged, committed)
    BY <1>1, <1>3, <1>9, <1>10, <1>11, <1>12 DEF Whole
  <1>14. WholeNext
    BY <1>1, <1>5, <1>7, <1>10, <1>13 DEF WholeNext, store
  <1>15. \A b \in NonEmpty : PhaseOf(b)' = PhaseOf(b) /\ told'[b] = told[b]
    BY <1>1, StillPhases
  <1> QED BY <1>1, <1>14, <1>15, LogicalStutters DEF Follows

\* A batch that begins.
LEMMA ApplyFollows ==
    ASSUME Good, GoneInv, WholeNow, NEW b \in Batches, ApplyMutationBatch(b)
    PROVE  Follows
  <1>1. told[b] = "none" /\ (batch # None => batch.id # b) /\ UNCHANGED <<closed, store>>
    BY DEF ApplyMutationBatch
  <1>2. CASE ~(Open /\ Idle /\ Replaceable(b))
    <2>1. /\ told' = [told EXCEPT ![b] = "failed"] /\ batch' = batch /\ lstate' = lstate
          /\ UNCHANGED <<native, queue, running>>
      BY <1>2 DEF ApplyMutationBatch, writer
    <2>2. PICK x \in {"done", "failed"} : x = "failed"
      OBVIOUS
    <2> QED BY <1>1, <2>1, <2>2, TellFollows
  <1>3. CASE Open /\ Idle /\ Replaceable(b)
    <2>1. PICK s : s = <<>>
      OBVIOUS
    <2>2. PICK no \in BOOLEAN : no = FALSE
      OBVIOUS
    <2>3. PICK bt : bt = [id |-> b, at |-> 1, replace |-> s, attempted |-> no, reply |-> "none"]
      OBVIOUS
    <2>4. PICK bs : Advance(bt, bs)
      BY <1>3, <2>1, <2>2, <2>3 DEF ApplyMutationBatch
    <2>5. CursorOK(bt) /\ bt.id = b /\ ~bt.attempted /\ Due(bt) = All(b)
      BY <2>1, <2>2, <2>3, FreshCursor DEF All
    <2>6. lstate = "idle" /\ ~closed
      BY <1>3 DEF Open, Idle
    <2>7. batch = None
      BY <2>6 DEF WholeNow, Whole, RunOK
    <2>8. Frames(queue, running) = {}
      BY <2>7, FramesAwaited DEF WholeNow, Whole
    <2>9. Idx(staged, b) = {}
      BY <1>1, <2>7 DEF WholeNow, Whole, StoreOK
    <2>10. \A k \in 1..Len(staged) : staged[k].batch = None \/ told[staged[k].batch] = "done"
      BY <2>6, <2>7 DEF WholeNow, Whole, DirtOK
    <2>11. ASSUME NEW x \in {"done", "failed"}, told' = [told EXCEPT ![b] = x]
           PROVE  DirtOK(lstate', batch', staged, told')
      <3>1. \A k \in 1..Len(staged) : staged[k].batch = None \/ told'[staged[k].batch] = "done"
        <4>1. SUFFICES ASSUME NEW k \in 1..Len(staged), staged[k].batch # None
                       PROVE  told'[staged[k].batch] = "done"
          OBVIOUS
        <4>2. staged[k].batch \in Batches
          <5>1. staged[k] \in Mutations
            BY ElementOfSeq DEF Good, TypeOK
          <5> QED BY <4>1, <5>1 DEF Mutations
        <4>3. told[staged[k].batch] = "done" /\ staged[k].batch # b
          BY <1>1, <2>10, <4>1
        <4> QED BY <2>11, <4>2, <4>3 DEF Good, TypeOK
      <3> QED BY <3>1 DEF DirtOK
    <2>12. CASE \E J, n, ms : Sends(bt, bs, J, n, ms)
      <3>1. PICK J, n, ms : Sends(bt, bs, J, n, ms)
        BY <2>12
      <3>2. lstate' = "active"
        BY <2>5, <3>1 DEF Sends
      <3>3. DirtOK(lstate', n, staged, told)
        BY <2>10 DEF DirtOK
      <3>4. Idx(staged, bt.id) = All(bt.id) \ Due(bt)
        BY <2>5, <2>9
      <3> QED BY <1>1, <2>5, <2>7, <2>8, <3>1, <3>2, <3>3, <3>4, SendFollows
    <2>13. CASE Fails(bt, bs)
      <3>1. /\ told' = [told EXCEPT ![b] = "failed"] /\ batch' = None
            /\ UNCHANGED <<native, queue, running>>
        BY <2>5, <2>13 DEF Fails, FailBatch, writer
      <3>2. PICK x \in {"done", "failed"} : x = "failed"
        OBVIOUS
      <3>3. DirtOK(lstate', batch', staged, told')
        BY <2>11, <3>1, <3>2
      <3> QED BY <1>1, <2>7, <2>8, <3>1, <3>2, <3>3, TellFollows
    <2>14. CASE Finishes(bt, bs)
      <3>1. /\ told' = [told EXCEPT ![b] = "done"] /\ batch' = None /\ Due(bt) = {}
            /\ UNCHANGED <<native, queue, running>>
        BY <2>5, <2>14 DEF Finishes, FinishBatch, writer
      <3>2. PICK x \in {"done", "failed"} : x = "done"
        OBVIOUS
      <3>3. DirtOK(lstate', batch', staged, told')
        BY <2>11, <3>1, <3>2
      <3>4. Idx(staged, b) = All(b)
        BY <2>5, <2>9, <3>1
      <3> QED BY <1>1, <2>7, <2>8, <3>1, <3>2, <3>3, <3>4, TellFollows
    <2> QED BY <2>4, <2>5, <2>12, <2>13, <2>14, AdvanceFacts
  <1> QED BY <1>2, <1>3

\* A batch that is answered goes on.
LEMMA ResumeFollows ==
    ASSUME Good, GoneInv, WholeNow, ResumeBatch
    PROVE  Follows
  <1>1. batch # None /\ batch.reply # "none" /\ UNCHANGED <<closed, store>>
    BY DEF ResumeBatch
  <1>2. PICK bt : bt = batch
    OBVIOUS
  <1>3. PICK b \in Batches : b = bt.id
    BY <1>1, <1>2 DEF WholeNow, Whole
  <1>4. /\ bt.attempted /\ told[b] = "none" /\ (lstate = "active" \/ closed)
        /\ bt.reply = "ok" => native = "gone" \/ Idx(staged, b) = All(b) \ Due(bt)
    BY <1>1, <1>2, <1>3 DEF WholeNow, Whole, RunOK
  <1>5. Frames(queue, running) = {}
    BY <1>1, FramesAwaited DEF WholeNow, Whole
  <1>6. closed => Len(staged) = 0
    BY EmptySeq DEF GoneInv
  <1>7. ASSUME NEW bs, FailBatch(b, bs, TRUE), UNCHANGED <<native, queue, running>> PROVE Follows
    <2>1. /\ told' = [told EXCEPT ![b] = "failed"] /\ batch' = None
          /\ lstate' = "incomplete" \/ closed
      BY <1>7 DEF FailBatch, AfterFailure
    <2>2. PICK x \in {"done", "failed"} : x = "failed"
      OBVIOUS
    <2>3. DirtOK(lstate', batch', staged, told')
      BY <1>6, <2>1 DEF DirtOK
    <2> QED BY <1>1, <1>2, <1>3, <1>4, <1>5, <1>7, <2>1, <2>2, <2>3, TellFollows
  <1>8. CASE bt.reply = "failed"
    <2>1. FailBatch(b, batches, TRUE) /\ UNCHANGED <<native, queue, running>>
      BY <1>2, <1>3, <1>8 DEF ResumeBatch, writer
    <2> QED BY <1>7, <2>1
  <1>9. CASE bt.reply = "ok"
    <2>1. PICK bs : Advance(bt, bs)
      BY <1>2, <1>9 DEF ResumeBatch
    <2>2. CursorOK(bt)
      BY <1>1, <1>2 DEF Good, CursorsOK
    <2>3. CASE \E J, n, ms : Sends(bt, bs, J, n, ms)
      <3>1. PICK J, n, ms : Sends(bt, bs, J, n, ms)
        BY <2>3
      <3>2. lstate' = lstate /\ n.id = b /\ native = "open"
        BY <1>3, <1>4, <3>1 DEF Sends, WriterAdmits
      <3>3. n # None
        BY <3>1, FacadeAssumption DEF Sends, CursorOK
      <3>4. DirtOK(lstate', n, staged, told)
        BY <1>1, <1>2, <1>3, <3>2, <3>3 DEF WholeNow, Whole, DirtOK
      <3>5. Idx(staged, bt.id) = All(bt.id) \ Due(bt)
        BY <1>3, <1>4, <1>9, <3>2
      <3> QED BY <1>1, <1>2, <1>3, <1>4, <1>5, <2>2, <3>1, <3>2, <3>4, <3>5, SendFollows
    <2>4. CASE Fails(bt, bs)
      <3>1. FailBatch(b, bs, TRUE) /\ UNCHANGED <<native, queue, running>>
        BY <1>3, <1>4, <2>4 DEF Fails, FailBatch, AfterFailure, writer
      <3> QED BY <1>7, <3>1
    <2>5. CASE Finishes(bt, bs)
      <3>1. /\ told' = [told EXCEPT ![b] = "done"] /\ batch' = None /\ Due(bt) = {}
            /\ UNCHANGED <<native, queue, running>>
        BY <1>3, <2>5 DEF Finishes, FinishBatch, writer
      <3>2. PICK x \in {"done", "failed"} : x = "done"
        OBVIOUS
      <3>3. \A k \in 1..Len(staged) : staged[k].batch = None \/ told'[staged[k].batch] = "done"
        <4>1. SUFFICES ASSUME NEW k \in 1..Len(staged), staged[k].batch # None
                       PROVE  told'[staged[k].batch] = "done"
          OBVIOUS
        <4>2. staged[k].batch \in Batches
          <5>1. staged[k] \in Mutations
            BY ElementOfSeq DEF Good, TypeOK
          <5> QED BY <4>1, <5>1 DEF Mutations
        <4>3. lstate = "active"
          BY <1>4, <1>6
        <4>4. staged[k].batch = b \/ told[staged[k].batch] = "done"
          BY <1>2, <1>3, <4>1, <4>3 DEF WholeNow, Whole, DirtOK
        <4> QED BY <3>1, <4>2, <4>4 DEF Good, TypeOK
      <3>4. DirtOK(lstate', batch', staged, told')
        BY <3>3 DEF DirtOK
      <3>5. native = "gone" \/ Idx(staged, b) = All(b)
        BY <1>4, <1>9, <3>1
      <3> QED BY <1>1, <1>2, <1>3, <1>4, <1>5, <3>1, <3>2, <3>4, <3>5, TellFollows
    <2> QED BY <2>1, <2>2, <2>3, <2>4, <2>5, AdvanceFacts
  <1> QED BY <1>2, <1>8, <1>9 DEF ResumeBatch

-----------------------------------------------------------------------------
(* The released handle.                                                    *)

\* Steps of the facade on the handle.
LEMMA JsGone ==
    ASSUME Good, GoneInv, JsStep
    PROVE  GoneInv'
  <1>1. ASSUME NEW bt, NEW bs, CursorOK(bt), Advance(bt, bs),
               UNCHANGED <<closed, searchside, store>>
        PROVE  GoneInv'
    <2>1. CASE \E J, n, ms : Sends(bt, bs, J, n, ms)
      <3>1. native = "open" /\ UNCHANGED <<native, closeReply, closed>>
        BY <1>1, <2>1 DEF Sends, WriterAdmits
      <3> QED BY <3>1 DEF GoneInv
    <2>2. CASE Fails(bt, bs) \/ Finishes(bt, bs)
      <3>1. UNCHANGED <<native, queue, running, closeReply, closed, staged, squeue, srunning>>
        BY <1>1, <2>2 DEF Fails, Finishes, writer, searchside, store
      <3> QED BY <3>1 DEF GoneInv
    <2> QED BY <1>1, <2>1, <2>2, AdvanceFacts
  <1>2. CASE \E b \in Batches : ApplyMutationBatch(b)
    <2>1. PICK b \in Batches : ApplyMutationBatch(b)
      BY <1>2
    <2>2. CASE Open /\ Idle /\ Replaceable(b)
      <3>1. PICK s : s = <<>>
        OBVIOUS
      <3>2. PICK no \in BOOLEAN : no = FALSE
        OBVIOUS
      <3>3. PICK bt : bt = [id |-> b, at |-> 1, replace |-> s, attempted |-> no, reply |-> "none"]
        OBVIOUS
      <3>4. PICK bs : Advance(bt, bs)
        BY <2>1, <2>2, <3>1, <3>2, <3>3 DEF ApplyMutationBatch
      <3>5. CursorOK(bt)
        BY <3>1, <3>2, <3>3, FreshCursor
      <3>6. UNCHANGED <<closed, searchside, store>>
        BY <2>1 DEF ApplyMutationBatch
      <3> QED BY <1>1, <3>4, <3>5, <3>6
    <2>3. CASE ~(Open /\ Idle /\ Replaceable(b))
      <3>1. UNCHANGED <<native, queue, running, closeReply, closed, staged, squeue, srunning>>
        BY <2>1, <2>3 DEF ApplyMutationBatch, writer, searchside, store
      <3> QED BY <3>1 DEF GoneInv
    <2> QED BY <2>2, <2>3
  <1>3. CASE ResumeBatch
    <2>1. CursorOK(batch) /\ UNCHANGED <<closed, searchside, store>>
      BY <1>3 DEF ResumeBatch, Good, CursorsOK
    <2>2. CASE \E bs : Advance(batch, bs)
      <3>1. PICK bs : Advance(batch, bs)
        BY <2>2
      <3> QED BY <1>1, <2>1, <3>1
    <2>3. CASE UNCHANGED writer
      <3>1. UNCHANGED <<native, queue, running, closeReply, closed, staged, squeue, srunning>>
        BY <2>1, <2>3 DEF writer, searchside, store
      <3> QED BY <3>1 DEF GoneInv
    <2> QED BY <1>3, <2>2, <2>3 DEF ResumeBatch
  <1>4. CASE \E op \in CallOps : Call(op)
    <2>1. UNCHANGED <<native, running, closeReply, closed, staged, squeue, srunning>>
          /\ (queue' = queue \/ native = "open")
      BY <1>4 DEF Call, Submit, Refuse, WriterAdmits, writer, searchside, store
    <2> QED BY <2>1 DEF GoneInv
  <1>5. CASE \E rollback \in BOOLEAN : Close(rollback)
    <2>1. /\ native # "gone" /\ native' # "gone" /\ closed' = closed
          /\ closeReply' = closeReply \/ closeReply' = "E_CLOSED"
      BY <1>5 DEF Close
    <2> QED BY <2>1 DEF GoneInv, Outcomes
  <1>6. CASE CloseReturns
    <2>1. /\ UNCHANGED <<native, queue, running, staged, squeue, srunning>> /\ closeReply' = "none"
          /\ closed' = closed \/ closeReply \in Outcomes
      BY <1>6 DEF CloseReturns, searchside, store
    <2> QED BY <2>1 DEF GoneInv, Outcomes
  <1>7. CASE \E s \in Searches : SearchPage(s) \/ DigestReady(s)
    <2>1. /\ UNCHANGED <<native, queue, running, closeReply, closed, staged, srunning>>
          /\ squeue' = squeue \/ native = "open"
      BY <1>7 DEF SearchPage, DigestReady, AdmitSearch, facade, writer, store
    <2> QED BY <2>1 DEF GoneInv
  <1> QED BY <1>2, <1>3, <1>4, <1>5, <1>6, <1>7 DEF JsStep

\* The steps of configureTelemetry and of the measurement of bytes.
Observes == \/ ConfigureTelemetry \/ ConfigureBytes \/ ConfigureReader
            \/ ObserveBytes \/ BytesMeasured

\* Every step.
LEMMA StepGone ==
    ASSUME Good, GoneInv, [Next]_vars
    PROVE  GoneInv'
  <1>1. CASE UNCHANGED vars
    BY <1>1 DEF vars, facade, searchside, store, writer, GoneInv
  <1>2. CASE SearchStep
    <2>1. /\ squeue # <<>> \/ srunning # None
          /\ UNCHANGED <<native, closed, closeReply>>
      BY <1>2 DEF SearchStep, SearchTake, SearchExpire, SearchStart, SearchFinish, facade, writer
    <2> QED BY <2>1 DEF GoneInv
  <1>3. CASE SearchPanic \/ WriterPanic \/ WriterFail
    <2>1. /\ srunning # None \/ running # None
          /\ native' = "poisoned" /\ UNCHANGED <<closed, closeReply>>
      BY <1>3 DEF SearchPanic, WriterPanic, WriterFail, Poison
    <2> QED BY <2>1 DEF GoneInv
  <1>4. CASE WriterPop
    <2>1. native # "gone" /\ UNCHANGED <<native, closed, closeReply>>
      BY <1>4 DEF WriterPop, facade
    <2> QED BY <2>1 DEF GoneInv
  <1>5. CASE WriterRefuse \/ CloseDirty \/ WriterSucceed
    <2>1. /\ running # None /\ (native' = native \/ native' = "open") /\ closed' = closed
          /\ closeReply' = closeReply \/ closeReply' = "E_DIRTY_CLOSE"
      BY <1>5 DEF WriterRefuse, CloseDirty, Reopens, WriterSucceed, WriterContinue, AnswerClose
    <2> QED BY <2>1 DEF GoneInv, Outcomes
  <1>6. CASE CloseStop \/ PanicStop
    <2>1. /\ native' = "gone" /\ queue' = <<>> /\ running' = None /\ staged' = <<>>
          /\ squeue' = <<>> /\ srunning' = None
      BY <1>6 DEF CloseStop, PanicStop, Released, searchside
    <2> QED BY <2>1 DEF GoneInv
  <1>7. CASE Observes
    <2>1. UNCHANGED <<native, queue, running, closeReply, closed, staged, squeue, srunning>>
      BY <1>7 DEF Observes, ConfigureTelemetry, ConfigureBytes, ConfigureReader, ObserveBytes,
                  BytesMeasured, facade, writer, searchside, store
    <2> QED BY <2>1 DEF GoneInv
  <1> QED BY <1>1, <1>2, <1>3, <1>4, <1>5, <1>6, <1>7, JsGone DEF Next, Observes

-----------------------------------------------------------------------------
(* Theorems.                                                               *)

\* A new handle.
LEMMA InitAtomic ==
    ASSUME Init PROVE Atomic /\ Logical!Init
  <1>1. Good
    BY InitGood
  <1>2. GoneInv
    BY DEF Init, GoneInv, Outcomes
  <1>3. /\ queue = <<>> /\ staged = <<>> /\ committed = <<>> /\ Len(queue) = 0 /\ Len(staged) = 0
        /\ running = None /\ batch = None /\ native = "open"
        /\ told = [b \in Batches |-> "none"]
    BY EmptySeq DEF Init
  <1>4. RunOK(batch, told, lstate, closed, native, staged) /\ DirtOK(lstate, batch, staged, told)
    BY <1>3 DEF RunOK, DirtOK
  <1>5. PipeOK(queue, running, batch, staged, told)
    <2>1. Slots(queue, running) = {}
      BY <1>3 DEF Slots
    <2> QED BY <2>1 DEF PipeOK, Frames, CommitSlots
  <1>6. ASSUME NEW b \in Batches
        PROVE  /\ Idx(staged, b) = {} /\ Idx(committed, b) = {}
               /\ StoreOK(b, committed, staged, told[b], batch, native)
    <2>1. /\ Idx(staged, b) = {} /\ Idx(committed, b) = {}
          /\ Proper(staged, b) /\ Proper(committed, b) /\ told[b] = "none"
      BY <1>3, EmptyHeld
    <2> QED BY <2>1 DEF StoreOK
  <1>7. WholeNow
    BY <1>3, <1>4, <1>5, <1>6 DEF WholeNow, Whole
  <1>8. ASSUME NEW b \in NonEmpty PROVE PhaseOf(b) = "none" /\ told[b] = "none"
    <2>1. PhaseOf(b) = Ph(b, committed, staged) /\ b \in Batches /\ All(b) # {}
      BY <1>1, <1>7, PhaseNow
    <2>2. Ph(b, committed, staged) = "none"
      BY <1>6, <2>1 DEF Ph
    <2> QED BY <1>3, <2>1, <2>2
  <1>9. Logical!Init
    BY <1>3, <1>8 DEF Logical!Init
  <1> QED BY <1>1, <1>2, <1>7, <1>9 DEF Atomic

\* The layer is inductive, and every step of the handle is one of the index.
LEMMA StepAtomic ==
    ASSUME Atomic, [Next]_vars
    PROVE  Atomic' /\ [Logical!Next]_(Logical!vars)
  <1>1. Good /\ GoneInv /\ WholeNow
    BY DEF Atomic
  <1>2. Good' /\ GoneInv'
    BY <1>1, StepGood, StepGone
  <1>3. Follows
    <2>1. CASE UNCHANGED vars
      <3>1. UNCHANGED <<batch, told, lstate, closed, native, queue, running, store>>
        BY <2>1 DEF vars, facade, writer
      <3> QED BY <1>1, <3>1, StillFollows
    <2>2. CASE JsStep
      <3>1. CASE \E s \in Searches : SearchPage(s) \/ DigestReady(s)
        <4>1. UNCHANGED <<batch, told, lstate, closed, native, queue, running, store>>
          BY <3>1 DEF SearchPage, DigestReady, facade, writer
        <4> QED BY <1>1, <4>1, StillFollows
      <3> QED BY <1>1, <2>2, <3>1, ApplyFollows, ResumeFollows, CallFollows, CloseFollows, ReturnsFollows
          DEF JsStep
    <2>3. CASE SearchStep \/ Observes
      <3>1. UNCHANGED <<batch, told, lstate, closed, native, queue, running, store>>
        BY <2>3 DEF SearchStep, SearchTake, SearchExpire, SearchStart, SearchFinish, Observes,
                    ConfigureTelemetry, ConfigureBytes, ConfigureReader, ObserveBytes, BytesMeasured,
                    facade, writer
      <3> QED BY <1>1, <3>1, StillFollows
    <2> QED BY <1>1, <1>2, <2>1, <2>2, <2>3, SearchPanicFollows, PopFollows, RefuseFollows,
               FailFollows, StopFollows, PanicFollows, SucceedFollows
        DEF Next, Observes
  <1>4. WholeNow'
    BY <1>3 DEF Follows, WholeNext, WholeNow
  <1> QED BY <1>2, <1>3, <1>4 DEF Follows, Atomic

\* What is committed of a batch is the batch.
LEMMA AtomicWhole ==
    ASSUME Atomic PROVE WholeBatchesCommitted
  <1>1. SUFFICES ASSUME NEW b \in Batches,
                        {i \in 1..Len(committed) : committed[i].batch = b} # {}
                 PROVE  LET mine == {i \in 1..Len(committed) : committed[i].batch = b} IN
                        /\ Cardinality(mine) = Len(Plan[b].records)
                        /\ {committed[i] : i \in mine} = Expected[b]
    BY DEF WholeBatchesCommitted
  <1>2. PICK mine : mine = {i \in 1..Len(committed) : committed[i].batch = b}
    OBVIOUS
  <1>3. PICK n \in Nat : n = Len(Plan[b].records)
    BY PlanFacts
  <1>4. Proper(committed, b) /\ Idx(committed, b) \in {{}, All(b)}
    BY DEF Atomic, WholeNow, Whole, StoreOK
  <1>5. Idx(committed, b) # {}
    BY <1>1, IdxNone
  <1>6. Idx(committed, b) = 1..n
    BY <1>3, <1>4, <1>5 DEF All
  <1>7. \A i \in mine : /\ committed[i].index \in 1..n
                        /\ committed[i] = Mutation(b, committed[i].index)
                        /\ \A j \in mine : committed[j] = committed[i] => j = i
    BY <1>2, <1>3, <1>4 DEF Proper, All
  <1>8. \A x \in 1..n : \E i \in mine : committed[i].index = x
    <2>1. ASSUME NEW x \in 1..n PROVE \E i \in mine : committed[i].index = x
      <3>1. x \in Idx(committed, b)
        BY <1>6
      <3>2. PICK i \in 1..Len(committed) : committed[i].batch = b /\ committed[i].index = x
        BY <3>1, IdxIn
      <3> QED BY <1>2, <3>2
    <2> QED BY <2>1
  <1>9. Cardinality(mine) = n
    <2>1. PICK f : f = [i \in mine |-> committed[i].index]
      OBVIOUS
    <2>2. f \in [mine -> 1..n] /\ \A i \in mine : f[i] = committed[i].index
      BY <1>7, <2>1
    <2>3. \A i, j \in mine : f[i] = f[j] => i = j
      BY <1>7, <2>2
    <2>4. \A x \in 1..n : \E i \in mine : f[i] = x
      BY <1>8, <2>2
    <2>5. PICK N : N = 1..n
      OBVIOUS
    <2>6. f \in Bijection(mine, N)
      BY <2>2, <2>3, <2>4, <2>5, Fun_IsBij
    <2>7. ExistsBijection(N, mine)
      BY <2>6, Fun_ExistsBij, Fun_ExistsBijSymmetric
    <2>8. IsFiniteSet(N) /\ Cardinality(N) = n
      BY <2>5, FS_Interval
    <2> QED BY <2>7, <2>8, FS_Bijection
  <1>10. {committed[i] : i \in mine} = Expected[b]
    <2>1. Expected[b] = {Mutation(b, i) : i \in 1..n}
      BY <1>3 DEF Expected
    <2> QED BY <1>7, <1>8, <2>1
  <1> QED BY <1>2, <1>3, <1>9, <1>10

\* The layer is an invariant of the handle.
LEMMA AtomicInvariant == Spec => []Atomic
  <1>1. Init => Atomic
    BY InitAtomic
  <1>2. Atomic /\ [Next]_vars => Atomic'
    BY StepAtomic
  <1> QED BY <1>1, <1>2, PTL DEF Spec

\* A logical batch is atomic for the committed index: whatever calls, failures,
\* panics and closes come between its frames, a commit finds either nothing of
\* it or each of its records once, a rejected upsert as the delete that
\* replaces it (applyMutationBatch and #assertLogicalMutationIdle in native.ts).
THEOREM FacadeWholeBatchesCommitted == Spec => []WholeBatchesCommitted
  <1>1. Atomic => WholeBatchesCommitted
    BY AtomicWhole
  <1> QED BY <1>1, AtomicInvariant, PTL

\* The handle implements the logical index: a batch is staged as a whole, a commit
\* makes durable exactly the staged batches, each of which resolved before, a
\* promise resolves only for a batch that was taken in, and what was not
\* committed is lost with the handle; frames, queue, awaits, poison and
\* rollback cannot be seen.
THEOREM FacadeImplementsLogicalIndex == Spec => LogicalSpec
  <1>1. Init => Logical!Init
    BY InitAtomic
  <1>2. Atomic /\ [Next]_vars => [Logical!Next]_(Logical!vars)
    BY StepAtomic
  <1> QED BY <1>1, <1>2, AtomicInvariant, PTL DEF Spec, LogicalSpec, Logical!Spec

-----------------------------------------------------------------------------
(* What the calls of the facade do to queues, counters and batches.        *)

\* The actors keep what they have, and the handle is released or not as before.
SameHolders == UNCHANGED <<running, srunning>> /\ (native' = "gone" <=> native = "gone")

\* A command enters the queue of the writer or of the searches with its ticket, or
\* a call is refused or not made.
Enters(c) ==
    /\ c \in Commands /\ c.op \in CallOps \cup {"close"} /\ c.t = Admitted(c.op).t
    /\ queue' = Append(queue, c) /\ squeue' = squeue /\ metrics' = Admitted(c.op).m
EntersSearch(c) ==
    /\ c \in SearchCommands /\ c.t = Admitted("search").t
    /\ squeue' = Append(squeue, c) /\ queue' = queue /\ metrics' = Admitted("search").m
Passes ==
    /\ metrics' = metrics \/ \E op \in Operations : metrics' = Rejected(op)
    /\ queue' = queue /\ squeue' = squeue

\* Every batch that was attempted runs or has one outcome.
Accounted(bs, bt) == bs.attempted = bs.succeeded + bs.failed + (IF bt = None THEN 0 ELSE 1)

\* What the loop of a batch and a direct call do.
Turns == SameHolders /\ (Passes \/ \E c : Enters(c) /\ c.op # "close")

\* The counters of batches, one of them moved.
LEMMA BatchesMove ==
    ASSUME NEW bs \in BatchCounts
    PROVE  /\ [bs EXCEPT !.attempted = @ + 1].attempted = bs.attempted + 1
           /\ [bs EXCEPT !.attempted = @ + 1].succeeded = bs.succeeded
           /\ [bs EXCEPT !.attempted = @ + 1].failed = bs.failed
           /\ [bs EXCEPT !.failed = @ + 1].attempted = bs.attempted
           /\ [bs EXCEPT !.failed = @ + 1].succeeded = bs.succeeded
           /\ [bs EXCEPT !.failed = @ + 1].failed = bs.failed + 1
           /\ [bs EXCEPT !.succeeded = @ + 1].attempted = bs.attempted
           /\ [bs EXCEPT !.succeeded = @ + 1].succeeded = bs.succeeded + 1
           /\ [bs EXCEPT !.succeeded = @ + 1].failed = bs.failed
           /\ [bs EXCEPT !.frames = @ + 1].attempted = bs.attempted
           /\ [bs EXCEPT !.frames = @ + 1].succeeded = bs.succeeded
           /\ [bs EXCEPT !.frames = @ + 1].failed = bs.failed
           /\ bs.attempted \in Nat /\ bs.succeeded \in Nat /\ bs.failed \in Nat
  BY DEF BatchCounts

\* A batch ends with one outcome.
LEMMA EndsAccounted ==
    ASSUME NEW bs \in BatchCounts, bs.attempted = bs.succeeded + bs.failed + 1, NEW n, n = None,
           NEW x, x = [bs EXCEPT !.failed = @ + 1] \/ x = [bs EXCEPT !.succeeded = @ + 1]
    PROVE  Accounted(x, n)
  <1>1. bs.attempted \in Nat /\ bs.succeeded \in Nat /\ bs.failed \in Nat
    BY BatchesMove
  <1>2. CASE x = [bs EXCEPT !.failed = @ + 1]
    <2>1. x.attempted = bs.attempted /\ x.succeeded = bs.succeeded /\ x.failed = bs.failed + 1
      BY <1>2, BatchesMove
    <2> QED BY <1>1, <2>1 DEF Accounted
  <1>3. CASE x = [bs EXCEPT !.succeeded = @ + 1]
    <2>1. x.attempted = bs.attempted /\ x.succeeded = bs.succeeded + 1 /\ x.failed = bs.failed
      BY <1>3, BatchesMove
    <2> QED BY <1>1, <2>1 DEF Accounted
  <1> QED BY <1>2, <1>3

\* The loop of applyMutationBatch.
LEMMA AdvanceTurns ==
    ASSUME Good, NEW bt, NEW bs \in BatchCounts, CursorOK(bt), Advance(bt, bs),
           UNCHANGED searchside, bs.attempted = bs.succeeded + bs.failed + 1
    PROVE  Turns /\ Accounted(batches', batch') /\ UNCHANGED closeReply
  <1>0. UNCHANGED <<squeue, srunning>>
    BY DEF searchside
  <1>1. CASE \E J, next, ms : Sends(bt, bs, J, next, ms)
    <2>1. PICK J, next, ms : Sends(bt, bs, J, next, ms)
      BY <1>1
    <2>2. bt.id \in Batches
      BY DEF CursorOK, Runs
    <2>3. ms \in Seq(Mutations)
      BY <2>1 DEF Sends, Carries
    <2>4. PICK rb \in BOOLEAN : rb = FALSE
      OBVIOUS
    <2>5. "apply" \in CallOps \cup {"close"} /\ "batch" \in {"batch", "call", "close"} /\ TypeOK
      BY DEF CallOps, Good
    <2>6. PICK c \in Commands : Command("apply", "batch", ms, rb) = c /\ c.op = "apply"
      BY <2>3, <2>5, CommandFacts
    <2>7. c.t = Admitted("apply").t
      BY <2>6 DEF Command
    <2>8. /\ queue' = Append(queue, c) /\ metrics' = Admitted("apply").m
          /\ UNCHANGED <<native, running, closeReply>> /\ batch' = next /\ batches' = bs
      BY <2>1, <2>4, <2>6 DEF Sends
    <2>9. next # None
      BY <2>1, FacadeAssumption DEF Sends, CursorOK
    <2>10. Accounted(batches', batch')
      BY <2>8, <2>9 DEF Accounted
    <2>11. Enters(c) /\ c.op # "close"
      BY <1>0, <2>5, <2>6, <2>7, <2>8 DEF Enters
    <2> QED BY <1>0, <2>8, <2>10, <2>11 DEF Turns, SameHolders
  <1>2. CASE Fails(bt, bs)
    <2>1. /\ batches' = [bs EXCEPT !.failed = @ + 1] /\ batch' = None
          /\ metrics' = metrics \/ metrics' = Rejected("apply")
          /\ UNCHANGED <<native, queue, running, closeReply>>
      BY <1>2 DEF Fails, FailBatch, writer
    <2>2. Accounted(batches', batch')
      BY <2>1, EndsAccounted
    <2>3. Passes
      BY <1>0, <2>1, FacadeAssumption DEF Passes, CallOps
    <2> QED BY <1>0, <2>1, <2>2, <2>3 DEF Turns, SameHolders
  <1>3. CASE Finishes(bt, bs)
    <2>1. /\ batches' = [bs EXCEPT !.succeeded = @ + 1] /\ batch' = None
          /\ metrics' = metrics /\ UNCHANGED <<native, queue, running, closeReply>>
      BY <1>3 DEF Finishes, FinishBatch, writer
    <2>2. Accounted(batches', batch')
      BY <2>1, EndsAccounted
    <2>3. Passes
      BY <1>0, <2>1 DEF Passes
    <2> QED BY <1>0, <2>1, <2>2, <2>3 DEF Turns, SameHolders
  <1> QED BY <1>1, <1>2, <1>3, AdvanceFacts

\* applyMutationBatch: the handle is idle and open, so no batch runs.
LEMMA ApplyTurns ==
    ASSUME Good, WholeNow, Accounted(batches, batch), NEW b \in Batches, ApplyMutationBatch(b)
    PROVE  Turns /\ Accounted(batches', batch') /\ UNCHANGED <<closeReply, promise, closed>>
  <1>0. UNCHANGED <<searchside, promise, closed>> /\ UNCHANGED <<squeue, srunning>>
    BY DEF ApplyMutationBatch, searchside
  <1>1. PICK bs : bs = [batches EXCEPT !.attempted = @ + 1]
    OBVIOUS
  <1>2. batches \in BatchCounts
    BY DEF Good, TypeOK, BatchCounts
  <1>3. /\ bs \in BatchCounts /\ bs.attempted = batches.attempted + 1
        /\ bs.succeeded = batches.succeeded /\ bs.failed = batches.failed
        /\ batches.attempted \in Nat /\ batches.succeeded \in Nat /\ batches.failed \in Nat
    BY <1>1, <1>2, BatchesMove, BatchCountsTyped
  <1>4. CASE Open /\ Idle /\ Replaceable(b)
    <2>1. PICK s : s = <<>>
      OBVIOUS
    <2>2. PICK no \in BOOLEAN : no = FALSE
      OBVIOUS
    <2>3. PICK bt : bt = [id |-> b, at |-> 1, replace |-> s, attempted |-> no, reply |-> "none"]
      OBVIOUS
    <2>4. Advance(bt, bs)
      BY <1>1, <1>4, <2>1, <2>2, <2>3 DEF ApplyMutationBatch
    <2>5. CursorOK(bt)
      BY <2>1, <2>2, <2>3, FreshCursor
    <2>6. batch = None
      BY <1>4 DEF WholeNow, Whole, RunOK, Open, Idle
    <2>7. batches.attempted = batches.succeeded + batches.failed + 0
      BY <2>6 DEF Accounted
    <2>8. bs.attempted = bs.succeeded + bs.failed + 1
      BY <1>3, <2>7
    <2> QED BY <1>0, <1>3, <2>4, <2>5, <2>8, AdvanceTurns
  <1>5. CASE ~(Open /\ Idle /\ Replaceable(b))
    <2>1. /\ batches' = [bs EXCEPT !.failed = @ + 1] /\ batch' = batch /\ metrics' = metrics
          /\ UNCHANGED <<native, queue, running, closeReply>>
      BY <1>1, <1>5 DEF ApplyMutationBatch, writer
    <2>2. PICK x : x = batches'
      OBVIOUS
    <2>3. x.attempted = bs.attempted /\ x.succeeded = bs.succeeded /\ x.failed = bs.failed + 1
      BY <1>3, <2>1, <2>2, BatchesMove
    <2>4. PICK k \in Nat : k = IF batch = None THEN 0 ELSE 1
      OBVIOUS
    <2>5. batches.attempted = batches.succeeded + batches.failed + k
      BY <2>4 DEF Accounted
    <2>6. x.attempted = x.succeeded + x.failed + k
      BY <1>3, <2>3, <2>5
    <2>7. Accounted(batches', batch')
      BY <2>1, <2>2, <2>4, <2>6 DEF Accounted
    <2> QED BY <1>0, <2>1, <2>7 DEF Turns, SameHolders, Passes
  <1> QED BY <1>4, <1>5

\* A batch whose frame was answered.
LEMMA ResumeTurns ==
    ASSUME Good, WholeNow, Accounted(batches, batch), ResumeBatch
    PROVE  Turns /\ Accounted(batches', batch') /\ UNCHANGED <<closeReply, promise, closed>>
  <1>0. UNCHANGED <<searchside, promise, closed>> /\ UNCHANGED <<squeue, srunning>> /\ batch # None
    BY DEF ResumeBatch, searchside
  <1>1. batches \in BatchCounts
    BY DEF Good, TypeOK, BatchCounts
  <1>2. batches.attempted = batches.succeeded + batches.failed + 1
    BY <1>0 DEF Accounted
  <1>3. CASE batch.reply = "ok"
    <2>1. PICK bs : bs = [batches EXCEPT !.frames = @ + 1]
      OBVIOUS
    <2>2. /\ bs \in BatchCounts /\ bs.attempted = batches.attempted
          /\ bs.succeeded = batches.succeeded /\ bs.failed = batches.failed
      BY <1>1, <2>1, BatchesMove, BatchCountsTyped
    <2>3. PICK bt : bt = batch
      OBVIOUS
    <2>4. CursorOK(bt)
      BY <1>0, <2>3 DEF Good, CursorsOK
    <2>5. Advance(bt, bs)
      BY <1>3, <2>1, <2>3 DEF ResumeBatch
    <2> QED BY <1>0, <1>2, <2>2, <2>4, <2>5, AdvanceTurns
  <1>4. CASE batch.reply # "ok"
    <2>1. /\ batches' = [batches EXCEPT !.failed = @ + 1] /\ batch' = None /\ metrics' = metrics
          /\ UNCHANGED <<native, queue, running, closeReply>>
      BY <1>4 DEF ResumeBatch, FailBatch, writer
    <2>2. Accounted(batches', batch')
      BY <1>1, <1>2, <2>1, EndsAccounted
    <2> QED BY <1>0, <2>1, <2>2 DEF Turns, SameHolders, Passes
  <1> QED BY <1>3, <1>4

\* apply, commit, publish and reload.
LEMMA CallTurns ==
    ASSUME Good, NEW op \in CallOps, Call(op)
    PROVE  Turns /\ UNCHANGED <<batches, batch, closeReply, promise, closed>>
  <1>1. UNCHANGED <<batches, batch, promise, closed, squeue, srunning>>
    BY DEF Call, searchside
  <1>2. CASE WriterAdmits
    <2>1. PICK ms : ms = IF op = "apply" THEN <<RawMutation>> ELSE <<>>
      OBVIOUS
    <2>2. RawMutation \in Mutations
      BY DEF RawMutation, Mutations
    <2>3. ms \in Seq(Mutations)
      BY <2>1, <2>2
    <2>4. PICK rb \in BOOLEAN : rb = FALSE
      OBVIOUS
    <2>5. op \in CallOps \cup {"close"} /\ op # "close" /\ "call" \in {"batch", "call", "close"} /\ TypeOK
      BY DEF CallOps, Good
    <2>6. PICK c \in Commands : Command(op, "call", ms, rb) = c /\ c.op = op
      BY <2>3, <2>5, CommandFacts
    <2>7. c.t = Admitted(op).t
      BY <2>6 DEF Command
    <2>8. Command(op, "call", ms, FALSE) = c
      BY <2>4, <2>6
    <2>9. Submit(c)
      BY <1>2, <2>1, <2>8, Zenon DEF Call
    <2>10. /\ queue' = Append(queue, c) /\ metrics' = Admitted(op).m
           /\ UNCHANGED <<native, running, closeReply>>
      BY <2>6, <2>9 DEF Submit
    <2>11. Enters(c) /\ c.op # "close"
      BY <1>1, <2>5, <2>6, <2>7, <2>10 DEF Enters
    <2> QED BY <1>1, <2>10, <2>11 DEF Turns, SameHolders
  <1>3. CASE ~WriterAdmits
    <2>1. (metrics' = metrics \/ metrics' = Rejected(op)) /\ UNCHANGED <<native, queue, running, closeReply>>
      BY <1>3 DEF Call, Refuse, writer
    <2>2. op \in Operations
      BY FacadeAssumption
    <2> QED BY <1>1, <2>1, <2>2 DEF Turns, SameHolders, Passes
  <1> QED BY <1>2, <1>3

\* close: forced into the queue of the writer, or refused.
LEMMA CloseTurns ==
    ASSUME Good, NEW rollback \in BOOLEAN, Close(rollback)
    PROVE  /\ SameHolders /\ promise' = TRUE /\ closed' = closed /\ Open /\ UNCHANGED <<batches, batch>>
           /\ \/ (\E c : Enters(c) /\ c.op = "close") /\ closeReply' = closeReply
              \/ Passes /\ closeReply' = "E_CLOSED"
  <1>1. /\ UNCHANGED <<closed, batch, batches, squeue, srunning, running>> /\ promise' = TRUE /\ Open
        /\ native # "gone"
    BY DEF Close, searchside
  <1>2. CASE native \in {"open", "poisoned"}
    <2>1. PICK rb \in BOOLEAN : rb = (rollback \/ native = "poisoned")
      OBVIOUS
    <2>0. PICK ms \in Seq(Mutations) : ms = <<>>
      BY EmptySeq
    <2>2. "close" \in CallOps \cup {"close"}
      OBVIOUS
    <2>3. PICK c \in Commands : Command("close", "close", ms, rb) = c /\ c.op = "close"
      BY <2>2, CommandFacts DEF Good
    <2>4. Command("close", "close", <<>>, rollback \/ native = "poisoned") = c
      BY <2>0, <2>1, <2>3
    <2>5. c.t = Admitted("close").t
      BY <2>3 DEF Command
    <2>6. /\ queue' = Append(queue, c) /\ closeReply' = closeReply
          /\ metrics' = Admitted("close").m /\ native' \in {"closing", "poisoned"}
      BY <1>2, <2>4 DEF Close
    <2>7. Enters(c)
      BY <1>1, <2>2, <2>3, <2>5, <2>6 DEF Enters
    <2> QED BY <1>1, <2>3, <2>6, <2>7 DEF SameHolders
  <1>3. CASE native \notin {"open", "poisoned"}
    <2>1. /\ closeReply' = "E_CLOSED" /\ metrics' = Rejected("close") /\ UNCHANGED <<native, queue>>
      BY <1>3 DEF Close
    <2>2. "close" \in Operations
      BY FacadeAssumption
    <2> QED BY <1>1, <2>1, <2>2 DEF SameHolders, Passes
  <1> QED BY <1>2, <1>3

\* Searches, the promise of a close.
LEMMA RestTurns ==
    ASSUME Good, CloseReturns \/ \E s \in Searches : SearchPage(s) \/ DigestReady(s)
    PROVE  SameHolders /\ UNCHANGED <<batches, batch, queue>> /\ (Passes \/ \E c : EntersSearch(c))
  <1>1. CASE CloseReturns
    BY <1>1 DEF CloseReturns, SameHolders, Passes, searchside
  <1>2. CASE \E s \in Searches : SearchPage(s)
    BY <1>2 DEF SearchPage, SameHolders, Passes, writer
  <1>3. ASSUME NEW s \in Searches, DigestReady(s)
        PROVE  SameHolders /\ UNCHANGED <<batches, batch, queue>> /\ (Passes \/ \E c : EntersSearch(c))
    <2>1. UNCHANGED <<batches, batch, queue, running, srunning, native>>
      BY <1>3 DEF DigestReady, facade, writer
    <2>2. PICK c : c = [id |-> s, t |-> Admitted("search").t]
      OBVIOUS
    <2>3. Admitted("search").t \in Tickets
      BY AdmittedSearch DEF ArmedTicket, Good
    <2>4. c \in SearchCommands /\ c.t = Admitted("search").t
      BY <2>2, <2>3 DEF SearchCommands
    <2>5. \/ squeue' = Append(squeue, c) /\ metrics' = Admitted("search").m
          \/ squeue' = squeue /\ (metrics' = metrics \/ metrics' = Rejected("search"))
      BY <1>3, <2>2 DEF DigestReady, AdmitSearch
    <2>6. "search" \in Operations
      BY FacadeAssumption
    <2> QED BY <2>1, <2>4, <2>5, <2>6 DEF SameHolders, Passes, EntersSearch
  <1> QED BY <1>1, <1>2, <1>3

-----------------------------------------------------------------------------
(* The books under the actions.                                            *)

\* The record of the teardown is not touched.
SameTeardown(x, m) == x.teardown = m.teardown /\ x.phases["teardown"] = m.phases["teardown"]

\* The books balance now, and after a step that records no teardown.
LedgerNow == Ledger(metrics, queue, squeue, running, srunning)
LedgerNext == /\ Ledger(metrics', queue', squeue', running', srunning')
              /\ SameTeardown(metrics', metrics)

\* A phase other than the teardown moves neither the books nor the teardown.
LEMMA PhaseAside ==
    ASSUME NEW m \in MetricsSets, NEW p \in {"commit", "readerReload"}, NEW ok \in BOOLEAN,
           NEW x, x = Phase(m, p, ok)
    PROVE  /\ x \in MetricsSets /\ x.actor = m.actor /\ x.admission = m.admission
           /\ SameTeardown(x, m)
  <1>0. p \in Phases /\ p # "teardown" /\ "teardown" \in Phases
    BY DEF Phases
  <1>1. x \in MetricsSets /\ x.actor = m.actor /\ x.admission = m.admission /\ x.teardown = m.teardown
    BY <1>0, PhaseFacts DEF Quiet
  <1>2. x.phases["teardown"] = m.phases["teardown"]
    <2>1. m.phases \in [Phases -> [succeeded : Nat, failed : Nat]]
      BY DEF MetricsSets
    <2>2. \/ x = [m EXCEPT !.phases = [m.phases EXCEPT ![p].succeeded = @ + 1]]
          \/ x = [m EXCEPT !.phases = [m.phases EXCEPT ![p].failed = @ + 1]]
      BY DEF Phase, MetricsSets
    <2>3. PICK f : f = [m.phases EXCEPT ![p].succeeded = @ + 1]
      OBVIOUS
    <2>4. PICK g : g = [m.phases EXCEPT ![p].failed = @ + 1]
      OBVIOUS
    <2>5. f["teardown"] = m.phases["teardown"] /\ g["teardown"] = m.phases["teardown"]
      BY <1>0, <2>1, <2>3, <2>4
    <2>6. x = [m EXCEPT !.phases = f] \/ x = [m EXCEPT !.phases = g]
      BY <2>2, <2>3, <2>4
    <2>7. x.phases = f \/ x.phases = g
      BY <2>6 DEF MetricsSets
    <2> QED BY <2>5, <2>7
  <1> QED BY <1>1, <1>2 DEF SameTeardown

\* A call of the facade.
LEMMA CallBooks ==
    ASSUME Good, LedgerNow, SameHolders, Passes \/ (\E c : Enters(c)) \/ (\E c : EntersSearch(c))
    PROVE  LedgerNext
  <1>1. PICK m, q, s, r, z : m = metrics /\ q = queue /\ s = squeue /\ r = running /\ z = srunning
    OBVIOUS
  <1>2. Ledger(m, q, s, r, z) /\ running' = r /\ srunning' = z
    BY <1>1 DEF LedgerNow, SameHolders
  <1>3. PICK N : N = Books(q, s, r, z)
    OBVIOUS
  <1>4. Balanced(metrics, N)
    BY <1>1, <1>2, <1>3 DEF Ledger
  <1>5. CASE Passes
    <2>1. CASE metrics' = metrics
      BY <1>1, <1>2, <1>5, <2>1 DEF Passes, LedgerNext, SameTeardown
    <2>2. ASSUME NEW op \in Operations, metrics' = Rejected(op) PROVE LedgerNext
      <3>1. Balanced(metrics', N) /\ SameEnd(metrics', metrics)
        BY <1>4, <2>2, RejectBalanced
      <3>2. Ledger(metrics', q, s, r, z)
        BY <1>2, <1>3, <3>1 DEF Ledger
      <3> QED BY <1>1, <1>2, <1>5, <3>1, <3>2 DEF Passes, LedgerNext, SameTeardown, SameEnd
    <2> QED BY <1>5, <2>1, <2>2 DEF Passes
  <1>6. ASSUME NEW c, Enters(c) PROVE LedgerNext
    <2>1. /\ c \in Commands /\ c.op \in Operations /\ c.t = Admitted(c.op).t /\ metrics' = Admitted(c.op).m
          /\ queue' = Append(queue, c) /\ squeue' = squeue
      BY <1>6, FacadeAssumption DEF Enters
    <2>2. PICK o \in Operations : o = c.op
      BY <2>1
    <2>3. Balanced(Admitted(o).m, More(N, Admitted(o).t)) /\ SameEnd(Admitted(o).m, metrics)
          /\ Queued(Admitted(o).t)
      BY <1>4, ArmBalanced
    <2>4. PICK x, p : x = metrics' /\ p = queue'
      OBVIOUS
    <2>5. Balanced(x, More(Books(q, s, r, z), c.t)) /\ SameEnd(x, metrics) /\ Queued(c.t)
      BY <1>3, <2>1, <2>2, <2>3, <2>4
    <2>6. p = Append(q, c) /\ c \in Jobs
      BY <1>1, <2>1, <2>4 DEF Jobs
    <2>7. Ledger(x, p, s, r, z)
      BY <1>2, <2>5, <2>6, LedgerAppend
    <2> QED BY <1>1, <1>2, <2>1, <2>4, <2>5, <2>7 DEF LedgerNext, SameTeardown, SameEnd
  <1>7. ASSUME NEW c, EntersSearch(c) PROVE LedgerNext
    <2>1. /\ c \in SearchCommands /\ c.t = Admitted("search").t /\ metrics' = Admitted("search").m
          /\ squeue' = Append(squeue, c) /\ queue' = queue
      BY <1>7 DEF EntersSearch
    <2>2. PICK o \in Operations : o = "search"
      BY FacadeAssumption
    <2>3. Balanced(Admitted(o).m, More(N, Admitted(o).t)) /\ SameEnd(Admitted(o).m, metrics)
          /\ Queued(Admitted(o).t)
      BY <1>4, ArmBalanced
    <2>4. PICK x, p : x = metrics' /\ p = squeue'
      OBVIOUS
    <2>5. Balanced(x, More(N, c.t)) /\ SameEnd(x, metrics) /\ Queued(c.t)
      BY <2>1, <2>2, <2>3, <2>4
    <2>6. p = Append(s, c) /\ c \in Jobs
      BY <1>1, <2>1, <2>4 DEF Jobs
    <2>7. Ledger(m, s, q, z, r)
      BY <1>2, LedgerSwap
    <2>8. Len(q) \in Nat /\ Len(s) \in Nat
      BY <1>2, LedgerTyped
    <2>9. N = Books(s, q, z, r)
      BY <1>3, <2>8, BooksSwap
    <2>10. Ledger(x, p, q, z, r)
      BY <2>5, <2>6, <2>7, <2>9, LedgerAppend
    <2>11. Ledger(x, q, p, r, z)
      BY <2>10, LedgerSwap
    <2> QED BY <1>1, <1>2, <2>1, <2>4, <2>5, <2>11 DEF LedgerNext, SameTeardown, SameEnd
  <1> QED BY <1>5, <1>6, <1>7

\* configureTelemetry: no counter moves.
LEMMA ConfigureBooks ==
    ASSUME Good, LedgerNow, ConfigureTelemetry \/ ConfigureBytes
    PROVE  LedgerNext /\ native' = native
  <1>1. PICK b \in BOOLEAN : \/ metrics' = [metrics EXCEPT !.histograms = b]
                            \/ metrics' = [metrics EXCEPT !.snapshotBytes = b]
    <2>1. CASE ConfigureTelemetry
      BY <2>1, FacadeAssumption DEF ConfigureTelemetry
    <2>2. CASE ConfigureBytes
      <3>1. PICK e \in BOOLEAN : e = (configuring = "enable")
        OBVIOUS
      <3> QED BY <2>2, <3>1 DEF ConfigureBytes
    <2> QED BY <2>1, <2>2
  <1>2. UNCHANGED <<queue, squeue, running, srunning, native>>
    BY DEF ConfigureTelemetry, ConfigureBytes, writer, searchside
  <1>3. metrics \in MetricsSets
    BY DEF Good, TypeOK
  <1>4. PICK x : x = metrics'
    OBVIOUS
  <1>5. /\ x \in MetricsSets /\ x.actor = metrics.actor /\ x.admission = metrics.admission
        /\ SameEnd(x, metrics)
    <2>1. CASE x = [metrics EXCEPT !.histograms = b]
      BY <1>3, <2>1 DEF MetricsSets, SameEnd
    <2>2. CASE x = [metrics EXCEPT !.snapshotBytes = b]
      BY <1>3, <2>2 DEF MetricsSets, SameEnd
    <2> QED BY <1>1, <1>4, <2>1, <2>2
  <1>6. Ledger(x, queue, squeue, running, srunning)
    BY <1>5, LedgerAlike DEF LedgerNow
  <1> QED BY <1>2, <1>4, <1>5, <1>6 DEF LedgerNext, SameTeardown, SameEnd

\* The search worker takes a search.
LEMMA TakeBooks ==
    ASSUME Good, LedgerNow, NEW worker \in Workers, SearchTake(worker)
    PROVE  LedgerNext
  <1>1. PICK m, q, s, r, z : m = metrics /\ q = queue /\ s = squeue /\ r = running /\ z = srunning
    OBVIOUS
  <1>2. Ledger(m, s, q, z, r) /\ z = None /\ s # <<>>
    BY <1>1, LedgerSwap DEF LedgerNow, SearchTake
  <1>3. /\ squeue' = Tail(s) /\ queue' = q /\ running' = r
        /\ s \in Seq(SearchCommands)
    BY <1>1 DEF SearchTake, writer, Good, TypeOK
  <1>4. Head(s) = s[1] /\ s[1] \in SearchCommands
    BY <1>2, <1>3, TailFacts
  <1>5. PICK t : t = s[1].t
    OBVIOUS
  <1>6. PICK d : d = Dispatch(BindWorker([m |-> m, t |-> t], worker))
    OBVIOUS
  <1>7. srunning' = [s[1] EXCEPT !.t = d.t] /\ metrics' = d.m
    BY <1>1, <1>4, <1>5, <1>6 DEF SearchTake
  <1>8. PICK N : N = Books(s, q, z, r)
    OBVIOUS
  <1>9. Balanced(m, N) /\ Queued(t)
    <2>1. Tray(s)
      BY <1>2 DEF Ledger
    <2>2. Queued(s[1].t)
      BY <1>2, <2>1, TrayTail
    <2> QED BY <1>2, <1>5, <1>8, <2>2 DEF Ledger
  <1>10. /\ Balanced(d.m, More(Less(N, t), d.t)) /\ SameEnd(d.m, m) /\ LiveTicket(d.t)
    BY <1>6, <1>9, TakeBalanced
  <1>11. PICK u, c, x, p : u = d.t /\ c = srunning' /\ x = metrics' /\ p = squeue'
    OBVIOUS
  <1>12. u \in Tickets
    BY <1>10, <1>11 DEF LiveTicket
  <1>13. c \in SearchCommands /\ c.t = u
    BY <1>4, <1>7, <1>11, <1>12 DEF SearchCommands
  <1>14. c # None
    BY <1>13, FacadeAssumption
  <1>15. LiveTicket(c.t) /\ Balanced(x, More(Less(Books(s, q, z, r), s[1].t), c.t)) /\ p = Tail(s)
    BY <1>3, <1>5, <1>7, <1>8, <1>10, <1>11, <1>13
  <1>16. Ledger(x, p, q, c, r)
    BY <1>2, <1>14, <1>15, LedgerTake
  <1>17. Ledger(x, q, p, r, c)
    BY <1>16, LedgerSwap
  <1> QED BY <1>1, <1>3, <1>7, <1>10, <1>11, <1>17 DEF LedgerNext, SameTeardown, SameEnd

\* A search that waited too long.
LEMMA ExpireBooks ==
    ASSUME Good, LedgerNow, SearchExpire
    PROVE  LedgerNext
  <1>1. PICK m, q, s, r, z : m = metrics /\ q = queue /\ s = squeue /\ r = running /\ z = srunning
    OBVIOUS
  <1>2. Ledger(m, s, q, z, r) /\ s # <<>>
    BY <1>1, LedgerSwap DEF LedgerNow, SearchExpire
  <1>3. /\ squeue' = Tail(s) /\ queue' = q /\ running' = r /\ srunning' = z
        /\ s \in Seq(SearchCommands)
    BY <1>1 DEF SearchExpire, writer, Good, TypeOK
  <1>4. Head(s) = s[1]
    BY <1>2, <1>3, TailFacts
  <1>5. PICK ok \in BOOLEAN, t \in {s[1].t} : t = s[1].t /\ ok = FALSE
    OBVIOUS
  <1>6. PICK x \in {metrics'}, p \in {squeue'}, N \in {Books(s, q, z, r)} : N = Books(s, q, z, r)
    OBVIOUS
  <1>7. x = Settle([m |-> m, t |-> t], ok).m
    BY <1>1, <1>4, <1>5, <1>6 DEF SearchExpire, Settling
  <1>8. Balanced(m, N) /\ LiveTicket(t)
    <2>1. Tray(s)
      BY <1>2 DEF Ledger
    <2>2. Queued(s[1].t)
      BY <1>2, <2>1, TrayTail
    <2> QED BY <1>2, <1>5, <1>6, <2>2 DEF Ledger, Queued
  <1>9. Balanced(x, Less(N, t)) /\ SameEnd(x, m)
    BY <1>7, <1>8, SettleBalanced
  <1>10. p = Tail(s) /\ Balanced(x, Less(Books(s, q, z, r), s[1].t))
    BY <1>3, <1>5, <1>6, <1>9
  <1>11. Ledger(x, p, q, z, r)
    BY <1>2, <1>10, LedgerDrop
  <1>12. Ledger(x, q, p, r, z)
    BY <1>11, LedgerSwap
  <1> QED BY <1>1, <1>3, <1>6, <1>9, <1>12 DEF LedgerNext, SameTeardown, SameEnd

\* The actor's ticket settles.
LEMMA SettledLedger ==
    ASSUME NEW m, NEW q, NEW s, NEW r, NEW z, Ledger(m, q, s, r, z), r # None, NEW ok \in BOOLEAN,
           NEW u, AlikeTickets(r.t, u), u.accepted = r.t.accepted, u.settled = r.t.settled,
           NEW x, x = Settle([m |-> m, t |-> u], ok).m, NEW e, e = None
    PROVE  Ledger(x, q, s, e, z) /\ SameEnd(x, m)
  <1>1. PICK N, t : N = Books(q, s, r, z) /\ t = r.t
    OBVIOUS
  <1>2. Balanced(m, N) /\ LiveTicket(t) /\ N \in Accounts
    BY <1>1 DEF Ledger, Holder, Balanced
  <1>3. LiveTicket(u) /\ AlikeTickets(t, u)
    BY <1>1, <1>2 DEF LiveTicket, AlikeTickets
  <1>4. Balanced(x, Less(N, u)) /\ SameEnd(x, m)
    BY <1>2, <1>3, SettleBalanced
  <1>5. Balanced(x, Less(N, t))
    BY <1>2, <1>3, <1>4, LessAlike
  <1>6. Ledger(x, q, s, e, z)
    BY <1>1, <1>5, LedgerDone
  <1> QED BY <1>4, <1>6

\* A ticket is like itself.
LEMMA SelfAlike ==
    ASSUME NEW m, NEW q, NEW s, NEW r, NEW z, Ledger(m, q, s, r, z), r # None
    PROVE  AlikeTickets(r.t, r.t) /\ r.t \in Tickets
  BY DEF Ledger, Holder, LiveTicket, AlikeTickets

\* A search starts, or fails for want of a permit.
LEMMA StartBooks ==
    ASSUME Good, LedgerNow, SearchStart
    PROVE  LedgerNext
  <1>1. PICK m, q, s, r, z : m = metrics /\ q = queue /\ s = squeue /\ r = running /\ z = srunning
    OBVIOUS
  <1>2. Ledger(m, s, q, z, r) /\ z # None /\ ~z.t.started /\ z \in SearchCommands
    BY <1>1, LedgerSwap DEF LedgerNow, SearchStart, Good, TypeOK
  <1>3. queue' = q /\ squeue' = s /\ running' = r
    BY <1>1 DEF SearchStart, writer
  <1>4. PICK t : t = z.t
    OBVIOUS
  <1>5. PICK c, x : c = srunning' /\ x = metrics'
    OBVIOUS
  <1>6. CASE srunning' = [srunning EXCEPT !.t = Start([m |-> metrics, t |-> srunning.t]).t]
             /\ metrics' = Start([m |-> metrics, t |-> srunning.t]).m
    <2>1. PICK w : w = Start([m |-> m, t |-> t])
      OBVIOUS
    <2>2. c = [z EXCEPT !.t = w.t] /\ x = w.m
      BY <1>1, <1>4, <1>5, <1>6, <2>1
    <2>3. PICK N : N = Books(s, q, z, r)
      OBVIOUS
    <2>4. Balanced(m, N) /\ LiveTicket(t) /\ ~t.started
      BY <1>2, <1>4, <2>3 DEF Ledger, Holder
    <2>5. Balanced(w.m, More(Less(N, t), w.t)) /\ SameEnd(w.m, m) /\ LiveTicket(w.t)
      BY <2>1, <2>4, StartBalanced
    <2>6. PICK u \in Tickets : u = w.t
      BY <2>5 DEF LiveTicket
    <2>7. c \in SearchCommands /\ c.t = u
      BY <1>2, <2>2, <2>6 DEF SearchCommands
    <2>8. c # None /\ LiveTicket(c.t) /\ Balanced(x, More(Less(Books(s, q, z, r), z.t), c.t))
      BY <1>4, <2>2, <2>3, <2>5, <2>6, <2>7, FacadeAssumption
    <2>9. Ledger(x, s, q, c, r)
      BY <1>2, <2>8, LedgerTurn
    <2>10. Ledger(x, q, s, r, c)
      BY <2>9, LedgerSwap
    <2> QED BY <1>1, <1>3, <1>5, <2>2, <2>5, <2>10 DEF LedgerNext, SameTeardown, SameEnd
  <1>7. CASE srunning' = None /\ metrics' = Settle([m |-> metrics, t |-> srunning.t], FALSE).m
    <2>1. PICK ok \in BOOLEAN : ok = FALSE
      OBVIOUS
    <2>2. x = Settle([m |-> m, t |-> t], ok).m /\ c = None
      BY <1>1, <1>4, <1>5, <1>7, <2>1
    <2>3. AlikeTickets(z.t, t) /\ t.accepted = z.t.accepted /\ t.settled = z.t.settled
      BY <1>2, <1>4, SelfAlike
    <2>4. Ledger(x, s, q, c, r) /\ SameEnd(x, m)
      BY <1>2, <2>2, <2>3, SettledLedger
    <2>5. Ledger(x, q, s, r, c)
      BY <2>4, LedgerSwap
    <2> QED BY <1>1, <1>3, <1>5, <2>4, <2>5 DEF LedgerNext, SameTeardown, SameEnd
  <1> QED BY <1>6, <1>7 DEF SearchStart, Settling

\* A search ends.
LEMMA FinishBooks ==
    ASSUME Good, LedgerNow, SearchFinish
    PROVE  LedgerNext
  <1>1. PICK m, q, s, r, z : m = metrics /\ q = queue /\ s = squeue /\ r = running /\ z = srunning
    OBVIOUS
  <1>2. Ledger(m, s, q, z, r) /\ z # None
    BY <1>1, LedgerSwap DEF LedgerNow, SearchFinish
  <1>3. queue' = q /\ squeue' = s /\ running' = r /\ srunning' = None
    BY <1>1 DEF SearchFinish, writer
  <1>4. PICK t \in Tickets : t = z.t
    BY <1>2, SelfAlike
  <1>5. PICK w : w = Finish([m |-> m, t |-> t])
    OBVIOUS
  <1>6. PICK ok \in BOOLEAN : metrics' = Settle(w, ok).m
    BY <1>1, <1>4, <1>5 DEF SearchFinish, Settling
  <1>7. /\ w.m = m /\ w.t \in Tickets /\ w.t.op = t.op /\ w.t.worker = t.worker
        /\ w.t.accepted = t.accepted /\ w.t.settled = t.settled
        /\ w.t.started = t.started /\ w.t.dispatched = t.dispatched
    BY <1>5, FinishFacts
  <1>8. PICK u : u = w.t
    OBVIOUS
  <1>9. w = [m |-> m, t |-> u]
    <2>1. w = [m |-> w.m, t |-> w.t]
      <3>1. PICK y : y = [m |-> m, t |-> t]
        OBVIOUS
      <3>2. w = [y EXCEPT !.t.execution = TRUE] \/ w = y
        BY <1>5, <3>1 DEF Finish
      <3> QED BY <3>1, <3>2
    <2> QED BY <1>7, <1>8, <2>1
  <1>10. AlikeTickets(z.t, u) /\ u.accepted = z.t.accepted /\ u.settled = z.t.settled
    BY <1>4, <1>7, <1>8 DEF AlikeTickets
  <1>11. PICK x, e : x = metrics' /\ e = None
    OBVIOUS
  <1>12. x = Settle([m |-> m, t |-> u], ok).m
    BY <1>6, <1>9, <1>11
  <1>13. Ledger(x, s, q, e, r) /\ SameEnd(x, m)
    BY <1>2, <1>10, <1>11, <1>12, SettledLedger
  <1>14. Ledger(x, q, s, r, e)
    BY <1>13, LedgerSwap
  <1> QED BY <1>1, <1>3, <1>11, <1>13, <1>14 DEF LedgerNext, SameTeardown, SameEnd

\* The writer takes a command.
LEMMA PopBooks ==
    ASSUME Good, LedgerNow, WriterPop
    PROVE  LedgerNext /\ native' = native
  <1>1. PICK m, q, s, r, z : m = metrics /\ q = queue /\ s = squeue /\ r = running /\ z = srunning
    OBVIOUS
  <1>2. Ledger(m, q, s, r, z) /\ r = None /\ q # <<>> /\ q \in Seq(Commands)
    BY <1>1 DEF LedgerNow, WriterPop, Good, TypeOK
  <1>3. queue' = Tail(q) /\ squeue' = s /\ srunning' = z /\ native' = native
    BY <1>1 DEF WriterPop, searchside
  <1>4. Head(q) = q[1] /\ q[1] \in Commands
    BY <1>2, TailFacts
  <1>5. PICK t : t = q[1].t
    OBVIOUS
  <1>6. PICK w : w = Start([m |-> m, t |-> t])
    OBVIOUS
  <1>7. running' = [q[1] EXCEPT !.t = w.t] /\ metrics' = w.m
    BY <1>1, <1>4, <1>5, <1>6 DEF WriterPop
  <1>8. PICK N : N = Books(q, s, r, z)
    OBVIOUS
  <1>9. Balanced(m, N) /\ LiveTicket(t) /\ ~t.started
    <2>1. Tray(q)
      BY <1>2 DEF Ledger
    <2>2. Queued(q[1].t)
      BY <1>2, <2>1, TrayTail
    <2> QED BY <1>2, <1>5, <1>8, <2>2 DEF Ledger, Queued
  <1>10. Balanced(w.m, More(Less(N, t), w.t)) /\ SameEnd(w.m, m) /\ LiveTicket(w.t)
    BY <1>6, <1>9, StartBalanced
  <1>11. PICK u \in Tickets : u = w.t
    BY <1>10 DEF LiveTicket
  <1>12. PICK c, x, p : c = running' /\ x = metrics' /\ p = queue'
    OBVIOUS
  <1>13. c \in Commands /\ c.t = u
    BY <1>4, <1>7, <1>11, <1>12 DEF Commands
  <1>14. c # None /\ LiveTicket(c.t) /\ p = Tail(q)
    BY <1>3, <1>10, <1>11, <1>12, <1>13, FacadeAssumption
  <1>15. Balanced(x, More(Less(Books(q, s, r, z), q[1].t), c.t))
    BY <1>5, <1>7, <1>8, <1>10, <1>11, <1>12, <1>13
  <1>16. Ledger(x, p, s, c, z)
    BY <1>2, <1>14, <1>15, LedgerTake
  <1> QED BY <1>1, <1>3, <1>7, <1>10, <1>12, <1>16 DEF LedgerNext, SameTeardown, SameEnd

\* Counters whose phases alone moved, the teardown not among them.
Phased(m) ==
    /\ m \in MetricsSets /\ m.actor = metrics.actor /\ m.admission = metrics.admission
    /\ SameTeardown(m, metrics)

\* The phases a command measures.
LEMMA PhasedFacts ==
    ASSUME Good
    PROVE  /\ Phased(metrics)
           /\ \A m, p, ok : Phased(m) /\ p \in {"commit", "readerReload"} /\ ok \in BOOLEAN
                              => Phased(Phase(m, p, ok))
  <1>1. Phased(metrics)
    BY DEF Good, TypeOK, Phased, SameTeardown
  <1>2. ASSUME NEW m, NEW p \in {"commit", "readerReload"}, NEW ok \in BOOLEAN, Phased(m)
        PROVE  Phased(Phase(m, p, ok))
    <2>1. PICK x : x = Phase(m, p, ok)
      OBVIOUS
    <2>2. /\ x \in MetricsSets /\ x.actor = m.actor /\ x.admission = m.admission /\ SameTeardown(x, m)
      BY <1>2, <2>1, PhaseAside DEF Phased
    <2> QED BY <1>2, <2>1, <2>2 DEF Phased, SameTeardown
  <1> QED BY <1>1, <1>2

\* The books after the phases of a command.
LEMMA PhasedLedger ==
    ASSUME LedgerNow, NEW m, Phased(m)
    PROVE  Ledger(m, queue, squeue, running, srunning)
  BY LedgerAlike DEF LedgerNow, Phased

\* The writer's ticket settles after its phases.
LEMMA WriterSettles ==
    ASSUME LedgerNow, NEW m, Phased(m), running # None, NEW ok \in BOOLEAN,
           NEW x, x = Settle([m |-> m, t |-> running.t], ok).m, NEW e, e = None
    PROVE  Ledger(x, queue, squeue, e, srunning) /\ SameTeardown(x, metrics)
  <1>1. PICK q, s, r, z : q = queue /\ s = squeue /\ r = running /\ z = srunning
    OBVIOUS
  <1>2. Ledger(m, q, s, r, z) /\ r # None
    BY <1>1, PhasedLedger
  <1>3. PICK t : t = r.t
    OBVIOUS
  <1>4. AlikeTickets(r.t, t) /\ t.accepted = r.t.accepted /\ t.settled = r.t.settled
    BY <1>2, <1>3, SelfAlike
  <1>5. x = Settle([m |-> m, t |-> t], ok).m
    BY <1>1, <1>3
  <1>6. Ledger(x, q, s, e, z) /\ SameEnd(x, m)
    BY <1>2, <1>4, <1>5, SettledLedger
  <1> QED BY <1>1, <1>6 DEF SameEnd, SameTeardown, Phased

\* The writer's command ends, and the loop goes on.
LEMMA ContinueBooks ==
    ASSUME LedgerNow, NEW m, Phased(m), running # None, NEW ok \in BOOLEAN, WriterContinue(m, ok),
           srunning' = srunning
    PROVE  LedgerNext
  <1>1. PICK x, e : x = metrics' /\ e = None
    OBVIOUS
  <1>2. x = Settle([m |-> m, t |-> running.t], ok).m /\ running' = e /\ UNCHANGED <<queue, squeue>>
    BY <1>1 DEF WriterContinue
  <1>3. Ledger(x, queue, squeue, e, srunning) /\ SameTeardown(x, metrics)
    BY <1>1, <1>2, WriterSettles
  <1> QED BY <1>1, <1>2, <1>3 DEF LedgerNext

\* WriterSucceed, WriterRefuse and CloseDirty go on.
LEMMA GoesOnBooks ==
    ASSUME Good, LedgerNow, WriterSucceed \/ WriterRefuse \/ CloseDirty
    PROVE  LedgerNext
  <1>1. running # None /\ srunning' = srunning
    BY DEF WriterSucceed, WriterRefuse, CloseDirty, Reopens
  <1>2. PICK yes \in BOOLEAN, no \in BOOLEAN : yes = TRUE /\ no = FALSE
    OBVIOUS
  <1>3. PICK c \in {"commit", "readerReload"}, l \in {"commit", "readerReload"} :
           c = "commit" /\ l = "readerReload"
    OBVIOUS
  <1>4. PICK a1, a2, a3, a4, a5 :
           /\ a1 = Phase(metrics, c, yes) /\ a2 = Phase(a1, l, yes) /\ a3 = Phase(metrics, l, yes)
           /\ a4 = Phase(metrics, c, no) /\ a5 = Phase(metrics, l, no)
    OBVIOUS
  <1>5. Phased(metrics) /\ Phased(a1) /\ Phased(a3) /\ Phased(a4) /\ Phased(a5)
    BY <1>4, PhasedFacts
  <1>6. Phased(a2)
    BY <1>4, <1>5, PhasedFacts
  <1>7. \/ WriterContinue(metrics, yes) \/ WriterContinue(a1, yes) \/ WriterContinue(a2, yes)
        \/ WriterContinue(a3, yes) \/ WriterContinue(metrics, no) \/ WriterContinue(a4, no)
        \/ WriterContinue(a5, no)
    <2>1. CASE WriterSucceed
      BY <1>2, <1>3, <1>4, <2>1 DEF WriterSucceed
    <2>2. CASE WriterRefuse
      <3>1. running.op \in {"apply", "commit", "reload"}
        BY <2>2 DEF WriterRefuse
      <3> QED BY <1>2, <1>3, <1>4, <2>2, <3>1 DEF WriterRefuse
    <2>3. CASE CloseDirty
      BY <1>2, <2>3 DEF CloseDirty
    <2> QED BY <2>1, <2>2, <2>3
  <1> QED BY <1>1, <1>5, <1>6, <1>7, ContinueBooks

\* Runtime::poison drains both queues, but for a close.
LEMMA PoisonBooks ==
    ASSUME Good, OneClose(queue), NEW m, NEW bt, Poison(m, bt), NEW r, NEW z,
           Ledger(m, queue, squeue, r, z)
    PROVE  Ledger(metrics', queue', squeue', r, z) /\ SameEnd(metrics', m)
  <1>1. PICK q, s, p, e, D, E : /\ q = queue /\ s = squeue /\ p = Kept(queue) /\ e = <<>>
                                /\ D = Failed(queue) /\ E = 1..Len(squeue)
    OBVIOUS
  <1>2. PICK x, y : x = SettleAll(m, q, D) /\ y = SettleAll(x, s, E)
    OBVIOUS
  <1>3. queue' = p /\ squeue' = e /\ metrics' = y
    BY <1>1, <1>2 DEF Poison
  <1>4. Ledger(m, q, s, r, z) /\ Tray(q) /\ Tray(s)
    BY <1>1 DEF Ledger
  <1>5. Leaves(p, q, D)
    BY <1>1, <1>4, LeavesKept DEF Good, TypeOK
  <1>6. Ledger(x, p, s, r, z) /\ SameEnd(x, m)
    BY <1>2, <1>4, <1>5, LedgerDrain
  <1>7. Ledger(x, s, p, z, r)
    BY <1>6, LedgerSwap
  <1>8. Leaves(e, s, E)
    BY <1>1, <1>4, LeavesNothing
  <1>9. Ledger(y, e, p, z, r) /\ SameEnd(y, x)
    BY <1>2, <1>7, <1>8, LedgerDrain
  <1>10. Ledger(y, p, e, r, z)
    BY <1>9, LedgerSwap
  <1> QED BY <1>3, <1>6, <1>9, <1>10 DEF SameEnd

\* A search panics.
LEMMA SearchPanicBooks ==
    ASSUME Good, LedgerNow, OneClose(queue), SearchPanic
    PROVE  LedgerNext /\ native' # "gone"
  <1>1. PICK m, q, s, r, z, e : /\ m = metrics /\ q = queue /\ s = squeue /\ r = running /\ z = srunning
                                /\ e = None
    OBVIOUS
  <1>2. Ledger(m, s, q, z, r) /\ z # None
    BY <1>1, LedgerSwap DEF LedgerNow, SearchPanic
  <1>3. PICK ok \in BOOLEAN, t \in {z.t} : ok = FALSE /\ t = z.t
    OBVIOUS
  <1>4. PICK x : x = Settle([m |-> m, t |-> t], ok).m
    OBVIOUS
  <1>5. AlikeTickets(z.t, t) /\ t.accepted = z.t.accepted /\ t.settled = z.t.settled
    BY <1>2, <1>3, SelfAlike
  <1>6. Ledger(x, s, q, e, r) /\ SameEnd(x, m)
    BY <1>1, <1>2, <1>4, <1>5, SettledLedger
  <1>7. Ledger(x, queue, squeue, r, e)
    BY <1>1, <1>6, LedgerSwap
  <1>8. Poison(x, batch) /\ running' = r /\ srunning' = e
    BY <1>1, <1>3, <1>4 DEF SearchPanic
  <1>9. Ledger(metrics', queue', squeue', r, e) /\ SameEnd(metrics', x)
    BY <1>7, <1>8, PoisonBooks
  <1> QED BY <1>1, <1>6, <1>8, <1>9 DEF LedgerNext, SameTeardown, SameEnd, Poison

\* The writer panics; its ticket stays.
LEMMA WriterPanicBooks ==
    ASSUME Good, LedgerNow, OneClose(queue), WriterPanic
    PROVE  LedgerNext /\ native' # "gone"
  <1>1. PICK m, q, s, r, z : m = metrics /\ q = queue /\ s = squeue /\ r = running /\ z = srunning
    OBVIOUS
  <1>2. Ledger(m, q, s, r, z) /\ r # None /\ r \in Commands
    BY <1>1 DEF LedgerNow, WriterPanic, Good, TypeOK
  <1>3. PICK yes \in BOOLEAN : yes = TRUE
    OBVIOUS
  <1>4. PICK c : c = running'
    OBVIOUS
  <1>5. c = [r EXCEPT !.panicked = yes] /\ srunning' = z /\ Poison(m, batch)
    BY <1>1, <1>3, <1>4 DEF WriterPanic
  <1>6. c \in Commands /\ c.t = r.t
    BY <1>2, <1>5 DEF Commands
  <1>7. c # None
    BY <1>6, FacadeAssumption
  <1>8. Ledger(m, queue, squeue, c, z)
    BY <1>1, <1>2, <1>6, <1>7, LedgerKeeps
  <1>9. Ledger(metrics', queue', squeue', c, z) /\ SameEnd(metrics', m)
    BY <1>5, <1>8, PoisonBooks
  <1> QED BY <1>1, <1>4, <1>5, <1>9 DEF LedgerNext, SameTeardown, SameEnd, Poison

\* A command of the writer fails, and poisons.
LEMMA FailBooks ==
    ASSUME Good, LedgerNow, OneClose(queue), WriterFail
    PROVE  LedgerNext /\ native' # "gone"
  <1>1. running # None /\ srunning' = srunning /\ running' = None
    BY DEF WriterFail
  <1>2. PICK yes \in BOOLEAN, no \in BOOLEAN : yes = TRUE /\ no = FALSE
    OBVIOUS
  <1>3. PICK c \in {"commit", "readerReload"}, l \in {"commit", "readerReload"} :
           c = "commit" /\ l = "readerReload"
    OBVIOUS
  <1>4. PICK a1, a2, a3 : a1 = Phase(metrics, c, no) /\ a2 = Phase(metrics, c, yes) /\ a3 = Phase(a2, l, no)
    OBVIOUS
  <1>5. Phased(metrics) /\ Phased(a1) /\ Phased(a2)
    BY <1>4, PhasedFacts
  <1>6. Phased(a3)
    BY <1>4, <1>5, PhasedFacts
  <1>7. PICK bt : bt = Answer(batch, {running}, "failed")
    OBVIOUS
  <1>8. \E m \in {metrics, a1, a3} : Poison(Settle([m |-> m, t |-> running.t], no).m, bt)
    BY <1>2, <1>3, <1>4, <1>7 DEF WriterFail
  <1>9. PICK m : Phased(m) /\ Poison(Settle([m |-> m, t |-> running.t], no).m, bt)
    BY <1>5, <1>6, <1>8
  <1>10. PICK x, e : x = Settle([m |-> m, t |-> running.t], no).m /\ e = None
    OBVIOUS
  <1>11. Ledger(x, queue, squeue, e, srunning) /\ SameTeardown(x, metrics)
    BY <1>1, <1>9, <1>10, WriterSettles
  <1>12. Poison(x, bt)
    BY <1>9, <1>10
  <1>13. Ledger(metrics', queue', squeue', e, srunning) /\ SameEnd(metrics', x)
    BY <1>11, <1>12, PoisonBooks
  <1> QED BY <1>1, <1>10, <1>11, <1>12, <1>13 DEF LedgerNext, SameTeardown, SameEnd, Poison

\* No teardown is under way, and k were recorded.
Torn(m, k) == /\ ~m.teardown
              /\ m.phases["teardown"].succeeded + m.phases["teardown"].failed = k

\* Beginning a teardown.
LEMMA BeginFacts ==
    ASSUME NEW m \in MetricsSets, NEW x, x = BeginTeardown(m)
    PROVE  /\ x \in MetricsSets /\ x.actor = m.actor /\ x.admission = m.admission
           /\ x.phases = m.phases /\ x.teardown
  <1>1. PICK yes \in BOOLEAN : yes = TRUE
    OBVIOUS
  <1>2. x = [m EXCEPT !.teardown = yes]
    BY <1>1 DEF BeginTeardown
  <1> QED BY <1>1, <1>2 DEF MetricsSets

\* Its end is recorded, once.
LEMMA FinishTeardownFacts ==
    ASSUME NEW m \in MetricsSets, m.teardown, NEW k \in Nat, NEW ok \in BOOLEAN,
           m.phases["teardown"].succeeded + m.phases["teardown"].failed = k,
           NEW x, x = FinishTeardown(m, ok)
    PROVE  /\ x \in MetricsSets /\ x.actor = m.actor /\ x.admission = m.admission
           /\ Torn(x, k + 1)
  <1>1. PICK no \in BOOLEAN : no = FALSE
    OBVIOUS
  <1>2. PICK y : y = [m EXCEPT !.teardown = no]
    OBVIOUS
  <1>3. y \in MetricsSets /\ y.actor = m.actor /\ y.admission = m.admission /\ y.phases = m.phases /\ ~y.teardown
    BY <1>1, <1>2 DEF MetricsSets
  <1>4. x = Phase(y, "teardown", ok)
    BY <1>1, <1>2 DEF FinishTeardown
  <1>5. "teardown" \in Phases
    BY DEF Phases
  <1>6. x \in MetricsSets /\ x.actor = y.actor /\ x.admission = y.admission /\ x.teardown = y.teardown
    BY <1>3, <1>4, <1>5, PhaseFacts DEF Quiet
  <1>7. PICK f \in [Phases -> [succeeded : Nat, failed : Nat]] : f = y.phases
    BY <1>3 DEF MetricsSets
  <1>8. PICK p \in Phases : p = "teardown"
    BY <1>5
  <1>9. PICK a \in Nat, b \in Nat : a = f[p].succeeded /\ b = f[p].failed /\ a + b = k
    BY <1>3, <1>7, <1>8
  <1>10. CASE ok
    <2>1. PICK g : g = [f EXCEPT ![p].succeeded = @ + 1]
      OBVIOUS
    <2>2. g[p].succeeded = a + 1 /\ g[p].failed = b
      BY <1>9, <2>1
    <2>3. x = [y EXCEPT !.phases = g]
      BY <1>3, <1>4, <1>7, <1>8, <1>10, <2>1 DEF Phase, MetricsSets
    <2>4. x.phases = g
      BY <1>3, <2>3 DEF MetricsSets
    <2>5. (a + 1) + b = k + 1
      BY <1>9
    <2> QED BY <1>3, <1>6, <1>8, <2>2, <2>4, <2>5 DEF Torn
  <1>11. CASE ~ok
    <2>1. PICK g : g = [f EXCEPT ![p].failed = @ + 1]
      OBVIOUS
    <2>2. g[p].succeeded = a /\ g[p].failed = b + 1
      BY <1>9, <2>1
    <2>3. x = [y EXCEPT !.phases = g]
      BY <1>3, <1>4, <1>7, <1>8, <1>11, <2>1 DEF Phase, MetricsSets
    <2>4. x.phases = g
      BY <1>3, <2>3 DEF MetricsSets
    <2>5. a + (b + 1) = k + 1
      BY <1>9
    <2> QED BY <1>3, <1>6, <1>8, <2>2, <2>4, <2>5 DEF Torn
  <1> QED BY <1>10, <1>11

\* The end of the actor: its queue and its ticket settle, and the teardown is recorded.
LEMMA ReleasedBooks ==
    ASSUME Good, LedgerNow, Torn(metrics, 0), running # None, NEW ok \in BOOLEAN, NEW clean \in BOOLEAN,
           Released(ok, clean), UNCHANGED <<squeue, srunning>>
    PROVE  /\ Ledger(metrics', queue', squeue', running', srunning') /\ Torn(metrics', 1)
           /\ native' = "gone"
  <1>1. PICK m, q, s, r, z : m = metrics /\ q = queue /\ s = squeue /\ r = running /\ z = srunning
    OBVIOUS
  <1>2. Ledger(m, q, s, r, z) /\ r # None /\ m \in MetricsSets /\ Tray(q)
    BY <1>1 DEF LedgerNow, Good, TypeOK, Ledger
  <1>3. PICK e, n, D, t : e = <<>> /\ n = None /\ D = 1..Len(q) /\ t = r.t
    OBVIOUS
  <1>4. PICK b, y, f, x : b = BeginTeardown(m) /\ y = SettleAll(b, q, D) /\ f = FinishTeardown(y, clean)
                          /\ x = Settle([m |-> f, t |-> t], ok).m
    OBVIOUS
  <1>5. metrics' = x /\ queue' = e /\ running' = n /\ native' = "gone" /\ squeue' = s /\ srunning' = z
    BY <1>1, <1>3, <1>4 DEF Released
  <1>6. /\ b \in MetricsSets /\ b.actor = m.actor /\ b.admission = m.admission
        /\ b.phases = m.phases /\ b.teardown
    BY <1>2, <1>4, BeginFacts
  <1>7. Ledger(b, q, s, r, z)
    BY <1>2, <1>6, LedgerAlike
  <1>8. Leaves(e, q, D)
    BY <1>2, <1>3, LeavesNothing
  <1>9. Ledger(y, e, s, r, z) /\ SameEnd(y, b)
    BY <1>4, <1>7, <1>8, LedgerDrain
  <1>10. y \in MetricsSets /\ y.teardown
         /\ y.phases["teardown"].succeeded + y.phases["teardown"].failed = 0
    <2>1. y \in MetricsSets
      BY <1>9, LedgerTyped
    <2>2. m.phases["teardown"].succeeded + m.phases["teardown"].failed = 0
      BY <1>1 DEF Torn
    <2> QED BY <1>6, <1>9, <2>1, <2>2 DEF SameEnd
  <1>11. PICK k \in Nat : k = 0
    OBVIOUS
  <1>12. f \in MetricsSets /\ f.actor = y.actor /\ f.admission = y.admission /\ Torn(f, k + 1)
    BY <1>4, <1>10, <1>11, FinishTeardownFacts
  <1>13. Ledger(f, e, s, r, z)
    BY <1>9, <1>12, LedgerAlike
  <1>14. AlikeTickets(r.t, t) /\ t.accepted = r.t.accepted /\ t.settled = r.t.settled
    BY <1>2, <1>3, SelfAlike
  <1>15. Ledger(x, e, s, n, z) /\ SameEnd(x, f)
    BY <1>2, <1>3, <1>4, <1>13, <1>14, SettledLedger
  <1>16. Torn(x, 1)
    BY <1>11, <1>12, <1>15 DEF Torn, SameEnd
  <1> QED BY <1>5, <1>15, <1>16

-----------------------------------------------------------------------------
(* The close.                                                              *)

\* The closes on their way to the writer.
CloseSlots(q, r) == {i \in Slots(q, r) : At(q, r, i).op = "close"}

\* One close at most is on its way: the one the facade has promised and not yet
\* got an answer for; an answer is delivered only to a promise.
Promised(q, r, pr, cl, rep) ==
    /\ \A i, j \in CloseSlots(q, r) : i = j
    /\ CloseSlots(q, r) # {} => pr /\ ~cl /\ rep = "none"
    /\ rep # "none" => pr /\ ~cl
PromisedNow == Promised(queue, running, promise, closed, closeReply)
PromisedNext == Promised(queue', running', promise', closed', closeReply')

\* A thinner pipeline has no more closes.
LEMMA PromisedThin ==
    ASSUME NEW q, NEW r, NEW pr, NEW cl, NEW rep, Promised(q, r, pr, cl, rep), Len(q) \in Nat,
           NEW q2, NEW r2, Thins(q2, r2, q, r), Len(q2) \in Nat
    PROVE  Promised(q2, r2, pr, cl, rep)
  <1>1. PICK f \in [Slots(q2, r2) -> Slots(q, r)] :
           /\ \A i \in Slots(q2, r2) : Similar(At(q2, r2, i), At(q, r, f[i]))
           /\ \A i, j \in Slots(q2, r2) : i < j => f[i] < f[j]
    BY Zenon DEF Thins
  <1>2. \A i \in Slots(q2, r2) : f[i] \in Slots(q, r) /\ f[i] \in Nat /\ i \in Nat
    BY SlotsAre
  <1>3. ASSUME NEW i \in CloseSlots(q2, r2)
        PROVE  i \in Slots(q2, r2) /\ f[i] \in CloseSlots(q, r)
    BY <1>1, <1>2, <1>3 DEF CloseSlots, Similar
  <1>4. ASSUME NEW i \in CloseSlots(q2, r2), NEW j \in CloseSlots(q2, r2) PROVE i = j
    <2>1. f[i] = f[j]
      BY <1>3 DEF Promised
    <2>2. i \in Slots(q2, r2) /\ j \in Slots(q2, r2)
      BY <1>3
    <2> QED BY <1>1, <1>2, <2>1, <2>2
  <1>5. CloseSlots(q2, r2) # {} => CloseSlots(q, r) # {}
    BY <1>3
  <1> QED BY <1>4, <1>5 DEF Promised

\* The closes of a pipeline that takes one more command.
LEMMA ClosesAppend ==
    ASSUME NEW q \in Seq(Commands), NEW r, NEW c \in Commands, NEW p, p = Append(q, c)
    PROVE  \A i \in CloseSlots(p, r) : i \in CloseSlots(q, r) \/ (i = Len(q) + 1 /\ c.op = "close")
  <1>1. PICK n \in Nat : n = Len(q)
    BY LenProperties
  <1>2. Len(p) = n + 1 /\ p[n + 1] = c /\ \A i \in 1..n : p[i] = q[i]
    BY <1>1, AppendFacts
  <1>3. ASSUME NEW i \in CloseSlots(p, r)
        PROVE  i \in CloseSlots(q, r) \/ (i = n + 1 /\ c.op = "close")
    <2>1. i \in 0..(n + 1) /\ (i = 0 => r # None) /\ At(p, r, i).op = "close"
      BY <1>2, <1>3 DEF CloseSlots, Slots
    <2>2. CASE i = n + 1
      BY <1>2, <2>1, <2>2 DEF At
    <2>3. CASE i # n + 1
      <3>1. i \in Slots(q, r)
        BY <1>1, <2>1, <2>3 DEF Slots
      <3>2. At(q, r, i) = At(p, r, i)
        BY <1>2, <2>1, <2>3 DEF At
      <3> QED BY <2>1, <3>1, <3>2 DEF CloseSlots
    <2> QED BY <2>2, <2>3
  <1> QED BY <1>1, <1>3

\* A call of the facade other than a close.
LEMMA TurnsPromised ==
    ASSUME Good, PromisedNow, Turns, UNCHANGED <<closeReply, promise, closed>>
    PROVE  PromisedNext
  <1>1. running' = running
    BY DEF Turns, SameHolders
  <1>2. CASE Passes
    BY <1>1, <1>2 DEF Passes, PromisedNow, PromisedNext
  <1>3. ASSUME NEW c, Enters(c), c.op # "close" PROVE PromisedNext
    <2>1. PICK p : p = queue'
      OBVIOUS
    <2>2. p = Append(queue, c) /\ c \in Commands /\ queue \in Seq(Commands)
      BY <1>3, <2>1 DEF Enters, Good, TypeOK
    <2>3. \A i \in CloseSlots(p, running) : i \in CloseSlots(queue, running)
      BY <1>3, <2>2, ClosesAppend
    <2> QED BY <1>1, <2>1, <2>3 DEF PromisedNow, PromisedNext, Promised
  <1> QED BY <1>2, <1>3 DEF Turns

\* close: nothing was promised, so no close is on its way.
LEMMA ClosePromised ==
    ASSUME Good, PromisedNow, NEW rollback \in BOOLEAN, Close(rollback)
    PROVE  PromisedNext
  <1>1. /\ SameHolders /\ promise' = TRUE /\ closed' = closed /\ Open
        /\ \/ (\E c : Enters(c) /\ c.op = "close") /\ closeReply' = closeReply
           \/ Passes /\ closeReply' = "E_CLOSED"
    BY CloseTurns
  <1>2. running' = running /\ ~closed /\ ~promise
    BY <1>1 DEF SameHolders, Open
  <1>3. CloseSlots(queue, running) = {} /\ closeReply = "none"
    BY <1>2 DEF PromisedNow, Promised
  <1>4. CASE Passes /\ closeReply' = "E_CLOSED"
    BY <1>1, <1>2, <1>3, <1>4 DEF Passes, PromisedNext, Promised
  <1>5. ASSUME NEW c, Enters(c), closeReply' = closeReply PROVE PromisedNext
    <2>1. PICK p : p = queue'
      OBVIOUS
    <2>2. p = Append(queue, c) /\ c \in Commands /\ queue \in Seq(Commands)
      BY <1>5, <2>1 DEF Enters, Good, TypeOK
    <2>3. \A i \in CloseSlots(p, running) : i = Len(queue) + 1
      BY <1>3, <2>2, ClosesAppend
    <2> QED BY <1>1, <1>2, <1>3, <1>5, <2>1, <2>3 DEF PromisedNext, Promised
  <1> QED BY <1>1, <1>4, <1>5

\* The promise settles: no close is on its way.
LEMMA ReturnsPromised ==
    ASSUME PromisedNow, CloseReturns
    PROVE  PromisedNext
  <1>1. closeReply # "none" /\ closeReply' = "none" /\ queue' = queue /\ running' = running
    BY DEF CloseReturns
  <1>2. CloseSlots(queue, running) = {}
    BY <1>1 DEF PromisedNow, Promised
  <1> QED BY <1>1, <1>2 DEF PromisedNext, Promised

\* What a step of the writer leaves on its way was there.
LEMMA WriterDrains ==
    ASSUME Good, WholeNow, Good',
           \/ SearchPanic \/ WriterPop \/ WriterSucceed \/ WriterRefuse
           \/ WriterFail \/ CloseDirty \/ WriterPanic
    PROVE  DrainsNow /\ UNCHANGED <<batches, promise, closed>>
  <1>0. UNCHANGED <<batches, promise, closed>>
    BY DEF SearchPanic, WriterPop, WriterSucceed, WriterRefuse, WriterFail, CloseDirty, WriterPanic,
           facade
  <1>1. batch \in Runs \cup {None} /\ Reanswered(batch, batch) /\ Similar(running, running)
    BY DEF Good, TypeOK, Reanswered, Similar
  <1>2. PICK yes \in BOOLEAN, no \in BOOLEAN : yes = TRUE /\ no = FALSE
    OBVIOUS
  <1>3. CASE SearchPanic
    <2>1. PICK m : Poison(m, batch)
      BY <1>3 DEF SearchPanic
    <2>2. running' = running
      BY <1>3 DEF SearchPanic
    <2> QED BY <1>0, <1>1, <2>1, <2>2, PoisonDrains
  <1>4. CASE WriterPop
    <2>1. queue \in Seq(Commands) /\ queue # <<>> /\ running = None /\ queue' = Tail(queue) /\ batch' = batch
      BY <1>4 DEF Good, TypeOK, WriterPop, facade
    <2>2. PICK t : running' = [Head(queue) EXCEPT !.t = t]
      BY <1>4 DEF WriterPop
    <2>3. Head(queue) = queue[1] /\ queue[1] \in Commands /\ Len(queue) \in Nat
      BY <2>1, TailFacts, LenProperties
    <2>4. PICK c : c = running'
      OBVIOUS
    <2>5. c = [queue[1] EXCEPT !.t = t]
      BY <2>2, <2>3, <2>4
    <2>6. Similar(c, queue[1])
      BY <2>3, <2>5 DEF Similar, Commands
    <2>7. c # None
      BY <1>4, <2>4, PopTakes
    <2>8. Thins(Tail(queue), c, queue, running) /\ Len(Tail(queue)) \in Nat
      BY <2>1, <2>6, <2>7, ThinsPop
    <2> QED BY <1>0, <1>1, <2>1, <2>3, <2>4, <2>8 DEF DrainsNow, Drains
  <1>5. CASE WriterSucceed
    <2>1. PICK m : running # None /\ WriterContinue(m, TRUE)
      BY <1>5 DEF WriterSucceed
    <2>2. WriterContinue(m, yes)
      BY <1>2, <2>1
    <2> QED BY <1>0, <2>1, <2>2, ContinueDrains
  <1>6. CASE WriterRefuse \/ CloseDirty
    <2>1. PICK m : running # None /\ WriterContinue(m, FALSE)
      BY <1>6 DEF WriterRefuse, CloseDirty, Reopens
    <2>2. WriterContinue(m, no)
      BY <1>2, <2>1
    <2> QED BY <1>0, <2>1, <2>2, ContinueDrains
  <1>7. CASE WriterFail
    <2>1. PICK bt, S : bt = Answer(batch, {running}, "failed") /\ S = {running}
      OBVIOUS
    <2>2. PICK m : Poison(m, bt)
      BY <1>7, <2>1 DEF WriterFail
    <2>3. running' = None
      BY <1>7 DEF WriterFail
    <2>4. bt \in Runs \cup {None} /\ Reanswered(batch, bt) /\ (bt # batch => bt.reply = "failed")
      BY <1>1, <2>1, AnswerAnswers
    <2> QED BY <1>0, <2>2, <2>3, <2>4, PoisonDrains
  <1>8. CASE WriterPanic
    <2>1. Poison(metrics, batch) /\ running # None /\ running' = [running EXCEPT !.panicked = yes]
          /\ running \in Commands
      BY <1>2, <1>8 DEF WriterPanic, Good, TypeOK
    <2>2. Similar(running', running)
      BY <2>1 DEF Similar, Commands
    <2> QED BY <1>0, <1>1, <2>1, <2>2, PoisonDrains
  <1> QED BY <1>3, <1>4, <1>5, <1>6, <1>7, <1>8

\* The close the writer holds is the only one, and promised.
LEMMA RunningClose ==
    ASSUME Good, PromisedNow, running # None, running.op = "close"
    PROVE  CloseSlots(queue, None) = {} /\ promise /\ ~closed
  <1>1. Len(queue) \in Nat
    BY LenProperties DEF Good, TypeOK
  <1>2. 0 \in CloseSlots(queue, running)
    BY <1>1 DEF CloseSlots, Slots, At
  <1>3. promise /\ ~closed
    BY <1>2 DEF PromisedNow, Promised
  <1>4. ASSUME NEW i \in CloseSlots(queue, None) PROVE FALSE
    <2>1. i \in Slots(queue, None) /\ At(queue, None, i).op = "close"
      BY <1>4 DEF CloseSlots
    <2>2. i # 0 /\ i \in Slots(queue, running)
      BY <2>1 DEF Slots
    <2>3. At(queue, running, i).op = "close"
      BY <2>1, <2>2 DEF At
    <2>4. i \in CloseSlots(queue, running)
      BY <2>2, <2>3 DEF CloseSlots
    <2> QED BY <1>2, <2>2, <2>4 DEF PromisedNow, Promised
  <1> QED BY <1>3, <1>4

\* A command of the writer is a close if it answers one, and is on its way.
LEMMA ClosePresent ==
    ASSUME Good, NEW c, c \in ToSet(queue) \/ (running # None /\ c = running), c.from = "close"
    PROVE  CloseSlots(queue, running) # {}
  <1>1. Len(queue) \in Nat
    BY LenProperties DEF Good, TypeOK
  <1>2. CASE c \in ToSet(queue)
    <2>1. PICK i \in 1..Len(queue) : c = queue[i]
      BY <1>2 DEF ToSet
    <2>2. queue[i].op = "close"
      BY <2>1 DEF Good, CommandsOK, Fits
    <2>3. i \in Slots(queue, running) /\ At(queue, running, i) = queue[i]
      BY <1>1, <2>1 DEF Slots, At
    <2> QED BY <2>2, <2>3 DEF CloseSlots
  <1>3. CASE running # None /\ c = running
    <2>1. running.op = "close"
      BY <1>3 DEF Good, CommandsOK, Fits
    <2>2. 0 \in CloseSlots(queue, running)
      BY <1>1, <1>3, <2>1 DEF CloseSlots, Slots, At
    <2> QED BY <2>2
  <1> QED BY <1>2, <1>3

\* A step of the writer that goes on.
LEMMA WriterPromised ==
    ASSUME Good, WholeNow, Good', PromisedNow,
           \/ SearchPanic \/ WriterPop \/ WriterSucceed \/ WriterRefuse
           \/ WriterFail \/ CloseDirty \/ WriterPanic
    PROVE  PromisedNext
  <1>1. DrainsNow /\ UNCHANGED <<batches, promise, closed>>
    BY WriterDrains
  <1>2. PICK q2, r2 : q2 = queue' /\ r2 = running'
    OBVIOUS
  <1>3. Thins(q2, r2, queue, running) /\ Len(queue) \in Nat /\ Len(q2) \in Nat
    BY <1>1, <1>2 DEF DrainsNow, Drains
  <1>4. Promised(q2, r2, promise, closed, closeReply)
    BY <1>3, PromisedThin DEF PromisedNow
  <1>5. CASE closeReply' = closeReply
    BY <1>1, <1>2, <1>4, <1>5 DEF PromisedNext
  <1>6. CASE closeReply' # closeReply
    <2>1. PICK m, ok : running # None /\ WriterContinue(m, ok)
      BY <1>6 DEF SearchPanic, WriterPop, WriterSucceed, WriterRefuse, WriterFail, CloseDirty,
                  WriterPanic, Reopens
    <2>2. running.from = "close" /\ running' = None /\ queue' = queue
      BY <1>6, <2>1 DEF WriterContinue, AnswerClose
    <2>3. running.op = "close"
      BY <2>1, <2>2 DEF Good, CommandsOK, Fits
    <2>4. CloseSlots(queue, None) = {} /\ promise /\ ~closed
      BY <2>1, <2>3, RunningClose
    <2> QED BY <1>1, <2>2, <2>4 DEF PromisedNext, Promised
  <1> QED BY <1>5, <1>6

\* The end of the actor.
LEMMA StopPromised ==
    ASSUME Good, PromisedNow, CloseStop \/ PanicStop
    PROVE  PromisedNext
  <1>1. /\ running # None /\ running' = None /\ queue' = <<>> /\ UNCHANGED <<promise, closed>>
    BY DEF CloseStop, PanicStop, Released
  <1>2. PICK e, n : e = queue' /\ n = None
    OBVIOUS
  <1>3. CloseSlots(e, n) = {}
    <2>1. Len(e) = 0
      BY <1>1, <1>2, EmptySeq
    <2> QED BY <1>2, <2>1 DEF CloseSlots, Slots
  <1>4. closeReply' # "none" => promise /\ ~closed
    <2>1. CASE CloseStop
      <3>1. running.op = "close"
        BY <2>1 DEF CloseStop
      <3> QED BY <1>1, <3>1, RunningClose
    <2>2. CASE PanicStop
      <3>1. CASE \E c \in ToSet(queue) \cup {running} : c.from = "close"
        <4>1. PICK c \in ToSet(queue) \cup {running} : c.from = "close"
          BY <3>1
        <4>2. CloseSlots(queue, running) # {}
          BY <1>1, <4>1, ClosePresent
        <4> QED BY <4>2 DEF PromisedNow, Promised
      <3>2. CASE ~(\E c \in ToSet(queue) \cup {running} : c.from = "close")
        <4>1. closeReply' = closeReply
          BY <2>2, <3>2 DEF PanicStop, AnswerClose
        <4> QED BY <4>1 DEF PromisedNow, Promised
      <3> QED BY <3>1, <3>2
    <2> QED BY <2>1, <2>2
  <1> QED BY <1>1, <1>2, <1>3, <1>4 DEF PromisedNext, Promised

\* At most one close waits in the queue: the drain keeps all of them.
LEMMA PromisedOne ==
    ASSUME Good, PromisedNow
    PROVE  OneClose(queue)
  <1>1. Len(queue) \in Nat
    BY LenProperties DEF Good, TypeOK
  <1>2. ASSUME NEW i \in 1..Len(queue), queue[i].op = "close" PROVE i \in CloseSlots(queue, running)
    BY <1>1, <1>2 DEF CloseSlots, Slots, At
  <1> QED BY <1>2 DEF OneClose, PromisedNow, Promised

-----------------------------------------------------------------------------
(* The telemetry.                                                          *)

\* A released handle recorded one teardown, another none.
TornNow == Torn(metrics, IF native = "gone" THEN 1 ELSE 0)

\* The strengthening: the books balance, one close is on its way at most, the
\* teardown was recorded, and the batches are accounted for.
Exact == LedgerNow /\ PromisedNow /\ TornNow /\ Accounted(batches, batch)
ExactNext == /\ Ledger(metrics', queue', squeue', running', srunning')
             /\ PromisedNext
             /\ Torn(metrics', IF native' = "gone" THEN 1 ELSE 0)
             /\ Accounted(batches', batch')

\* A step that records no teardown.
LEMMA TornKept ==
    ASSUME TornNow, LedgerNext, native' = "gone" <=> native = "gone"
    PROVE  Torn(metrics', IF native' = "gone" THEN 1 ELSE 0)
  BY DEF TornNow, Torn, LedgerNext, SameTeardown

\* The steps of the facade.
LEMMA JsExact ==
    ASSUME Atomic, Exact, JsStep
    PROVE  ExactNext
  <1>1. Good /\ WholeNow /\ LedgerNow /\ PromisedNow /\ TornNow /\ Accounted(batches, batch)
    BY DEF Atomic, Exact
  <1>2. ASSUME SameHolders, Passes \/ (\E c : Enters(c)) \/ (\E c : EntersSearch(c)),
               PromisedNext, Accounted(batches', batch')
        PROVE  ExactNext
    <2>1. LedgerNext
      BY <1>1, <1>2, CallBooks
    <2>2. Torn(metrics', IF native' = "gone" THEN 1 ELSE 0)
      BY <1>1, <1>2, <2>1, TornKept DEF SameHolders
    <2> QED BY <1>2, <2>1, <2>2 DEF ExactNext, LedgerNext
  <1>3. ASSUME Turns, UNCHANGED <<closeReply, promise, closed>>, Accounted(batches', batch')
        PROVE  ExactNext
    <2>1. PromisedNext
      BY <1>1, <1>3, TurnsPromised
    <2> QED BY <1>2, <1>3, <2>1 DEF Turns
  <1>4. ASSUME NEW b \in Batches, ApplyMutationBatch(b) PROVE ExactNext
    BY <1>1, <1>3, <1>4, ApplyTurns
  <1>5. CASE ResumeBatch
    BY <1>1, <1>3, <1>5, ResumeTurns
  <1>6. ASSUME NEW op \in CallOps, Call(op) PROVE ExactNext
    <2>1. Turns /\ UNCHANGED <<batches, batch, closeReply, promise, closed>>
      BY <1>1, <1>6, CallTurns
    <2>2. Accounted(batches', batch')
      BY <1>1, <2>1
    <2> QED BY <1>3, <2>1, <2>2
  <1>7. ASSUME NEW rollback \in BOOLEAN, Close(rollback) PROVE ExactNext
    <2>1. /\ SameHolders /\ UNCHANGED <<batches, batch>> /\ (Passes \/ \E c : Enters(c))
      BY <1>1, <1>7, CloseTurns
    <2>2. PromisedNext
      BY <1>1, <1>7, ClosePromised
    <2>3. Accounted(batches', batch')
      BY <1>1, <2>1
    <2> QED BY <1>2, <2>1, <2>2, <2>3
  <1>8. CASE CloseReturns \/ \E s \in Searches : SearchPage(s) \/ DigestReady(s)
    <2>1. /\ SameHolders /\ UNCHANGED <<batches, batch, queue>> /\ (Passes \/ \E c : EntersSearch(c))
      BY <1>1, <1>8, RestTurns
    <2>2. PromisedNext
      <3>1. CASE CloseReturns
        BY <1>1, <3>1, ReturnsPromised
      <3>2. CASE \E s \in Searches : SearchPage(s) \/ DigestReady(s)
        <4>1. UNCHANGED <<queue, running, promise, closed, closeReply>>
          BY <3>2 DEF SearchPage, DigestReady, facade, writer
        <4> QED BY <1>1, <4>1 DEF PromisedNow, PromisedNext
      <3> QED BY <1>8, <3>1, <3>2
    <2>3. Accounted(batches', batch')
      BY <1>1, <2>1
    <2> QED BY <1>2, <2>1, <2>2, <2>3
  <1> QED BY <1>4, <1>5, <1>6, <1>7, <1>8 DEF JsStep

\* The steps of the search worker, and a reconfiguration.
LEMMA SearchExact ==
    ASSUME Atomic, Exact, SearchStep \/ ConfigureTelemetry \/ ConfigureBytes
    PROVE  ExactNext
  <1>1. Good /\ LedgerNow /\ PromisedNow /\ TornNow /\ Accounted(batches, batch)
    BY DEF Atomic, Exact
  <1>2. UNCHANGED <<native, queue, running, promise, closed, closeReply, batches, batch>>
    BY DEF SearchStep, SearchTake, SearchExpire, SearchStart, SearchFinish, ConfigureTelemetry,
           ConfigureBytes, facade, writer
  <1>3. LedgerNext
    <2>1. CASE ConfigureTelemetry \/ ConfigureBytes
      BY <1>1, <2>1, ConfigureBooks
    <2>2. CASE SearchStep
      BY <1>1, <2>2, TakeBooks, ExpireBooks, StartBooks, FinishBooks DEF SearchStep
    <2> QED BY <2>1, <2>2
  <1>4. Torn(metrics', IF native' = "gone" THEN 1 ELSE 0)
    BY <1>1, <1>2, <1>3, TornKept
  <1>5. PromisedNext /\ Accounted(batches', batch')
    BY <1>1, <1>2 DEF PromisedNow, PromisedNext
  <1> QED BY <1>3, <1>4, <1>5 DEF ExactNext, LedgerNext

\* The steps of the writer that leave the handle there.
LEMMA WriterExact ==
    ASSUME Atomic, Exact, Good',
           \/ SearchPanic \/ WriterPop \/ WriterSucceed \/ WriterRefuse
           \/ WriterFail \/ CloseDirty \/ WriterPanic
    PROVE  ExactNext
  <1>1. Good /\ GoneInv /\ WholeNow /\ LedgerNow /\ PromisedNow /\ TornNow /\ Accounted(batches, batch)
    BY DEF Atomic, Exact
  <1>2. OneClose(queue)
    BY <1>1, PromisedOne
  <1>3. native # "gone"
    BY <1>1 DEF GoneInv, SearchPanic, WriterPop, WriterSucceed, WriterRefuse, WriterFail,
                CloseDirty, Reopens, WriterPanic
  <1>4. LedgerNext /\ native' # "gone"
    <2>1. CASE WriterPop
      BY <1>1, <1>3, <2>1, PopBooks
    <2>2. CASE WriterSucceed \/ WriterRefuse \/ CloseDirty
      <3>1. LedgerNext
        BY <1>1, <2>2, GoesOnBooks
      <3>2. native' # "gone"
        BY <1>3, <2>2 DEF WriterSucceed, WriterRefuse, CloseDirty
      <3> QED BY <3>1, <3>2
    <2>3. CASE SearchPanic
      BY <1>1, <1>2, <2>3, SearchPanicBooks
    <2>4. CASE WriterPanic
      BY <1>1, <1>2, <2>4, WriterPanicBooks
    <2>5. CASE WriterFail
      BY <1>1, <1>2, <2>5, FailBooks
    <2> QED BY <2>1, <2>2, <2>3, <2>4, <2>5
  <1>5. Torn(metrics', IF native' = "gone" THEN 1 ELSE 0)
    BY <1>1, <1>3, <1>4, TornKept
  <1>6. PromisedNext
    BY <1>1, WriterPromised
  <1>7. Accounted(batches', batch')
    <2>1. Reanswered(batch, batch') /\ batches' = batches
      BY <1>1, WriterDrains DEF DrainsNow, Drains
    <2>2. batch' = None <=> batch = None
      BY <2>1 DEF Reanswered
    <2> QED BY <1>1, <2>1, <2>2 DEF Accounted
  <1> QED BY <1>4, <1>5, <1>6, <1>7 DEF ExactNext, LedgerNext

\* The end of the actor.
LEMMA StopExact ==
    ASSUME Atomic, Exact, CloseStop \/ PanicStop
    PROVE  ExactNext
  <1>1. Good /\ GoneInv /\ LedgerNow /\ PromisedNow /\ TornNow /\ Accounted(batches, batch)
    BY DEF Atomic, Exact
  <1>2. running # None /\ UNCHANGED <<squeue, srunning, batches>>
    BY DEF CloseStop, PanicStop, searchside
  <1>3. PICK ok \in BOOLEAN, clean \in BOOLEAN : Released(ok, clean)
    <2>1. CASE CloseStop
      <3>1. PICK reply \in Outcomes : Released(reply = "ok", reply = "ok")
        BY <2>1 DEF CloseStop
      <3>2. PICK yes \in BOOLEAN : yes = (reply = "ok")
        OBVIOUS
      <3>3. Released(yes, yes)
        BY <3>1, <3>2
      <3> QED BY <3>3
    <2>2. CASE PanicStop
      <3>1. PICK quiesced \in BOOLEAN : Released(FALSE, quiesced)
        BY <2>2 DEF PanicStop
      <3>2. PICK no \in BOOLEAN : no = FALSE
        OBVIOUS
      <3>3. Released(no, quiesced)
        BY <3>1, <3>2
      <3> QED BY <3>3
    <2> QED BY <2>1, <2>2
  <1>4. Torn(metrics, 0)
    <2>1. native # "gone"
      BY <1>1, <1>2, RunningThere
    <2> QED BY <1>1, <2>1 DEF TornNow
  <1>5. /\ Ledger(metrics', queue', squeue', running', srunning') /\ Torn(metrics', 1)
        /\ native' = "gone"
    BY <1>1, <1>2, <1>3, <1>4, ReleasedBooks
  <1>6. PromisedNext
    BY <1>1, StopPromised
  <1>7. Accounted(batches', batch')
    <2>1. PICK S : batch' = Answer(batch, S, "failed")
      BY DEF CloseStop, PanicStop
    <2>2. batch \in Runs \cup {None}
      BY <1>1 DEF Good, TypeOK
    <2>3. batch' = None <=> batch = None
      BY <2>1, <2>2, AnswerFacts
    <2> QED BY <1>1, <1>2, <2>3 DEF Accounted
  <1> QED BY <1>5, <1>6, <1>7 DEF ExactNext

\* Every step keeps the books.
LEMMA StepExact ==
    ASSUME Atomic, Exact, [Next]_vars
    PROVE  Exact'
  <1>1. Good'
    BY StepGood DEF Atomic
  <1>2. CASE UNCHANGED vars \/ ConfigureReader \/ ObserveBytes \/ BytesMeasured
    <2>1. UNCHANGED <<metrics, queue, squeue, running, srunning, promise, closed, closeReply, native,
                      batches, batch>>
      BY <1>2 DEF vars, facade, writer, searchside, ConfigureReader, ObserveBytes, BytesMeasured
    <2>2. ExactNext
      BY <2>1 DEF Exact, ExactNext, LedgerNow, PromisedNow, PromisedNext, TornNow
    <2> QED BY <2>2 DEF Exact, ExactNext, LedgerNow, PromisedNow, PromisedNext, TornNow
  <1>3. CASE ~(UNCHANGED vars \/ ConfigureReader \/ ObserveBytes \/ BytesMeasured)
    <2>1. ExactNext
      BY <1>1, <1>3, JsExact, SearchExact, WriterExact, StopExact DEF Next
    <2> QED BY <2>1 DEF Exact, ExactNext, LedgerNow, PromisedNow, PromisedNext, TornNow
  <1> QED BY <1>2, <1>3

\* Counters that are all zero sum to zero.
LEMMA ZeroSum ==
    ASSUME NEW f \in [Actors -> Int], \A a \in Actors : f[a] = 0, NEW p, NEW v, IsActorSum(v, f, p)
    PROVE  v = 0
  <1>1. IsFiniteSet(Actors) /\ OperationActor \in Actors
    BY ActorsFacts
  <1>2. CASE p \in SearchOperations
    <2>1. SumsTo(f, v, Actors)
      BY <1>2 DEF IsActorSum
    <2> QED BY <1>1, <2>1, SumZero
  <1>3. CASE p \notin SearchOperations
    BY <1>1, <1>3 DEF IsActorSum
  <1> QED BY <1>2, <1>3

\* The counters of a new handle.
LEMMA NewTally ==
    ASSUME metrics = NewMetrics, metrics \in MetricsSets, NEW p \in Operations
    PROVE  /\ Completed(metrics, p) = 0 /\ ActorValue(metrics, p, "dispatched") = 0
           /\ QueueSamples(metrics, p) = 0
           /\ \A a \in Actors : metrics.actor[a][p].dispatched = 0
           /\ metrics.admission[p].attempted = 0 /\ metrics.admission[p].accepted = 0
           /\ metrics.admission[p].rejected = 0
  <1>1. PICK m : m = metrics
    OBVIOUS
  <1>2. \A a \in Actors : m.actor[a][p] = ActorCounters
    BY <1>1 DEF NewMetrics
  <1>3. \A a \in Actors : /\ m.actor[a][p].dispatched = 0 /\ m.actor[a][p].succeeded = 0
                          /\ m.actor[a][p].failed = 0 /\ m.actor[a][p].queue.count = 0
    BY <1>2 DEF ActorCounters, Latency
  <1>4. m \in MetricsSets
    BY <1>1
  <1>5. PICK d, s, f, q : /\ d = Column(m, p, "dispatched") /\ s = Column(m, p, "succeeded")
                          /\ f = Column(m, p, "failed") /\ q = SampleColumn(m, p)
    OBVIOUS
  <1>6. /\ d \in [Actors -> Int] /\ s \in [Actors -> Int] /\ f \in [Actors -> Int] /\ q \in [Actors -> Int]
        /\ \A a \in Actors : d[a] = 0 /\ s[a] = 0 /\ f[a] = 0 /\ q[a] = 0
    <2>1. /\ d \in [Actors -> Int] /\ s \in [Actors -> Int] /\ f \in [Actors -> Int] /\ q \in [Actors -> Int]
          /\ \A a \in Actors : /\ d[a] = m.actor[a][p].dispatched /\ s[a] = m.actor[a][p].succeeded
                               /\ f[a] = m.actor[a][p].failed /\ q[a] = m.actor[a][p].queue.count
      BY <1>4, <1>5, ColumnFacts
    <2> QED BY <1>3, <2>1
  <1>7. /\ IsActorSum(ActorValue(m, p, "dispatched"), d, p) /\ IsActorSum(ActorValue(m, p, "succeeded"), s, p)
        /\ IsActorSum(ActorValue(m, p, "failed"), f, p) /\ IsActorSum(QueueSamples(m, p), q, p)
    BY <1>5, <1>6, ValueIsSum, SamplesAreSum
  <1>8. ActorValue(m, p, "dispatched") = 0 /\ ActorValue(m, p, "succeeded") = 0
        /\ ActorValue(m, p, "failed") = 0 /\ QueueSamples(m, p) = 0
    BY <1>6, <1>7, ZeroSum
  <1>9. Completed(m, p) = 0
    BY <1>8 DEF Completed
  <1>10. m.admission[p] = Admission
    BY <1>1 DEF NewMetrics
  <1>11. m.admission[p].attempted = 0 /\ m.admission[p].accepted = 0 /\ m.admission[p].rejected = 0
    BY <1>10 DEF Admission
  <1> QED BY <1>1, <1>3, <1>8, <1>9, <1>11

\* Nothing is counted of an empty queue.
LEMMA TallyEmpty ==
    ASSUME NEW e, Len(e) = 0, NEW T PROVE Tally(e, T) = 0
  <1>1. 1..Len(e) = {}
    OBVIOUS
  <1> QED BY <1>1, CountEmpty DEF Tally

\* A new handle.
LEMMA InitExact ==
    ASSUME Init PROVE Exact
  <1>1. Good
    BY InitGood
  <1>2. PICK m, e, n : m = metrics /\ e = queue /\ n = running
    OBVIOUS
  <1>3. /\ m = NewMetrics /\ m \in MetricsSets /\ e = <<>> /\ squeue = e /\ n = None /\ srunning = n
    BY <1>1, <1>2 DEF Init, Good, TypeOK
  <1>4. e \in Seq(Jobs) /\ Len(e) = 0
    BY <1>3, EmptySeq
  <1>5. PICK N : N = Books(e, e, n, n)
    OBVIOUS
  <1>6. N \in Accounts
    BY <1>4, <1>5, BooksAre
  <1>7. \A T \in SUBSET Tickets : N[T] = 0
    <2>1. \A T : Tally(e, T) = 0 /\ Own(n, T) = 0
      BY <1>3, <1>4, TallyEmpty DEF Own
    <2> QED BY <1>5, <2>1 DEF Books
  <1>8. ASSUME NEW p \in Operations
        PROVE  /\ N[OfOperation(p)] = 0 /\ N[OnGauge(p)] = 0 /\ N[Waiting(p)] = 0
               /\ \A a : N[OnActor(a, p)] = 0
    <2>1. /\ OfOperation(p) \in SUBSET Tickets /\ OnGauge(p) \in SUBSET Tickets
          /\ Waiting(p) \in SUBSET Tickets /\ \A a : OnActor(a, p) \in SUBSET Tickets
      BY DEF OfOperation, OnGauge, Waiting, OnActor
    <2> QED BY <1>7, <2>1
  <1>9. ASSUME NEW p \in Operations
        PROVE  /\ Completed(m, p) = 0 /\ ActorValue(m, p, "dispatched") = 0
               /\ QueueSamples(m, p) = 0 /\ \A a \in Actors : m.actor[a][p].dispatched = 0
               /\ m.admission[p].attempted = 0 /\ m.admission[p].accepted = 0
               /\ m.admission[p].rejected = 0
    BY <1>2, <1>3, NewTally
  <1>10. ASSUME NEW p \in Operations
         PROVE  /\ m.admission[p].attempted = m.admission[p].accepted + m.admission[p].rejected
                /\ m.admission[p].accepted = Completed(m, p) + N[OfOperation(p)]
                /\ ActorValue(m, p, "dispatched") = N[OnGauge(p)]
                /\ QueueSamples(m, p) = m.admission[p].accepted - N[Waiting(p)]
                /\ \A a \in Actors : m.actor[a][p].dispatched = N[OnActor(a, p)]
    BY <1>8, <1>9
  <1>11. Balanced(m, N)
    BY <1>3, <1>6, <1>10 DEF Balanced
  <1>12. Ledger(m, e, e, n, n)
    BY <1>3, <1>4, <1>5, <1>11 DEF Ledger, Tray, Holder
  <1>13. LedgerNow
    BY <1>2, <1>3, <1>12 DEF LedgerNow
  <1>14. PromisedNow
    <2>1. CloseSlots(e, n) = {}
      BY <1>3, <1>4 DEF CloseSlots, Slots
    <2> QED BY <1>2, <2>1 DEF PromisedNow, Promised, Init
  <1>15. TornNow
    <2>1. m.teardown = FALSE /\ m.phases["teardown"] = [succeeded |-> 0, failed |-> 0]
      BY <1>3 DEF NewMetrics, Phases
    <2>2. native = "open"
      BY DEF Init
    <2> QED BY <1>2, <2>1, <2>2 DEF TornNow, Torn
  <1>16. Accounted(batches, batch)
    <2>1. batch = None /\ batches.attempted = 0 /\ batches.succeeded = 0 /\ batches.failed = 0
      BY DEF Init
    <2> QED BY <2>1 DEF Accounted
  <1> QED BY <1>13, <1>14, <1>15, <1>16 DEF Exact

\* The ticket of an actor, as a sequence of its own.
LEMMA TallyOwn ==
    ASSUME NEW r, NEW a, a = (IF r = None THEN <<>> ELSE <<r>>), r # None => r \in Jobs, NEW T
    PROVE  a \in Seq(Jobs) /\ Tally(a, T) = Own(r, T)
  <1>1. CASE r = None
    <2>1. Len(a) = 0 /\ a \in Seq(Jobs)
      BY <1>1, EmptySeq
    <2> QED BY <1>1, <2>1, TallyEmpty DEF Own
  <1>2. CASE r # None
    <2>1. a = <<r>> /\ a \in Seq(Jobs) /\ Len(a) = 1 /\ a[1] = r
      BY <1>2
    <2>2. PICK D : D = 1..Len(a)
      OBVIOUS
    <2>3. D = {1}
      BY <2>1, <2>2
    <2>4. IsFiniteSet(D)
      BY <2>3, FS_Singleton
    <2>5. PICK k \in D : k = 1
      BY <2>3
    <2>6. CountOn(a, D, T) = CountOn(a, D \ {k}, T) + Has(a[k].t, T)
      BY <2>4, CountInsert
    <2>7. D \ {k} = {}
      BY <2>3, <2>5
    <2>8. CountOn(a, D \ {k}, T) = 0
      BY <2>7, CountEmpty
    <2>9. Has(a[k].t, T) \in Int
      BY OwnNat
    <2>10. CountOn(a, D, T) = Has(r.t, T)
      BY <2>1, <2>5, <2>6, <2>8, <2>9
    <2> QED BY <1>2, <2>1, <2>2, <2>10 DEF Tally, Own
  <1> QED BY <1>1, <1>2

\* The live commands, in one sequence, are what the books count.
LEMMA LiveBooks ==
    ASSUME Good, LedgerNow, NEW T \in SUBSET Tickets
    PROVE  Live \in Seq(Jobs) /\ Tally(Live, T) = Books(queue, squeue, running, srunning)[T]
  <1>1. PICK q, s, r, z : q = queue /\ s = squeue /\ r = running /\ z = srunning
    OBVIOUS
  <1>2. q \in Seq(Jobs) /\ s \in Seq(Jobs) /\ (r # None => r \in Jobs) /\ (z # None => z \in Jobs)
    <2>1. q \in Seq(Jobs) /\ s \in Seq(Jobs)
      BY <1>1 DEF LedgerNow, Ledger, Tray
    <2> QED BY <1>1, <2>1 DEF Good, TypeOK, Jobs
  <1>3. PICK a, b : a = (IF r = None THEN <<>> ELSE <<r>>) /\ b = (IF z = None THEN <<>> ELSE <<z>>)
    OBVIOUS
  <1>4. a \in Seq(Jobs) /\ Tally(a, T) = Own(r, T)
    BY <1>2, <1>3, TallyOwn
  <1>5. b \in Seq(Jobs) /\ Tally(b, T) = Own(z, T)
    BY <1>2, <1>3, TallyOwn
  <1>6. PICK c : Joined(c, q, s)
    BY DEF Joined
  <1>7. c \in Seq(Jobs) /\ Tally(c, T) = Tally(q, T) + Tally(s, T)
    BY <1>2, <1>6, TallyConcat
  <1>8. PICK d : Joined(d, c, a)
    BY DEF Joined
  <1>9. d \in Seq(Jobs) /\ Tally(d, T) = Tally(c, T) + Tally(a, T)
    BY <1>4, <1>7, <1>8, TallyConcat
  <1>10. PICK e : Joined(e, d, b)
    BY DEF Joined
  <1>11. e \in Seq(Jobs) /\ Tally(e, T) = Tally(d, T) + Tally(b, T)
    BY <1>5, <1>9, <1>10, TallyConcat
  <1>12. Live = e
    BY <1>1, <1>3, <1>6, <1>8, <1>10 DEF Live, Joined
  <1>13. Books(q, s, r, z)[T] = Tally(q, T) + Tally(s, T) + Own(r, T) + Own(z, T)
    BY DEF Books
  <1> QED BY <1>1, <1>4, <1>5, <1>7, <1>9, <1>11, <1>12, <1>13

\* The tickets the property speaks of are those the books count.
LEMMA LiveCounts ==
    ASSUME NEW all, all \in Seq(Jobs), NEW op, NEW live, live = {i \in 1..Len(all) : all[i].t.op = op}
    PROVE  /\ Cardinality(live) = Tally(all, OfOperation(op))
           /\ Cardinality({i \in live : all[i].t.dispatched}) = Tally(all, OnGauge(op))
           /\ Cardinality({i \in live : ~all[i].t.started}) = Tally(all, Waiting(op))
  <1>1. ASSUME NEW i \in 1..Len(all) PROVE all[i].t \in Tickets
    <2>1. all[i] \in Jobs
      BY <1>1, ElementOfSeq
    <2> QED BY <2>1 DEF Jobs, Commands, SearchCommands
  <1>2. live = {i \in 1..Len(all) : all[i].t \in OfOperation(op)}
    BY <1>1 DEF OfOperation
  <1>3. {i \in live : all[i].t.dispatched} = {i \in 1..Len(all) : all[i].t \in OnGauge(op)}
    BY <1>1 DEF OnGauge
  <1>4. {i \in live : ~all[i].t.started} = {i \in 1..Len(all) : all[i].t \in Waiting(op)}
    BY <1>1 DEF Waiting
  <1> QED BY <1>2, <1>3, <1>4 DEF Tally, CountOn

\* What the property says of the counters of operations, of any sequence of commands.
Reported(all) ==
    \A op \in Operations :
        LET a == metrics.admission[op]
            live == {i \in 1..Len(all) : all[i].t.op = op}
            dispatched == {i \in live : all[i].t.dispatched}
            waiting == {i \in live : ~all[i].t.started}
        IN /\ a.attempted = a.accepted + a.rejected
           /\ a.accepted = Completed(metrics, op) + Cardinality(live)
           /\ ActorValue(metrics, op, "dispatched") = Cardinality(dispatched)
           /\ QueueSamples(metrics, op) = a.accepted - Cardinality(waiting)

\* The invariant says what the property does.
LEMMA ExactTelemetry ==
    ASSUME Atomic, Exact
    PROVE  TelemetryExact
  <1>1. Good /\ LedgerNow /\ TornNow /\ Accounted(batches, batch)
    BY DEF Atomic, Exact
  <1>2. PICK m, N, all : m = metrics /\ N = Books(queue, squeue, running, srunning) /\ all = Live
    OBVIOUS
  <1>3. Balanced(m, N)
    BY <1>1, <1>2 DEF LedgerNow, Ledger
  <1>4. \A T \in SUBSET Tickets : all \in Seq(Jobs) /\ Tally(all, T) = N[T]
    BY <1>1, <1>2, LiveBooks
  <1>5. all \in Seq(Jobs)
    BY <1>4
  <1>6. Len(all) \in Nat
    BY <1>5, LenProperties
  <1>7. ASSUME NEW op \in Operations
        PROVE  LET a == metrics.admission[op]
                   live == {i \in 1..Len(all) : all[i].t.op = op}
                   dispatched == {i \in live : all[i].t.dispatched}
                   waiting == {i \in live : ~all[i].t.started}
               IN /\ a.attempted = a.accepted + a.rejected
                  /\ a.accepted = Completed(metrics, op) + Cardinality(live)
                  /\ ActorValue(metrics, op, "dispatched") = Cardinality(dispatched)
                  /\ QueueSamples(metrics, op) = a.accepted - Cardinality(waiting)
    <2>1. PICK live : live = {i \in 1..Len(all) : all[i].t.op = op}
      OBVIOUS
    <2>2. /\ Cardinality(live) = Tally(all, OfOperation(op))
          /\ Cardinality({i \in live : all[i].t.dispatched}) = Tally(all, OnGauge(op))
          /\ Cardinality({i \in live : ~all[i].t.started}) = Tally(all, Waiting(op))
      BY <1>5, <2>1, LiveCounts
    <2>3. /\ OfOperation(op) \in SUBSET Tickets /\ OnGauge(op) \in SUBSET Tickets
          /\ Waiting(op) \in SUBSET Tickets
      BY DEF OfOperation, OnGauge, Waiting
    <2>4. /\ Cardinality(live) = N[OfOperation(op)]
          /\ Cardinality({i \in live : all[i].t.dispatched}) = N[OnGauge(op)]
          /\ Cardinality({i \in live : ~all[i].t.started}) = N[Waiting(op)]
      BY <1>4, <2>2, <2>3
    <2>5. /\ metrics.admission[op].attempted = metrics.admission[op].accepted + metrics.admission[op].rejected
          /\ metrics.admission[op].accepted = Completed(metrics, op) + N[OfOperation(op)]
          /\ ActorValue(metrics, op, "dispatched") = N[OnGauge(op)]
          /\ QueueSamples(metrics, op) = metrics.admission[op].accepted - N[Waiting(op)]
      BY <1>2, <1>3 DEF Balanced
    <2> QED BY <2>1, <2>4, <2>5
  <1>8. ASSUME NEW actor \in Actors, NEW op \in Operations
        PROVE  metrics.actor[actor][op].dispatched >= 0
    <2>1. OnActor(actor, op) \in SUBSET Tickets
      BY DEF OnActor
    <2>2. Tally(all, OnActor(actor, op)) \in Nat
      BY <1>6, TallyNat
    <2>3. metrics.actor[actor][op].dispatched = N[OnActor(actor, op)]
      BY <1>2, <1>3 DEF Balanced
    <2> QED BY <1>4, <2>1, <2>2, <2>3
  <1>9. native = "gone" => /\ ~metrics.teardown
                           /\ metrics.phases["teardown"].succeeded
                                + metrics.phases["teardown"].failed = 1
    BY <1>1 DEF TornNow, Torn
  <1>10. batches.attempted = batches.succeeded + batches.failed
                               + (IF batch = None THEN 0 ELSE 1)
    BY <1>1 DEF Accounted
  <1>11. Reported(all)
    BY <1>7 DEF Reported
  <1>12. Reported(Live)
    BY <1>2, <1>11
  <1> QED BY <1>8, <1>9, <1>10, <1>12 DEF TelemetryExact, Reported

\* Every admitted operation is counted once, however it ends (its actor, a poison
\* drain, a dropped queue, a teardown): accepted operations are the completed
\* and the live ones, the gauge of dispatched work counts the dispatched live
\* tickets and no gauge of an actor wraps, each accepted ticket leaves one queue
\* sample, a released handle recorded one teardown, and every batch that was
\* attempted runs or has one outcome (Ticket in telemetry.rs, Runtime::poison).
THEOREM FacadeTelemetryExact == Spec => []TelemetryExact
  <1>1. Init => Exact
    BY InitExact
  <1>2. Atomic /\ Exact /\ [Next]_vars => Exact'
    BY StepExact
  <1>3. Atomic /\ Exact => TelemetryExact
    BY ExactTelemetry
  <1> QED BY <1>1, <1>2, <1>3, AtomicInvariant, PTL DEF Spec
=============================================================================
