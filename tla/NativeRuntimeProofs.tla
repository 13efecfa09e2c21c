------------------------ MODULE NativeRuntimeProofs ------------------------
(***************************************************************************)
(* Proofs about NativeRuntime for every set of commands and workers.       *)
(*                                                                         *)
(* The inductive invariant says who owns a pending command: a queue, the   *)
(* thread executing it, or a poisoning thread holding a Close, and never   *)
(* two of them.                                                            *)
(***************************************************************************)
EXTENDS NativeRuntime, SequenceTheorems, WellFoundedInduction, NaturalsInduction, TLAPS

InjSeq(q) == \A i, j \in 1..Len(q) : q[i] = q[j] => i = j

WriterOwned(c) == res[c] = "pending" /\ op[c] \notin SearchOps
SearchOwned(c) == res[c] = "pending" /\ op[c] \in SearchOps

\* What the queues hold is pending, held once and in the queue of its kind.
QueueInv ==
    /\ \A c \in AllCmds : InSeq(wq, c) => WriterOwned(c)
    /\ InjSeq(wq)
    /\ \A l \in Lanes : \A c \in AllCmds :
          InSeq(sq[l], c) => SearchOwned(c) /\ SearchLane(op[c]) = l
    /\ \A l \in Lanes : InjSeq(sq[l])

\* What the writer actor executes has left every queue.
WriterInv ==
    /\ cur[Writer] # None => WriterOwned(cur[Writer]) /\ ~InSeq(wq, cur[Writer])
    /\ pc[Writer] \in {"exec", "closeWriter", "shutdown", "shutdownExpensive",
                       "join", "closeQueue", "store", "release", "answer"} => cur[Writer] # None
    /\ crashed /\ pc[Writer] # "done" => cur[Writer] # None
    /\ crashed => pc[Writer] \notin {"pop", "exec"}

\* A search worker owns a command exactly while it executes it.
WorkerInv ==
    /\ \A w \in Workers : cur[w] # None <=> pc[w] = "exec"
    /\ \A w \in Workers : cur[w] # None =>
          SearchOwned(cur[w]) /\ \A l \in Lanes : ~InSeq(sq[l], cur[w])
    /\ \A v, w \in Workers : cur[v] # None /\ cur[v] = cur[w] => v = w

\* A Close taken out by a poison belongs to that thread alone.
HeldInv ==
    /\ \A t \in Threads : held[t] # None =>
          /\ pc[t] = "repush"
          /\ res[held[t]] = "pending" /\ IsClose(held[t])
          /\ ~InSeq(wq, held[t]) /\ held[t] # cur[Writer]
    /\ \A t, u \in Threads : held[t] # None /\ held[t] = held[u] => t = u

\* The JavaScript thread is inside a call exactly while jcmd is set.
JsInv ==
    /\ jcmd # None <=> jpc \in {"enqueue", "enqueueSearch", "pushClose"}
    /\ jcmd # None => jcmd \in Cmds /\ res[jcmd] = "unused"
    /\ jpc = "enqueue" => op[jcmd] \in WriterOps
    /\ jpc = "enqueueSearch" => op[jcmd] \in SearchOps
    /\ jpc = "pushClose" => op[jcmd] \in CloseOps
    /\ op[EnvClose] = "closeRollback"
    /\ jpc # "gone" => res[EnvClose] = "unused"

\* While the environment lives only a finished teardown follows a poison.
FenceInv ==
    /\ EnvAlive /\ fence # "live" => state \in {"POISONED", "CLOSED"}
    /\ \A t \in Threads : pc[t] \in {"drain", "repush", "closeOrdinary", "closeExpensive"}
          => fence # "live"

Owned == QueueInv /\ WriterInv /\ WorkerInv /\ HeldInv /\ JsInv

IInv == TypeOK /\ Owned /\ FenceInv /\ TerminalAdmission
-----------------------------------------------------------------------------
(* Facts about the queues.                                                 *)

\* Appending a command a queue does not hold keeps the queue duplicate-free and
\* adds exactly that command.
LEMMA AppendFacts ==
    ASSUME NEW S, NEW q \in Seq(S), NEW c \in S
    PROVE  /\ Append(q, c) \in Seq(S)
           /\ \A d : InSeq(Append(q, c), d) <=> InSeq(q, d) \/ d = c
           /\ InjSeq(q) /\ ~InSeq(q, c) => InjSeq(Append(q, c))
  <1> DEFINE r == Append(q, c)
  <1>1. /\ r \in Seq(S) /\ Len(q) \in Nat /\ Len(r) = Len(q) + 1
        /\ \A i \in 1..Len(q) : r[i] = q[i]
        /\ r[Len(q) + 1] = c
    BY AppendProperties, LenProperties
  <1>2. \A i \in 1..Len(r) : i \in 1..Len(q) \/ i = Len(q) + 1
    BY <1>1
  <1>3. \A i \in 1..Len(q) : i \in 1..Len(r)
    BY <1>1
  <1>4. Len(q) + 1 \in 1..Len(r)
    BY <1>1
  <1> HIDE DEF r
  <1>5. \A d : InSeq(r, d) <=> InSeq(q, d) \/ d = c
    BY <1>1, <1>2, <1>3, <1>4 DEF InSeq
  <1>6. InjSeq(q) /\ ~InSeq(q, c) => InjSeq(r)
    BY <1>1, <1>2 DEF InSeq, InjSeq
  <1> QED BY <1>1, <1>5, <1>6 DEF r

\* Popping the front of a duplicate-free queue removes exactly that command.
LEMMA PopFacts ==
    ASSUME NEW S, NEW q \in Seq(S), q # <<>>
    PROVE  /\ Head(q) \in S /\ Tail(q) \in Seq(S)
           /\ InSeq(q, Head(q))
           /\ \A d : InSeq(Tail(q), d) => InSeq(q, d)
           /\ InjSeq(q) => InjSeq(Tail(q)) /\ ~InSeq(Tail(q), Head(q))
  <1> DEFINE r == Tail(q)
  <1>1. /\ Head(q) \in S /\ r \in Seq(S) /\ Len(q) \in Nat /\ Len(q) >= 1
        /\ Len(r) = Len(q) - 1
        /\ \A i \in 1..Len(r) : r[i] = q[i + 1]
        /\ Head(q) = q[1]
    BY HeadTailProperties, LenProperties, EmptySeq
  <1>2. \A i \in 1..Len(r) : i + 1 \in 1..Len(q) /\ i + 1 # 1
    BY <1>1
  <1>3. 1 \in 1..Len(q)
    BY <1>1
  <1> HIDE DEF r
  <1>4. InSeq(q, Head(q))
    BY <1>1, <1>3 DEF InSeq
  <1>5. \A d : InSeq(r, d) => InSeq(q, d)
    BY <1>1, <1>2 DEF InSeq
  <1>6. InjSeq(q) => ~InSeq(r, Head(q))
    BY <1>1, <1>2, <1>3 DEF InSeq, InjSeq
  <1>7. ASSUME InjSeq(q), NEW i \in 1..Len(r), NEW j \in 1..Len(r), r[i] = r[j]
        PROVE  i = j
    <2>1. q[i + 1] = q[j + 1]
      BY <1>1, <1>7
    <2>2. i + 1 = j + 1
      BY <2>1, <1>2, <1>7 DEF InjSeq
    <2> QED BY <2>2
  <1>8. InjSeq(q) => InjSeq(r)
    BY <1>7 DEF InjSeq
  <1> QED BY <1>1, <1>4, <1>5, <1>6, <1>8 DEF r

\* An emptied queue holds nothing.
LEMMA EmptyFacts ==
    /\ InjSeq(<<>>)
    /\ \A d : ~InSeq(<<>>, d)
    /\ \A S : <<>> \in Seq(S)
  BY DEF InjSeq, InSeq

\* Runtime::poison keeps a Close whenever the drained queue holds one.
LEMMA FirstCloseFacts ==
    ASSUME NEW q \in Seq(AllCmds)
    PROVE  LET f == FirstClose(q) IN
           \/ f = None /\ \A d : InSeq(q, d) => ~IsClose(d)
           \/ f \in AllCmds /\ InSeq(q, f) /\ IsClose(f)
  <1> DEFINE closes == {i \in 1..Len(q) : IsClose(q[i])}
  <1>1. CASE closes = {}
    BY <1>1 DEF FirstClose, InSeq
  <1>2. CASE closes # {}
    <2>1. closes \subseteq Nat
      BY LenProperties
    <2> DEFINE R == OpToRel(<, Nat)
    <2>2. /\ \E i \in closes : \A j \in closes : ~(<<j, i>> \in R)
          /\ \A i, j \in Nat : j < i => <<j, i>> \in R
      <3>1. \A i, j \in Nat : j < i => <<j, i>> \in {ss \in Nat \X Nat : ss[1] < ss[2]}
        OBVIOUS
      <3>2. IsWellFoundedOn(R, Nat)
        BY NatLessThanWellFounded, Zenon
      <3>3. \A i, j \in Nat : j < i => <<j, i>> \in R
        BY <3>1, Zenon DEF OpToRel
      <3> HIDE DEF closes, R
      <3> QED BY <1>2, <2>1, <3>2, <3>3, WFMin
    <2>3. \E i \in closes : \A j \in closes : i <= j
      <3> HIDE DEF closes, R
      <3>1. PICK i \in closes : \A j \in closes : ~(<<j, i>> \in R)
        BY <2>2
      <3>2. ASSUME NEW j \in closes PROVE i <= j
        <4>1. i \in Nat /\ j \in Nat
          BY <2>1
        <4>2. ~(j < i)
          BY <3>1, <2>2, <4>1
        <4> QED BY <4>1, <4>2
      <3> QED BY <3>1, <3>2
    <2> DEFINE m == CHOOSE i \in closes : \A j \in closes : i <= j
    <2>4. m \in closes
      <3> HIDE DEF closes
      <3> QED BY <2>3
    <2>5. FirstClose(q) = q[m]
      BY <1>2 DEF FirstClose
    <2>6. m \in 1..Len(q) /\ IsClose(q[m])
      BY <2>4
    <2> HIDE DEF m, closes
    <2> QED BY <2>5, <2>6, ElementOfSeq DEF InSeq
  <1> QED BY <1>1, <1>2

\* Every step of the runtime preserves the ownership invariant.
LEMMA NextPreserves ==
    ASSUME IInv, Next
    PROVE  IInv'
  <1> USE RuntimeAssumption DEF
        AllCmds, Threads, States, Lanes, WriterOps, CloseOps, SearchOps, Ops,
        Results, Answers, ThreadPoints, JsPoints, queueVars, cmdVars,
        threadVars, jsVars, Goto, Answer, AnswerAll
  <1> USE DEF IInv, Owned, TypeOK, QueueInv, WriterInv, WorkerInv, HeldInv,
        JsInv, FenceInv, TerminalAdmission, WriterOwned, SearchOwned, IsClose,
        EnvAlive
  <1>1. ASSUME NEW c \in Cmds, NEW o \in WriterOps, RequestWriter(c, o) PROVE IInv'
    BY <1>1 DEF RequestWriter
  <1>2. ASSUME NEW c \in Cmds, NEW o \in SearchOps, RequestSearch(c, o) PROVE IInv'
    BY <1>2 DEF RequestSearch
  <1>3. ASSUME NEW c \in Cmds, NEW o \in CloseOps, RequestClose(c, o) PROVE IInv'
    <2>1. CASE state = "OPEN"
      <3>1. /\ state' = "CLOSING"
            /\ op' = [op EXCEPT ![c] = o]
            /\ jpc' = "pushClose" /\ jcmd' = c
            /\ UNCHANGED res
            /\ jpc = "idle" /\ res[c] = "unused"
            /\ UNCHANGED <<dirty, wq, wqClosed, sq, sqClosed, pc, cur, held, crashed, quiesced, resources, fence>>
        BY <1>3, <2>1 DEF RequestClose, AnswersAtOnce
      <3>2. TypeOK'
        BY <1>3, <2>1, <3>1
      <3>3. QueueInv'
        BY <1>3, <2>1, <3>1
      <3>4. (WriterInv /\ WorkerInv)'
        BY <1>3, <2>1, <3>1
      <3>5. HeldInv'
        BY <1>3, <2>1, <3>1
      <3>6. (JsInv /\ FenceInv /\ TerminalAdmission)'
        BY <1>3, <2>1, <3>1
      <3> QED BY <3>2, <3>3, <3>4, <3>5, <3>6
    <2>2. CASE state = "POISONED"
      <3>1. /\ op' = [op EXCEPT ![c] = "closeRollback"]
            /\ jpc' = "pushClose" /\ jcmd' = c
            /\ UNCHANGED <<state, res>>
            /\ jpc = "idle" /\ res[c] = "unused"
            /\ UNCHANGED <<dirty, wq, wqClosed, sq, sqClosed, pc, cur, held, crashed, quiesced, resources, fence>>
        BY <1>3, <2>2 DEF RequestClose, AnswersAtOnce
      <3>2. TypeOK'
        BY <1>3, <2>2, <3>1
      <3>3. QueueInv'
        BY <1>3, <2>2, <3>1
      <3>4. (WriterInv /\ WorkerInv)'
        BY <1>3, <2>2, <3>1
      <3>5. HeldInv'
        BY <1>3, <2>2, <3>1
      <3>6. (JsInv /\ FenceInv /\ TerminalAdmission)'
        BY <1>3, <2>2, <3>1
      <3> QED BY <3>2, <3>3, <3>4, <3>5, <3>6
    <2>3. CASE AnswersAtOnce
      <3>1. /\ op' = [op EXCEPT ![c] = o]
            /\ res' = [res EXCEPT ![c] = "ok"]
            /\ UNCHANGED <<state, jpc, jcmd>>
            /\ jpc = "idle" /\ res[c] = "unused"
            /\ UNCHANGED <<dirty, wq, wqClosed, sq, sqClosed, pc, cur, held, crashed, quiesced, resources, fence>>
        BY <1>3, <2>3 DEF RequestClose, AnswersAtOnce
      <3>2. TypeOK'
        BY <1>3, <2>3, <3>1
      <3>3. QueueInv'
        BY <1>3, <2>3, <3>1
      <3>4. (WriterInv /\ WorkerInv)'
        BY <1>3, <2>3, <3>1
      <3>5. HeldInv'
        BY <1>3, <2>3, <3>1
      <3>6. (JsInv /\ FenceInv /\ TerminalAdmission)'
        BY <1>3, <2>3, <3>1
      <3> QED BY <3>2, <3>3, <3>4, <3>5, <3>6
    <2> QED BY <1>3, <2>1, <2>2, <2>3 DEF RequestClose, AnswersAtOnce
  <1>4. ASSUME EnqueueWriter PROVE IInv'
    <2> DEFINE q == Append(wq, jcmd)
    <2>1. CASE WriterAdmits
      <3>1. /\ jcmd \in AllCmds /\ ~InSeq(wq, jcmd)
            /\ wq \in Seq(AllCmds) /\ InjSeq(wq)
        BY <1>4, <2>1 DEF EnqueueWriter, WriterAdmits
      <3>2. /\ q \in Seq(AllCmds) /\ InjSeq(q)
            /\ \A e : InSeq(q, e) <=> InSeq(wq, e) \/ e = jcmd
        BY <3>1, AppendFacts
      <3>3. /\ wq' = q
            /\ jpc = "enqueue" /\ WriterAdmits
            /\ res' = [res EXCEPT ![jcmd] = "pending"]
            /\ jpc' = "idle" /\ jcmd' = None
            /\ UNCHANGED <<state, dirty, wqClosed, sq, sqClosed, op, threadVars, resources, fence>>
        BY <1>4, <2>1 DEF EnqueueWriter, WriterAdmits
      <3> HIDE DEF q
      <3>4. TypeOK'
        BY <2>1, <3>1, <3>2, <3>3 DEF WriterAdmits
      <3>5. QueueInv'
        BY <2>1, <3>1, <3>2, <3>3 DEF WriterAdmits
      <3>6. (WriterInv /\ WorkerInv)'
        BY <2>1, <3>1, <3>2, <3>3 DEF WriterAdmits
      <3>7. HeldInv'
        BY <2>1, <3>1, <3>2, <3>3 DEF WriterAdmits
      <3>8. (JsInv /\ FenceInv /\ TerminalAdmission)'
        BY <2>1, <3>1, <3>2, <3>3 DEF WriterAdmits
      <3> QED BY <3>4, <3>5, <3>6, <3>7, <3>8
    <2>2. CASE ~(WriterAdmits)
      BY <1>4, <2>2 DEF EnqueueWriter, WriterAdmits
    <2> QED BY <2>1, <2>2
  <1>5. ASSUME EnqueueSearch PROVE IInv'
    <2> DEFINE lane == SearchLane(op[jcmd])
               q == Append(sq[lane], jcmd)
    <2>1. CASE ~sqClosed[lane] /\ Len(sq["ordinary"]) + Len(sq["expensive"]) < MaxCommands
      <3>1. lane \in Lanes
        BY DEF SearchLane
      <3>2. jcmd \in Cmds /\ ~InSeq(sq[lane], jcmd) /\ sq[lane] \in Seq(AllCmds) /\ InjSeq(sq[lane])
        BY <1>5, <3>1 DEF EnqueueSearch
      <3>3. /\ q \in Seq(AllCmds) /\ InjSeq(q)
            /\ \A e : InSeq(q, e) <=> InSeq(sq[lane], e) \/ e = jcmd
        BY <3>1, <3>2, AppendFacts
      <3>4. /\ jpc = "enqueueSearch"
            /\ sq' = [sq EXCEPT ![lane] = q]
            /\ res' = [res EXCEPT ![jcmd] = "pending"]
            /\ jpc' = "idle" /\ jcmd' = None
            /\ UNCHANGED <<state, dirty, wq, wqClosed, sqClosed, op, threadVars, resources, fence>>
        BY <1>5, <2>1 DEF EnqueueSearch
      <3>5. SearchLane(op[jcmd]) = lane
        OBVIOUS
      <3> HIDE DEF q, lane
      <3>6. TypeOK'
        BY <3>1, <3>2, <3>3, <3>4, <3>5
      <3>7. QueueInv'
        BY <3>1, <3>2, <3>3, <3>4, <3>5
      <3>8. (WriterInv /\ WorkerInv)'
        BY <3>1, <3>2, <3>3, <3>4, <3>5
      <3>9. HeldInv'
        BY <3>1, <3>2, <3>3, <3>4, <3>5
      <3>10. (JsInv /\ FenceInv /\ TerminalAdmission)'
        BY <3>1, <3>2, <3>3, <3>4, <3>5
      <3> QED BY <3>6, <3>7, <3>8, <3>9, <3>10
    <2>2. CASE ~(~sqClosed[lane] /\ Len(sq["ordinary"]) + Len(sq["expensive"]) < MaxCommands)
      <3>1. /\ jpc = "enqueueSearch"
            /\ res' = [res EXCEPT ![jcmd] = "rejected"]
            /\ jpc' = "idle" /\ jcmd' = None
            /\ UNCHANGED <<state, dirty, wq, wqClosed, sq, sqClosed, op, threadVars, resources, fence>>
        BY <1>5, <2>2 DEF EnqueueSearch
      <3> QED BY <3>1
    <2> QED BY <2>1, <2>2
  <1>6. ASSUME PushClose PROVE IInv'
    <2> DEFINE q == Append(wq, jcmd)
    <2>1. CASE ~wqClosed
      <3>1. /\ jcmd \in AllCmds /\ ~InSeq(wq, jcmd)
            /\ wq \in Seq(AllCmds) /\ InjSeq(wq)
        BY <1>6, <2>1 DEF PushClose
      <3>2. /\ q \in Seq(AllCmds) /\ InjSeq(q)
            /\ \A e : InSeq(q, e) <=> InSeq(wq, e) \/ e = jcmd
        BY <3>1, AppendFacts
      <3>3. /\ wq' = q
            /\ jpc = "pushClose"
            /\ res' = [res EXCEPT ![jcmd] = "pending"]
            /\ jpc' = "idle" /\ jcmd' = None
            /\ UNCHANGED <<state, dirty, wqClosed, sq, sqClosed, op, threadVars, resources, fence>>
        BY <1>6, <2>1 DEF PushClose
      <3> HIDE DEF q
      <3>4. TypeOK'
        BY <2>1, <3>1, <3>2, <3>3
      <3>5. QueueInv'
        BY <2>1, <3>1, <3>2, <3>3
      <3>6. (WriterInv /\ WorkerInv)'
        BY <2>1, <3>1, <3>2, <3>3
      <3>7. HeldInv'
        BY <2>1, <3>1, <3>2, <3>3
      <3>8. (JsInv /\ FenceInv /\ TerminalAdmission)'
        BY <2>1, <3>1, <3>2, <3>3
      <3> QED BY <3>4, <3>5, <3>6, <3>7, <3>8
    <2>2. CASE ~(~wqClosed)
      <3>1. /\ jcmd \in Cmds /\ res[jcmd] = "unused" /\ jpc = "pushClose"
            /\ res' = [res EXCEPT ![jcmd] = "rejected"]
            /\ jpc' = "idle" /\ jcmd' = None
            /\ UNCHANGED <<state, dirty, queueVars, op, threadVars, resources, fence>>
        BY <1>6, <2>2 DEF PushClose
      <3>2. TypeOK'
        BY <3>1
      <3>3. (QueueInv /\ WriterInv /\ WorkerInv)'
        BY <3>1
      <3>4. (HeldInv /\ JsInv /\ FenceInv /\ TerminalAdmission)'
        BY <3>1
      <3> QED BY <3>2, <3>3, <3>4
    <2> QED BY <2>1, <2>2
  <1>7. ASSUME EnvironmentCleanup PROVE IInv'
    BY <1>7 DEF EnvironmentCleanup
  <1>8. ASSUME ForceClose PROVE IInv'
    <2> DEFINE q == Append(wq, EnvClose)
    <2>1. CASE ~wqClosed /\ state \notin {"CLOSED", "CLOSING"}
      <3>1. /\ EnvClose \in AllCmds /\ ~InSeq(wq, EnvClose)
            /\ wq \in Seq(AllCmds) /\ InjSeq(wq)
        BY <1>8, <2>1 DEF ForceClose
      <3>2. /\ q \in Seq(AllCmds) /\ InjSeq(q)
            /\ \A e : InSeq(q, e) <=> InSeq(wq, e) \/ e = EnvClose
        BY <3>1, AppendFacts
      <3>3. /\ wq' = q
            /\ jpc = "cleanup" /\ jpc' = "gone" /\ state' = "CLOSING"
            /\ res' = [res EXCEPT ![EnvClose] = "pending"]
            /\ UNCHANGED <<dirty, wqClosed, sq, sqClosed, op, threadVars, resources, jcmd, fence>>
        BY <1>8, <2>1 DEF ForceClose
      <3> HIDE DEF q
      <3>4. TypeOK'
        BY <2>1, <3>1, <3>2, <3>3
      <3>5. QueueInv'
        BY <2>1, <3>1, <3>2, <3>3
      <3>6. (WriterInv /\ WorkerInv)'
        BY <2>1, <3>1, <3>2, <3>3
      <3>7. HeldInv'
        BY <2>1, <3>1, <3>2, <3>3
      <3>8. (JsInv /\ FenceInv /\ TerminalAdmission)'
        BY <2>1, <3>1, <3>2, <3>3
      <3> QED BY <3>4, <3>5, <3>6, <3>7, <3>8
    <2>2. CASE ~(~wqClosed /\ state \notin {"CLOSED", "CLOSING"})
      BY <1>8, <2>2 DEF ForceClose
    <2> QED BY <2>1, <2>2
  <1>9. ASSUME WriterPop PROVE IInv'
    BY <1>9, PopFacts DEF WriterPop
  <1>10. ASSUME WriterSucceed PROVE IInv'
    <2>1. TypeOK'
      <3>1. dirty' \in BOOLEAN
        BY <1>10, Zenon DEF WriterSucceed
      <3> QED BY <1>10, <3>1 DEF WriterSucceed
    <2>2. QueueInv'
      BY <1>10 DEF WriterSucceed
    <2>3. (WriterInv /\ WorkerInv)'
      BY <1>10 DEF WriterSucceed
    <2>4. HeldInv'
      BY <1>10 DEF WriterSucceed
    <2>5. (JsInv /\ FenceInv /\ TerminalAdmission)'
      BY <1>10 DEF WriterSucceed
    <2> QED BY <2>1, <2>2, <2>3, <2>4, <2>5
  <1>11. ASSUME WriterRefuse PROVE IInv'
    <2>1. TypeOK'
      BY <1>11 DEF WriterRefuse
    <2>2. QueueInv'
      BY <1>11 DEF WriterRefuse
    <2>3. (WriterInv /\ WorkerInv)'
      BY <1>11 DEF WriterRefuse
    <2>4. HeldInv'
      BY <1>11 DEF WriterRefuse
    <2>5. (JsInv /\ FenceInv /\ TerminalAdmission)'
      BY <1>11 DEF WriterRefuse
    <2> QED BY <2>1, <2>2, <2>3, <2>4, <2>5
  <1>12. ASSUME WriterFail PROVE IInv'
    <2>1. TypeOK'
      BY <1>12 DEF WriterFail
    <2>2. QueueInv'
      BY <1>12 DEF WriterFail
    <2>3. (WriterInv /\ WorkerInv)'
      BY <1>12 DEF WriterFail
    <2>4. HeldInv'
      BY <1>12 DEF WriterFail
    <2>5. (JsInv /\ FenceInv /\ TerminalAdmission)'
      BY <1>12 DEF WriterFail
    <2> QED BY <2>1, <2>2, <2>3, <2>4, <2>5
  <1>13. ASSUME WriterPanic PROVE IInv'
    BY <1>13 DEF WriterPanic
  <1>14. ASSUME CloseDirty PROVE IInv'
    <2>1. TypeOK'
      BY <1>14 DEF CloseDirty, Reopens
    <2>2. QueueInv'
      BY <1>14 DEF CloseDirty, Reopens
    <2>3. (WriterInv /\ WorkerInv)'
      BY <1>14 DEF CloseDirty, Reopens
    <2>4. HeldInv'
      BY <1>14 DEF CloseDirty, Reopens
    <2>5. (JsInv /\ FenceInv /\ TerminalAdmission)'
      BY <1>14 DEF CloseDirty, Reopens
    <2> QED BY <2>1, <2>2, <2>3, <2>4, <2>5
  <1>15. ASSUME CloseStop PROVE IInv'
    BY <1>15 DEF CloseStop, Reopens
  <1>16. ASSUME CloseWriter PROVE IInv'
    <2>1. TypeOK'
      <3>1. quiesced' \in BOOLEAN
        BY <1>16, Zenon DEF CloseWriter
      <3> QED BY <1>16, <3>1 DEF CloseWriter
    <2>2. QueueInv'
      BY <1>16 DEF CloseWriter
    <2>3. (WriterInv /\ WorkerInv)'
      BY <1>16 DEF CloseWriter
    <2>4. HeldInv'
      BY <1>16 DEF CloseWriter
    <2>5. (JsInv /\ FenceInv /\ TerminalAdmission)'
      BY <1>16 DEF CloseWriter
    <2> QED BY <2>1, <2>2, <2>3, <2>4, <2>5
  <1>17. ASSUME ShutdownSearch PROVE IInv'
    <2>1. /\ UNCHANGED <<state, dirty, wq, wqClosed, sq, op, res, cur, held, crashed,
                          quiesced, resources, jpc, jcmd, fence>>
      BY <1>17, Zenon DEF ShutdownSearch, ShutdownLane
    <2>4. sqClosed' \in [Lanes -> BOOLEAN]
      <3>1. PICK l \in Lanes : sqClosed' = [sqClosed EXCEPT ![l] = TRUE]
        BY <1>17, Zenon DEF ShutdownSearch, ShutdownLane
      <3>2. sqClosed \in [Lanes -> BOOLEAN]
        BY Zenon
      <3>3. TRUE \in BOOLEAN
        OBVIOUS
      <3> QED BY <3>1, <3>2, <3>3, Zenon
    <2>2. PICK point \in {"shutdownExpensive", "join"} : pc' = [pc EXCEPT ![Writer] = point]
      BY <1>17 DEF ShutdownSearch, ShutdownLane
    <2>3. pc[Writer] \in {"shutdown", "shutdownExpensive"}
      BY <1>17 DEF ShutdownSearch, ShutdownLane
    <2> QED BY <2>1, <2>2, <2>3, <2>4
  <1>18. ASSUME JoinSearch PROVE IInv'
    <2>1. quiesced' \in BOOLEAN
      BY <1>18, Zenon DEF JoinSearch
    <2> QED BY <1>18, <2>1 DEF JoinSearch, SearchJoined
  <1>19. ASSUME CloseWriterQueue PROVE IInv'
    BY <1>19, EmptyFacts DEF CloseWriterQueue, Dropped
  <1>20. ASSUME StoreFinalState PROVE IInv'
    BY <1>20 DEF StoreFinalState
  <1>21. ASSUME ReleaseRuntime PROVE IInv'
    BY <1>21 DEF ReleaseRuntime
  <1>22. ASSUME WriterAnswer PROVE IInv'
    BY <1>22 DEF WriterAnswer, FinalAnswers, ReleasedAnswers
  <1>23. ASSUME NEW w \in Workers, NEW l \in Lanes, SearchPop(w, l) PROVE IInv'
    BY <1>23, PopFacts DEF SearchPop
  <1>24. ASSUME NEW w \in Workers, SearchFinish(w) PROVE IInv'
    BY <1>24 DEF SearchFinish
  <1>25. ASSUME NEW w \in Workers, SearchPanic(w) PROVE IInv'
    BY <1>25 DEF SearchPanic
  <1>26. ASSUME NEW w \in Workers, SearchExit(w) PROVE IInv'
    BY <1>26 DEF SearchExit, Serves
  <1>27. ASSUME NEW t \in Threads, PoisonStore(t) PROVE IInv'
    BY <1>27 DEF PoisonStore
  <1>28. ASSUME NEW t \in Threads, PoisonDrain(t) PROVE IInv'
    <2>0. \/ FirstClose(wq) = None /\ \A d : InSeq(wq, d) => ~IsClose(d)
          \/ FirstClose(wq) \in AllCmds /\ InSeq(wq, FirstClose(wq)) /\ IsClose(FirstClose(wq))
      BY FirstCloseFacts
    <2>1. TypeOK'
      BY <1>28, <2>0, EmptyFacts DEF PoisonDrain, DrainFails, PoisonError
    <2>2. QueueInv'
      BY <1>28, <2>0, EmptyFacts DEF PoisonDrain, DrainFails, PoisonError
    <2>3. (WriterInv /\ WorkerInv)'
      BY <1>28, <2>0, EmptyFacts DEF PoisonDrain, DrainFails, PoisonError
    <2>4. HeldInv'
      BY <1>28, <2>0, EmptyFacts DEF PoisonDrain, DrainFails, PoisonError
    <2>5. (JsInv /\ FenceInv /\ TerminalAdmission)'
      BY <1>28, <2>0, EmptyFacts DEF PoisonDrain, DrainFails, PoisonError
    <2> QED BY <2>1, <2>2, <2>3, <2>4, <2>5
  <1>29. ASSUME NEW t \in Threads, PoisonRepush(t) PROVE IInv'
    <2> DEFINE q == Append(wq, held[t])
    <2>1. CASE Kept(t) /\ ~wqClosed
      <3>1. /\ held[t] \in AllCmds /\ ~InSeq(wq, held[t])
            /\ wq \in Seq(AllCmds) /\ InjSeq(wq)
        BY <1>29, <2>1 DEF PoisonRepush, Kept
      <3>2. /\ q \in Seq(AllCmds) /\ InjSeq(q)
            /\ \A e : InSeq(q, e) <=> InSeq(wq, e) \/ e = held[t]
        BY <3>1, AppendFacts
      <3>3. /\ wq' = q
            /\ pc[t] = "repush" /\ pc' = [pc EXCEPT ![t] = "closeOrdinary"]
            /\ op' = [op EXCEPT ![held[t]] = "closeRollback"]
            /\ held' = [held EXCEPT ![t] = None]
            /\ UNCHANGED <<state, dirty, wqClosed, sq, sqClosed, res, cur, crashed, quiesced, resources, jsVars, fence>>
        BY <1>29, <2>1 DEF PoisonRepush, Kept
      <3> HIDE DEF q
      <3>4. TypeOK'
        BY <2>1, <3>1, <3>2, <3>3 DEF Kept
      <3>5. QueueInv'
        BY <2>1, <3>1, <3>2, <3>3 DEF Kept
      <3>6. (WriterInv /\ WorkerInv)'
        BY <2>1, <3>1, <3>2, <3>3, SMTT(40) DEF Kept
      <3>7. HeldInv'
        BY <2>1, <3>1, <3>2, <3>3 DEF Kept
      <3>8. (JsInv /\ FenceInv /\ TerminalAdmission)'
        BY <2>1, <3>1, <3>2, <3>3 DEF Kept
      <3> QED BY <3>4, <3>5, <3>6, <3>7, <3>8
    <2>2. CASE Kept(t) /\ wqClosed
      <3>1. /\ held[t] \in AllCmds /\ ~InSeq(wq, held[t])
            /\ pc[t] = "repush" /\ pc' = [pc EXCEPT ![t] = "closeOrdinary"]
            /\ op' = [op EXCEPT ![held[t]] = "closeRollback"]
            /\ res' = [res EXCEPT ![held[t]] = "E_CLOSED"]
            /\ held' = [held EXCEPT ![t] = None]
            /\ UNCHANGED <<state, dirty, wq, wqClosed, sq, sqClosed, cur, crashed, quiesced, resources, jsVars, fence>>
        BY <1>29, <2>2 DEF PoisonRepush, Kept
      <3>2. TypeOK'
        BY <3>1
      <3>3. QueueInv'
        BY <2>2, <3>1 DEF Kept
      <3>4. (WriterInv /\ WorkerInv)'
        BY <2>2, <3>1 DEF Kept
      <3>5. HeldInv'
        BY <2>2, <3>1 DEF Kept
      <3>6. (JsInv /\ FenceInv /\ TerminalAdmission)'
        BY <2>2, <3>1 DEF Kept
      <3> QED BY <3>2, <3>3, <3>4, <3>5, <3>6
    <2>3. CASE ~Kept(t)
      BY <1>29, <2>3 DEF PoisonRepush, Kept
    <2> QED BY <2>1, <2>2, <2>3
  <1>30. ASSUME NEW t \in Threads, PoisonCloseLane(t, "ordinary", "closeOrdinary", "closeExpensive") PROVE IInv'
    <2>0. AfterPoison(t) \in {"done", "closeWriter", "pop"}
      BY DEF AfterPoison
    <2>1. TypeOK'
      BY <1>30, EmptyFacts, <2>0 DEF PoisonCloseLane, PoisonError, AfterPoison
    <2>2. QueueInv'
      BY <1>30, EmptyFacts, <2>0 DEF PoisonCloseLane, PoisonError, AfterPoison
    <2>3. (WriterInv /\ WorkerInv)'
      BY <1>30, EmptyFacts, <2>0 DEF PoisonCloseLane, PoisonError, AfterPoison
    <2>4. HeldInv'
      <3>1. held' = held /\ wq' = wq /\ op' = op /\ cur' = cur
        BY <1>30 DEF PoisonCloseLane
      <3>2. held[t] = None
        BY <1>30 DEF PoisonCloseLane
      <3>3. \A u \in Threads : u # t => pc'[u] = pc[u]
        BY <1>30 DEF PoisonCloseLane
      <3>4. \A u \in Threads : held[u] # None => res'[held[u]] = res[held[u]]
        <4>1. ASSUME NEW u \in Threads, held[u] # None
              PROVE  held[u] \in AllCmds /\ \A l \in Lanes : ~InSeq(sq[l], held[u])
          BY <4>1
        <4> QED BY <1>30, <4>1 DEF PoisonCloseLane
      <3> HIDE DEF TypeOK, QueueInv, WriterInv, WorkerInv, JsInv, FenceInv, TerminalAdmission
      <3> QED BY <3>1, <3>2, <3>3, <3>4
    <2>5. (JsInv /\ FenceInv /\ TerminalAdmission)'
      BY <1>30, EmptyFacts, <2>0 DEF PoisonCloseLane, PoisonError, AfterPoison
    <2> QED BY <2>1, <2>2, <2>3, <2>4, <2>5
  <1>31. ASSUME NEW t \in Threads, PoisonCloseLane(t, "expensive", "closeExpensive", AfterPoison(t)) PROVE IInv'
    <2>0. AfterPoison(t) \in {"done", "closeWriter", "pop"}
      BY DEF AfterPoison
    <2>1. TypeOK'
      BY <1>31, EmptyFacts, <2>0 DEF PoisonCloseLane, PoisonError, AfterPoison
    <2>2. QueueInv'
      BY <1>31, EmptyFacts, <2>0 DEF PoisonCloseLane, PoisonError, AfterPoison
    <2>3. (WriterInv /\ WorkerInv)'
      BY <1>31, EmptyFacts, <2>0 DEF PoisonCloseLane, PoisonError, AfterPoison
    <2>4. HeldInv'
      <3>1. held' = held /\ wq' = wq /\ op' = op /\ cur' = cur
        BY <1>31 DEF PoisonCloseLane
      <3>2. held[t] = None
        BY <1>31 DEF PoisonCloseLane
      <3>3. \A u \in Threads : u # t => pc'[u] = pc[u]
        BY <1>31 DEF PoisonCloseLane
      <3>4. \A u \in Threads : held[u] # None => res'[held[u]] = res[held[u]]
        <4>1. ASSUME NEW u \in Threads, held[u] # None
              PROVE  held[u] \in AllCmds /\ \A l \in Lanes : ~InSeq(sq[l], held[u])
          BY <4>1
        <4> QED BY <1>31, <4>1 DEF PoisonCloseLane
      <3> HIDE DEF TypeOK, QueueInv, WriterInv, WorkerInv, JsInv, FenceInv, TerminalAdmission
      <3> QED BY <3>1, <3>2, <3>3, <3>4
    <2>5. (JsInv /\ FenceInv /\ TerminalAdmission)'
      BY <1>31, EmptyFacts, <2>0 DEF PoisonCloseLane, PoisonError, AfterPoison
    <2> QED BY <2>1, <2>2, <2>3, <2>4, <2>5
  <1> HIDE DEF IInv
  <1> QED
    BY <1>1, <1>2, <1>3, <1>4, <1>5, <1>6, <1>7, <1>8, <1>9, <1>10, <1>11, <1>12,
       <1>13, <1>14, <1>15, <1>16, <1>17, <1>18, <1>19, <1>20, <1>21, <1>22, <1>23, <1>24,
       <1>25, <1>26, <1>27, <1>28, <1>29, <1>30, <1>31
    DEF Next, JsStep, WriterStep, Teardown, SearchStep, Poison

\* A runtime that has just started owns nothing.
LEMMA InitEstablishes ==
    ASSUME Init
    PROVE  IInv
  BY RuntimeAssumption, EmptyFacts
  DEF Init, IInv, Owned, TypeOK, QueueInv, WriterInv, WorkerInv, HeldInv, JsInv,
      FenceInv, TerminalAdmission, EnvAlive, AllCmds, Threads, States, Lanes,
      CloseOps, Ops, Results, ThreadPoints, JsPoints

\* A stuttering step changes nothing the invariant speaks of.
LEMMA StutterPreserves ==
    ASSUME IInv, UNCHANGED vars
    PROVE  IInv'
  BY DEF vars, IInv, Owned, TypeOK, QueueInv, WriterInv, WorkerInv, HeldInv,
      JsInv, FenceInv, TerminalAdmission, EnvAlive, WriterOwned, SearchOwned,
      IsClose

\* The ownership invariant holds in every reachable state of the runtime.
THEOREM OwnershipInvariant == Spec => []IInv
  <1>1. Init => IInv
    BY InitEstablishes
  <1>2. IInv /\ [Next]_vars => IInv'
    BY NextPreserves, StutterPreserves
  <1> QED BY <1>1, <1>2, PTL DEF Spec

\* The runtime's variables keep their types, for every set of commands and
\* workers.
THEOREM TypeCorrect == Spec => []TypeOK
  BY OwnershipInvariant, PTL DEF IInv

\* docs/terminal-writer-admission.md: once a poison has drained the writer
\* queue, only Close commands are ever in it.
THEOREM TerminalAdmissionHolds == Spec => []TerminalAdmission
  BY OwnershipInvariant, PTL DEF IInv

\* While its environment lives, a poisoned generation is never OPEN again.
THEOREM PoisonSticksHolds == Spec => []PoisonSticks
  <1>1. IInv => PoisonSticks
    BY DEF IInv, FenceInv, PoisonSticks
  <1> QED BY <1>1, OwnershipInvariant, PTL

\* No step replaces an answer: a completion a thread settles is one it owns,
\* and every owned command is still pending.
LEMMA AnswersAreFinal ==
    ASSUME IInv, Next, NEW c \in AllCmds, Settled(c)
    PROVE  res'[c] = res[c]
  <1> USE RuntimeAssumption DEF AllCmds, Threads, Lanes, Answers, Settled,
        cmdVars, Answer, AnswerAll
  <1> USE DEF IInv, Owned, TypeOK, QueueInv, WriterInv, WorkerInv, HeldInv, JsInv,
        WriterOwned, SearchOwned
  <1>1. ASSUME JsStep PROVE res'[c] = res[c]
    BY <1>1 DEF JsStep, RequestWriter, RequestSearch, RequestClose, EnqueueWriter,
         EnqueueSearch, PushClose, EnvironmentCleanup, ForceClose
  <1>2. ASSUME WriterStep PROVE res'[c] = res[c]
    <2>1. CASE CloseWriterQueue
      BY <2>1 DEF CloseWriterQueue, Dropped
    <2>2. CASE WriterSucceed \/ WriterRefuse \/ WriterFail
      BY <2>2, ZenonT(60) DEF WriterSucceed, WriterRefuse, WriterFail
    <2>3. CASE CloseDirty \/ WriterAnswer
      BY <2>3 DEF CloseDirty, WriterAnswer, FinalAnswers, ReleasedAnswers
    <2>4. CASE WriterPop \/ WriterPanic \/ CloseStop \/ CloseWriter \/ ShutdownSearch
               \/ JoinSearch \/ StoreFinalState \/ ReleaseRuntime
      BY <2>4 DEF WriterPop, WriterPanic, CloseStop, CloseWriter, ShutdownSearch,
           ShutdownLane, JoinSearch, StoreFinalState, ReleaseRuntime
    <2> QED BY <1>2, <2>1, <2>2, <2>3, <2>4 DEF WriterStep, Teardown
  <1>3. ASSUME NEW w \in Workers, SearchStep(w) PROVE res'[c] = res[c]
    BY <1>3 DEF SearchStep, SearchPop, SearchFinish, SearchPanic, SearchExit
  <1>4. ASSUME NEW t \in Threads, Poison(t) PROVE res'[c] = res[c]
    BY <1>4 DEF Poison, PoisonStore, PoisonDrain, DrainFails, PoisonRepush, Kept,
         PoisonCloseLane
  <1> HIDE DEF IInv
  <1> QED BY <1>1, <1>2, <1>3, <1>4 DEF Next

\* Every completion is settled at most once, however poison, teardown and the
\* executing threads interleave.
THEOREM SettledOnceHolds == Spec => SettledOnce
  <1>1. IInv /\ [Next]_vars => [\A c \in AllCmds : Settled(c) => res'[c] = res[c]]_vars
    BY AnswersAreFinal
  <1> QED BY <1>1, OwnershipInvariant, PTL DEF Spec, SettledOnce

-----------------------------------------------------------------------------
(* Teardown: what each phase of finish_runtime has established.            *)

WorkerPoints == {"pop", "exec", "poison", "drain", "repush", "closeOrdinary",
                 "closeExpensive", "done"}

\* The phases after JoinSearch, after CloseWriterQueue, after StoreFinalState.
Joined == {"closeQueue", "store", "release", "answer", "done"}
QueueShut == {"store", "release", "answer", "done"}
Final == {"release", "answer", "done"}

LaneDead(l) == sqClosed[l] /\ sq[l] = <<>>

\* The search threads exit only behind closed, empty lanes.
LaneInv ==
    /\ \A w \in Workers : pc[w] \in WorkerPoints
    /\ \A w \in Workers : pc[w] = "done" => \A l \in Serves(w) : LaneDead(l)
    /\ \A t \in Threads : pc[t] = "closeExpensive" => LaneDead("ordinary")
    /\ Workers = {OrdinaryWorker} => sq["expensive"] = <<>>
    /\ pc[Writer] = "shutdownExpensive" => sqClosed["ordinary"]
    /\ pc[Writer] \in Joined \cup {"join"} => \A l \in Lanes : sqClosed[l]

\* The writer queue is shut, the state stored and the resources released in
\* that order, and nothing undoes it.
PhaseInv ==
    /\ pc[Writer] \in Joined => \A w \in Workers : pc[w] = "done"
    /\ pc[Writer] \in QueueShut => wqClosed /\ wq = <<>>
    /\ pc[Writer] \in Final => state = IF quiesced THEN "CLOSED" ELSE "POISONED"
    /\ resources # "held" <=> pc[Writer] \in {"answer", "done"}
    /\ resources # "held" => resources = IF quiesced THEN "released" ELSE "quarantined"

\* Lanes stay dead once an exited worker has left them so.
LEMMA LaneStep ==
    ASSUME IInv, LaneInv, Next
    PROVE  LaneInv'
  <1> USE RuntimeAssumption DEF Threads, Lanes, LaneInv, LaneDead, Joined,
        WorkerPoints, Goto, queueVars, threadVars, jsVars
  <1>0. pc \in [Threads -> ThreadPoints] /\ sqClosed \in [Lanes -> BOOLEAN]
        /\ sq \in [Lanes -> Seq(AllCmds)]
    BY DEF IInv, TypeOK
  <1>1. ASSUME NEW c \in Cmds, NEW o \in Ops,
               RequestWriter(c, o) \/ RequestSearch(c, o) \/ RequestClose(c, o)
        PROVE  LaneInv'
    BY <1>0, <1>1 DEF RequestWriter, RequestSearch, RequestClose
  <1>2. ASSUME EnqueueWriter \/ PushClose \/ EnvironmentCleanup \/ ForceClose
        PROVE  LaneInv'
    BY <1>0, <1>2 DEF EnqueueWriter, PushClose, EnvironmentCleanup, ForceClose
  <1>3. ASSUME EnqueueSearch PROVE LaneInv'
    <2>1. SearchLane(op[jcmd]) \in Lanes
          /\ (Workers = {OrdinaryWorker} => SearchLane(op[jcmd]) = "ordinary")
      BY DEF SearchLane
    <2>2. \/ UNCHANGED <<sq, sqClosed, pc>>
          \/ /\ ~sqClosed[SearchLane(op[jcmd])] /\ UNCHANGED <<sqClosed, pc>>
             /\ \E q : sq' = [sq EXCEPT ![SearchLane(op[jcmd])] = q]
      BY <1>3 DEF EnqueueSearch
    <2> QED BY <1>0, <2>1, <2>2 DEF Serves
  <1>4. ASSUME WriterPop \/ WriterSucceed \/ WriterRefuse \/ WriterFail
               \/ WriterPanic \/ CloseDirty \/ CloseStop
        PROVE  LaneInv'
    <2>1. /\ UNCHANGED <<sq, sqClosed>>
          /\ \E point \in {"exec", "pop", "poison", "closeWriter"} :
                pc' = [pc EXCEPT ![Writer] = point]
      BY <1>4 DEF WriterPop, WriterSucceed, WriterRefuse, WriterFail,
         WriterPanic, CloseDirty, CloseStop
    <2> QED BY <1>0, <2>1
  <1>5. ASSUME Teardown PROVE LaneInv'
    <2>1. CASE ShutdownSearch
      <3>1. /\ sq' = sq /\ \A w \in Workers : pc'[w] = pc[w]
            /\ \A l \in Lanes : sqClosed[l] => sqClosed'[l]
        BY <1>0, <2>1 DEF ShutdownSearch, ShutdownLane
      <3>2. /\ pc'[Writer] \in Joined \cup {"join"} => sqClosed'["expensive"]
            /\ pc'[Writer] = "join" => pc[Writer] = "shutdownExpensive"
            /\ pc'[Writer] = "shutdownExpensive" => sqClosed'["ordinary"]
            /\ pc'[Writer] \in {"shutdownExpensive", "join"}
        BY <1>0, <2>1 DEF ShutdownSearch, ShutdownLane
      <3> QED BY <1>0, <3>1, <3>2 DEF Serves
    <2>2. CASE CloseWriter \/ JoinSearch \/ CloseWriterQueue
      BY <1>0, <2>2, ZenonT(60) DEF CloseWriter, JoinSearch, CloseWriterQueue
    <2>3. CASE StoreFinalState \/ ReleaseRuntime \/ WriterAnswer
      BY <1>0, <2>3, SMTT(40) DEF StoreFinalState, ReleaseRuntime, WriterAnswer
    <2> QED BY <1>5, <2>1, <2>2, <2>3 DEF Teardown
  <1>6. ASSUME NEW w \in Workers, NEW l \in Lanes, SearchPop(w, l) PROVE LaneInv'
    BY <1>0, <1>6, EmptyFacts DEF SearchPop
  <1>7. ASSUME NEW w \in Workers, SearchFinish(w) \/ SearchPanic(w) \/ SearchExit(w)
        PROVE  LaneInv'
    BY <1>0, <1>7 DEF SearchFinish, SearchPanic, SearchExit
  <1>8. ASSUME NEW t \in Threads, PoisonStore(t) \/ PoisonDrain(t) \/ PoisonRepush(t)
        PROVE  LaneInv'
    BY <1>0, <1>8 DEF PoisonStore, PoisonDrain, PoisonRepush
  <1>9. ASSUME NEW t \in Threads,
               PoisonCloseLane(t, "ordinary", "closeOrdinary", "closeExpensive")
        PROVE  LaneInv'
    BY <1>0, <1>9 DEF PoisonCloseLane
  <1>10. ASSUME NEW t \in Threads,
                PoisonCloseLane(t, "expensive", "closeExpensive", AfterPoison(t))
         PROVE  LaneInv'
    <2>1. AfterPoison(t) = "done" \/ (t = Writer /\ AfterPoison(t) \in {"closeWriter", "pop"})
      BY DEF AfterPoison
    <2> QED BY <1>0, <1>10, <2>1 DEF PoisonCloseLane, Serves
  <1> HIDE DEF LaneInv
  <1> QED BY <1>1, <1>2, <1>3, <1>4, <1>5, <1>6, <1>7, <1>8, <1>9, <1>10
          DEF Next, JsStep, WriterStep, SearchStep, Poison, Ops

\* The phases of finish_runtime are never undone.
LEMMA PhaseStep ==
    ASSUME IInv, LaneInv, PhaseInv, Next
    PROVE  PhaseInv'
  <1> USE RuntimeAssumption DEF Threads, PhaseInv, Joined, QueueShut, Final, Goto,
        queueVars, threadVars, jsVars
  <1>0. pc \in [Threads -> ThreadPoints] /\ quiesced \in BOOLEAN
    BY DEF IInv, TypeOK
  <1>1. ASSUME JsStep PROVE PhaseInv'
    <2>1. /\ UNCHANGED <<threadVars, wqClosed, resources>>
          /\ wqClosed => wq' = wq
          /\ state' # state => state = "OPEN" \/ ~wqClosed
      BY <1>1 DEF JsStep, RequestWriter, RequestSearch, RequestClose,
         EnqueueWriter, WriterAdmits, EnqueueSearch, PushClose,
         EnvironmentCleanup, ForceClose
    <2> QED BY <1>0, <2>1
  <1>2. ASSUME WriterPop \/ WriterSucceed \/ WriterRefuse \/ WriterFail
               \/ WriterPanic \/ CloseDirty \/ CloseStop
        PROVE  PhaseInv'
    BY <1>0, <1>2 DEF WriterPop, WriterSucceed, WriterRefuse, WriterFail,
         WriterPanic, CloseDirty, CloseStop
  <1>3. ASSUME Teardown PROVE PhaseInv'
    <2>1. CASE CloseWriter \/ ShutdownSearch
      BY <1>0, <2>1 DEF CloseWriter, ShutdownSearch, ShutdownLane
    <2>2. CASE JoinSearch
      BY <1>0, <2>2 DEF JoinSearch, SearchJoined
    <2>3. CASE CloseWriterQueue
      BY <1>0, <2>3 DEF CloseWriterQueue
    <2>4. CASE StoreFinalState
      BY <1>0, <2>4 DEF StoreFinalState
    <2>5. CASE ReleaseRuntime \/ WriterAnswer
      BY <1>0, <2>5 DEF ReleaseRuntime, WriterAnswer
    <2> QED BY <1>3, <2>1, <2>2, <2>3, <2>4, <2>5 DEF Teardown
  <1>4. ASSUME NEW w \in Workers, SearchStep(w) PROVE PhaseInv'
    BY <1>0, <1>4 DEF SearchStep, SearchPop, SearchFinish, SearchPanic, SearchExit
  <1>5. ASSUME NEW t \in Threads, Poison(t) PROVE PhaseInv'
    <2>1. pc[t] \notin Joined
      BY <1>0, <1>5 DEF Poison, PoisonStore, PoisonDrain, PoisonRepush, PoisonCloseLane
    <2>2. pc[Writer] \notin Joined
      BY <2>1
    <2>3. UNCHANGED <<quiesced, resources>> /\ \E p : pc' = [pc EXCEPT ![t] = p] /\ p \notin Joined \ {"done"} /\ (t = Writer => p # "done")
      BY <1>0, <1>5 DEF Poison, PoisonStore, PoisonDrain, PoisonRepush, PoisonCloseLane, AfterPoison, IInv, TypeOK
    <2> QED BY <1>0, <2>2, <2>3
  <1> HIDE DEF PhaseInv
  <1> QED BY <1>1, <1>2, <1>3, <1>4, <1>5 DEF Next, WriterStep

\* A runtime that has just started is in no phase of its teardown.
LEMMA TeardownInit ==
    ASSUME Init
    PROVE  LaneInv /\ PhaseInv
  BY RuntimeAssumption DEF Init, LaneInv, PhaseInv, LaneDead, WorkerPoints,
     Joined, QueueShut, Final, Threads, Lanes

\* Lanes and phases are kept by every step.
LEMMA TeardownStep ==
    ASSUME IInv, LaneInv, PhaseInv, [Next]_vars
    PROVE  LaneInv' /\ PhaseInv'
  <1>1. UNCHANGED vars => LaneInv' /\ PhaseInv'
    BY DEF vars, LaneInv, PhaseInv, LaneDead
  <1> QED BY <1>1, LaneStep, PhaseStep

\* Together the exited workers have served, closed and emptied every lane.
LEMMA LanesOfExitedWorkers ==
    ASSUME LaneInv, \A w \in Workers : pc[w] = "done"
    PROVE  \A l \in Lanes : sq[l] = <<>>
  BY RuntimeAssumption DEF LaneInv, LaneDead, Serves, Lanes

\* finish_runtime gives up the handle, the path and the budget only when nothing
\* native can touch the index any more, however many workers there are.
THEOREM FinishedQuiescentHolds == Spec => []FinishedQuiescent
  <1>1. Init => LaneInv /\ PhaseInv
    BY TeardownInit
  <1>2. IInv /\ LaneInv /\ PhaseInv /\ [Next]_vars => LaneInv' /\ PhaseInv'
    BY TeardownStep
  <1>3. IInv /\ LaneInv /\ PhaseInv => FinishedQuiescent
    <2> SUFFICES ASSUME IInv, LaneInv, PhaseInv, resources # "held"
                 PROVE  FinishedQuiescent
      BY DEF FinishedQuiescent
    <2>1. \A w \in Workers : pc[w] = "done"
      BY DEF PhaseInv, Joined
    <2>2. \A w \in Workers : cur[w] = None
      BY <2>1 DEF IInv, Owned, WorkerInv
    <2>3. \A t \in Threads : held[t] = None
      BY <2>1 DEF IInv, Owned, HeldInv, PhaseInv, Threads
    <2>4. \A l \in Lanes : sqClosed[l] /\ sq[l] = <<>>
      BY <2>1, LanesOfExitedWorkers DEF LaneInv, PhaseInv, Joined
    <2> QED BY <2>1, <2>2, <2>3, <2>4 DEF FinishedQuiescent, PhaseInv, QueueShut, Final
  <1> QED BY <1>1, <1>2, <1>3, OwnershipInvariant, PTL DEF Spec

-----------------------------------------------------------------------------
(* Nobody's command: the converse of the ownership invariant.              *)

\* A queue, an executing thread or a poisoning thread has the command.
WithSomebody(c) ==
    \/ InSeq(wq, c)
    \/ \E l \in Lanes : InSeq(sq[l], c)
    \/ \E t \in Threads : cur[t] = c \/ held[t] = c

PoisonPoints == {"poison", "drain", "repush", "closeOrdinary", "closeExpensive"}

\* An accepted command that has no answer yet is with somebody; the writer actor
\* comes back to its queue, and ends, with empty hands.
PendingInv ==
    /\ \A c \in AllCmds : res[c] = "pending" => WithSomebody(c)
    /\ pc[Writer] \in {"pop", "done"} => cur[Writer] = None
    /\ pc[Writer] \in PoisonPoints /\ ~crashed => cur[Writer] = None

\* Popping the front of a queue loses nothing else.
LEMMA PopLeaves ==
    ASSUME NEW S, NEW q \in Seq(S), q # <<>>, NEW d, InSeq(q, d)
    PROVE  d = Head(q) \/ InSeq(Tail(q), d)
  <1> DEFINE r == Tail(q)
  <1>1. /\ Len(q) \in Nat /\ Len(q) >= 1 /\ Len(r) = Len(q) - 1
        /\ \A i \in 1..Len(r) : r[i] = q[i + 1]
        /\ Head(q) = q[1]
    BY HeadTailProperties, LenProperties, EmptySeq
  <1>2. PICK i \in 1..Len(q) : q[i] = d
    BY DEF InSeq
  <1>3. CASE i = 1
    BY <1>1, <1>2, <1>3
  <1>4. CASE i # 1
    <2>1. i - 1 \in 1..Len(r) /\ (i - 1) + 1 = i
      BY <1>1, <1>2, <1>4
    <2> HIDE DEF r
    <2>2. r[i - 1] = d
      BY <1>1, <1>2, <2>1
    <2>3. InSeq(r, d)
      BY <2>1, <2>2 DEF InSeq
    <2> QED BY <2>3 DEF r
  <1> QED BY <1>3, <1>4

\* No step of the runtime drops a command it has accepted: what leaves a queue,
\* a poisoning thread or an executing thread goes to another or is answered.
LEMMA PendingStep ==
    ASSUME IInv, PendingInv, Next
    PROVE  PendingInv'
  <1> USE RuntimeAssumption DEF AllCmds, Threads, Lanes, queueVars, cmdVars,
        threadVars, jsVars, Goto, Answer, AnswerAll, PendingInv, WithSomebody,
        PoisonPoints
  <1>0. /\ wq \in Seq(AllCmds) /\ sq \in [Lanes -> Seq(AllCmds)]
        /\ res \in [AllCmds -> Results] /\ pc \in [Threads -> ThreadPoints]
        /\ cur \in [Threads -> AllCmds \cup {None}]
        /\ held \in [Threads -> AllCmds \cup {None}]
        /\ jcmd \in AllCmds \cup {None} /\ crashed \in BOOLEAN
    BY DEF IInv, TypeOK
  <1>h. \A t \in Threads : held[t] # None => pc[t] = "repush"
    BY DEF IInv, Owned, HeldInv
  <1>w. \A w \in Workers : cur[w] # None <=> pc[w] = "exec"
    BY DEF IInv, Owned, WorkerInv
  <1>j. jpc \in {"enqueue", "enqueueSearch", "pushClose"} => jcmd \in Cmds
    BY DEF IInv, Owned, JsInv
  <1>c. pc[Writer] \in {"exec", "answer"} => cur[Writer] \in AllCmds
    BY <1>0 DEF IInv, Owned, WriterInv
  <1>1. ASSUME NEW c \in Cmds, NEW o \in Ops,
               RequestWriter(c, o) \/ RequestSearch(c, o) \/ RequestClose(c, o)
        PROVE  PendingInv'
    BY <1>0, <1>1, ZenonT(60) DEF RequestWriter, RequestSearch, RequestClose
  <1>2. ASSUME EnqueueWriter \/ PushClose PROVE PendingInv'
    <2>1. \A d : InSeq(Append(wq, jcmd), d) <=> InSeq(wq, d) \/ d = jcmd
      <3>1. jpc \in {"enqueue", "pushClose"}
        BY <1>2 DEF EnqueueWriter, PushClose
      <3>2. jcmd \in AllCmds
        BY <1>j, <3>1 DEF AllCmds
      <3>3. wq \in Seq(AllCmds)
        BY <1>0
      <3> QED BY <3>2, <3>3, AppendFacts
    <2>2. /\ UNCHANGED <<sq, cur, held, pc, crashed>>
          /\ \/ wq' = Append(wq, jcmd) /\ res' = [res EXCEPT ![jcmd] = "pending"]
             \/ wq' = wq /\ res' = [res EXCEPT ![jcmd] = "rejected"]
      BY <1>2 DEF EnqueueWriter, PushClose
    <2> QED BY <1>0, <2>1, <2>2, ZenonT(60)
  <1>3. ASSUME EnqueueSearch PROVE PendingInv'
    <2>1. PICK l : l = SearchLane(op[jcmd])
      OBVIOUS
    <2>2. l \in Lanes
      BY <2>1 DEF SearchLane
    <2>3. \A d : InSeq(Append(sq[l], jcmd), d) <=> InSeq(sq[l], d) \/ d = jcmd
      <3>1. jpc = "enqueueSearch"
        BY <1>3 DEF EnqueueSearch
      <3>2. jcmd \in AllCmds
        BY <1>j, <3>1 DEF AllCmds
      <3>3. sq[l] \in Seq(AllCmds)
        BY <1>0, <2>2
      <3> QED BY <3>2, <3>3, AppendFacts
    <2>4. /\ UNCHANGED <<wq, cur, held, pc, crashed>>
          /\ \/ sq' = [sq EXCEPT ![l] = Append(sq[l], jcmd)] /\ res' = [res EXCEPT ![jcmd] = "pending"]
             \/ sq' = sq /\ res' = [res EXCEPT ![jcmd] = "rejected"]
      BY <1>3, <2>1 DEF EnqueueSearch
    <2> QED BY <1>0, <2>2, <2>3, <2>4, ZenonT(60)
  <1>4. ASSUME EnvironmentCleanup PROVE PendingInv'
    BY <1>0, <1>4 DEF EnvironmentCleanup
  <1>5. ASSUME ForceClose PROVE PendingInv'
    <2>1. \A d : InSeq(Append(wq, EnvClose), d) <=> InSeq(wq, d) \/ d = EnvClose
      BY <1>0, AppendFacts
    <2>2. /\ UNCHANGED <<sq, cur, held, pc, crashed>>
          /\ \/ wq' = Append(wq, EnvClose) /\ res' = [res EXCEPT ![EnvClose] = "pending"]
             \/ wq' = wq /\ res' = res
      BY <1>5 DEF ForceClose
    <2> QED BY <1>0, <2>1, <2>2
  <1>6. ASSUME WriterPop PROVE PendingInv'
    <2>1. \A d : InSeq(wq, d) => d = Head(wq) \/ InSeq(Tail(wq), d)
      BY <1>0, <1>6, PopLeaves DEF WriterPop
    <2>2. /\ pc[Writer] = "pop" /\ wq' = Tail(wq) /\ UNCHANGED <<sq, held, res, crashed>>
          /\ cur' = [cur EXCEPT ![Writer] = Head(wq)]
          /\ pc' = [pc EXCEPT ![Writer] = "exec"]
      BY <1>6 DEF WriterPop
    <2>3. cur'[Writer] = Head(wq) /\ \A t \in Threads : t # Writer => cur'[t] = cur[t]
      BY <1>0, <2>2
    <2>4. cur[Writer] = None
      BY <2>2
    <2>5. ASSUME NEW c \in AllCmds, res'[c] = "pending" PROVE WithSomebody(c)'
      <3>1. WithSomebody(c)
        BY <2>2, <2>5
      <3> QED BY <2>1, <2>2, <2>3, <2>4, <3>1
    <2>6. pc'[Writer] = "exec"
      BY <1>0, <2>2
    <2> QED BY <2>5, <2>6
  <1>7. ASSUME WriterSucceed \/ WriterRefuse \/ WriterFail \/ CloseDirty
        PROVE  PendingInv'
    <2>1. /\ pc[Writer] = "exec" /\ UNCHANGED <<wq, sq, held, crashed>>
          /\ \E a \in {"ok", "failed", "E_DIRTY_CLOSE"} : res' = [res EXCEPT ![cur[Writer]] = a]
          /\ cur' = [cur EXCEPT ![Writer] = None]
          /\ \E point \in {"pop", "poison"} : pc' = [pc EXCEPT ![Writer] = point]
      BY <1>7 DEF WriterSucceed, WriterRefuse, WriterFail, CloseDirty
    <2> QED BY <1>0, <1>c, <2>1
  <1>8. ASSUME WriterPanic \/ CloseStop PROVE PendingInv'
    BY <1>0, <1>8 DEF WriterPanic, CloseStop
  <1>9. ASSUME CloseWriter \/ ShutdownSearch \/ JoinSearch \/ StoreFinalState
               \/ ReleaseRuntime
        PROVE  PendingInv'
    <2>1. /\ UNCHANGED <<wq, sq, cur, held, res, crashed>>
          /\ \E point \in {"shutdown", "shutdownExpensive", "join", "closeQueue", "release", "answer"} :
                pc' = [pc EXCEPT ![Writer] = point]
      BY <1>9 DEF CloseWriter, ShutdownSearch, ShutdownLane, JoinSearch,
         StoreFinalState, ReleaseRuntime
    <2> QED BY <1>0, <2>1
  <1>10. ASSUME CloseWriterQueue PROVE PendingInv'
    <2>1. /\ pc[Writer] = "closeQueue" /\ UNCHANGED <<sq, cur, held, crashed>>
          /\ pc' = [pc EXCEPT ![Writer] = "store"]
          /\ \A c \in AllCmds : InSeq(wq, c) => res'[c] = "E_CLOSED"
          /\ \A c \in AllCmds : ~InSeq(wq, c) => res'[c] = res[c]
      BY <1>10 DEF CloseWriterQueue, Dropped
    <2> QED BY <1>0, <2>1
  <1>11. ASSUME WriterAnswer PROVE PendingInv'
    <2>1. /\ pc[Writer] = "answer" /\ UNCHANGED <<wq, sq, held, crashed>>
          /\ \E a : a # "pending" /\ res' = [res EXCEPT ![cur[Writer]] = a]
          /\ cur' = [cur EXCEPT ![Writer] = None]
          /\ pc' = [pc EXCEPT ![Writer] = "done"]
      BY <1>11 DEF WriterAnswer, FinalAnswers, ReleasedAnswers
    <2>2. /\ res'[cur[Writer]] # "pending" /\ cur'[Writer] = None /\ pc'[Writer] = "done"
          /\ \A c \in AllCmds : c # cur[Writer] => res'[c] = res[c]
          /\ \A t \in Threads : t # Writer => cur'[t] = cur[t]
      BY <1>0, <1>c, <2>1
    <2> QED BY <2>1, <2>2
  <1>12. ASSUME NEW w \in Workers, NEW l \in Lanes, SearchPop(w, l) PROVE PendingInv'
    <2>1. \A d : InSeq(sq[l], d) => d = Head(sq[l]) \/ InSeq(Tail(sq[l]), d)
      BY <1>0, <1>12, PopLeaves DEF SearchPop
    <2>2. /\ pc[w] = "pop" /\ sq' = [sq EXCEPT ![l] = Tail(sq[l])]
          /\ UNCHANGED <<wq, held, res, crashed>>
          /\ cur' = [cur EXCEPT ![w] = Head(sq[l])]
          /\ pc' = [pc EXCEPT ![w] = "exec"]
      BY <1>12 DEF SearchPop
    <2>3. /\ cur[w] = None /\ cur'[w] = Head(sq[l])
          /\ \A t \in Threads : t # w => cur'[t] = cur[t] /\ pc'[t] = pc[t]
          /\ sq'[l] = Tail(sq[l]) /\ \A k \in Lanes : k # l => sq'[k] = sq[k]
      BY <1>0, <1>w, <2>2
    <2>4. ASSUME NEW c \in AllCmds, res'[c] = "pending" PROVE WithSomebody(c)'
      <3>1. WithSomebody(c)
        BY <2>2, <2>4
      <3>2. CASE InSeq(sq[l], c)
        BY <2>1, <2>3, <3>2
      <3>3. CASE ~InSeq(sq[l], c)
        BY <2>2, <2>3, <3>1, <3>3
      <3> QED BY <3>2, <3>3
    <2> QED BY <2>2, <2>3, <2>4
  <1>13. ASSUME NEW w \in Workers, SearchFinish(w) \/ SearchPanic(w) PROVE PendingInv'
    <2>1. /\ pc[w] = "exec" /\ UNCHANGED <<wq, sq, held, crashed>>
          /\ \E a : a # "pending" /\ res' = [res EXCEPT ![cur[w]] = a]
          /\ cur' = [cur EXCEPT ![w] = None]
          /\ \E point : pc' = [pc EXCEPT ![w] = point]
      BY <1>13 DEF SearchFinish, SearchPanic
    <2> QED BY <1>0, <1>w, <2>1
  <1>14. ASSUME NEW w \in Workers, SearchExit(w) PROVE PendingInv'
    BY <1>0, <1>14 DEF SearchExit
  <1>15. ASSUME NEW t \in Threads, PoisonStore(t) PROVE PendingInv'
    BY <1>0, <1>15 DEF PoisonStore
  <1>16. ASSUME NEW t \in Threads, PoisonDrain(t) PROVE PendingInv'
    <2>1. PICK f : f = FirstClose(wq)
      OBVIOUS
    <2>2. /\ pc[t] = "drain" /\ UNCHANGED <<sq, cur, crashed>>
          /\ held' = [held EXCEPT ![t] = f]
          /\ \A c \in AllCmds : InSeq(wq, c) /\ c # f => res'[c] # "pending"
          /\ \A c \in AllCmds : ~(InSeq(wq, c) /\ c # f) => res'[c] = res[c]
          /\ pc' = [pc EXCEPT ![t] = "repush"]
      BY <1>16, <2>1 DEF PoisonDrain, DrainFails, PoisonError
    <2> QED BY <1>0, <1>h, <2>2, SMTT(40)
  <1>17. ASSUME NEW t \in Threads, PoisonRepush(t) PROVE PendingInv'
    <2>1. /\ pc[t] = "repush" /\ UNCHANGED <<sq, cur, crashed>>
          /\ held' = [held EXCEPT ![t] = None]
          /\ pc' = [pc EXCEPT ![t] = "closeOrdinary"]
      BY <1>17 DEF PoisonRepush
    <2>2. CASE held[t] = None
      BY <1>0, <1>17, <2>1, <2>2, SMTT(40) DEF PoisonRepush, Kept
    <2>3. CASE held[t] # None
      <3>1. \A d : InSeq(Append(wq, held[t]), d) <=> InSeq(wq, d) \/ d = held[t]
        BY <1>0, <2>3, AppendFacts
      <3>2. \/ wq' = wq /\ res' = [res EXCEPT ![held[t]] = "E_CLOSED"]
            \/ wq' = Append(wq, held[t]) /\ res' = res
        BY <1>17, <2>3 DEF PoisonRepush, Kept
      <3>3. /\ held'[t] = None
            /\ \A u \in Threads : u # t => held'[u] = held[u] /\ pc'[u] = pc[u]
            /\ pc'[t] = "closeOrdinary"
        BY <1>0, <2>1
      <3>4. CASE wq' = wq /\ res' = [res EXCEPT ![held[t]] = "E_CLOSED"]
        <4>1. \A c \in AllCmds : res'[c] = "pending" => res[c] = "pending" /\ c # held[t]
          BY <1>0, <3>4
        <4> QED BY <2>1, <3>3, <3>4, <4>1
      <3>5. CASE wq' = Append(wq, held[t]) /\ res' = res
        BY <2>1, <3>1, <3>3, <3>5
      <3> QED BY <3>2, <3>4, <3>5
    <2> QED BY <2>2, <2>3
  <1>18. ASSUME NEW t \in Threads, NEW l \in Lanes, NEW here \in PoisonPoints, NEW next,
                PoisonCloseLane(t, l, here, next),
                t = Writer => \/ next \in PoisonPoints
                              \/ crashed /\ next = "closeWriter"
                              \/ ~crashed /\ next = "pop"
         PROVE  PendingInv'
    <2>1. /\ pc[t] \in PoisonPoints /\ UNCHANGED <<wq, cur, held, crashed>>
          /\ sq' = [sq EXCEPT ![l] = <<>>]
          /\ \A c \in AllCmds : InSeq(sq[l], c) => res'[c] # "pending"
          /\ \A c \in AllCmds : ~InSeq(sq[l], c) => res'[c] = res[c]
          /\ pc' = [pc EXCEPT ![t] = next]
      BY <1>18 DEF PoisonCloseLane, PoisonError
    <2>2. /\ pc'[t] = next /\ \A u \in Threads : u # t => pc'[u] = pc[u]
          /\ \A k \in Lanes : k # l => sq'[k] = sq[k]
      BY <1>0, <2>1
    <2>3. \A c \in AllCmds : res'[c] = "pending" => WithSomebody(c)'
      BY <2>1, <2>2
    <2>4. pc[Writer] = pc'[Writer] \/ (t = Writer /\ pc'[Writer] = next)
      BY <2>2
    <2> QED BY <1>18, <2>1, <2>3, <2>4
  <1>19. ASSUME NEW t \in Threads, Poison(t) PROVE PendingInv'
    <2>1. t = Writer => AfterPoison(t) = IF crashed THEN "closeWriter" ELSE "pop"
      BY DEF AfterPoison
    <2> HIDE DEF PendingInv
    <2> QED BY <1>15, <1>16, <1>17, <1>18, <1>19, <2>1 DEF Poison
  <1> HIDE DEF PendingInv
  <1> QED BY <1>1, <1>2, <1>3, <1>4, <1>5, <1>6, <1>7, <1>8, <1>9, <1>10, <1>11,
             <1>12, <1>13, <1>14, <1>19
          DEF Next, JsStep, WriterStep, Teardown, SearchStep, Ops

\* When the writer actor has signalled its end, every accepted command has its
\* answer, for every number of commands and workers.
THEOREM NothingLeftPendingHolds == Spec => []NothingLeftPending
  <1>1. Init => LaneInv /\ PhaseInv /\ PendingInv
    <2>1. Init => LaneInv /\ PhaseInv
      BY TeardownInit
    <2>2. Init => PendingInv
      BY RuntimeAssumption DEF Init, PendingInv, AllCmds, Threads
    <2> QED BY <2>1, <2>2
  <1>2. IInv /\ LaneInv /\ PhaseInv /\ PendingInv /\ [Next]_vars
          => LaneInv' /\ PhaseInv' /\ PendingInv'
    <2>1. PendingInv /\ UNCHANGED vars => PendingInv'
      BY DEF vars, PendingInv, WithSomebody
    <2> QED BY <2>1, TeardownStep, PendingStep
  <1>3. IInv /\ LaneInv /\ PhaseInv /\ PendingInv => NothingLeftPending
    <2> SUFFICES ASSUME IInv, LaneInv, PhaseInv, PendingInv, pc[Writer] = "done",
                        NEW c \in AllCmds
                 PROVE  ~WithSomebody(c)
      BY DEF NothingLeftPending, PendingInv
    <2>1. \A w \in Workers : pc[w] = "done"
      BY DEF PhaseInv, Joined
    <2>2. \A t \in Threads : cur[t] = None /\ held[t] = None
      BY <2>1 DEF IInv, Owned, WorkerInv, HeldInv, PendingInv, Threads
    <2>3. \A l \in Lanes : sq[l] = <<>>
      BY <2>1, LanesOfExitedWorkers
    <2>4. wq = <<>>
      BY DEF PhaseInv, QueueShut
    <2> QED BY <2>2, <2>3, <2>4, EmptyFacts, RuntimeAssumption DEF WithSomebody, AllCmds
  <1> QED BY <1>1, <1>2, <1>3, OwnershipInvariant, PTL DEF Spec

-----------------------------------------------------------------------------
(* What a successful close says.                                           *)

\* CLOSED is stored once, by the actor at its end, and every close that
\* succeeded has seen it.
ClosedInv ==
    /\ state = "CLOSED" => pc[Writer] \in Final
    /\ \A c \in Cmds : IsClose(c) /\ res[c] \in ReleasedAnswers => state = "CLOSED"

\* Nothing leaves CLOSED: the poisoning threads are joined before it is stored,
\* and native_close, force_close and the reopening of a dirty close look first.
LEMMA ClosedStep ==
    ASSUME IInv, PhaseInv, ClosedInv, Next
    PROVE  ClosedInv'
  <1> USE RuntimeAssumption DEF AllCmds, Threads, queueVars, cmdVars, threadVars,
        jsVars, Goto, Answer, AnswerAll, ClosedInv, IsClose, CloseOps, ReleasedAnswers
  <1>0. /\ res \in [AllCmds -> Results] /\ pc \in [Threads -> ThreadPoints]
        /\ op \in [AllCmds -> Ops] /\ cur \in [Threads -> AllCmds \cup {None}]
        /\ held \in [Threads -> AllCmds \cup {None}]
        /\ jcmd \in AllCmds \cup {None} /\ quiesced \in BOOLEAN
    BY DEF IInv, TypeOK
  <1>j. jpc \in {"enqueue", "enqueueSearch", "pushClose"} => jcmd \in Cmds
    BY DEF IInv, Owned, JsInv
  <1>c. pc[Writer] \in {"exec", "answer"} => cur[Writer] \in AllCmds
    BY <1>0 DEF IInv, Owned, WriterInv
  <1>1. ASSUME NEW c \in Cmds, NEW o \in Ops, RequestWriter(c, o) \/ RequestSearch(c, o)
        PROVE  ClosedInv'
    <2>1. /\ UNCHANGED <<state, res, pc>> /\ res[c] = "unused"
          /\ \A d \in Cmds : d # c => op'[d] = op[d]
      BY <1>0, <1>1 DEF RequestWriter, RequestSearch
    <2> QED BY <2>1
  <1>2. ASSUME NEW c \in Cmds, NEW o \in CloseOps, RequestClose(c, o) PROVE ClosedInv'
    <2>1. /\ UNCHANGED pc /\ res[c] = "unused"
          /\ \A d \in Cmds : d # c => op'[d] = op[d] /\ res'[d] = res[d]
          /\ \/ state = "OPEN" /\ state' = "CLOSING" /\ res' = res
             \/ state' = state /\ res' = res
             \/ state = "CLOSED" /\ state' = state
      BY <1>0, <1>2 DEF RequestClose, AnswersAtOnce
    <2> QED BY <2>1
  <1>3. ASSUME EnqueueWriter \/ EnqueueSearch \/ PushClose PROVE ClosedInv'
    <2>1. /\ UNCHANGED <<state, op, pc>>
          /\ \E a \in {"pending", "rejected"} : res' = [res EXCEPT ![jcmd] = a]
      BY <1>3 DEF EnqueueWriter, EnqueueSearch, PushClose
    <2> QED BY <1>0, <2>1
  <1>4. ASSUME EnvironmentCleanup \/ ForceClose PROVE ClosedInv'
    <2>1. /\ UNCHANGED <<op, pc>>
          /\ \A d \in Cmds : res'[d] = res[d]
          /\ state' = state \/ (state # "CLOSED" /\ state' = "CLOSING")
      BY <1>0, <1>4 DEF EnvironmentCleanup, ForceClose
    <2> QED BY <2>1
  <1>5. ASSUME WriterPop \/ WriterPanic \/ CloseStop \/ CloseWriter
               \/ ShutdownSearch \/ JoinSearch
        PROVE  ClosedInv'
    <2>1. UNCHANGED <<state, op, res>> /\ pc[Writer] \notin Final
      BY <1>5 DEF WriterPop, WriterPanic, CloseStop, CloseWriter, ShutdownSearch,
         ShutdownLane, JoinSearch, Final
    <2> QED BY <2>1
  <1>6. ASSUME WriterSucceed \/ WriterRefuse \/ WriterFail \/ CloseDirty PROVE ClosedInv'
    <2>1. /\ pc[Writer] = "exec" /\ op' = op
          /\ \A d \in Cmds : d # cur[Writer] => res'[d] = res[d]
          /\ res'[cur[Writer]] \in ReleasedAnswers => ~IsClose(cur[Writer])
          /\ state' \in {state, "OPEN"}
      BY <1>0, <1>c, <1>6 DEF WriterSucceed, WriterRefuse, WriterFail, CloseDirty
    <2> QED BY <2>1 DEF Final
  <1>7. ASSUME CloseWriterQueue PROVE ClosedInv'
    <2>1. /\ pc[Writer] = "closeQueue" /\ UNCHANGED <<op, state>>
          /\ \A d \in Cmds : res'[d] \in ReleasedAnswers => res'[d] = res[d]
      BY <1>0, <1>7 DEF CloseWriterQueue
    <2> QED BY <2>1 DEF Final
  <1>8. ASSUME StoreFinalState PROVE ClosedInv'
    <2>1. /\ pc[Writer] = "store" /\ pc'[Writer] = "release" /\ UNCHANGED <<op, res>>
      BY <1>0, <1>8 DEF StoreFinalState
    <2> QED BY <2>1 DEF Final
  <1>9. ASSUME ReleaseRuntime PROVE ClosedInv'
    BY <1>0, <1>9 DEF ReleaseRuntime, Final
  <1>10. ASSUME WriterAnswer PROVE ClosedInv'
    <2>1. /\ pc[Writer] = "answer" /\ pc'[Writer] = "done" /\ UNCHANGED <<op, state>>
          /\ \A d \in Cmds : d # cur[Writer] => res'[d] = res[d]
          /\ res'[cur[Writer]] \in ReleasedAnswers => quiesced
      BY <1>0, <1>c, <1>10 DEF WriterAnswer, FinalAnswers
    <2>2. quiesced => state = "CLOSED"
      BY <2>1 DEF PhaseInv, Final
    <2> QED BY <2>1, <2>2 DEF Final
  <1>11. ASSUME NEW w \in Workers, SearchStep(w) PROVE ClosedInv'
    <2>1. cur[w] # None => cur[w] \in AllCmds /\ ~IsClose(cur[w])
      BY <1>0 DEF IInv, Owned, WorkerInv, SearchOwned, SearchOps
    <2>2. pc[w] = "exec" => cur[w] # None
      BY DEF IInv, Owned, WorkerInv
    <2>3. /\ UNCHANGED <<op, state>> /\ pc'[Writer] = pc[Writer]
          /\ res' = res \/ (cur[w] # None /\ \A d \in Cmds : d # cur[w] => res'[d] = res[d])
      BY <1>0, <1>11, <2>1, <2>2 DEF SearchStep, SearchPop, SearchFinish, SearchPanic, SearchExit
    <2> QED BY <2>1, <2>3
  <1>12. ASSUME NEW t \in Threads, Poison(t) PROVE ClosedInv'
    <2>1. pc[t] \notin Final /\ pc[t] # "done"
      BY <1>0, <1>12 DEF Poison, PoisonStore, PoisonDrain, PoisonRepush, PoisonCloseLane, Final
    <2>2. pc[Writer] \notin Final
      BY <2>1 DEF PhaseInv, Final, Joined
    <2>3. state # "CLOSED" /\ state' # "CLOSED"
      BY <1>12, <2>2 DEF Poison, PoisonStore, PoisonDrain, PoisonRepush, PoisonCloseLane
    <2>4. \A d \in Cmds : res'[d] \in ReleasedAnswers => res'[d] = res[d]
      BY <1>0, <1>12 DEF Poison, PoisonStore, PoisonDrain, PoisonRepush, PoisonCloseLane, PoisonError
    <2>5. \A d \in Cmds : op'[d] \in CloseOps => op[d] \in CloseOps
      <3>1. held[t] # None => IsClose(held[t])
        BY DEF IInv, Owned, HeldInv
      <3> QED BY <1>0, <1>12, <3>1 DEF Poison, PoisonStore, PoisonDrain, PoisonRepush, Kept, PoisonCloseLane
    <2> QED BY <2>3, <2>4, <2>5
  <1> HIDE DEF ClosedInv
  <1> QED BY <1>1, <1>2, <1>3, <1>4, <1>5, <1>6, <1>7, <1>8, <1>9, <1>10, <1>11, <1>12
          DEF Next, JsStep, WriterStep, Teardown, Ops

\* The phases of finish_runtime and what CLOSED means, in every reachable state.
THEOREM TeardownInvariant == Spec => [](LaneInv /\ PhaseInv /\ ClosedInv)
  <1>1. Init => LaneInv /\ PhaseInv /\ ClosedInv
    <2>1. Init => LaneInv /\ PhaseInv
      BY TeardownInit
    <2>2. Init => ClosedInv
      BY RuntimeAssumption DEF Init, ClosedInv, AllCmds, ReleasedAnswers
    <2> QED BY <2>1, <2>2
  <1>2. IInv /\ LaneInv /\ PhaseInv /\ ClosedInv /\ [Next]_vars
          => LaneInv' /\ PhaseInv' /\ ClosedInv'
    <2>1. ClosedInv /\ UNCHANGED vars => ClosedInv'
      BY DEF vars, ClosedInv, IsClose
    <2> QED BY <2>1, TeardownStep, ClosedStep
  <1> QED BY <1>1, <1>2, OwnershipInvariant, PTL DEF Spec

\* A close that answers success, with or without a cleanup error, proves the
\* native actors stopped, whoever answered it: the actor itself, or native_close seeing CLOSED.
THEOREM CloseOkMeansStoppedHolds == Spec => []CloseOkMeansStopped
  <1>1. PhaseInv /\ ClosedInv => CloseOkMeansStopped
    BY DEF PhaseInv, ClosedInv, CloseOkMeansStopped, Final, QueueShut, Joined
  <1> QED BY <1>1, TeardownInvariant, PTL

-----------------------------------------------------------------------------
(* What a require-clean close says.                                        *)

\* The phases of close_writer and finish_runtime.
Ending == {"closeWriter", "shutdown", "shutdownExpensive", "join", "closeQueue", "store",
           "release", "answer"}

\* A close JavaScript has asked for and that has no answer yet.
Closing(c) == IsClose(c) /\ (res[c] = "pending" \/ (jpc = "pushClose" /\ jcmd = c))

\* There is nothing to lose, or a poison has lost it already.
CleanOrPoisoned == ~dirty \/ fence # "live"

\* JavaScript closes one at a time.
ClosingOnce == \A c, d \in Cmds : Closing(c) /\ Closing(d) => c = d

\* While a require-clean close is under way the state is the CLOSING its
\* compare_exchange stored, until a poison or the actor's end replaces it.
ClosingState ==
    \A c \in Cmds : Closing(c) /\ op[c] = "closeClean" /\ fence = "live"
        => state = "CLOSING" \/ pc[Writer] \in Final

\* The actor ends on a Close or on its own panic, and on a require-clean Close
\* only with nothing to lose.
EndingInv ==
    pc[Writer] \in Ending =>
        /\ crashed => fence # "live"
        /\ ~crashed => IsClose(cur[Writer])
        /\ op[cur[Writer]] = "closeClean" => CleanOrPoisoned

CleanInv == ClosingOnce /\ ClosingState /\ EndingInv /\ RequireCleanKeepsMutations

\* No step of any thread lets a require-clean close run over mutations.
LEMMA CleanStep ==
    ASSUME IInv, PhaseInv, ClosedInv, CleanInv, Next
    PROVE  CleanInv'
  <1> USE RuntimeAssumption DEF AllCmds, Threads, queueVars, cmdVars, threadVars,
        jsVars, Goto, Answer, AnswerAll, IsClose, CloseOps, Closing, CleanOrPoisoned,
        CleanInv, ClosingOnce, ClosingState, EndingInv, RequireCleanKeepsMutations,
        ReleasedAnswers
  <1>0. /\ res \in [AllCmds -> Results] /\ pc \in [Threads -> ThreadPoints]
        /\ op \in [AllCmds -> Ops] /\ cur \in [Threads -> AllCmds \cup {None}]
        /\ held \in [Threads -> AllCmds \cup {None}]
        /\ jcmd \in AllCmds \cup {None} /\ crashed \in BOOLEAN /\ dirty \in BOOLEAN
        /\ fence \in {"live", "poisoned", "drained"}
    BY DEF IInv, TypeOK
  <1>j. /\ jcmd # None <=> jpc \in {"enqueue", "enqueueSearch", "pushClose"}
        /\ jcmd # None => jcmd \in Cmds /\ res[jcmd] = "unused"
        /\ op[EnvClose] = "closeRollback"
        /\ jpc = "enqueue" => ~IsClose(jcmd)
        /\ jpc = "enqueueSearch" => ~IsClose(jcmd)
    BY DEF IInv, Owned, JsInv, WriterOps, SearchOps
  <1>c. pc[Writer] \in Ending \cup {"exec"} => cur[Writer] \in AllCmds /\ res[cur[Writer]] = "pending"
    BY <1>0 DEF IInv, Owned, WriterInv, WriterOwned, Ending
  <1>f. \A c \in Cmds : IsClose(c) /\ res[c] \in ReleasedAnswers => pc[Writer] \in Final
    BY DEF ClosedInv
  <1>1. ASSUME NEW c \in Cmds, NEW o \in Ops, RequestWriter(c, o) \/ RequestSearch(c, o),
               o \notin CloseOps
        PROVE  CleanInv'
    <2>1. /\ UNCHANGED <<state, res, pc, cur, dirty, fence, crashed>> /\ res[c] = "unused"
          /\ op' = [op EXCEPT ![c] = o] /\ jcmd' = c /\ jpc = "idle"
          /\ jpc' # "pushClose"
      BY <1>0, <1>1 DEF RequestWriter, RequestSearch
    <2>2. op'[c] = o /\ \A d \in AllCmds : d # c => op'[d] = op[d]
      BY <1>0, <2>1
    <2>3. pc[Writer] \in Ending => cur[Writer] # c
      BY <1>c, <2>1
    <2> QED BY <1>0, <1>1, <1>c, <1>j, <2>1, <2>2, <2>3
  <1>2. ASSUME NEW c \in Cmds, NEW o \in CloseOps, RequestClose(c, o) PROVE CleanInv'
    <2>1. /\ UNCHANGED <<pc, cur, dirty, fence, crashed>> /\ res[c] = "unused"
          /\ jpc = "idle" /\ resources = "held"
          /\ \A d \in AllCmds : d # c => op'[d] = op[d] /\ res'[d] = res[d]
          /\ \A d \in Cmds : ~Closing(d)
      BY <1>0, <1>2 DEF RequestClose, MayClose
    <2>2. pc[Writer] \in Ending => cur[Writer] # c
      BY <1>c, <2>1
    <2>3. CASE state # "CLOSED"
      <3>1. /\ jpc' = "pushClose" /\ jcmd' = c /\ res' = res
            /\ state' = "CLOSING" \/ op'[c] = "closeRollback"
        BY <1>0, <1>2, <2>3 DEF RequestClose, AnswersAtOnce
      <3> QED BY <1>c, <2>1, <2>2, <3>1
    <2>4. CASE state = "CLOSED"
      <3>1. UNCHANGED <<state, jpc, jcmd>>
        BY <1>2, <2>4 DEF RequestClose
      <3>2. res'[c] = "ok"
        BY <1>0, <1>2, <2>4 DEF RequestClose, AnswersAtOnce
      <3>3. pc[Writer] \in Ending /\ pc[Writer] \in Final
        BY <2>1, <2>4 DEF ClosedInv, PhaseInv, Final, Ending
      <3>4. cur[Writer] = EnvClose \/ crashed
        BY <1>0, <1>c, <2>1, <3>3
      <3>5. cur[Writer] # EnvClose
        BY <1>c, <2>1, <3>3 DEF IInv, Owned, JsInv
      <3>6. fence # "live"
        BY <3>3, <3>4, <3>5
      <3> QED BY <1>c, <2>1, <2>2, <3>1, <3>2, <3>3, <3>6
    <2> QED BY <2>3, <2>4
  <1>3. ASSUME EnqueueWriter \/ EnqueueSearch \/ PushClose PROVE CleanInv'
    <2>1. /\ UNCHANGED <<state, op, pc, cur, dirty, fence, crashed>>
          /\ jpc' = "idle" /\ jcmd' = None /\ jcmd \in Cmds
          /\ \E a \in {"pending", "rejected"} : res' = [res EXCEPT ![jcmd] = a]
          /\ IsClose(jcmd) => jpc = "pushClose"
      BY <1>3, <1>j DEF EnqueueWriter, EnqueueSearch, PushClose
    <2>2. /\ \A d \in AllCmds : d # jcmd => res'[d] = res[d]
          /\ res'[jcmd] \in {"pending", "rejected"}
      BY <1>0, <2>1
    <2> QED BY <2>1, <2>2
  <1>4. ASSUME EnvironmentCleanup \/ ForceClose PROVE CleanInv'
    <2>1. /\ UNCHANGED <<op, pc, cur, dirty, fence, crashed>>
          /\ \A d \in Cmds : res'[d] = res[d]
          /\ state' \in {state, "CLOSING"}
          /\ jpc' # "pushClose"
      BY <1>0, <1>4 DEF EnvironmentCleanup, ForceClose
    <2> QED BY <2>1
  <1>5. ASSUME WriterPop PROVE CleanInv'
    <2>1. /\ UNCHANGED <<state, op, res, dirty, fence, crashed, jpc, jcmd>>
          /\ pc[Writer] = "pop" /\ pc'[Writer] = "exec"
      BY <1>0, <1>5 DEF WriterPop
    <2> QED BY <2>1 DEF Final, Ending
  <1>6. ASSUME WriterSucceed \/ WriterRefuse \/ WriterFail PROVE CleanInv'
    <2>1. /\ UNCHANGED <<state, op, fence, crashed, jpc, jcmd>>
          /\ pc[Writer] = "exec" /\ pc'[Writer] \in {"pop", "poison"}
          /\ \A d \in Cmds : d # cur[Writer] => res'[d] = res[d]
          /\ res'[cur[Writer]] \in {"ok", "failed"} /\ ~IsClose(cur[Writer])
      BY <1>0, <1>c, <1>6 DEF WriterSucceed, WriterRefuse, WriterFail
    <2> QED BY <1>f, <2>1 DEF Final, Ending
  <1>7. ASSUME CloseDirty PROVE CleanInv'
    <2>1. /\ UNCHANGED <<op, fence, dirty, crashed, jpc, jcmd>>
          /\ pc[Writer] = "exec" /\ pc'[Writer] = "pop"
          /\ \A d \in Cmds : d # cur[Writer] => res'[d] = res[d]
          /\ res'[cur[Writer]] = "E_DIRTY_CLOSE" /\ op[cur[Writer]] = "closeClean"
      BY <1>0, <1>c, <1>7 DEF CloseDirty, Reopens
    <2>2. cur[Writer] \in Cmds /\ Closing(cur[Writer]) /\ cur[Writer] # jcmd
      BY <1>c, <1>j, <2>1
    <2>3. \A d \in Cmds : Closing(d) => d = cur[Writer]
      BY <2>2
    <2> QED BY <1>f, <2>1, <2>2, <2>3 DEF Final, Ending
  <1>8. ASSUME CloseStop PROVE CleanInv'
    <2>1. /\ UNCHANGED <<state, op, res, fence, dirty, crashed, jpc, jcmd, cur>>
          /\ pc[Writer] = "exec" /\ pc'[Writer] = "closeWriter"
          /\ IsClose(cur[Writer]) /\ ~Reopens(cur[Writer])
      BY <1>0, <1>c, <1>8 DEF CloseStop
    <2>2. ~crashed
      BY <2>1 DEF IInv, Owned, WriterInv
    <2>3. op[cur[Writer]] = "closeClean" => CleanOrPoisoned
      BY <1>c, <1>j, <2>1 DEF Reopens, Final
    <2> QED BY <1>f, <2>1, <2>2, <2>3 DEF Final, Ending
  <1>9. ASSUME WriterPanic PROVE CleanInv'
    <2>1. /\ UNCHANGED <<state, op, res, fence, dirty, jpc, jcmd, cur>>
          /\ pc[Writer] = "exec" /\ pc'[Writer] = "poison"
      BY <1>0, <1>9 DEF WriterPanic
    <2> QED BY <2>1 DEF Final, Ending
  <1>10. ASSUME CloseWriter \/ ShutdownSearch \/ JoinSearch PROVE CleanInv'
    <2>1. /\ UNCHANGED <<state, op, res, fence, dirty, crashed, jpc, jcmd, cur>>
          /\ pc[Writer] \in Ending \ Final /\ pc'[Writer] \in Ending
      BY <1>0, <1>10 DEF CloseWriter, ShutdownSearch, ShutdownLane, JoinSearch, Ending, Final
    <2> QED BY <2>1
  <1>11. ASSUME CloseWriterQueue PROVE CleanInv'
    <2>1. /\ UNCHANGED <<state, op, fence, dirty, crashed, jpc, jcmd, cur>>
          /\ pc[Writer] \in Ending \ Final /\ pc'[Writer] \in Ending
          /\ \A d \in Cmds : res'[d] \in {res[d], "E_CLOSED"}
      BY <1>0, <1>11 DEF CloseWriterQueue, Ending, Final
    <2> QED BY <2>1
  <1>12. ASSUME StoreFinalState \/ ReleaseRuntime PROVE CleanInv'
    <2>1. /\ UNCHANGED <<op, res, fence, dirty, crashed, jpc, jcmd, cur>>
          /\ pc[Writer] \in Ending /\ pc'[Writer] \in Ending \cap Final
      BY <1>0, <1>12 DEF StoreFinalState, ReleaseRuntime, Ending, Final
    <2> QED BY <2>1
  <1>13. ASSUME WriterAnswer PROVE CleanInv'
    <2>1. /\ UNCHANGED <<state, op, fence, dirty, crashed, jpc, jcmd>>
          /\ pc[Writer] = "answer" /\ pc'[Writer] = "done"
          /\ \A d \in Cmds : d # cur[Writer] => res'[d] = res[d]
          /\ res'[cur[Writer]] # "pending"
      BY <1>0, <1>c, <1>13 DEF WriterAnswer, FinalAnswers, Ending
    <2> QED BY <2>1 DEF Ending, Final
  <1>14. ASSUME NEW w \in Workers, SearchStep(w) PROVE CleanInv'
    <2>1. cur[w] # None => cur[w] \in AllCmds /\ ~IsClose(cur[w])
      BY <1>0 DEF IInv, Owned, WorkerInv, SearchOwned, SearchOps
    <2>2. pc[w] = "exec" => cur[w] # None
      BY DEF IInv, Owned, WorkerInv
    <2>3. /\ UNCHANGED <<op, state, dirty, fence, crashed, jpc, jcmd>>
          /\ pc'[Writer] = pc[Writer] /\ cur'[Writer] = cur[Writer]
          /\ res' = res \/ (cur[w] # None /\ \A d \in Cmds : d # cur[w] => res'[d] = res[d])
      BY <1>0, <1>14, <2>1, <2>2 DEF SearchStep, SearchPop, SearchFinish, SearchPanic, SearchExit
    <2> QED BY <2>1, <2>3
  <1>15. ASSUME NEW t \in Threads, Poison(t) PROVE CleanInv'
    <2>1. pc[t] \notin Ending \cup Final
      BY <1>0, <1>15 DEF Poison, PoisonStore, PoisonDrain, PoisonRepush, PoisonCloseLane, Final, Ending
    <2>2. pc[Writer] \notin Final
      BY <2>1 DEF PhaseInv, Final, Joined
    <2>3. /\ UNCHANGED <<dirty, crashed, jpc, jcmd, cur>>
          /\ fence # "live" => fence' # "live"
          /\ fence' = "live" => state' = state
      BY <1>15 DEF Poison, PoisonStore, PoisonDrain, PoisonRepush, PoisonCloseLane
    <2>4. \A d \in Cmds : res'[d] \in ReleasedAnswers \cup {"pending"} => res'[d] = res[d]
      BY <1>0, <1>15 DEF Poison, PoisonStore, PoisonDrain, PoisonRepush, PoisonCloseLane, PoisonError
    <2>5. \A d \in AllCmds : op'[d] = op[d] \/ (IsClose(d) /\ op'[d] = "closeRollback")
      <3>1. held[t] # None => IsClose(held[t])
        BY DEF IInv, Owned, HeldInv
      <3> QED BY <1>0, <1>15, <3>1 DEF Poison, PoisonStore, PoisonDrain, PoisonRepush, Kept, PoisonCloseLane
    <2>6. pc'[Writer] \in Ending => fence' # "live" \/ pc'[Writer] = pc[Writer]
      <3>1. pc[t] = "closeExpensive" => fence # "live"
        BY DEF IInv, FenceInv
      <3> QED BY <1>0, <1>15, <2>3, <3>1 DEF Poison, PoisonStore, PoisonDrain, PoisonRepush, PoisonCloseLane, Ending
    <2>7. pc'[Writer] \in Ending => pc'[Writer] = pc[Writer] \/ crashed
      BY <1>0, <1>15 DEF Poison, PoisonStore, PoisonDrain, PoisonRepush, PoisonCloseLane, AfterPoison, Ending
    <2>8. (ClosingOnce /\ RequireCleanKeepsMutations)'
      BY <2>3, <2>4, <2>5
    <2>9. ClosingState'
      BY <2>2, <2>3, <2>4, <2>5
    <2>10. EndingInv'
      BY <1>c, <2>3, <2>5, <2>6, <2>7
    <2> QED BY <2>8, <2>9, <2>10
  <1> HIDE DEF CleanInv
  <1> QED
    <2>1. ASSUME JsStep PROVE CleanInv'
      BY <1>1, <1>2, <1>3, <1>4, <2>1 DEF JsStep, Ops, WriterOps, SearchOps
    <2>2. ASSUME WriterStep PROVE CleanInv'
      BY <1>5, <1>6, <1>7, <1>8, <1>9, <1>10, <1>11, <1>12, <1>13, <2>2
      DEF WriterStep, Teardown
    <2> QED BY <1>14, <1>15, <2>1, <2>2 DEF Next

\* A require-clean close never releases the runtime over uncommitted mutations,
\* unless a poison had already made them worthless.
THEOREM RequireCleanHolds == Spec => []RequireCleanKeepsMutations
  <1>1. Init => CleanInv
    BY RuntimeAssumption DEF Init, CleanInv, ClosingOnce, ClosingState, EndingInv,
       RequireCleanKeepsMutations, ReleasedAnswers, Closing, Ending, AllCmds, Threads
  <1>2. IInv /\ PhaseInv /\ ClosedInv /\ CleanInv /\ [Next]_vars => CleanInv'
    <2>1. CleanInv /\ UNCHANGED vars => CleanInv'
      BY DEF vars, CleanInv, ClosingOnce, ClosingState, EndingInv, CleanOrPoisoned,
         RequireCleanKeepsMutations, Closing, IsClose
    <2> QED BY <2>1, CleanStep
  <1>3. CleanInv => RequireCleanKeepsMutations
    BY DEF CleanInv
  <1> QED BY <1>1, <1>2, <1>3, OwnershipInvariant, TeardownInvariant, PTL DEF Spec

-----------------------------------------------------------------------------
(* What a close does to the searches accepted before it.                   *)

\* An answer a search got from its own execution, or none yet.
Own(c) == res[c] \in {"unused", "rejected", "pending", "ok", "failed"}

\* Only a poison, or a worker about to poison, takes a search its own answer.
ServedInv ==
    \A c \in Cmds : op[c] \in SearchOps =>
        /\ res[c] # "E_CLOSED"
        /\ Own(c) \/ fence # "live" \/ \E w \in Workers : pc[w] = "poison"

\* The writer's teardown answers only what is in the writer queue, and a lane
\* loses commands only to its workers and to a poison.
LEMMA ServedStep ==
    ASSUME IInv, ServedInv, Next
    PROVE  ServedInv'
  <1> USE RuntimeAssumption DEF AllCmds, Threads, queueVars, cmdVars, threadVars,
        jsVars, Goto, Answer, AnswerAll, ServedInv, Own
  <1>0. /\ res \in [AllCmds -> Results] /\ pc \in [Threads -> ThreadPoints]
        /\ op \in [AllCmds -> Ops] /\ cur \in [Threads -> AllCmds \cup {None}]
        /\ held \in [Threads -> AllCmds \cup {None}]
        /\ jcmd \in AllCmds \cup {None}
    BY DEF IInv, TypeOK
  <1>c. pc[Writer] \in {"exec", "answer"} => cur[Writer] \in AllCmds /\ op[cur[Writer]] \notin SearchOps
    BY <1>0 DEF IInv, Owned, WriterInv, WriterOwned
  <1>1. ASSUME NEW c \in Cmds, NEW o \in Ops, RequestWriter(c, o) \/ RequestSearch(c, o)
        PROVE  ServedInv'
    <2>1. /\ UNCHANGED <<res, pc, fence>> /\ res[c] = "unused"
          /\ \A d \in Cmds : d # c => op'[d] = op[d]
      BY <1>0, <1>1 DEF RequestWriter, RequestSearch
    <2> QED BY <2>1
  <1>2. ASSUME NEW c \in Cmds, NEW o \in CloseOps, RequestClose(c, o) PROVE ServedInv'
    <2>1. /\ UNCHANGED <<pc, fence>> /\ op'[c] \in CloseOps
          /\ \A d \in Cmds : d # c => op'[d] = op[d] /\ res'[d] = res[d]
      BY <1>0, <1>2 DEF RequestClose, CloseOps
    <2> QED BY <2>1 DEF CloseOps, SearchOps
  <1>3. ASSUME EnqueueWriter \/ EnqueueSearch \/ PushClose PROVE ServedInv'
    <2>1. /\ UNCHANGED <<op, pc, fence>>
          /\ \E a \in {"pending", "rejected"} : res' = [res EXCEPT ![jcmd] = a]
      BY <1>3 DEF EnqueueWriter, EnqueueSearch, PushClose
    <2> QED BY <1>0, <2>1
  <1>4. ASSUME EnvironmentCleanup \/ ForceClose PROVE ServedInv'
    <2>1. UNCHANGED <<op, pc, fence>> /\ \A d \in Cmds : res'[d] = res[d]
      BY <1>0, <1>4 DEF EnvironmentCleanup, ForceClose
    <2> QED BY <2>1
  <1>5. ASSUME WriterPop \/ WriterPanic \/ CloseStop \/ CloseWriter \/ ShutdownSearch
               \/ JoinSearch \/ StoreFinalState \/ ReleaseRuntime
        PROVE  ServedInv'
    <2>1. UNCHANGED <<op, res, fence>> /\ \A w \in Workers : pc'[w] = pc[w]
      BY <1>0, <1>5 DEF WriterPop, WriterPanic, CloseStop, CloseWriter, ShutdownSearch,
         ShutdownLane, JoinSearch, StoreFinalState, ReleaseRuntime
    <2> QED BY <2>1
  <1>6. ASSUME WriterSucceed \/ WriterRefuse \/ WriterFail \/ CloseDirty \/ WriterAnswer
        PROVE  ServedInv'
    <2>1. /\ UNCHANGED <<op, fence>> /\ pc[Writer] \in {"exec", "answer"}
          /\ \A w \in Workers : pc'[w] = pc[w]
          /\ \A d \in Cmds : d # cur[Writer] => res'[d] = res[d]
      BY <1>0, <1>6 DEF WriterSucceed, WriterRefuse, WriterFail, CloseDirty, WriterAnswer
    <2> QED BY <1>c, <2>1
  <1>7. ASSUME CloseWriterQueue PROVE ServedInv'
    <2>1. /\ UNCHANGED <<op, fence>> /\ \A w \in Workers : pc'[w] = pc[w]
          /\ \A d \in Cmds : InSeq(wq, d) \/ res'[d] = res[d]
      BY <1>0, <1>7 DEF CloseWriterQueue, Dropped
    <2>2. \A d \in Cmds : InSeq(wq, d) => op[d] \notin SearchOps
      BY DEF IInv, Owned, QueueInv, WriterOwned
    <2> QED BY <2>1, <2>2
  <1>8. ASSUME NEW w \in Workers, SearchStep(w) PROVE ServedInv'
    <2>1. pc[w] = "exec" => cur[w] \in AllCmds
      BY <1>0 DEF IInv, Owned, WorkerInv
    <2>2. /\ UNCHANGED <<op, fence>> /\ pc[w] # "poison"
          /\ \A v \in Workers : v # w => pc'[v] = pc[v]
      BY <1>0, <1>8 DEF SearchStep, SearchPop, SearchFinish, SearchPanic, SearchExit
    <2>3. \/ res' = res
          \/ pc[w] = "exec" /\ \E a \in {"ok", "failed"} : res' = [res EXCEPT ![cur[w]] = a]
          \/ /\ pc[w] = "exec" /\ res' = [res EXCEPT ![cur[w]] = "E_NATIVE_PANIC"]
             /\ pc'[w] = "poison"
      BY <1>0, <1>8 DEF SearchStep, SearchPop, SearchFinish, SearchPanic, SearchExit
    <2>4. (\E v \in Workers : pc[v] = "poison") => (\E v \in Workers : pc'[v] = "poison")
      BY <2>2
    <2> QED BY <1>0, <2>1, <2>2, <2>3, <2>4
  <1>9. ASSUME NEW t \in Threads, Poison(t) PROVE ServedInv'
    <2>1. fence' # "live"
      <3>1. pc[t] \in {"drain", "repush", "closeOrdinary", "closeExpensive"} => fence # "live"
        BY DEF IInv, FenceInv
      <3> QED BY <1>9, <3>1 DEF Poison, PoisonStore, PoisonDrain, PoisonRepush, PoisonCloseLane
    <2>2. held[t] # None => held[t] \in AllCmds /\ IsClose(held[t])
      BY <1>0 DEF IInv, Owned, HeldInv
    <2>3. \A d \in Cmds : op'[d] = op[d] \/ op'[d] = "closeRollback"
      BY <1>0, <1>9, <2>2 DEF Poison, PoisonStore, PoisonDrain, PoisonRepush, Kept, PoisonCloseLane
    <2>4. \A d \in Cmds : res'[d] = res[d] \/ res'[d] # "E_CLOSED" \/ IsClose(d)
      BY <1>0, <1>9, <2>2 DEF Poison, PoisonStore, PoisonDrain, PoisonRepush, Kept, PoisonCloseLane, PoisonError
    <2> QED BY <2>1, <2>3, <2>4 DEF IsClose, CloseOps, SearchOps
  <1> HIDE DEF ServedInv
  <1> QED BY <1>1, <1>2, <1>3, <1>4, <1>5, <1>6, <1>7, <1>8, <1>9
          DEF Next, JsStep, WriterStep, Teardown, Ops

\* A close serves the searches accepted before it; only a poison takes an
\* accepted search its own answer.
THEOREM AcceptedSearchesServedHolds == Spec => []AcceptedSearchesServed
  <1>1. Init => ServedInv
    BY DEF Init, ServedInv, AllCmds, CloseOps, SearchOps
  <1>2. IInv /\ ServedInv /\ [Next]_vars => ServedInv'
    <2>1. ServedInv /\ UNCHANGED vars => ServedInv'
      BY DEF vars, ServedInv, Own
    <2> QED BY <2>1, ServedStep
  <1>3. ServedInv => AcceptedSearchesServed
    BY DEF ServedInv, AcceptedSearchesServed, Own, Settled, Answers
  <1> QED BY <1>1, <1>2, <1>3, OwnershipInvariant, PTL DEF Spec
=============================================================================
