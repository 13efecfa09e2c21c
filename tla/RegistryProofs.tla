--------------------------- MODULE RegistryProofs ---------------------------
(***************************************************************************)
(* Proofs about Registry, for any number of operations, environments and   *)
(* directories.                                                            *)
(*                                                                         *)
(* The argument follows one operation: which points of its thread hold the *)
(* lifecycle lock, when its reservation is in the registry, and that the   *)
(* directory it identified is the one at the path until its reservation is *)
(* gone.  Two operations can then not both have the directory at the path. *)
(***************************************************************************)
EXTENDS Registry, TLAPS

\* Where a thread owns the lifecycle lock.
Locked == {"identify", "register", "admit", "start", "confirm", "abort", "abortWait", "unregister",
           "untrack", "unlock", "opened", "recheck", "reserve", "probeWriter", "rename",
           "unlockReset", "undoReset"}

OpenPoints == {"canonicalize", "lock", "identify", "register", "admit", "start", "confirm", "abort",
               "abortWait", "unregister", "untrack", "opened"}

\* Where a reset owns a reservation.
Reserving == {"probeWriter", "rename", "unlockReset", "unreserve", "undoReset"}

ResetPoints == {"check", "canonicalizeReset", "lockReset", "recheck", "reserve"} \cup Reserving

\* The runtime is started and not yet forgotten by the registry.
InUse(h) == rt[h] \in {"running", "closing", "stopped", "unproven"}

\* The registry answers for h: its runtime was not abandoned by an expired wait.
Kept(h) == InUse(h) /\ h \notin expired

\* What an operation's kind, control point, runtime and handle say of each other.
StageOf(h) ==
    /\ pc[h] \in OpenPoints => kind[h] # "reset"
    /\ pc[h] \in ResetPoints => kind[h] = "reset"
    /\ rt[h] # "none" => kind[h] # "reset"
    /\ rt[h] # "none" => pc[h] \in {"confirm", "abort", "abortWait", "unregister", "untrack", "unlock",
                                    "finish", "opened", "done"}
    /\ pc[h] \in {"confirm", "abort"} => rt[h] = "running"
    /\ pc[h] \in {"abortWait", "opened"} => rt[h] \notin {"none", "panicked"}
    /\ h \in handles => pc[h] \in {"opened", "done"} /\ InUse(h)
    /\ h \in expired => pc[h] \in {"unregister", "untrack", "unlock", "finish", "done"}
    /\ Kept(h) => h \in handles \/ pc[h] \in {"confirm", "abort", "abortWait"}

LockOf(h) == pc[h] \in Locked <=> lifecycle = h

\* The operation has identified the directory at the path and relies on it.
AtDir(h) == pc[h] \in {"register", "admit", "start", "reserve", "probeWriter", "rename"} \/ Kept(h)

\* The registry entry that goes with the operation's kind.
Reserved(h) == IF kind[h] = "reader" THEN h \in readers[ino[h]] ELSE paths[ino[h]] = h

PathOf(h) ==
    /\ AtDir(h) => ino[h] = dir /\ dir \in Inodes
    /\ pc[h] \in {"lockReset", "recheck"} => ino[h] \in Inodes
    /\ pc[h] \in {"admit", "start"} \/ Kept(h) => Reserved(h)
    /\ pc[h] \in {"probeWriter", "rename"} => paths[ino[h]] = h /\ readers[ino[h]] = {}
    /\ pc[h] = "rename" => wlock[ino[h]] # Foreign

\* No entry of the registry or of the environment outlives what it stands for.
BookOf(h) ==
    /\ h \in opening => pc[h] \notin {"unused", "done"}
    /\ h \in tracked => /\ pc[h] # "unused" /\ rt[h] # "released"
                        /\ pc[h] = "done" => rt[h] \notin {"none", "panicked"}
    /\ \A i \in Inodes : paths[i] = h \/ h \in readers[i] =>
          /\ rt[h] \notin {"unregistered", "released"}
          /\ rt[h] = "none" => pc[h] \in {"admit", "start", "unregister"} \cup Reserving
          /\ kind[h] = "reset" => pc[h] \in Reserving /\ h \notin readers[i]

\* The operation may still start a runtime, or its runtime is in use.
Busy(h) ==
    \/ pc[h] \in {"canonicalize", "lock", "identify", "register", "admit", "start", "confirm", "abort"}
    \/ InUse(h)

\* The cleanup hook of its environment knows a busy operation.
HookOf(h) ==
    /\ Busy(h) /\ h \notin expired =>
          /\ hook[env[h]] # "finished"
          /\ hook[env[h]] \in {"live", "detached"} => h \in tracked
          /\ hook[env[h]] = "sweep" =>
                \/ h \in todo[env[h]]
                \/ <<h, "runtime">> \in waits[env[h]]
                \/ <<h, "opening">> \in waits[env[h]]
    /\ \A e \in Envs : h \in todo[e] => env[h] = e
    /\ \A e \in Envs : <<h, "opening">> \in waits[e] => env[h] = e /\ hook[e] # "live" /\ h \notin handles

\* What a quarantined path keeps out.
QuarantineOf(h) ==
    expired = {} =>
        /\ unproven # {} => pc[h] \notin {"probeWriter", "rename"}
        /\ (\E o \in unproven : kind[o] = "writer") =>
              (kind[h] = "writer" => ~Live(h) /\ pc[h] \notin {"admit", "start"})

Sound(h) == StageOf(h) /\ LockOf(h) /\ PathOf(h) /\ BookOf(h) /\ HookOf(h) /\ QuarantineOf(h)

OpInv == \A h \in Ops : Sound(h)

ForeignInv == \A i \in retired : wlock[i] # Foreign

IInv == TypeOK /\ OpInv /\ ForeignInv
-----------------------------------------------------------------------------
(* What a step of one operation leaves alone.                              *)

\* Nothing of the other operations changes.
Aside(h) ==
    \A o \in Ops \ {h} :
        /\ pc'[o] = pc[o] /\ rt'[o] = rt[o] /\ ino'[o] = ino[o]
        /\ o \in handles' <=> o \in handles
        /\ o \in opening' => o \in opening
        /\ o \in tracked' <=> o \in tracked
        /\ o \in expired' <=> o \in expired
        /\ lifecycle' = o <=> lifecycle = o
        /\ \A i \in Inodes : (paths'[i] = o <=> paths[i] = o) /\ (o \in readers'[i] <=> o \in readers[i])

\* Nor what the hooks know of them.
HooksAside(h) ==
    /\ hook' = hook
    /\ \A o \in Ops \ {h}, e \in Envs :
          /\ o \in todo'[e] <=> o \in todo[e]
          /\ <<o, "runtime">> \in waits'[e] <=> <<o, "runtime">> \in waits[e]
          /\ <<o, "opening">> \in waits'[e] <=> <<o, "opening">> \in waits[e]

\* The path keeps its directory for those that rely on it, and no foreign writer
\* or reader appears in it behind the lifecycle lock.
PathKept(h) ==
    /\ dir' = dir \/ dir = NoInode \/ \A o \in Ops \ {h} : ~AtDir(o)
    /\ \A i \in Inodes : wlock'[i] = Foreign => wlock[i] = Foreign
    /\ (\A i \in Inodes : readers[i] = {} => readers'[i] = {}) \/ lifecycle = h

\* An abandoned runtime stays abandoned; a new quarantine finds nobody it keeps out.
QuarantineKept(h) ==
    /\ expired \subseteq expired'
    /\ unproven' = unproven \/ \A o \in Ops \ {h} : QuarantineOf(o)'

\* A step of one operation is sound if the operation is.
LEMMA StepKept ==
    ASSUME IInv, NEW h \in Ops, Aside(h), HooksAside(h), PathKept(h), QuarantineKept(h),
           UNCHANGED <<kind, env>>, Sound(h)', TypeOK', ForeignInv'
    PROVE  IInv'
  <1> USE DEF Locked, OpenPoints, Reserving, ResetPoints, InUse, Kept, AtDir
  <1> SUFFICES ASSUME NEW o \in Ops \ {h}
               PROVE  Sound(o)'
    BY DEF IInv, OpInv
  <1>1. Sound(o) /\ o \in Ops /\ NoInode \notin Inodes /\ lifecycle \in Ops \cup {NoOp}
    BY RegistryAssumption DEF IInv, OpInv, TypeOK
  <1>2. /\ pc'[o] = pc[o] /\ rt'[o] = rt[o] /\ ino'[o] = ino[o]
        /\ o \in handles' <=> o \in handles
        /\ o \in opening' => o \in opening
        /\ o \in tracked' <=> o \in tracked
        /\ o \in expired' <=> o \in expired
        /\ lifecycle' = o <=> lifecycle = o
        /\ kind' = kind /\ env' = env
    BY DEF Aside
  <1>3. \A i \in Inodes : (paths'[i] = o <=> paths[i] = o) /\ (o \in readers'[i] <=> o \in readers[i])
    BY DEF Aside
  <1>4. StageOf(o)' /\ LockOf(o)'
    BY <1>1, <1>2 DEF Sound, StageOf, LockOf
  <1>5. PathOf(o)'
    <2>1. AtDir(o) => ino[o] = dir /\ dir \in Inodes /\ dir' = dir
      BY <1>1 DEF Sound, PathOf, PathKept
    <2>2. pc[o] \in {"admit", "start"} \/ Kept(o) => Reserved(o)'
      BY <1>1, <1>2, <1>3, <2>1 DEF Sound, PathOf, Reserved
    <2>3. ASSUME pc[o] \in {"probeWriter", "rename"}
          PROVE  paths'[ino[o]] = o /\ readers'[ino[o]] = {}
      <3>1. lifecycle = o /\ ino[o] \in Inodes
        BY <1>1, <2>1, <2>3 DEF Sound, LockOf
      <3> QED BY <1>1, <1>3, <2>3, <3>1 DEF Sound, PathOf, PathKept
    <2>4. pc[o] = "rename" => wlock'[ino[o]] # Foreign
      BY <1>1, <2>1 DEF Sound, PathOf, PathKept
    <2>5. pc[o] \in {"lockReset", "recheck"} => ino[o] \in Inodes
      BY <1>1 DEF Sound, PathOf
    <2> HIDE DEF Reserved
    <2> QED BY <1>2, <2>1, <2>2, <2>3, <2>4, <2>5 DEF PathOf
  <1>6. BookOf(o)'
    BY <1>1, <1>2, <1>3 DEF Sound, BookOf
  <1>7. HookOf(o)'
    <2>1. env[o] \in Envs
      BY DEF IInv, TypeOK
    <2> QED BY <1>1, <1>2, <2>1 DEF Sound, HookOf, Busy, HooksAside
  <1>8. QuarantineOf(o)'
    BY <1>1, <1>2 DEF Sound, QuarantineOf, QuarantineKept, Live
  <1> QED BY <1>4, <1>5, <1>6, <1>7, <1>8 DEF Sound
-----------------------------------------------------------------------------
(* The steps of an open, one lemma for each.                               *)

\* An operation is tracked before its thread starts.
LEMMA BeginInv ==
    ASSUME IInv, NEW h \in Ops, Begin(h)
    PROVE  IInv'
  <1> USE DEF Locked, OpenPoints, Reserving, ResetPoints, InUse, Kept, AtDir
  <1>1. /\ pc[h] = "unused" /\ hook[env[h]] = "live" /\ Sound(h)
        /\ UNCHANGED <<dir, retired, lifecycle, wlock, paths, readers, unproven, handles,
                       cancelled, kind, env, ino, rt, hook, todo, waits, expired>>
    BY DEF IInv, OpInv, Begin, fsVars, regVars, hookVars, EnvAlive
  <1>2. /\ opening \subseteq Ops
        /\ tracked \subseteq Ops
        /\ pc \in [Ops -> OpPoints]
    BY DEF IInv, TypeOK
  <1>3. \/ /\ opening' = opening \cup {h} /\ tracked' = tracked \cup {h}
           /\ pc' = [pc EXCEPT ![h] = IF kind[h] = "reset" THEN "check" ELSE "canonicalize"]
        \/ pc' = [pc EXCEPT ![h] = "done"] /\ UNCHANGED <<opening, tracked>>
    BY DEF Begin, Goto
  <1>4. TypeOK'
    <2>1. opening' \subseteq Ops
      BY <1>1, <1>2, <1>3
    <2>2. tracked' \subseteq Ops
      BY <1>1, <1>2, <1>3
    <2>3. pc' \in [Ops -> OpPoints]
      BY <1>1, <1>2, <1>3 DEF OpPoints
    <2> QED BY <1>1, <2>1, <2>2, <2>3 DEF IInv, TypeOK
  <1>5. Aside(h) /\ HooksAside(h)
    BY <1>1, <1>2, <1>3 DEF Aside, HooksAside
  <1>6. PathKept(h) /\ QuarantineKept(h)
    BY <1>1, <1>2, <1>3 DEF PathKept, QuarantineKept
  <1>7. Sound(h)'
    <2>1. StageOf(h)' /\ LockOf(h)'
      BY <1>1, <1>2, <1>3, RegistryAssumption DEF Sound, StageOf, LockOf
    <2>2. PathOf(h)'
      BY <1>1, <1>2, <1>3 DEF Sound, StageOf, PathOf, Reserved, LockOf
    <2>3. BookOf(h)'
      BY <1>1, <1>2, <1>3 DEF Sound, StageOf, BookOf
    <2>4. HookOf(h)'
      BY <1>1, <1>2, <1>3 DEF Sound, StageOf, HookOf, Busy
    <2>5. QuarantineOf(h)'
      BY <1>1, <1>2, <1>3 DEF Sound, StageOf, QuarantineOf, Live
    <2> QED BY <2>1, <2>2, <2>3, <2>4, <2>5 DEF Sound
  <1>8. ForeignInv'
    BY <1>1 DEF IInv, ForeignInv
  <1> QED BY <1>1, <1>4, <1>5, <1>6, <1>7, <1>8, StepKept

\* A writer creates a missing directory; nobody relies on a missing one.
LEMMA CanonicalizeInv ==
    ASSUME IInv, NEW h \in Ops, Canonicalize(h)
    PROVE  IInv'
  <1> USE DEF Locked, OpenPoints, Reserving, ResetPoints, InUse, Kept, AtDir
  <1>1. /\ pc[h] = "canonicalize" /\ kind[h] # "reset" /\ Sound(h)
        /\ UNCHANGED <<retired, lifecycle, wlock, paths, readers, unproven, handles, opening,
                       cancelled, tracked, kind, env, ino, rt, hook, todo, waits, expired>>
    BY DEF IInv, OpInv, Canonicalize, fsVars, regVars, hookVars, Sound, StageOf
  <1>2. /\ dir \in Inodes \cup {NoInode}
        /\ pc \in [Ops -> OpPoints]
        /\ retired \subseteq Inodes
    BY DEF IInv, TypeOK
  <1>3. /\ pc' = [pc EXCEPT ![h] = "lock"] \/ pc' = [pc EXCEPT ![h] = "finish"]
        /\ dir' = dir \/ (dir = NoInode /\ dir' \in Inodes /\ dir' \notin retired)
    BY DEF Canonicalize, Fresh, Goto
  <1>4. TypeOK'
    <2>1. dir' \in Inodes \cup {NoInode}
      BY <1>1, <1>2, <1>3
    <2>2. pc' \in [Ops -> OpPoints]
      BY <1>1, <1>2, <1>3 DEF OpPoints
    <2>3. dir' \notin retired'
      BY <1>1, <1>2, <1>3 DEF IInv, TypeOK
    <2> QED BY <1>1, <2>1, <2>2, <2>3 DEF IInv, TypeOK
  <1>5. Aside(h) /\ HooksAside(h)
    BY <1>1, <1>2, <1>3 DEF Aside, HooksAside
  <1>6. PathKept(h) /\ QuarantineKept(h)
    BY <1>1, <1>2, <1>3 DEF PathKept, QuarantineKept
  <1>7. Sound(h)'
    <2>1. StageOf(h)' /\ LockOf(h)'
      BY <1>1, <1>2, <1>3, RegistryAssumption DEF Sound, StageOf, LockOf
    <2>2. PathOf(h)'
      BY <1>1, <1>2, <1>3 DEF Sound, StageOf, PathOf, Reserved, LockOf
    <2>3. BookOf(h)'
      BY <1>1, <1>2, <1>3 DEF Sound, StageOf, BookOf
    <2>4. HookOf(h)'
      BY <1>1, <1>2, <1>3 DEF Sound, StageOf, HookOf, Busy
    <2>5. QuarantineOf(h)'
      BY <1>1, <1>2, <1>3 DEF Sound, StageOf, QuarantineOf, Live
    <2> QED BY <2>1, <2>2, <2>3, <2>4, <2>5 DEF Sound
  <1>8. ForeignInv'
    BY <1>1 DEF IInv, ForeignInv
  <1> QED BY <1>1, <1>4, <1>5, <1>6, <1>7, <1>8, StepKept

\* The lifecycle lock is taken when nobody has it.
LEMMA LockInv ==
    ASSUME IInv, NEW h \in Ops, Lock(h)
    PROVE  IInv'
  <1> USE DEF Locked, OpenPoints, Reserving, ResetPoints, InUse, Kept, AtDir
  <1>1. /\ pc[h] = "lock" /\ Sound(h)
        /\ UNCHANGED <<dir, retired, wlock, paths, readers, unproven, handles, opening,
                       cancelled, tracked, kind, env, ino, rt, hook, todo, waits, expired>>
    BY DEF IInv, OpInv, Lock, fsVars, regVars, hookVars
  <1>2. /\ lifecycle \in Ops \cup {NoOp}
        /\ pc \in [Ops -> OpPoints]
    BY DEF IInv, TypeOK
  <1>3. \/ lifecycle = NoOp /\ lifecycle' = h /\ pc' = [pc EXCEPT ![h] = "identify"]
        \/ lifecycle' = lifecycle /\ pc' = [pc EXCEPT ![h] = "finish"]
    BY DEF Lock, Goto
  <1>4. NoOp \notin Ops
    BY RegistryAssumption
  <1>5. TypeOK'
    <2>1. lifecycle' \in Ops \cup {NoOp}
      BY <1>1, <1>2, <1>3, <1>4
    <2>2. pc' \in [Ops -> OpPoints]
      BY <1>1, <1>2, <1>3, <1>4 DEF OpPoints
    <2> QED BY <1>1, <2>1, <2>2 DEF IInv, TypeOK
  <1>6. Aside(h) /\ HooksAside(h)
    BY <1>1, <1>2, <1>3, <1>4 DEF Aside, HooksAside
  <1>7. PathKept(h) /\ QuarantineKept(h)
    BY <1>1, <1>2, <1>3, <1>4 DEF PathKept, QuarantineKept
  <1>8. Sound(h)'
    <2>1. StageOf(h)' /\ LockOf(h)'
      BY <1>1, <1>2, <1>3, <1>4, RegistryAssumption DEF Sound, StageOf, LockOf
    <2>2. PathOf(h)'
      BY <1>1, <1>2, <1>3, <1>4 DEF Sound, StageOf, PathOf, Reserved, LockOf
    <2>3. BookOf(h)'
      BY <1>1, <1>2, <1>3, <1>4 DEF Sound, StageOf, BookOf
    <2>4. HookOf(h)'
      BY <1>1, <1>2, <1>3, <1>4 DEF Sound, StageOf, HookOf, Busy
    <2>5. QuarantineOf(h)'
      BY <1>1, <1>2, <1>3, <1>4 DEF Sound, StageOf, QuarantineOf, Live
    <2> QED BY <2>1, <2>2, <2>3, <2>4, <2>5 DEF Sound
  <1>9. ForeignInv'
    BY <1>1 DEF IInv, ForeignInv
  <1> QED BY <1>1, <1>5, <1>6, <1>7, <1>8, <1>9, StepKept

\* The identity is read under the lifecycle lock.
LEMMA IdentifyInv ==
    ASSUME IInv, NEW h \in Ops, Identify(h)
    PROVE  IInv'
  <1> USE DEF Locked, OpenPoints, Reserving, ResetPoints, InUse, Kept, AtDir
  <1>1. /\ pc[h] = "identify" /\ Sound(h)
        /\ UNCHANGED <<dir, retired, lifecycle, wlock, paths, readers, unproven, handles,
                       opening, cancelled, tracked, kind, env, rt, hook, todo, waits, expired>>
    BY DEF IInv, OpInv, Identify, fsVars, regVars, hookVars
  <1>2. /\ ino \in [Ops -> Inodes \cup {NoInode}]
        /\ pc \in [Ops -> OpPoints]
        /\ dir \in Inodes \cup {NoInode}
    BY DEF IInv, TypeOK
  <1>3. /\ ino' = [ino EXCEPT ![h] = dir]
        /\ (dir # NoInode /\ pc' = [pc EXCEPT ![h] = "register"]) \/ pc' = [pc EXCEPT ![h] = "unlock"]
    BY DEF Identify, Goto
  <1>4. TypeOK'
    <2>1. ino' \in [Ops -> Inodes \cup {NoInode}]
      BY <1>1, <1>2, <1>3
    <2>2. pc' \in [Ops -> OpPoints]
      BY <1>1, <1>2, <1>3 DEF OpPoints
    <2> QED BY <1>1, <2>1, <2>2 DEF IInv, TypeOK
  <1>5. Aside(h) /\ HooksAside(h)
    BY <1>1, <1>2, <1>3 DEF Aside, HooksAside
  <1>6. PathKept(h) /\ QuarantineKept(h)
    BY <1>1, <1>2, <1>3 DEF PathKept, QuarantineKept
  <1>7. Sound(h)'
    <2>1. StageOf(h)' /\ LockOf(h)'
      BY <1>1, <1>2, <1>3, RegistryAssumption DEF Sound, StageOf, LockOf
    <2>2. PathOf(h)'
      BY <1>1, <1>2, <1>3 DEF Sound, StageOf, PathOf, Reserved, LockOf
    <2>3. BookOf(h)'
      BY <1>1, <1>2, <1>3 DEF Sound, StageOf, BookOf
    <2>4. HookOf(h)'
      BY <1>1, <1>2, <1>3 DEF Sound, StageOf, HookOf, Busy
    <2>5. QuarantineOf(h)'
      BY <1>1, <1>2, <1>3 DEF Sound, StageOf, QuarantineOf, Live
    <2> QED BY <2>1, <2>2, <2>3, <2>4, <2>5 DEF Sound
  <1>8. ForeignInv'
    BY <1>1 DEF IInv, ForeignInv
  <1> QED BY <1>1, <1>4, <1>5, <1>6, <1>7, <1>8, StepKept

\* The path is registered for one writer or one more reader.
LEMMA RegisterInv ==
    ASSUME IInv, NEW h \in Ops, Register(h)
    PROVE  IInv'
  <1> USE DEF Locked, OpenPoints, Reserving, ResetPoints, InUse, Kept, AtDir
  <1>1. /\ pc[h] = "register" /\ ino[h] = dir /\ dir \in Inodes /\ rt[h] = "none"
        /\ kind[h] # "reset" /\ lifecycle = h /\ Sound(h)
        /\ UNCHANGED <<dir, retired, lifecycle, wlock, unproven, handles, tracked, kind, env,
                       ino, rt, hook, todo, waits, expired>>
    BY DEF IInv, OpInv, Register, fsVars, regVars, hookVars, Sound, PathOf, StageOf, LockOf
  <1>2. /\ paths \in [Inodes -> Ops \cup {NoOp}]
        /\ readers \in [Inodes -> SUBSET Ops]
        /\ opening \subseteq Ops
        /\ cancelled \subseteq Ops
        /\ pc \in [Ops -> OpPoints]
    BY DEF IInv, TypeOK
  <1>3. \/ /\ opening' \subseteq opening /\ cancelled' \subseteq cancelled
           /\ pc' = [pc EXCEPT ![h] = "unlock"] /\ UNCHANGED <<paths, readers>>
        \/ /\ unproven = {} /\ UNCHANGED <<opening, cancelled>> /\ pc' = [pc EXCEPT ![h] = "admit"]
           /\ kind[h] = "reader" /\ readers' = [readers EXCEPT ![dir] = @ \cup {h}] /\ paths' = paths
        \/ /\ unproven = {} /\ UNCHANGED <<opening, cancelled>> /\ pc' = [pc EXCEPT ![h] = "admit"]
           /\ paths[dir] \notin Ops
           /\ kind[h] # "reader" /\ paths' = [paths EXCEPT ![dir] = h] /\ readers' = readers
    BY <1>1 DEF Register, Admits, Goto
  <1>4. TypeOK'
    <2>1. paths' \in [Inodes -> Ops \cup {NoOp}]
      BY <1>1, <1>2, <1>3
    <2>2. readers' \in [Inodes -> SUBSET Ops]
      BY <1>1, <1>2, <1>3
    <2>3. opening' \subseteq Ops
      BY <1>1, <1>2, <1>3
    <2>4. cancelled' \subseteq Ops
      BY <1>1, <1>2, <1>3
    <2>5. pc' \in [Ops -> OpPoints]
      BY <1>1, <1>2, <1>3 DEF OpPoints
    <2> QED BY <1>1, <2>1, <2>2, <2>3, <2>4, <2>5 DEF IInv, TypeOK
  <1>5. Aside(h) /\ HooksAside(h)
    BY <1>1, <1>2, <1>3 DEF Aside, HooksAside
  <1>6. PathKept(h) /\ QuarantineKept(h)
    BY <1>1, <1>2, <1>3 DEF PathKept, QuarantineKept
  <1>7. Sound(h)'
    <2>1. StageOf(h)' /\ LockOf(h)'
      BY <1>1, <1>2, <1>3, RegistryAssumption DEF Sound, StageOf, LockOf
    <2>2. PathOf(h)'
      BY <1>1, <1>2, <1>3 DEF Sound, StageOf, PathOf, Reserved, LockOf
    <2>3. BookOf(h)'
      BY <1>1, <1>2, <1>3 DEF Sound, StageOf, BookOf
    <2>4. HookOf(h)'
      BY <1>1, <1>2, <1>3 DEF Sound, StageOf, HookOf, Busy
    <2>5. QuarantineOf(h)'
      BY <1>1, <1>2, <1>3 DEF Sound, StageOf, QuarantineOf, Live
    <2> QED BY <2>1, <2>2, <2>3, <2>4, <2>5 DEF Sound
  <1>8. ForeignInv'
    BY <1>1 DEF IInv, ForeignInv
  <1> QED BY <1>1, <1>4, <1>5, <1>6, <1>7, <1>8, StepKept

\* The engine opens the directory that was registered; the writer lock is its own.
LEMMA AdmitInv ==
    ASSUME IInv, NEW h \in Ops, Admit(h)
    PROVE  IInv'
  <1> USE DEF Locked, OpenPoints, Reserving, ResetPoints, InUse, Kept, AtDir
  <1>1. /\ pc[h] = "admit" /\ ino[h] = dir /\ dir \in Inodes /\ Sound(h)
        /\ UNCHANGED <<dir, retired, lifecycle, paths, readers, unproven, handles, opening,
                       cancelled, tracked, kind, env, ino, hook, todo, waits, expired>>
    BY DEF IInv, OpInv, Admit, fsVars, regVars, hookVars, Sound, PathOf
  <1>2. /\ wlock \in [Inodes -> Ops \cup {NoOp, Foreign}]
        /\ pc \in [Ops -> OpPoints]
        /\ rt \in [Ops -> RuntimePhases]
    BY DEF IInv, TypeOK
  <1>3. \/ pc' = [pc EXCEPT ![h] = "unregister"] /\ wlock' = wlock /\ rt' = rt
        \/ /\ pc' = [pc EXCEPT ![h] = "unlock"] /\ wlock' = wlock
           /\ rt' = [rt EXCEPT ![h] = "panicked"]
        \/ /\ pc' = [pc EXCEPT ![h] = "start"] /\ rt' = rt
           /\ wlock' = wlock \/ wlock' = [wlock EXCEPT ![dir] = h]
    BY <1>1 DEF Admit, Goto, AfterFailure
  <1>4. Foreign \notin Ops
    BY RegistryAssumption
  <1>5. TypeOK'
    <2>1. wlock' \in [Inodes -> Ops \cup {NoOp, Foreign}]
      BY <1>1, <1>2, <1>3, <1>4
    <2>2. pc' \in [Ops -> OpPoints]
      BY <1>1, <1>2, <1>3, <1>4 DEF OpPoints
    <2>3. rt' \in [Ops -> RuntimePhases]
      BY <1>2, <1>3 DEF RuntimePhases
    <2> QED BY <1>1, <2>1, <2>2, <2>3 DEF IInv, TypeOK
  <1>6. Aside(h) /\ HooksAside(h)
    BY <1>1, <1>2, <1>3, <1>4 DEF Aside, HooksAside
  <1>7. PathKept(h) /\ QuarantineKept(h)
    BY <1>1, <1>2, <1>3, <1>4 DEF PathKept, QuarantineKept
  <1>8. Sound(h)'
    <2>1. StageOf(h)' /\ LockOf(h)'
      BY <1>1, <1>2, <1>3, <1>4, RegistryAssumption DEF Sound, StageOf, LockOf
    <2>2. PathOf(h)'
      BY <1>1, <1>2, <1>3, <1>4 DEF Sound, StageOf, PathOf, Reserved, LockOf
    <2>3. BookOf(h)'
      BY <1>1, <1>2, <1>3, <1>4 DEF Sound, StageOf, BookOf
    <2>4. HookOf(h)'
      BY <1>1, <1>2, <1>3, <1>4 DEF Sound, StageOf, HookOf, Busy
    <2>5. QuarantineOf(h)'
      BY <1>1, <1>2, <1>3, <1>4 DEF Sound, StageOf, QuarantineOf, Live
    <2> QED BY <2>1, <2>2, <2>3, <2>4, <2>5 DEF Sound
  <1>9. ForeignInv'
    BY <1>1, <1>2, <1>3, <1>4 DEF IInv, TypeOK, ForeignInv
  <1> QED BY <1>1, <1>5, <1>6, <1>7, <1>8, <1>9, StepKept

\* The threads start while the path is registered.
LEMMA StartInv ==
    ASSUME IInv, NEW h \in Ops, Start(h)
    PROVE  IInv'
  <1> USE DEF Locked, OpenPoints, Reserving, ResetPoints, InUse, Kept, AtDir
  <1>1. /\ pc[h] = "start" /\ h \notin expired /\ Sound(h)
        /\ UNCHANGED <<dir, retired, lifecycle, wlock, paths, readers, unproven, handles,
                       opening, cancelled, tracked, kind, env, ino, hook, todo, waits, expired>>
    BY DEF IInv, OpInv, Start, fsVars, regVars, hookVars, Sound, StageOf
  <1>2. /\ rt \in [Ops -> RuntimePhases]
        /\ pc \in [Ops -> OpPoints]
    BY DEF IInv, TypeOK
  <1>3. /\ rt' = [rt EXCEPT ![h] = "running"]
        /\ pc' = [pc EXCEPT ![h] = "confirm"] \/ pc' = [pc EXCEPT ![h] = "abort"]
    BY DEF Start, Goto
  <1>4. TypeOK'
    <2>1. rt' \in [Ops -> RuntimePhases]
      BY <1>1, <1>2, <1>3 DEF RuntimePhases
    <2>2. pc' \in [Ops -> OpPoints]
      BY <1>1, <1>2, <1>3 DEF OpPoints
    <2> QED BY <1>1, <2>1, <2>2 DEF IInv, TypeOK
  <1>5. Aside(h) /\ HooksAside(h)
    BY <1>1, <1>2, <1>3 DEF Aside, HooksAside
  <1>6. PathKept(h) /\ QuarantineKept(h)
    BY <1>1, <1>2, <1>3 DEF PathKept, QuarantineKept
  <1>7. Sound(h)'
    <2>1. StageOf(h)' /\ LockOf(h)'
      BY <1>1, <1>2, <1>3, RegistryAssumption DEF Sound, StageOf, LockOf
    <2>2. PathOf(h)'
      BY <1>1, <1>2, <1>3 DEF Sound, StageOf, PathOf, Reserved, LockOf
    <2>3. BookOf(h)'
      BY <1>1, <1>2, <1>3 DEF Sound, StageOf, BookOf
    <2>4. HookOf(h)'
      BY <1>1, <1>2, <1>3 DEF Sound, StageOf, HookOf, Busy
    <2>5. QuarantineOf(h)'
      BY <1>1, <1>2, <1>3 DEF Sound, StageOf, QuarantineOf, Live
    <2> QED BY <2>1, <2>2, <2>3, <2>4, <2>5 DEF Sound
  <1>8. ForeignInv'
    BY <1>1 DEF IInv, ForeignInv
  <1> QED BY <1>1, <1>4, <1>5, <1>6, <1>7, <1>8, StepKept

\* A handle is published only while its environment is alive.
LEMMA ConfirmInv ==
    ASSUME IInv, NEW h \in Ops, Confirm(h)
    PROVE  IInv'
  <1> USE DEF Locked, OpenPoints, Reserving, ResetPoints, InUse, Kept, AtDir
  <1>1. /\ pc[h] = "confirm" /\ rt[h] = "running" /\ Sound(h)
        /\ UNCHANGED <<dir, retired, lifecycle, wlock, paths, readers, unproven, tracked, kind,
                       env, ino, rt, hook, todo, waits, expired>>
    BY DEF IInv, OpInv, Confirm, fsVars, regVars, hookVars, Sound, StageOf
  <1>2. /\ handles \subseteq Ops
        /\ opening \subseteq Ops
        /\ cancelled \subseteq Ops
        /\ pc \in [Ops -> OpPoints]
    BY DEF IInv, TypeOK
  <1>3. \/ /\ handles' = handles \cup {h} /\ opening' = opening \ {h} /\ cancelled' = cancelled
           /\ pc' = [pc EXCEPT ![h] = "opened"] /\ hook[env[h]] = "live"
        \/ /\ pc' = [pc EXCEPT ![h] = "abort"] /\ cancelled' = cancelled \ {h}
           /\ UNCHANGED <<handles, opening>>
    BY DEF Confirm, Confirms, Cancelled, EnvAlive, Goto
  <1>4. TypeOK'
    <2>1. handles' \subseteq Ops
      BY <1>1, <1>2, <1>3
    <2>2. opening' \subseteq Ops
      BY <1>1, <1>2, <1>3
    <2>3. cancelled' \subseteq Ops
      BY <1>1, <1>2, <1>3
    <2>4. pc' \in [Ops -> OpPoints]
      BY <1>1, <1>2, <1>3 DEF OpPoints
    <2> QED BY <1>1, <2>1, <2>2, <2>3, <2>4 DEF IInv, TypeOK
  <1>5. Aside(h) /\ HooksAside(h)
    BY <1>1, <1>2, <1>3 DEF Aside, HooksAside
  <1>6. PathKept(h) /\ QuarantineKept(h)
    BY <1>1, <1>2, <1>3 DEF PathKept, QuarantineKept
  <1>7. Sound(h)'
    <2>1. StageOf(h)' /\ LockOf(h)'
      BY <1>1, <1>2, <1>3, RegistryAssumption DEF Sound, StageOf, LockOf
    <2>2. PathOf(h)'
      BY <1>1, <1>2, <1>3 DEF Sound, StageOf, PathOf, Reserved, LockOf
    <2>3. BookOf(h)'
      BY <1>1, <1>2, <1>3 DEF Sound, StageOf, BookOf
    <2>4. HookOf(h)'
      BY <1>1, <1>2, <1>3 DEF Sound, StageOf, HookOf, Busy
    <2>5. QuarantineOf(h)'
      BY <1>1, <1>2, <1>3 DEF Sound, StageOf, QuarantineOf, Live
    <2> QED BY <2>1, <2>2, <2>3, <2>4, <2>5 DEF Sound
  <1>8. ForeignInv'
    BY <1>1 DEF IInv, ForeignInv
  <1> QED BY <1>1, <1>4, <1>5, <1>6, <1>7, <1>8, StepKept

\* A runtime nobody has seen is closed under the lifecycle lock.
LEMMA AbortInv ==
    ASSUME IInv, NEW h \in Ops, Abort(h)
    PROVE  IInv'
  <1> USE DEF Locked, OpenPoints, Reserving, ResetPoints, InUse, Kept, AtDir
  <1>1. /\ pc[h] = "abort" /\ rt[h] = "running" /\ rt' = [rt EXCEPT ![h] = "closing"]
        /\ pc' = [pc EXCEPT ![h] = "abortWait"] /\ Sound(h)
        /\ UNCHANGED <<dir, retired, lifecycle, wlock, paths, readers, unproven, handles,
                       opening, cancelled, tracked, kind, env, ino, hook, todo, waits, expired>>
    BY DEF IInv, OpInv, Abort, fsVars, regVars, hookVars, Sound, StageOf, Goto
  <1>2. /\ rt \in [Ops -> RuntimePhases]
        /\ pc \in [Ops -> OpPoints]
    BY DEF IInv, TypeOK
  <1>3. TypeOK'
    <2>1. rt' \in [Ops -> RuntimePhases]
      BY <1>1, <1>2 DEF RuntimePhases
    <2>2. pc' \in [Ops -> OpPoints]
      BY <1>1, <1>2 DEF OpPoints
    <2> QED BY <1>1, <2>1, <2>2 DEF IInv, TypeOK
  <1>4. Aside(h) /\ HooksAside(h)
    BY <1>1, <1>2 DEF Aside, HooksAside
  <1>5. PathKept(h) /\ QuarantineKept(h)
    BY <1>1, <1>2 DEF PathKept, QuarantineKept
  <1>6. Sound(h)'
    <2>1. StageOf(h)' /\ LockOf(h)'
      BY <1>1, <1>2, RegistryAssumption DEF Sound, StageOf, LockOf
    <2>2. PathOf(h)'
      BY <1>1, <1>2 DEF Sound, StageOf, PathOf, Reserved, LockOf
    <2>3. BookOf(h)'
      BY <1>1, <1>2 DEF Sound, StageOf, BookOf
    <2>4. HookOf(h)'
      BY <1>1, <1>2 DEF Sound, StageOf, HookOf, Busy
    <2>5. QuarantineOf(h)'
      BY <1>1, <1>2 DEF Sound, StageOf, QuarantineOf, Live
    <2> QED BY <2>1, <2>2, <2>3, <2>4, <2>5 DEF Sound
  <1>7. ForeignInv'
    BY <1>1 DEF IInv, ForeignInv
  <1> QED BY <1>1, <1>3, <1>4, <1>5, <1>6, <1>7, StepKept

\* The wait ends with the runtime released, or abandons it.
LEMMA AbortWaitInv ==
    ASSUME IInv, NEW h \in Ops, AbortWait(h)
    PROVE  IInv'
  <1> USE DEF Locked, OpenPoints, Reserving, ResetPoints, InUse, Kept, AtDir
  <1>1. /\ pc[h] = "abortWait" /\ pc' = [pc EXCEPT ![h] = "unregister"] /\ Sound(h)
        /\ UNCHANGED <<dir, retired, lifecycle, wlock, paths, readers, unproven, handles,
                       opening, cancelled, tracked, kind, env, ino, rt, hook, todo, waits>>
    BY DEF IInv, OpInv, AbortWait, AfterFailure, fsVars, regVars, hookVars, Goto
  <1>2. /\ pc \in [Ops -> OpPoints]
        /\ expired \subseteq Ops
        /\ rt \in [Ops -> RuntimePhases]
    BY DEF IInv, TypeOK
  <1>3. (rt[h] = "released" /\ expired' = expired) \/ expired' = expired \cup {h}
    BY DEF AbortWait, Closed
  <1>4. TypeOK'
    <2>1. pc' \in [Ops -> OpPoints]
      BY <1>1, <1>2, <1>3 DEF OpPoints
    <2>2. expired' \subseteq Ops
      BY <1>1, <1>2, <1>3
    <2> QED BY <1>1, <2>1, <2>2 DEF IInv, TypeOK
  <1>5. Aside(h) /\ HooksAside(h)
    BY <1>1, <1>2, <1>3 DEF Aside, HooksAside
  <1>6. PathKept(h) /\ QuarantineKept(h)
    BY <1>1, <1>2, <1>3 DEF PathKept, QuarantineKept
  <1>7. Sound(h)'
    <2>1. StageOf(h)' /\ LockOf(h)'
      BY <1>1, <1>2, <1>3, RegistryAssumption DEF Sound, StageOf, LockOf
    <2>2. PathOf(h)'
      BY <1>1, <1>2, <1>3 DEF Sound, StageOf, PathOf, Reserved, LockOf
    <2>3. BookOf(h)'
      BY <1>1, <1>2, <1>3 DEF Sound, StageOf, BookOf
    <2>4. HookOf(h)'
      BY <1>1, <1>2, <1>3 DEF Sound, StageOf, HookOf, Busy
    <2>5. QuarantineOf(h)'
      BY <1>1, <1>2, <1>3 DEF Sound, StageOf, QuarantineOf, Live
    <2> QED BY <2>1, <2>2, <2>3, <2>4, <2>5 DEF Sound
  <1>8. ForeignInv'
    BY <1>1 DEF IInv, ForeignInv
  <1> QED BY <1>1, <1>4, <1>5, <1>6, <1>7, <1>8, StepKept

\* A failed open takes its registration back, and nobody else's.
LEMMA UnregisterInv ==
    ASSUME IInv, NEW h \in Ops, Unregister(h)
    PROVE  IInv'
  <1> USE DEF Locked, OpenPoints, Reserving, ResetPoints, InUse, Kept, AtDir
  <1>1. /\ pc[h] = "unregister" /\ pc' = [pc EXCEPT ![h] = "untrack"] /\ Sound(h)
        /\ UNCHANGED <<dir, retired, lifecycle, wlock, unproven, opening, cancelled, tracked,
                       kind, env, ino, rt, hook, todo, waits, expired>>
    BY DEF IInv, OpInv, Unregister, fsVars, regVars, hookVars, Goto
  <1>2. /\ handles \subseteq Ops
        /\ readers \in [Inodes -> SUBSET Ops]
        /\ paths \in [Inodes -> Ops \cup {NoOp}]
        /\ pc \in [Ops -> OpPoints]
    BY DEF IInv, TypeOK
  <1>3. /\ handles' = handles \ {h}
        /\ \A i \in Inodes : /\ readers'[i] = readers[i] \ {h}
                             /\ paths'[i] = IF paths[i] = h THEN NoOp ELSE paths[i]
        /\ paths' \in [Inodes -> Ops \cup {NoOp}] /\ readers' \in [Inodes -> SUBSET Ops]
    BY <1>2 DEF Unregister, Forget, Without
  <1>4. NoOp \notin Ops
    BY RegistryAssumption
  <1>5. TypeOK'
    <2>1. handles' \subseteq Ops
      BY <1>1, <1>2, <1>3, <1>4
    <2>2. readers' \in [Inodes -> SUBSET Ops]
      BY <1>3
    <2>3. paths' \in [Inodes -> Ops \cup {NoOp}]
      BY <1>3
    <2>4. pc' \in [Ops -> OpPoints]
      BY <1>1, <1>2, <1>3, <1>4 DEF OpPoints
    <2> QED BY <1>1, <2>1, <2>2, <2>3, <2>4 DEF IInv, TypeOK
  <1>6. Aside(h) /\ HooksAside(h)
    BY <1>1, <1>2, <1>3, <1>4 DEF Aside, HooksAside
  <1>7. PathKept(h) /\ QuarantineKept(h)
    BY <1>1, <1>2, <1>3, <1>4 DEF PathKept, QuarantineKept
  <1>8. Sound(h)'
    <2>1. StageOf(h)' /\ LockOf(h)'
      BY <1>1, <1>2, <1>3, <1>4, RegistryAssumption DEF Sound, StageOf, LockOf
    <2>2. PathOf(h)'
      BY <1>1, <1>2, <1>3, <1>4 DEF Sound, StageOf, PathOf, Reserved, LockOf
    <2>3. BookOf(h)'
      BY <1>1, <1>2, <1>3, <1>4 DEF Sound, StageOf, BookOf
    <2>4. HookOf(h)'
      BY <1>1, <1>2, <1>3, <1>4 DEF Sound, StageOf, HookOf, Busy
    <2>5. QuarantineOf(h)'
      BY <1>1, <1>2, <1>3, <1>4 DEF Sound, StageOf, QuarantineOf, Live
    <2> QED BY <2>1, <2>2, <2>3, <2>4, <2>5 DEF Sound
  <1>9. ForeignInv'
    BY <1>1 DEF IInv, ForeignInv
  <1> QED BY <1>1, <1>5, <1>6, <1>7, <1>8, <1>9, StepKept

\* Its environment forgets it.
LEMMA UntrackInv ==
    ASSUME IInv, NEW h \in Ops, Untrack(h)
    PROVE  IInv'
  <1> USE DEF Locked, OpenPoints, Reserving, ResetPoints, InUse, Kept, AtDir
  <1>1. /\ pc[h] = "untrack" /\ pc' = [pc EXCEPT ![h] = "unlock"] /\ tracked' = tracked \ {h} /\ Sound(h)
        /\ UNCHANGED <<dir, retired, lifecycle, wlock, paths, readers, unproven, handles,
                       opening, cancelled, kind, env, ino, rt, hook, todo, waits, expired>>
    BY DEF IInv, OpInv, Untrack, fsVars, regVars, hookVars, Goto
  <1>2. /\ tracked \subseteq Ops
        /\ pc \in [Ops -> OpPoints]
    BY DEF IInv, TypeOK
  <1>3. TypeOK'
    <2>1. tracked' \subseteq Ops
      BY <1>1, <1>2
    <2>2. pc' \in [Ops -> OpPoints]
      BY <1>1, <1>2 DEF OpPoints
    <2> QED BY <1>1, <2>1, <2>2 DEF IInv, TypeOK
  <1>4. Aside(h) /\ HooksAside(h)
    BY <1>1, <1>2 DEF Aside, HooksAside
  <1>5. PathKept(h) /\ QuarantineKept(h)
    BY <1>1, <1>2 DEF PathKept, QuarantineKept
  <1>6. Sound(h)'
    <2>1. StageOf(h)' /\ LockOf(h)'
      BY <1>1, <1>2, RegistryAssumption DEF Sound, StageOf, LockOf
    <2>2. PathOf(h)'
      BY <1>1, <1>2 DEF Sound, StageOf, PathOf, Reserved, LockOf
    <2>3. BookOf(h)'
      BY <1>1, <1>2 DEF Sound, StageOf, BookOf
    <2>4. HookOf(h)'
      BY <1>1, <1>2 DEF Sound, StageOf, HookOf, Busy
    <2>5. QuarantineOf(h)'
      BY <1>1, <1>2 DEF Sound, StageOf, QuarantineOf, Live
    <2> QED BY <2>1, <2>2, <2>3, <2>4, <2>5 DEF Sound
  <1>7. ForeignInv'
    BY <1>1 DEF IInv, ForeignInv
  <1> QED BY <1>1, <1>3, <1>4, <1>5, <1>6, <1>7, StepKept

\* The lifecycle lock is given back on every way out.
LEMMA UnlockInv ==
    ASSUME IInv, NEW h \in Ops, Unlock(h)
    PROVE  IInv'
  <1> USE DEF Locked, OpenPoints, Reserving, ResetPoints, InUse, Kept, AtDir
  <1>1. /\ pc[h] \in {"unlock", "opened"} /\ lifecycle = h /\ lifecycle' = NoOp /\ Sound(h)
        /\ UNCHANGED <<dir, retired, wlock, paths, readers, unproven, handles, cancelled,
                       tracked, kind, env, ino, rt, hook, todo, waits, expired>>
    BY DEF IInv, OpInv, Unlock, fsVars, regVars, hookVars, Sound, LockOf, Unlocked
  <1>2. /\ lifecycle \in Ops \cup {NoOp}
        /\ opening \subseteq Ops
        /\ pc \in [Ops -> OpPoints]
    BY DEF IInv, TypeOK
  <1>3. \/ /\ pc[h] = "opened" /\ pc' = [pc EXCEPT ![h] = "done"] /\ opening' = opening \ {h}
        \/ /\ pc[h] = "unlock" /\ pc' = [pc EXCEPT ![h] = "finish"] /\ opening' = opening
    BY <1>1 DEF Unlock, Goto
  <1>4. NoOp \notin Ops
    BY RegistryAssumption
  <1>5. TypeOK'
    <2>1. lifecycle' \in Ops \cup {NoOp}
      BY <1>1, <1>2, <1>3, <1>4
    <2>2. opening' \subseteq Ops
      BY <1>1, <1>2, <1>3, <1>4
    <2>3. pc' \in [Ops -> OpPoints]
      BY <1>1, <1>2, <1>3, <1>4 DEF OpPoints
    <2> QED BY <1>1, <2>1, <2>2, <2>3 DEF IInv, TypeOK
  <1>6. Aside(h) /\ HooksAside(h)
    BY <1>1, <1>2, <1>3, <1>4 DEF Aside, HooksAside
  <1>7. PathKept(h) /\ QuarantineKept(h)
    BY <1>1, <1>2, <1>3, <1>4 DEF PathKept, QuarantineKept
  <1>8. Sound(h)'
    <2>1. StageOf(h)' /\ LockOf(h)'
      BY <1>1, <1>2, <1>3, <1>4, RegistryAssumption DEF Sound, StageOf, LockOf
    <2>2. PathOf(h)'
      BY <1>1, <1>2, <1>3, <1>4 DEF Sound, StageOf, PathOf, Reserved, LockOf
    <2>3. BookOf(h)'
      BY <1>1, <1>2, <1>3, <1>4 DEF Sound, StageOf, BookOf
    <2>4. HookOf(h)'
      BY <1>1, <1>2, <1>3, <1>4 DEF Sound, StageOf, HookOf, Busy
    <2>5. QuarantineOf(h)'
      BY <1>1, <1>2, <1>3, <1>4 DEF Sound, StageOf, QuarantineOf, Live
    <2> QED BY <2>1, <2>2, <2>3, <2>4, <2>5 DEF Sound
  <1>9. ForeignInv'
    BY <1>1 DEF IInv, ForeignInv
  <1> QED BY <1>1, <1>5, <1>6, <1>7, <1>8, <1>9, StepKept

\* The end of a failed open or of a reset leaves no entry.
LEMMA FinishInv ==
    ASSUME IInv, NEW h \in Ops, Finish(h)
    PROVE  IInv'
  <1> USE DEF Locked, OpenPoints, Reserving, ResetPoints, InUse, Kept, AtDir
  <1>1. /\ pc[h] = "finish" /\ pc' = [pc EXCEPT ![h] = "done"] /\ opening' = opening \ {h}
        /\ tracked' = tracked \ {h} /\ cancelled' \subseteq cancelled /\ Sound(h)
        /\ UNCHANGED <<dir, retired, lifecycle, wlock, paths, readers, unproven, handles, kind,
                       env, ino, rt, hook, todo, waits, expired>>
    BY DEF IInv, OpInv, Finish, fsVars, regVars, hookVars, Goto
  <1>2. /\ opening \subseteq Ops
        /\ cancelled \subseteq Ops
        /\ tracked \subseteq Ops
        /\ pc \in [Ops -> OpPoints]
    BY DEF IInv, TypeOK
  <1>3. TypeOK'
    <2>1. opening' \subseteq Ops
      BY <1>1, <1>2
    <2>2. cancelled' \subseteq Ops
      BY <1>1, <1>2
    <2>3. tracked' \subseteq Ops
      BY <1>1, <1>2
    <2>4. pc' \in [Ops -> OpPoints]
      BY <1>1, <1>2 DEF OpPoints
    <2> QED BY <1>1, <2>1, <2>2, <2>3, <2>4 DEF IInv, TypeOK
  <1>4. Aside(h) /\ HooksAside(h)
    BY <1>1, <1>2 DEF Aside, HooksAside
  <1>5. PathKept(h) /\ QuarantineKept(h)
    BY <1>1, <1>2 DEF PathKept, QuarantineKept
  <1>6. Sound(h)'
    <2>1. StageOf(h)' /\ LockOf(h)'
      BY <1>1, <1>2, RegistryAssumption DEF Sound, StageOf, LockOf
    <2>2. PathOf(h)'
      BY <1>1, <1>2 DEF Sound, StageOf, PathOf, Reserved, LockOf
    <2>3. BookOf(h)'
      BY <1>1, <1>2 DEF Sound, StageOf, BookOf
    <2>4. HookOf(h)'
      BY <1>1, <1>2 DEF Sound, StageOf, HookOf, Busy
    <2>5. QuarantineOf(h)'
      BY <1>1, <1>2 DEF Sound, StageOf, QuarantineOf, Live
    <2> QED BY <2>1, <2>2, <2>3, <2>4, <2>5 DEF Sound
  <1>7. ForeignInv'
    BY <1>1 DEF IInv, ForeignInv
  <1> QED BY <1>1, <1>3, <1>4, <1>5, <1>6, <1>7, StepKept

-----------------------------------------------------------------------------
(* The steps of a reset.                                                   *)

\* A reset looks at its cancellation once.
LEMMA CheckResetInv ==
    ASSUME IInv, NEW h \in Ops, CheckReset(h)
    PROVE  IInv'
  <1> USE DEF Locked, OpenPoints, Reserving, ResetPoints, InUse, Kept, AtDir
  <1>1. /\ pc[h] = "check" /\ kind[h] = "reset" /\ cancelled' = cancelled \ {h} /\ Sound(h)
        /\ UNCHANGED <<dir, retired, lifecycle, wlock, paths, readers, unproven, handles,
                       opening, tracked, kind, env, ino, rt, hook, todo, waits, expired>>
    BY DEF IInv, OpInv, CheckReset, fsVars, regVars, hookVars, Sound, StageOf
  <1>2. /\ cancelled \subseteq Ops
        /\ pc \in [Ops -> OpPoints]
    BY DEF IInv, TypeOK
  <1>3. pc' = [pc EXCEPT ![h] = "finish"] \/ pc' = [pc EXCEPT ![h] = "canonicalizeReset"]
    BY DEF CheckReset, Goto
  <1>4. TypeOK'
    <2>1. cancelled' \subseteq Ops
      BY <1>1, <1>2, <1>3
    <2>2. pc' \in [Ops -> OpPoints]
      BY <1>1, <1>2, <1>3 DEF OpPoints
    <2> QED BY <1>1, <2>1, <2>2 DEF IInv, TypeOK
  <1>5. Aside(h) /\ HooksAside(h)
    BY <1>1, <1>2, <1>3 DEF Aside, HooksAside
  <1>6. PathKept(h) /\ QuarantineKept(h)
    BY <1>1, <1>2, <1>3 DEF PathKept, QuarantineKept
  <1>7. Sound(h)'
    <2>1. StageOf(h)' /\ LockOf(h)'
      BY <1>1, <1>2, <1>3, RegistryAssumption DEF Sound, StageOf, LockOf
    <2>2. PathOf(h)'
      BY <1>1, <1>2, <1>3 DEF Sound, StageOf, PathOf, Reserved, LockOf
    <2>3. BookOf(h)'
      BY <1>1, <1>2, <1>3 DEF Sound, StageOf, BookOf
    <2>4. HookOf(h)'
      BY <1>1, <1>2, <1>3 DEF Sound, StageOf, HookOf, Busy
    <2>5. QuarantineOf(h)'
      BY <1>1, <1>2, <1>3 DEF Sound, StageOf, QuarantineOf, Live
    <2> QED BY <2>1, <2>2, <2>3, <2>4, <2>5 DEF Sound
  <1>8. ForeignInv'
    BY <1>1 DEF IInv, ForeignInv
  <1> QED BY <1>1, <1>4, <1>5, <1>6, <1>7, <1>8, StepKept

\* A reset identifies its directory before it has the lock.
LEMMA CanonicalizeResetInv ==
    ASSUME IInv, NEW h \in Ops, CanonicalizeReset(h)
    PROVE  IInv'
  <1> USE DEF Locked, OpenPoints, Reserving, ResetPoints, InUse, Kept, AtDir
  <1>1. /\ pc[h] = "canonicalizeReset" /\ kind[h] = "reset" /\ ino' = [ino EXCEPT ![h] = dir] /\ Sound(h)
        /\ UNCHANGED <<dir, retired, lifecycle, wlock, paths, readers, unproven, handles,
                       opening, cancelled, tracked, kind, env, rt, hook, todo, waits, expired>>
    BY DEF IInv, OpInv, CanonicalizeReset, fsVars, regVars, hookVars, Sound, StageOf
  <1>2. /\ ino \in [Ops -> Inodes \cup {NoInode}]
        /\ pc \in [Ops -> OpPoints]
        /\ dir \in Inodes \cup {NoInode}
    BY DEF IInv, TypeOK
  <1>3. (dir # NoInode /\ pc' = [pc EXCEPT ![h] = "lockReset"]) \/ pc' = [pc EXCEPT ![h] = "finish"]
    BY DEF CanonicalizeReset, Goto
  <1>4. TypeOK'
    <2>1. ino' \in [Ops -> Inodes \cup {NoInode}]
      BY <1>1, <1>2, <1>3
    <2>2. pc' \in [Ops -> OpPoints]
      BY <1>1, <1>2, <1>3 DEF OpPoints
    <2> QED BY <1>1, <2>1, <2>2 DEF IInv, TypeOK
  <1>5. Aside(h) /\ HooksAside(h)
    BY <1>1, <1>2, <1>3 DEF Aside, HooksAside
  <1>6. PathKept(h) /\ QuarantineKept(h)
    BY <1>1, <1>2, <1>3 DEF PathKept, QuarantineKept
  <1>7. Sound(h)'
    <2>1. StageOf(h)' /\ LockOf(h)'
      BY <1>1, <1>2, <1>3, RegistryAssumption DEF Sound, StageOf, LockOf
    <2>2. PathOf(h)'
      BY <1>1, <1>2, <1>3 DEF Sound, StageOf, PathOf, Reserved, LockOf
    <2>3. BookOf(h)'
      BY <1>1, <1>2, <1>3 DEF Sound, StageOf, BookOf
    <2>4. HookOf(h)'
      BY <1>1, <1>2, <1>3 DEF Sound, StageOf, HookOf, Busy
    <2>5. QuarantineOf(h)'
      BY <1>1, <1>2, <1>3 DEF Sound, StageOf, QuarantineOf, Live
    <2> QED BY <2>1, <2>2, <2>3, <2>4, <2>5 DEF Sound
  <1>8. ForeignInv'
    BY <1>1 DEF IInv, ForeignInv
  <1> QED BY <1>1, <1>4, <1>5, <1>6, <1>7, <1>8, StepKept

\* A reset takes the lifecycle lock when nobody has it.
LEMMA LockResetInv ==
    ASSUME IInv, NEW h \in Ops, LockReset(h)
    PROVE  IInv'
  <1> USE DEF Locked, OpenPoints, Reserving, ResetPoints, InUse, Kept, AtDir
  <1>1. /\ pc[h] = "lockReset" /\ kind[h] = "reset" /\ Sound(h)
        /\ UNCHANGED <<dir, retired, wlock, paths, readers, unproven, handles, opening,
                       cancelled, tracked, kind, env, ino, rt, hook, todo, waits, expired>>
    BY DEF IInv, OpInv, LockReset, fsVars, regVars, hookVars, Sound, StageOf
  <1>2. /\ lifecycle \in Ops \cup {NoOp}
        /\ pc \in [Ops -> OpPoints]
    BY DEF IInv, TypeOK
  <1>3. \/ lifecycle = NoOp /\ lifecycle' = h /\ pc' = [pc EXCEPT ![h] = "recheck"]
        \/ lifecycle' = lifecycle /\ pc' = [pc EXCEPT ![h] = "finish"]
    BY DEF LockReset, Goto
  <1>4. NoOp \notin Ops
    BY RegistryAssumption
  <1>5. TypeOK'
    <2>1. lifecycle' \in Ops \cup {NoOp}
      BY <1>1, <1>2, <1>3, <1>4
    <2>2. pc' \in [Ops -> OpPoints]
      BY <1>1, <1>2, <1>3, <1>4 DEF OpPoints
    <2> QED BY <1>1, <2>1, <2>2 DEF IInv, TypeOK
  <1>6. Aside(h) /\ HooksAside(h)
    BY <1>1, <1>2, <1>3, <1>4 DEF Aside, HooksAside
  <1>7. PathKept(h) /\ QuarantineKept(h)
    BY <1>1, <1>2, <1>3, <1>4 DEF PathKept, QuarantineKept
  <1>8. Sound(h)'
    <2>1. StageOf(h)' /\ LockOf(h)'
      BY <1>1, <1>2, <1>3, <1>4, RegistryAssumption DEF Sound, StageOf, LockOf
    <2>2. PathOf(h)'
      BY <1>1, <1>2, <1>3, <1>4 DEF Sound, StageOf, PathOf, Reserved, LockOf
    <2>3. BookOf(h)'
      BY <1>1, <1>2, <1>3, <1>4 DEF Sound, StageOf, BookOf
    <2>4. HookOf(h)'
      BY <1>1, <1>2, <1>3, <1>4 DEF Sound, StageOf, HookOf, Busy
    <2>5. QuarantineOf(h)'
      BY <1>1, <1>2, <1>3, <1>4 DEF Sound, StageOf, QuarantineOf, Live
    <2> QED BY <2>1, <2>2, <2>3, <2>4, <2>5 DEF Sound
  <1>9. ForeignInv'
    BY <1>1 DEF IInv, ForeignInv
  <1> QED BY <1>1, <1>5, <1>6, <1>7, <1>8, <1>9, StepKept

\* Under the lock, the directory is the one the reset first saw.
LEMMA RecheckInv ==
    ASSUME IInv, NEW h \in Ops, Recheck(h)
    PROVE  IInv'
  <1> USE DEF Locked, OpenPoints, Reserving, ResetPoints, InUse, Kept, AtDir
  <1>1. /\ pc[h] = "recheck" /\ kind[h] = "reset" /\ Sound(h)
        /\ UNCHANGED <<dir, retired, lifecycle, wlock, paths, readers, unproven, handles,
                       opening, cancelled, tracked, kind, env, ino, rt, hook, todo, waits,
                       expired>>
    BY DEF IInv, OpInv, Recheck, fsVars, regVars, hookVars, Sound, StageOf
  <1>2. /\ pc \in [Ops -> OpPoints]
    BY DEF IInv, TypeOK
  <1>3. (dir = ino[h] /\ pc' = [pc EXCEPT ![h] = "reserve"]) \/ pc' = [pc EXCEPT ![h] = "unlock"]
    BY DEF Recheck, Goto
  <1>4. TypeOK'
    <2>1. pc' \in [Ops -> OpPoints]
      BY <1>1, <1>2, <1>3 DEF OpPoints
    <2> QED BY <1>1, <2>1 DEF IInv, TypeOK
  <1>5. Aside(h) /\ HooksAside(h)
    BY <1>1, <1>2, <1>3 DEF Aside, HooksAside
  <1>6. PathKept(h) /\ QuarantineKept(h)
    BY <1>1, <1>2, <1>3 DEF PathKept, QuarantineKept
  <1>7. Sound(h)'
    <2>1. StageOf(h)' /\ LockOf(h)'
      BY <1>1, <1>2, <1>3, RegistryAssumption DEF Sound, StageOf, LockOf
    <2>2. PathOf(h)'
      BY <1>1, <1>2, <1>3 DEF Sound, StageOf, PathOf, Reserved, LockOf
    <2>3. BookOf(h)'
      BY <1>1, <1>2, <1>3 DEF Sound, StageOf, BookOf
    <2>4. HookOf(h)'
      BY <1>1, <1>2, <1>3 DEF Sound, StageOf, HookOf, Busy
    <2>5. QuarantineOf(h)'
      BY <1>1, <1>2, <1>3 DEF Sound, StageOf, QuarantineOf, Live
    <2> QED BY <2>1, <2>2, <2>3, <2>4, <2>5 DEF Sound
  <1>8. ForeignInv'
    BY <1>1 DEF IInv, ForeignInv
  <1> QED BY <1>1, <1>4, <1>5, <1>6, <1>7, <1>8, StepKept

\* A reset reserves a path nobody has.
LEMMA ReserveInv ==
    ASSUME IInv, NEW h \in Ops, Reserve(h)
    PROVE  IInv'
  <1> USE DEF Locked, OpenPoints, Reserving, ResetPoints, InUse, Kept, AtDir
  <1>1. /\ pc[h] = "reserve" /\ kind[h] = "reset" /\ ino[h] = dir /\ dir \in Inodes /\ rt[h] = "none" /\ Sound(h)
        /\ UNCHANGED <<dir, retired, lifecycle, wlock, readers, unproven, handles, opening,
                       cancelled, tracked, kind, env, ino, rt, hook, todo, waits, expired>>
    BY DEF IInv, OpInv, Reserve, fsVars, regVars, hookVars, Sound, StageOf, PathOf
  <1>2. /\ paths \in [Inodes -> Ops \cup {NoOp}]
        /\ pc \in [Ops -> OpPoints]
    BY DEF IInv, TypeOK
  <1>3. \/ /\ unproven = {} /\ paths[dir] = NoOp /\ readers[dir] = {}
           /\ paths' = [paths EXCEPT ![dir] = h] /\ pc' = [pc EXCEPT ![h] = "probeWriter"]
        \/ paths' = paths /\ pc' = [pc EXCEPT ![h] = "unlock"]
    BY <1>1 DEF Reserve, Resettable, Goto
  <1>4. NoOp \notin Ops
    BY RegistryAssumption
  <1>5. TypeOK'
    <2>1. paths' \in [Inodes -> Ops \cup {NoOp}]
      BY <1>1, <1>2, <1>3, <1>4
    <2>2. pc' \in [Ops -> OpPoints]
      BY <1>1, <1>2, <1>3, <1>4 DEF OpPoints
    <2> QED BY <1>1, <2>1, <2>2 DEF IInv, TypeOK
  <1>6. Aside(h) /\ HooksAside(h)
    BY <1>1, <1>2, <1>3, <1>4 DEF Aside, HooksAside
  <1>7. PathKept(h) /\ QuarantineKept(h)
    BY <1>1, <1>2, <1>3, <1>4 DEF PathKept, QuarantineKept
  <1>8. Sound(h)'
    <2>1. StageOf(h)' /\ LockOf(h)'
      BY <1>1, <1>2, <1>3, <1>4, RegistryAssumption DEF Sound, StageOf, LockOf
    <2>2. PathOf(h)'
      BY <1>1, <1>2, <1>3, <1>4 DEF Sound, StageOf, PathOf, Reserved, LockOf
    <2>3. BookOf(h)'
      BY <1>1, <1>2, <1>3, <1>4 DEF Sound, StageOf, BookOf
    <2>4. HookOf(h)'
      BY <1>1, <1>2, <1>3, <1>4 DEF Sound, StageOf, HookOf, Busy
    <2>5. QuarantineOf(h)'
      BY <1>1, <1>2, <1>3, <1>4 DEF Sound, StageOf, QuarantineOf, Live
    <2> QED BY <2>1, <2>2, <2>3, <2>4, <2>5 DEF Sound
  <1>9. ForeignInv'
    BY <1>1 DEF IInv, ForeignInv
  <1> QED BY <1>1, <1>5, <1>6, <1>7, <1>8, <1>9, StepKept

\* No process writes the directory when its writer lock can be taken.
LEMMA ProbeWriterInv ==
    ASSUME IInv, NEW h \in Ops, ProbeWriter(h)
    PROVE  IInv'
  <1> USE DEF Locked, OpenPoints, Reserving, ResetPoints, InUse, Kept, AtDir
  <1>1. /\ pc[h] = "probeWriter" /\ kind[h] = "reset" /\ ino[h] \in Inodes /\ Sound(h)
        /\ UNCHANGED <<dir, retired, lifecycle, wlock, paths, readers, unproven, handles,
                       opening, cancelled, tracked, kind, env, ino, rt, hook, todo, waits,
                       expired>>
    BY DEF IInv, OpInv, ProbeWriter, fsVars, regVars, hookVars, Sound, StageOf, PathOf
  <1>2. /\ pc \in [Ops -> OpPoints]
    BY DEF IInv, TypeOK
  <1>3. \/ wlock[ino[h]] = NoOp /\ pc' = [pc EXCEPT ![h] = "rename"]
        \/ pc' = [pc EXCEPT ![h] = "undoReset"]
    BY DEF ProbeWriter, NoWriter, Goto
  <1>4. NoOp # Foreign
    BY RegistryAssumption
  <1>5. TypeOK'
    <2>1. pc' \in [Ops -> OpPoints]
      BY <1>1, <1>2, <1>3, <1>4 DEF OpPoints
    <2> QED BY <1>1, <2>1 DEF IInv, TypeOK
  <1>6. Aside(h) /\ HooksAside(h)
    BY <1>1, <1>2, <1>3, <1>4 DEF Aside, HooksAside
  <1>7. PathKept(h) /\ QuarantineKept(h)
    BY <1>1, <1>2, <1>3, <1>4 DEF PathKept, QuarantineKept
  <1>8. Sound(h)'
    <2>1. StageOf(h)' /\ LockOf(h)'
      BY <1>1, <1>2, <1>3, <1>4, RegistryAssumption DEF Sound, StageOf, LockOf
    <2>2. PathOf(h)'
      BY <1>1, <1>2, <1>3, <1>4 DEF Sound, StageOf, PathOf, Reserved, LockOf
    <2>3. BookOf(h)'
      BY <1>1, <1>2, <1>3, <1>4 DEF Sound, StageOf, BookOf
    <2>4. HookOf(h)'
      BY <1>1, <1>2, <1>3, <1>4 DEF Sound, StageOf, HookOf, Busy
    <2>5. QuarantineOf(h)'
      BY <1>1, <1>2, <1>3, <1>4 DEF Sound, StageOf, QuarantineOf, Live
    <2> QED BY <2>1, <2>2, <2>3, <2>4, <2>5 DEF Sound
  <1>9. ForeignInv'
    BY <1>1 DEF IInv, ForeignInv
  <1> QED BY <1>1, <1>5, <1>6, <1>7, <1>8, <1>9, StepKept

\* The directory that is retired is nobody else's: the reservation and the empty
\* set of readers exclude every runtime the registry answers for.
LEMMA RenameInv ==
    ASSUME IInv, NEW h \in Ops, Rename(h)
    PROVE  IInv'
  <1> USE DEF Locked, OpenPoints, Reserving, ResetPoints, InUse, Kept, AtDir
  <1>1. /\ pc[h] = "rename" /\ kind[h] = "reset" /\ lifecycle = h /\ rt[h] = "none"
        /\ ino[h] = dir /\ dir \in Inodes /\ paths[dir] = h /\ readers[dir] = {} /\ wlock[dir] # Foreign /\ Sound(h)
        /\ UNCHANGED <<lifecycle, wlock, paths, readers, unproven, handles, opening, cancelled,
                       tracked, kind, env, ino, rt, hook, todo, waits, expired>>
    BY DEF IInv, OpInv, Rename, fsVars, regVars, hookVars, Sound, StageOf, PathOf, LockOf
  <1>2. /\ dir \in Inodes \cup {NoInode}
        /\ retired \subseteq Inodes
        /\ pc \in [Ops -> OpPoints]
    BY DEF IInv, TypeOK
  <1>3. \/ retired' = retired \cup {dir} /\ dir' = NoInode /\ pc' = [pc EXCEPT ![h] = "unlockReset"]
        \/ UNCHANGED <<dir, retired>> /\ pc' = [pc EXCEPT ![h] = "undoReset"]
    BY DEF Rename, PathAfterRename, Goto
  <1>4. NoInode \notin Inodes
    BY RegistryAssumption
  <1>5. \A o \in Ops \ {h} : ~AtDir(o)
    <2> SUFFICES ASSUME NEW o \in Ops \ {h}, AtDir(o)
                 PROVE  FALSE
      OBVIOUS
    <2>1. Sound(o)
      BY DEF IInv, OpInv
    <2>2. pc[o] \notin Locked
      BY <1>1, <2>1 DEF Sound, LockOf
    <2>3. Kept(o) /\ ino[o] = dir /\ Reserved(o)
      BY <2>1, <2>2 DEF Sound, PathOf
    <2> QED BY <1>1, <2>3 DEF Reserved
  <1>6. TypeOK'
    <2>1. dir' \in Inodes \cup {NoInode}
      BY <1>1, <1>2, <1>3, <1>4, <1>5
    <2>2. retired' \subseteq Inodes
      BY <1>1, <1>2, <1>3, <1>4, <1>5
    <2>3. pc' \in [Ops -> OpPoints]
      BY <1>1, <1>2, <1>3, <1>4, <1>5 DEF OpPoints
    <2>4. dir' \notin retired'
      BY <1>1, <1>2, <1>3, <1>4, <1>5 DEF IInv, TypeOK
    <2> QED BY <1>1, <2>1, <2>2, <2>3, <2>4 DEF IInv, TypeOK
  <1>7. Aside(h) /\ HooksAside(h)
    BY <1>1, <1>2, <1>3, <1>4, <1>5 DEF Aside, HooksAside
  <1>8. PathKept(h) /\ QuarantineKept(h)
    BY <1>1, <1>2, <1>3, <1>4, <1>5 DEF PathKept, QuarantineKept
  <1>9. Sound(h)'
    <2>1. StageOf(h)' /\ LockOf(h)'
      BY <1>1, <1>2, <1>3, <1>4, <1>5, RegistryAssumption DEF Sound, StageOf, LockOf
    <2>2. PathOf(h)'
      BY <1>1, <1>2, <1>3, <1>4, <1>5 DEF Sound, StageOf, PathOf, Reserved, LockOf
    <2>3. BookOf(h)'
      BY <1>1, <1>2, <1>3, <1>4, <1>5 DEF Sound, StageOf, BookOf
    <2>4. HookOf(h)'
      BY <1>1, <1>2, <1>3, <1>4, <1>5 DEF Sound, StageOf, HookOf, Busy
    <2>5. QuarantineOf(h)'
      BY <1>1, <1>2, <1>3, <1>4, <1>5 DEF Sound, StageOf, QuarantineOf, Live
    <2> QED BY <2>1, <2>2, <2>3, <2>4, <2>5 DEF Sound
  <1>10. ForeignInv'
    BY <1>1, <1>3 DEF IInv, ForeignInv
  <1> QED BY <1>1, <1>6, <1>7, <1>8, <1>9, <1>10, StepKept

\* After the rename the lock is given back first.
LEMMA UnlockResetInv ==
    ASSUME IInv, NEW h \in Ops, UnlockReset(h)
    PROVE  IInv'
  <1> USE DEF Locked, OpenPoints, Reserving, ResetPoints, InUse, Kept, AtDir
  <1>1. /\ pc[h] = "unlockReset" /\ kind[h] = "reset" /\ lifecycle = h /\ lifecycle' = NoOp
        /\ pc' = [pc EXCEPT ![h] = "unreserve"] /\ Sound(h)
        /\ UNCHANGED <<dir, retired, wlock, paths, readers, unproven, handles, opening,
                       cancelled, tracked, kind, env, ino, rt, hook, todo, waits, expired>>
    BY DEF IInv, OpInv, UnlockReset, fsVars, regVars, hookVars, Sound, StageOf, LockOf, Goto
  <1>2. /\ lifecycle \in Ops \cup {NoOp}
        /\ pc \in [Ops -> OpPoints]
    BY DEF IInv, TypeOK
  <1>3. NoOp \notin Ops
    BY RegistryAssumption
  <1>4. TypeOK'
    <2>1. lifecycle' \in Ops \cup {NoOp}
      BY <1>1, <1>2, <1>3
    <2>2. pc' \in [Ops -> OpPoints]
      BY <1>1, <1>2, <1>3 DEF OpPoints
    <2> QED BY <1>1, <2>1, <2>2 DEF IInv, TypeOK
  <1>5. Aside(h) /\ HooksAside(h)
    BY <1>1, <1>2, <1>3 DEF Aside, HooksAside
  <1>6. PathKept(h) /\ QuarantineKept(h)
    BY <1>1, <1>2, <1>3 DEF PathKept, QuarantineKept
  <1>7. Sound(h)'
    <2>1. StageOf(h)' /\ LockOf(h)'
      BY <1>1, <1>2, <1>3, RegistryAssumption DEF Sound, StageOf, LockOf
    <2>2. PathOf(h)'
      BY <1>1, <1>2, <1>3 DEF Sound, StageOf, PathOf, Reserved, LockOf
    <2>3. BookOf(h)'
      BY <1>1, <1>2, <1>3 DEF Sound, StageOf, BookOf
    <2>4. HookOf(h)'
      BY <1>1, <1>2, <1>3 DEF Sound, StageOf, HookOf, Busy
    <2>5. QuarantineOf(h)'
      BY <1>1, <1>2, <1>3 DEF Sound, StageOf, QuarantineOf, Live
    <2> QED BY <2>1, <2>2, <2>3, <2>4, <2>5 DEF Sound
  <1>8. ForeignInv'
    BY <1>1 DEF IInv, ForeignInv
  <1> QED BY <1>1, <1>4, <1>5, <1>6, <1>7, <1>8, StepKept

\* The reservation is given back with the reset.
LEMMA UnreserveInv ==
    ASSUME IInv, NEW h \in Ops, Unreserve(h)
    PROVE  IInv'
  <1> USE DEF Locked, OpenPoints, Reserving, ResetPoints, InUse, Kept, AtDir
  <1>1. /\ pc[h] \in {"unreserve", "undoReset"} /\ kind[h] = "reset" /\ Sound(h)
        /\ UNCHANGED <<dir, retired, lifecycle, wlock, readers, unproven, handles, opening,
                       cancelled, tracked, kind, env, ino, rt, hook, todo, waits, expired>>
    BY DEF IInv, OpInv, Unreserve, fsVars, regVars, hookVars, Sound, StageOf
  <1>2. /\ paths \in [Inodes -> Ops \cup {NoOp}]
        /\ pc \in [Ops -> OpPoints]
    BY DEF IInv, TypeOK
  <1>3. /\ \A i \in Inodes : paths'[i] = IF paths[i] = h THEN NoOp ELSE paths[i]
        /\ paths' \in [Inodes -> Ops \cup {NoOp}]
    BY <1>2 DEF Unreserve, Without
  <1>4. \/ pc[h] = "unreserve" /\ pc' = [pc EXCEPT ![h] = "finish"]
        \/ pc[h] = "undoReset" /\ pc' = [pc EXCEPT ![h] = "unlock"]
    BY <1>1 DEF Unreserve, Goto
  <1>5. NoOp \notin Ops
    BY RegistryAssumption
  <1>6. TypeOK'
    <2>1. paths' \in [Inodes -> Ops \cup {NoOp}]
      BY <1>3
    <2>2. pc' \in [Ops -> OpPoints]
      BY <1>1, <1>2, <1>3, <1>4, <1>5 DEF OpPoints
    <2> QED BY <1>1, <2>1, <2>2 DEF IInv, TypeOK
  <1>7. Aside(h) /\ HooksAside(h)
    BY <1>1, <1>2, <1>3, <1>4, <1>5 DEF Aside, HooksAside
  <1>8. PathKept(h) /\ QuarantineKept(h)
    BY <1>1, <1>2, <1>3, <1>4, <1>5 DEF PathKept, QuarantineKept
  <1>9. Sound(h)'
    <2>1. StageOf(h)' /\ LockOf(h)'
      BY <1>1, <1>2, <1>3, <1>4, <1>5, RegistryAssumption DEF Sound, StageOf, LockOf
    <2>2. PathOf(h)'
      BY <1>1, <1>2, <1>3, <1>4, <1>5 DEF Sound, StageOf, PathOf, Reserved, LockOf
    <2>3. BookOf(h)'
      BY <1>1, <1>2, <1>3, <1>4, <1>5 DEF Sound, StageOf, BookOf
    <2>4. HookOf(h)'
      BY <1>1, <1>2, <1>3, <1>4, <1>5 DEF Sound, StageOf, HookOf, Busy
    <2>5. QuarantineOf(h)'
      BY <1>1, <1>2, <1>3, <1>4, <1>5 DEF Sound, StageOf, QuarantineOf, Live
    <2> QED BY <2>1, <2>2, <2>3, <2>4, <2>5 DEF Sound
  <1>10. ForeignInv'
    BY <1>1 DEF IInv, ForeignInv
  <1> QED BY <1>1, <1>6, <1>7, <1>8, <1>9, <1>10, StepKept

-----------------------------------------------------------------------------
(* The steps of a runtime, seen from the registry.                         *)

\* A published runtime begins to close.
LEMMA RuntimeCloseInv ==
    ASSUME IInv, NEW h \in Ops, RuntimeClose(h)
    PROVE  IInv'
  <1> USE DEF Locked, OpenPoints, Reserving, ResetPoints, InUse, Kept, AtDir
  <1>1. /\ rt[h] = "running" /\ h \in handles /\ rt' = [rt EXCEPT ![h] = "closing"] /\ Sound(h)
        /\ UNCHANGED <<dir, retired, lifecycle, wlock, paths, readers, unproven, handles,
                       opening, cancelled, tracked, kind, env, ino, pc, hook, todo, waits,
                       expired>>
    BY DEF IInv, OpInv, RuntimeClose, fsVars, regVars, hookVars
  <1>2. /\ rt \in [Ops -> RuntimePhases]
    BY DEF IInv, TypeOK
  <1>3. TypeOK'
    <2>1. rt' \in [Ops -> RuntimePhases]
      BY <1>1, <1>2 DEF RuntimePhases
    <2> QED BY <1>1, <2>1 DEF IInv, TypeOK
  <1>4. Aside(h) /\ HooksAside(h)
    BY <1>1, <1>2 DEF Aside, HooksAside
  <1>5. PathKept(h) /\ QuarantineKept(h)
    BY <1>1, <1>2 DEF PathKept, QuarantineKept
  <1>6. Sound(h)'
    <2>1. StageOf(h)' /\ LockOf(h)'
      BY <1>1, <1>2, RegistryAssumption DEF Sound, StageOf, LockOf
    <2>2. PathOf(h)'
      BY <1>1, <1>2 DEF Sound, StageOf, PathOf, Reserved, LockOf
    <2>3. BookOf(h)'
      BY <1>1, <1>2 DEF Sound, StageOf, BookOf
    <2>4. HookOf(h)'
      BY <1>1, <1>2 DEF Sound, StageOf, HookOf, Busy
    <2>5. QuarantineOf(h)'
      BY <1>1, <1>2 DEF Sound, StageOf, QuarantineOf, Live
    <2> QED BY <2>1, <2>2, <2>3, <2>4, <2>5 DEF Sound
  <1>7. ForeignInv'
    BY <1>1 DEF IInv, ForeignInv
  <1> QED BY <1>1, <1>3, <1>4, <1>5, <1>6, <1>7, StepKept

\* Its threads are joined; Writer::close gave the writer lock back, or nobody knows.
LEMMA RuntimeStopInv ==
    ASSUME IInv, NEW h \in Ops, RuntimeStop(h)
    PROVE  IInv'
  <1> USE DEF Locked, OpenPoints, Reserving, ResetPoints, InUse, Kept, AtDir
  <1>1. /\ rt[h] = "closing" /\ Sound(h)
        /\ UNCHANGED <<dir, retired, lifecycle, paths, readers, unproven, handles, opening,
                       cancelled, tracked, kind, env, ino, pc, hook, todo, waits, expired>>
    BY DEF IInv, OpInv, RuntimeStop, fsVars, regVars, hookVars
  <1>2. /\ rt \in [Ops -> RuntimePhases]
        /\ wlock \in [Inodes -> Ops \cup {NoOp, Foreign}]
    BY DEF IInv, TypeOK
  <1>3. \/ rt' = [rt EXCEPT ![h] = "stopped"]
        \/ rt' = [rt EXCEPT ![h] = "unproven"]
    BY DEF RuntimeStop
  <1>4. /\ wlock' \in [Inodes -> Ops \cup {NoOp, Foreign}]
        /\ \A i \in Inodes : wlock'[i] = wlock[i] \/ (wlock[i] = h /\ wlock'[i] = NoOp)
    BY <1>2 DEF RuntimeStop
  <1>5. NoOp # Foreign
    BY RegistryAssumption
  <1>6. TypeOK'
    <2>1. rt' \in [Ops -> RuntimePhases]
      BY <1>2, <1>3 DEF RuntimePhases
    <2>2. wlock' \in [Inodes -> Ops \cup {NoOp, Foreign}]
      BY <1>4
    <2> QED BY <1>1, <2>1, <2>2 DEF IInv, TypeOK
  <1>7. Aside(h) /\ HooksAside(h)
    BY <1>1, <1>2, <1>3, <1>4, <1>5 DEF Aside, HooksAside
  <1>8. PathKept(h) /\ QuarantineKept(h)
    BY <1>1, <1>2, <1>3, <1>4, <1>5 DEF PathKept, QuarantineKept
  <1>9. Sound(h)'
    <2>1. StageOf(h)' /\ LockOf(h)'
      BY <1>1, <1>2, <1>3, <1>4, <1>5, RegistryAssumption DEF Sound, StageOf, LockOf
    <2>2. PathOf(h)'
      BY <1>1, <1>2, <1>3, <1>4, <1>5 DEF Sound, StageOf, PathOf, Reserved, LockOf
    <2>3. BookOf(h)'
      BY <1>1, <1>2, <1>3, <1>4, <1>5 DEF Sound, StageOf, BookOf
    <2>4. HookOf(h)'
      BY <1>1, <1>2, <1>3, <1>4, <1>5 DEF Sound, StageOf, HookOf, Busy
    <2>5. QuarantineOf(h)'
      BY <1>1, <1>2, <1>3, <1>4, <1>5 DEF Sound, StageOf, QuarantineOf, Live
    <2> QED BY <2>1, <2>2, <2>3, <2>4, <2>5 DEF Sound
  <1>10. ForeignInv'
    BY <1>1, <1>4, <1>5 DEF IInv, TypeOK, ForeignInv
  <1> QED BY <1>1, <1>6, <1>7, <1>8, <1>9, <1>10, StepKept

\* The registry forgets the runtime.  When it quarantines the path, the reservation
\* it still has shows that no reset has the directory, nor another writer if it is
\* a writer's.
LEMMA RuntimeReleaseInv ==
    ASSUME IInv, NEW h \in Ops, RuntimeRelease(h)
    PROVE  IInv'
  <1> USE DEF Locked, OpenPoints, Reserving, ResetPoints, InUse, Kept, AtDir
  <1>1. /\ rt[h] \in {"stopped", "unproven"} /\ rt' = [rt EXCEPT ![h] = "unregistered"]
        /\ unproven' = (IF rt[h] = "unproven" THEN unproven \cup {h} ELSE unproven) /\ Sound(h)
        /\ UNCHANGED <<dir, retired, lifecycle, wlock, opening, cancelled, tracked, kind, env,
                       ino, pc, hook, todo, waits, expired>>
    BY DEF IInv, OpInv, RuntimeRelease, fsVars, regVars, hookVars, Quarantines
  <1>2. /\ paths \in [Inodes -> Ops \cup {NoOp}]
        /\ readers \in [Inodes -> SUBSET Ops]
        /\ handles \subseteq Ops
        /\ unproven \subseteq Ops
        /\ rt \in [Ops -> RuntimePhases]
    BY DEF IInv, TypeOK
  <1>3. /\ handles' = handles \ {h}
        /\ \A i \in Inodes : /\ readers'[i] = readers[i] \ {h}
                             /\ paths'[i] = IF paths[i] = h THEN NoOp ELSE paths[i]
        /\ paths' \in [Inodes -> Ops \cup {NoOp}] /\ readers' \in [Inodes -> SUBSET Ops]
    BY <1>2 DEF RuntimeRelease, Forget, Without
  <1>4. NoOp \notin Ops
    BY RegistryAssumption
  <1>5. ASSUME expired = {}, rt[h] = "unproven", NEW o \in Ops \ {h}
        PROVE  /\ pc[o] \notin {"probeWriter", "rename"}
               /\ kind[h] = "writer" /\ kind[o] = "writer" => ~Live(o) /\ pc[o] \notin {"admit", "start"}
    <2>1. Sound(h) /\ Sound(o)
      BY DEF IInv, OpInv
    <2>2. ino[h] = dir /\ Reserved(h)
      BY <1>5, <2>1 DEF Sound, StageOf, PathOf
    <2>3. ASSUME kind[h] = "writer", kind[o] = "writer", Live(o) \/ pc[o] \in {"admit", "start"}
          PROVE  FALSE
      <3>1. ino[o] = dir /\ Reserved(o)
        BY <1>5, <2>1, <2>3 DEF Sound, PathOf, Live
      <3> QED BY <2>2, <2>3, <3>1 DEF Reserved
    <2>4. ASSUME pc[o] \in {"probeWriter", "rename"}
          PROVE  FALSE
      <3>1. ino[o] = dir /\ paths[dir] = o /\ readers[dir] = {}
        BY <2>1, <2>4 DEF Sound, PathOf
      <3> QED BY <2>2, <3>1 DEF Reserved
    <2> QED BY <2>3, <2>4
  <1>6. TypeOK'
    <2>1. paths' \in [Inodes -> Ops \cup {NoOp}]
      BY <1>3
    <2>2. readers' \in [Inodes -> SUBSET Ops]
      BY <1>3
    <2>3. handles' \subseteq Ops
      BY <1>1, <1>2, <1>3, <1>4, <1>5
    <2>4. unproven' \subseteq Ops
      BY <1>1, <1>2
    <2>5. rt' \in [Ops -> RuntimePhases]
      BY <1>1, <1>2 DEF RuntimePhases
    <2> QED BY <1>1, <2>1, <2>2, <2>3, <2>4, <2>5 DEF IInv, TypeOK
  <1>7. Aside(h) /\ HooksAside(h)
    BY <1>1, <1>2, <1>3, <1>4, <1>5 DEF Aside, HooksAside
  <1>8. PathKept(h) /\ QuarantineKept(h)
    <2>1. \A o \in Ops \ {h} : pc'[o] = pc[o] /\ rt'[o] = rt[o]
      BY <1>1, <1>2
    <2>2. PathKept(h)
      BY <1>1, <1>3 DEF PathKept
    <2>3. CASE rt[h] # "unproven"
      BY <1>1, <2>2, <2>3 DEF QuarantineKept
    <2>4. CASE rt[h] = "unproven"
      <3>1. ASSUME NEW o \in Ops \ {h}
            PROVE  QuarantineOf(o)'
        <4>1. QuarantineOf(o)
          BY DEF IInv, OpInv, Sound
        <4>2. unproven' = unproven \cup {h} /\ kind' = kind /\ expired' = expired
          BY <1>1, <2>4
        <4>3. expired = {} => pc'[o] \notin {"probeWriter", "rename"}
          BY <1>5, <2>1, <2>4
        <4>4. ASSUME expired = {}, NEW w \in unproven', kind[w] = "writer", kind[o] = "writer"
              PROVE  rt[o] \notin {"running", "closing", "stopped"} /\ pc[o] \notin {"admit", "start"}
          BY <1>5, <2>4, <4>1, <4>2, <4>4 DEF QuarantineOf, Live
        <4> QED BY <2>1, <4>2, <4>3, <4>4 DEF QuarantineOf, Live
      <3> QED BY <1>1, <2>2, <3>1 DEF QuarantineKept
    <2> QED BY <2>3, <2>4
  <1>9. Sound(h)'
    <2>1. StageOf(h)' /\ LockOf(h)'
      BY <1>1, <1>2, <1>3, <1>4, <1>5, RegistryAssumption DEF Sound, StageOf, LockOf
    <2>2. PathOf(h)'
      BY <1>1, <1>2, <1>3, <1>4, <1>5 DEF Sound, StageOf, PathOf, Reserved, LockOf
    <2>3. BookOf(h)'
      <3>1. rt'[h] = "unregistered" /\ pc' = pc /\ kind' = kind /\ rt[h] # "none" /\ kind[h] # "reset"
        BY <1>1, <1>2 DEF Sound, StageOf
      <3>2. \A i \in Inodes : paths'[i] # h /\ h \notin readers'[i]
        BY <1>3, <1>4
      <3> QED BY <1>1, <3>1, <3>2 DEF Sound, BookOf
    <2>4. HookOf(h)'
      BY <1>1, <1>2, <1>3, <1>4, <1>5 DEF Sound, StageOf, HookOf, Busy
    <2>5. QuarantineOf(h)'
      BY <1>1, <1>2, <1>3, <1>4, <1>5 DEF Sound, StageOf, QuarantineOf, Live
    <2> QED BY <2>1, <2>2, <2>3, <2>4, <2>5 DEF Sound
  <1>10. ForeignInv'
    BY <1>1 DEF IInv, ForeignInv
  <1> QED BY <1>1, <1>6, <1>7, <1>8, <1>9, <1>10, StepKept

\* Its environment forgets the runtime before closed is signalled.
LEMMA RuntimeUntrackInv ==
    ASSUME IInv, NEW h \in Ops, RuntimeUntrack(h)
    PROVE  IInv'
  <1> USE DEF Locked, OpenPoints, Reserving, ResetPoints, InUse, Kept, AtDir
  <1>1. /\ rt[h] = "unregistered" /\ rt' = [rt EXCEPT ![h] = "released"]
        /\ tracked' = tracked \ {h} /\ Sound(h)
        /\ UNCHANGED <<dir, retired, lifecycle, wlock, paths, readers, unproven, handles,
                       opening, cancelled, kind, env, ino, pc, hook, todo, waits, expired>>
    BY DEF IInv, OpInv, RuntimeUntrack, fsVars, regVars, hookVars
  <1>2. /\ tracked \subseteq Ops
        /\ rt \in [Ops -> RuntimePhases]
    BY DEF IInv, TypeOK
  <1>3. TypeOK'
    <2>1. tracked' \subseteq Ops
      BY <1>1, <1>2
    <2>2. rt' \in [Ops -> RuntimePhases]
      BY <1>1, <1>2 DEF RuntimePhases
    <2> QED BY <1>1, <2>1, <2>2 DEF IInv, TypeOK
  <1>4. Aside(h) /\ HooksAside(h)
    BY <1>1, <1>2 DEF Aside, HooksAside
  <1>5. PathKept(h) /\ QuarantineKept(h)
    BY <1>1, <1>2 DEF PathKept, QuarantineKept
  <1>6. Sound(h)'
    <2>1. StageOf(h)' /\ LockOf(h)'
      BY <1>1, <1>2, RegistryAssumption DEF Sound, StageOf, LockOf
    <2>2. PathOf(h)'
      BY <1>1, <1>2 DEF Sound, StageOf, PathOf, Reserved, LockOf
    <2>3. BookOf(h)'
      BY <1>1, <1>2 DEF Sound, StageOf, BookOf
    <2>4. HookOf(h)'
      BY <1>1, <1>2 DEF Sound, StageOf, HookOf, Busy
    <2>5. QuarantineOf(h)'
      BY <1>1, <1>2 DEF Sound, StageOf, QuarantineOf, Live
    <2> QED BY <2>1, <2>2, <2>3, <2>4, <2>5 DEF Sound
  <1>7. ForeignInv'
    BY <1>1 DEF IInv, ForeignInv
  <1> QED BY <1>1, <1>3, <1>4, <1>5, <1>6, <1>7, StepKept

-----------------------------------------------------------------------------
(* The cleanup hook of an environment, and other processes.                *)

\* An operation whose own state is as before is sound when what the hooks know of
\* it is.
LEMMA HookKept ==
    ASSUME IInv, TypeOK', NEW o \in Ops, HookOf(o)', o \in tracked' => o \in tracked,
           UNCHANGED <<dir, retired, lifecycle, wlock, paths, readers, unproven, handles, opening,
                       cancelled, kind, env, ino, pc, rt, expired>>
    PROVE  Sound(o)'
  <1>1. Sound(o)
    BY DEF IInv, OpInv
  <1>2. StageOf(o)' /\ LockOf(o)' /\ BookOf(o)'
    BY <1>1 DEF Sound, StageOf, LockOf, BookOf, InUse, Kept
  <1>3. PathOf(o)' /\ QuarantineOf(o)'
    BY <1>1 DEF Sound, PathOf, Reserved, AtDir, Kept, InUse, QuarantineOf, Live
  <1> QED BY <1>2, <1>3 DEF Sound

\* The environment's callbacks are closed before its handles are taken.
LEMMA DetachInv ==
    ASSUME IInv, NEW e \in Envs, Detach(e)
    PROVE  IInv'
  <1>1. /\ hook[e] = "live" /\ hook' = [hook EXCEPT ![e] = "detached"]
        /\ UNCHANGED <<dir, retired, lifecycle, wlock, paths, readers, unproven, handles, opening,
                       cancelled, tracked, kind, env, ino, pc, rt, todo, waits, expired>>
    BY DEF Detach, fsVars, regVars
  <1>2. hook \in [Envs -> {"live", "detached", "sweep", "finished", "timedOut"}] /\ env \in [Ops -> Envs]
    BY DEF IInv, TypeOK
  <1>3. TypeOK'
    <2>1. hook' \in [Envs -> {"live", "detached", "sweep", "finished", "timedOut"}]
      BY <1>1, <1>2
    <2> QED BY <1>1, <2>1 DEF IInv, TypeOK
  <1>4. ASSUME NEW o \in Ops
        PROVE  HookOf(o)'
    <2>1. Sound(o)
      BY DEF IInv, OpInv
    <2> QED BY <1>1, <1>2, <2>1 DEF Sound, HookOf, Busy, InUse
  <1>5. ASSUME NEW o \in Ops
        PROVE  Sound(o)'
    BY <1>1, <1>3, <1>4, HookKept
  <1> QED BY <1>1, <1>3, <1>5 DEF IInv, OpInv, ForeignInv

\* The hook takes over every handle its environment tracks.
LEMMA TakeHandlesInv ==
    ASSUME IInv, NEW e \in Envs, TakeHandles(e)
    PROVE  IInv'
  <1>1. /\ hook[e] = "detached" /\ hook' = [hook EXCEPT ![e] = "sweep"]
        /\ todo' = [todo EXCEPT ![e] = {h \in tracked : env[h] = e}]
        /\ tracked' = {h \in tracked : env[h] # e}
        /\ UNCHANGED <<dir, retired, lifecycle, wlock, paths, readers, unproven, handles, opening,
                       cancelled, kind, env, ino, pc, rt, waits, expired>>
    BY DEF TakeHandles, fsVars, regVars
  <1>2. /\ hook \in [Envs -> {"live", "detached", "sweep", "finished", "timedOut"}]
        /\ todo \in [Envs -> SUBSET Ops] /\ tracked \subseteq Ops /\ env \in [Ops -> Envs]
    BY DEF IInv, TypeOK
  <1>3. TypeOK'
    <2>1. hook' \in [Envs -> {"live", "detached", "sweep", "finished", "timedOut"}]
      BY <1>1, <1>2
    <2>2. todo' \in [Envs -> SUBSET Ops] /\ tracked' \subseteq Ops
      BY <1>1, <1>2
    <2> QED BY <1>1, <2>1, <2>2 DEF IInv, TypeOK
  <1>4. ASSUME NEW o \in Ops
        PROVE  HookOf(o)'
    <2>1. Sound(o)
      BY DEF IInv, OpInv
    <2> QED BY <1>1, <1>2, <2>1 DEF Sound, HookOf, Busy, InUse
  <1>5. ASSUME NEW o \in Ops
        PROVE  Sound(o)'
    BY <1>1, <1>3, <1>4, HookKept
  <1> QED BY <1>1, <1>3, <1>5 DEF IInv, OpInv, ForeignInv

\* The hook returns in time only when every operation it waits for is over.
LEMMA CleanupWaitInv ==
    ASSUME IInv, NEW e \in Envs, CleanupWait(e)
    PROVE  IInv'
  <1>1. /\ hook[e] = "sweep" /\ todo[e] = {} /\ waits' = [waits EXCEPT ![e] = {}]
        /\ UNCHANGED <<dir, retired, lifecycle, wlock, paths, readers, unproven, handles, opening,
                       cancelled, tracked, kind, env, ino, pc, rt, todo, expired>>
    BY DEF CleanupWait, fsVars, regVars
  <1>2. /\ hook \in [Envs -> {"live", "detached", "sweep", "finished", "timedOut"}]
        /\ waits \in [Envs -> SUBSET (Ops \X {"runtime", "opening"})] /\ env \in [Ops -> Envs]
    BY DEF IInv, TypeOK
  <1>3. \/ /\ hook' = [hook EXCEPT ![e] = "finished"]
           /\ \A w \in waits[e] : IF w[2] = "runtime" THEN rt[w[1]] = "released" ELSE pc[w[1]] = "done"
        \/ hook' = [hook EXCEPT ![e] = "timedOut"]
    BY DEF CleanupWait, Closed
  <1>4. TypeOK'
    <2>1. hook' \in [Envs -> {"live", "detached", "sweep", "finished", "timedOut"}]
      BY <1>2, <1>3
    <2>2. waits' \in [Envs -> SUBSET (Ops \X {"runtime", "opening"})]
      BY <1>1, <1>2
    <2> QED BY <1>1, <2>1, <2>2 DEF IInv, TypeOK
  <1>5. ASSUME NEW o \in Ops
        PROVE  HookOf(o)'
    <2>1. StageOf(o) /\ HookOf(o)
      BY DEF IInv, OpInv, Sound
    <2>2. CASE env[o] # e
      <3>1. hook'[env[o]] = hook[env[o]] /\ \A d \in Envs : hook'[d] = "live" => hook[d] = "live"
        BY <1>2, <1>3, <2>2
      <3>2. waits'[env[o]] = waits[env[o]] /\ \A d \in Envs : waits'[d] \subseteq waits[d]
        BY <1>1, <1>2, <2>2
      <3> QED BY <1>1, <2>1, <3>1, <3>2 DEF HookOf, Busy, InUse
    <2>3. CASE env[o] = e
      <3>1. hook'[e] \in {"finished", "timedOut"} /\ waits'[e] = {}
            /\ \A d \in Envs : hook'[d] = "live" => hook[d] = "live"
        BY <1>1, <1>2, <1>3
      <3>2. \A d \in Envs : waits'[d] \subseteq waits[d]
        BY <1>1, <1>2
      <3>3. ASSUME hook'[e] = "finished", Busy(o), o \notin expired
            PROVE  FALSE
        <4>1. \A w \in waits[e] : IF w[2] = "runtime" THEN rt[w[1]] = "released" ELSE pc[w[1]] = "done"
          BY <1>2, <1>3, <3>3
        <4>2. <<o, "runtime">> \in waits[e] \/ <<o, "opening">> \in waits[e]
          BY <1>1, <2>1, <2>3, <3>3 DEF HookOf
        <4>3. <<o, "runtime">> \in waits[e] => rt[o] = "released"
          BY <4>1
        <4>4. <<o, "opening">> \in waits[e] => pc[o] = "done" /\ o \notin handles
          BY <2>1, <4>1 DEF HookOf
        <4> QED BY <2>1, <3>3, <4>2, <4>3, <4>4 DEF StageOf, Busy, InUse, Kept
      <3>4. Busy(o)' = Busy(o)
        BY <1>1 DEF Busy, InUse
      <3> QED BY <1>1, <2>1, <2>3, <3>1, <3>2, <3>3, <3>4 DEF HookOf
    <2> QED BY <2>2, <2>3
  <1>6. ASSUME NEW o \in Ops
        PROVE  Sound(o)'
    BY <1>1, <1>4, <1>5, HookKept
  <1> QED BY <1>1, <1>4, <1>6 DEF IInv, OpInv, ForeignInv

\* The hook force-closes a published runtime, or cancels an operation that can then
\* no longer publish one.
LEMMA CleanupHandleInv ==
    ASSUME IInv, NEW e \in Envs, NEW h \in Ops, CleanupHandle(e, h)
    PROVE  IInv'
  <1> USE DEF Locked, OpenPoints, Reserving, ResetPoints, InUse, Kept, AtDir
  <1>1. /\ hook[e] = "sweep" /\ h \in todo[e] /\ env[h] = e /\ Sound(h)
        /\ todo' = [todo EXCEPT ![e] = @ \ {h}]
        /\ UNCHANGED <<dir, retired, lifecycle, wlock, paths, readers, unproven, handles, tracked, kind,
                       env, ino, pc, hook, expired>>
    BY DEF IInv, OpInv, Sound, HookOf, CleanupHandle, fsVars
  <1>2. /\ todo \in [Envs -> SUBSET Ops] /\ waits \in [Envs -> SUBSET (Ops \X {"runtime", "opening"})]
        /\ rt \in [Ops -> RuntimePhases] /\ opening \subseteq Ops /\ cancelled \subseteq Ops
    BY DEF IInv, TypeOK
  <1>3. PICK x \in {"runtime", "opening"} :
            /\ waits' = [waits EXCEPT ![e] = @ \cup {<<h, x>>}]
            /\ x = "runtime" => h \in handles
            /\ x = "opening" => h \notin handles
    BY DEF CleanupHandle
  <1>4. /\ rt' = rt \/ (h \in handles /\ rt[h] = "running" /\ rt' = [rt EXCEPT ![h] = "closing"])
        /\ opening' \subseteq opening /\ cancelled' \subseteq Ops
    BY <1>2 DEF CleanupHandle
  <1>5. /\ todo' \in [Envs -> SUBSET Ops]
        /\ \A d \in Envs, o \in Ops : o \in todo'[d] <=> o \in todo[d] /\ ~(d = e /\ o = h)
    BY <1>1, <1>2
  <1>6. /\ waits' \in [Envs -> SUBSET (Ops \X {"runtime", "opening"})]
        /\ \A d \in Envs, o \in Ops, y \in {"runtime", "opening"} :
              <<o, y>> \in waits'[d] <=> <<o, y>> \in waits[d] \/ (d = e /\ o = h /\ y = x)
    BY <1>2, <1>3
  <1>7. /\ rt' \in [Ops -> RuntimePhases] /\ \A o \in Ops \ {h} : rt'[o] = rt[o]
        /\ rt'[h] = rt[h] \/ (h \in handles /\ rt[h] = "running" /\ rt'[h] = "closing")
    BY <1>2, <1>4 DEF RuntimePhases
  <1>8. TypeOK'
    <2>1. opening' \subseteq Ops
      BY <1>2, <1>4
    <2> QED BY <1>1, <1>4, <1>5, <1>6, <1>7, <2>1 DEF IInv, TypeOK
  <1>9. Aside(h) /\ HooksAside(h)
    BY <1>1, <1>4, <1>5, <1>6, <1>7 DEF Aside, HooksAside
  <1>10. PathKept(h) /\ QuarantineKept(h)
    BY <1>1 DEF PathKept, QuarantineKept
  <1>11. Sound(h)'
    <2>1. StageOf(h)' /\ LockOf(h)'
      BY <1>1, <1>7 DEF Sound, StageOf, LockOf
    <2>2. PathOf(h)'
      BY <1>1, <1>7 DEF Sound, StageOf, PathOf, Reserved
    <2>3. BookOf(h)'
      BY <1>1, <1>4, <1>7 DEF Sound, BookOf
    <2>4. HookOf(h)'
      BY <1>1, <1>3, <1>5, <1>6, <1>7 DEF Sound, HookOf, Busy
    <2>5. QuarantineOf(h)'
      BY <1>1, <1>7 DEF Sound, QuarantineOf, Live
    <2> QED BY <2>1, <2>2, <2>3, <2>4, <2>5 DEF Sound
  <1>12. ForeignInv'
    BY <1>1 DEF IInv, ForeignInv
  <1> QED BY <1>1, <1>8, <1>9, <1>10, <1>11, <1>12, StepKept

\* Another process opens the path only while nobody has the lifecycle lock, so it
\* appears in no directory a reset is about to rename.
LEMMA ForeignOpenInv ==
    ASSUME IInv, ForeignOpen
    PROVE  IInv'
  <1>1. UNCHANGED <<retired, lifecycle, paths, readers, unproven, handles, opening, cancelled, tracked,
                    kind, env, ino, pc, rt, hook, todo, waits, expired>>
    BY DEF ForeignOpen, regVars, hookVars
  <1>2. /\ lifecycle = NoOp /\ NoOp \notin Ops /\ NoInode \notin Inodes /\ dir' \in Inodes
        /\ dir' = dir \/ dir = NoInode
    BY RegistryAssumption DEF ForeignOpen
  <1>3. PICK i \in Inodes : dir' = i /\ i \notin retired /\ wlock' = [wlock EXCEPT ![i] = Foreign]
    BY DEF ForeignOpen, Fresh, IInv, TypeOK
  <1>4. TypeOK'
    <2>1. wlock' \in [Inodes -> Ops \cup {NoOp, Foreign}]
      BY <1>3 DEF IInv, TypeOK
    <2> QED BY <1>1, <1>2, <1>3, <2>1 DEF IInv, TypeOK
  <1>5. ForeignInv'
    BY <1>1, <1>3 DEF IInv, TypeOK, ForeignInv
  <1>6. ASSUME NEW o \in Ops
        PROVE  Sound(o)'
    <2>1. Sound(o) /\ pc[o] \notin Locked
      BY <1>2 DEF IInv, OpInv, Sound, LockOf
    <2>2. StageOf(o)' /\ LockOf(o)' /\ BookOf(o)' /\ QuarantineOf(o)'
      BY <1>1, <2>1 DEF Sound, StageOf, LockOf, BookOf, InUse, Kept, QuarantineOf, Live
    <2>3. PathOf(o)'
      BY <1>1, <1>2, <2>1 DEF Sound, PathOf, Reserved, AtDir, Kept, InUse, Locked
    <2>4. HookOf(o)'
      BY <1>1, <2>1 DEF Sound, HookOf, Busy, InUse
    <2> QED BY <2>2, <2>3, <2>4 DEF Sound
  <1> QED BY <1>4, <1>5, <1>6 DEF IInv, OpInv

\* Another process closes its writer.
LEMMA ForeignCloseInv ==
    ASSUME IInv, ForeignClose
    PROVE  IInv'
  <1>1. UNCHANGED <<dir, retired, lifecycle, paths, readers, unproven, handles, opening, cancelled,
                    tracked, kind, env, ino, pc, rt, hook, todo, waits, expired>>
    BY DEF ForeignClose, regVars, hookVars
  <1>2. /\ wlock' \in [Inodes -> Ops \cup {NoOp, Foreign}]
        /\ \A i \in Inodes : wlock'[i] = Foreign => wlock[i] = Foreign
    BY RegistryAssumption DEF ForeignClose, IInv, TypeOK
  <1>3. TypeOK'
    BY <1>1, <1>2 DEF IInv, TypeOK
  <1>4. ForeignInv'
    BY <1>1, <1>2 DEF IInv, TypeOK, ForeignInv
  <1>5. ASSUME NEW o \in Ops
        PROVE  Sound(o)'
    <2>1. Sound(o)
      BY DEF IInv, OpInv
    <2>2. StageOf(o)' /\ LockOf(o)' /\ BookOf(o)' /\ QuarantineOf(o)'
      BY <1>1, <2>1 DEF Sound, StageOf, LockOf, BookOf, InUse, Kept, QuarantineOf, Live
    <2>3. PathOf(o)'
      BY <1>1, <1>2, <2>1 DEF Sound, PathOf, Reserved, AtDir, Kept, InUse
    <2>4. HookOf(o)'
      BY <1>1, <2>1 DEF Sound, HookOf, Busy, InUse
    <2> QED BY <2>2, <2>3, <2>4 DEF Sound
  <1> QED BY <1>3, <1>4, <1>5 DEF IInv, OpInv

-----------------------------------------------------------------------------
(* The invariant and what follows from it.                                 *)

\* The registry starts empty.
LEMMA InitInv ==
    ASSUME Init
    PROVE  IInv
  <1> USE RegistryAssumption DEF Init
  <1>1. TypeOK
    <2>1. dir \in Inodes \cup {NoInode} /\ dir \notin retired
      OBVIOUS
    <2>2. pc \in [Ops -> OpPoints] /\ rt \in [Ops -> RuntimePhases]
      BY DEF OpPoints, RuntimePhases
    <2> QED BY <2>1, <2>2 DEF TypeOK
  <1>2. ASSUME NEW h \in Ops
        PROVE  Sound(h)
    <2>1. StageOf(h) /\ LockOf(h) /\ QuarantineOf(h)
      BY DEF StageOf, LockOf, QuarantineOf, Locked, OpenPoints, Reserving, ResetPoints, InUse, Kept
    <2>2. PathOf(h) /\ BookOf(h) /\ HookOf(h)
      BY DEF PathOf, BookOf, HookOf, AtDir, Kept, InUse, Busy
    <2> QED BY <2>1, <2>2 DEF Sound
  <1> QED BY <1>1, <1>2 DEF IInv, OpInv, ForeignInv

\* Every step preserves the invariant.
LEMMA StepInv ==
    ASSUME IInv, [Next]_vars
    PROVE  IInv'
  <1>1. CASE UNCHANGED vars
    <2> USE <1>1 DEF vars
    <2>1. TypeOK' /\ ForeignInv'
      BY DEF IInv, TypeOK, ForeignInv
    <2>2. ASSUME NEW o \in Ops
          PROVE  Sound(o)'
      <3>1. HookOf(o)'
        BY DEF IInv, OpInv, Sound, HookOf, Busy, InUse
      <3> QED BY <2>1, <3>1, HookKept
    <2> QED BY <2>1, <2>2 DEF IInv, OpInv
  <1>2. ASSUME NEW h \in Ops, Begin(h) \/ OpStep(h)
        PROVE  IInv'
    BY <1>2, BeginInv, CanonicalizeInv, LockInv, IdentifyInv, RegisterInv, AdmitInv, StartInv, ConfirmInv,
       AbortInv, AbortWaitInv, UnregisterInv, UntrackInv, UnlockInv, FinishInv, CheckResetInv,
       CanonicalizeResetInv, LockResetInv, RecheckInv, ReserveInv, ProbeWriterInv, RenameInv,
       UnlockResetInv, UnreserveInv DEF OpStep, OpenStep, ResetStep
  <1>3. ASSUME NEW h \in Ops, RuntimeClose(h) \/ RuntimeStep(h)
        PROVE  IInv'
    BY <1>3, RuntimeCloseInv, RuntimeStopInv, RuntimeReleaseInv, RuntimeUntrackInv DEF RuntimeStep
  <1>4. ASSUME NEW e \in Envs, Detach(e) \/ HookStep(e)
        PROVE  IInv'
    BY <1>4, DetachInv, TakeHandlesInv, CleanupHandleInv, CleanupWaitInv DEF HookStep
  <1> QED BY <1>1, <1>2, <1>3, <1>4, ForeignOpenInv, ForeignCloseInv DEF Next

\* The invariant holds throughout.
LEMMA Invariance == Spec => []IInv
  <1>1. Init => IInv
    BY InitInv
  <1>2. IInv /\ [Next]_vars => IInv'
    BY StepInv
  <1> QED BY <1>1, <1>2, PTL DEF Spec

\* The registry and the threads' state are well formed, and the directory at the
\* path is never one that was retired.
THEOREM RegistryTyped == Spec => []TypeOK
  <1>1. IInv => TypeOK
    BY DEF IInv
  <1> QED BY <1>1, Invariance, PTL

\* A reset never renames a directory that a runtime of this process or a writer of
\* another process is using, however the threads of opens, closes and resets
\* interleave.
THEOREM ResetAlwaysSparesLive == Spec => []ResetSparesLive
  <1>1. ASSUME IInv
        PROVE  ResetSparesLive
    <2>1. ASSUME NEW h \in Ops \ expired, Live(h)
          PROVE  ino[h] \notin retired
      <3>1. ino[h] = dir
        BY <1>1, <2>1 DEF IInv, OpInv, Sound, PathOf, AtDir, Kept, InUse, Live
      <3> QED BY <1>1, <3>1 DEF IInv, TypeOK
    <2> QED BY <1>1, <2>1 DEF IInv, ForeignInv, ResetSparesLive
  <1>2. IInv => ResetSparesLive
    BY <1>1
  <1> QED BY <1>2, Invariance, PTL

\* A path that release_runtime_handle quarantined has no reset past its reservation,
\* nor a live writer if a writer left it unproven, and gets none.
THEOREM QuarantineAlwaysHolds == Spec => []QuarantineHolds
  <1>1. IInv => QuarantineHolds
    BY DEF IInv, OpInv, Sound, QuarantineOf, QuarantineHolds
  <1> QED BY <1>1, Invariance, PTL

\* When finish_environment_cleanup returns in time, no runtime of its environment is
\* live and none can still start.
THEOREM HookAlwaysMeansStopped == Spec => []HookMeansStopped
  <1>1. ASSUME IInv, NEW e \in Envs, hook[e] = "finished", NEW h \in Ops \ expired, env[h] = e
        PROVE  ~Live(h) /\ h \notin handles /\ pc[h] \notin {"start", "confirm", "abort"}
    <2>1. StageOf(h) /\ HookOf(h)
      BY <1>1 DEF IInv, OpInv, Sound
    <2>2. ~Busy(h)
      BY <1>1, <2>1 DEF HookOf
    <2> QED BY <2>1, <2>2 DEF StageOf, Busy, InUse, Live
  <1>2. IInv => HookMeansStopped
    BY <1>1 DEF HookMeansStopped
  <1> QED BY <1>2, Invariance, PTL

\* What an operation reserved is given back once it is over and no runtime of it is
\* left, whether it was refused, failed at any step, was cancelled or was closed: the
\* handle, the opening entry, the tracking, the path and the lifecycle lock.
THEOREM NothingStaysReserved == Spec => []NothingLeftReserved
  <1>1. ASSUME IInv, NEW h \in Ops, pc[h] = "done", rt[h] \in {"none", "released"}
        PROVE  /\ h \notin handles \cup opening \cup tracked
               /\ \A i \in Inodes : paths[i] # h /\ h \notin readers[i]
               /\ lifecycle # h
    <2>1. Sound(h)
      BY <1>1 DEF IInv, OpInv
    <2> QED BY <1>1, <2>1 DEF Sound, StageOf, LockOf, BookOf, InUse, Locked, Reserving
  <1>2. IInv => NothingLeftReserved
    BY <1>1 DEF NothingLeftReserved
  <1> QED BY <1>2, Invariance, PTL

=============================================================================
