------------------------------ MODULE Registry ------------------------------
(***************************************************************************)
(* The process-wide registry of the native addon (src/src/native.rs): how  *)
(* open, read-only open and reset of one index path, the runtimes they     *)
(* start and the cleanup hooks of their Node environments share it.        *)
(*                                                                         *)
(* An operation is the handle number next_handle() gave it.  It runs on a  *)
(* thread of its own; each step of that thread is one critical section of  *)
(* the registry, one lock acquisition or one file system call.  A runtime  *)
(* is reduced to its phases (module NativeRuntime has its inside).  Other  *)
(* processes that follow the same protocol appear as Foreign.              *)
(***************************************************************************)
EXTENDS Integers, FiniteSets

CONSTANTS
    Ops,        \* handle numbers of opens and resets
    Envs,       \* Node environments (main thread and workers)
    Inodes,     \* physical directories the path may name over time
    NoInode,    \* the path does not exist
    NoOp,       \* absence of an operation
    Foreign,    \* a writer in another process
    Timeouts    \* whether the 30 s cleanup waits and 2 s lock retries expire

ASSUME RegistryAssumption ==
    /\ Inodes # {} /\ NoInode \notin Inodes
    /\ {NoOp, Foreign} \cap Ops = {}
    /\ NoOp # Foreign
    /\ Timeouts \in BOOLEAN

Kinds == {"writer", "reader", "reset"}

VARIABLES
    dir,        \* the physical directory at the index path
    retired,    \* directories renamed into .fulltext-retired
    lifecycle,  \* holder of the lock file in .fulltext-locks
    wlock,      \* holder of Tantivy's writer lock, by directory
    paths,      \* Registry.paths
    readers,    \* Registry.reader_paths
    unproven,   \* runtimes whose end put the path in Registry.unproven_paths
    handles,    \* Registry.handles
    opening,    \* Registry.opening
    cancelled,  \* Registry.cancelled
    tracked,    \* EnvironmentState.handles, of all environments
    kind,       \* what each operation does
    env,        \* the environment that issued it
    ino,        \* the path identity it read
    pc,         \* control point of its thread
    rt,         \* phase of the runtime it started
    hook,       \* progress of each environment's cleanup hook
    todo,       \* tracked handles the hook has yet to clean up
    waits,      \* what the hook waits for: <<handle, kind of wait>>
    expired     \* history: operations whose 30 s wait for a closing runtime expired

fsVars == <<dir, retired, lifecycle, wlock>>
regVars == <<paths, readers, unproven, handles, opening, cancelled>>
hookVars == <<hook, todo, waits>>
vars == <<dir, retired, lifecycle, wlock, paths, readers, unproven, handles, opening,
          cancelled, tracked, kind, env, ino, pc, rt, hook, todo, waits, expired>>

OpPoints == {"unused", "canonicalize", "lock", "identify", "register", "admit", "start", "confirm",
             "abort", "abortWait", "unregister", "untrack", "unlock", "finish", "opened",
             "check", "canonicalizeReset", "lockReset", "recheck", "reserve", "probeWriter",
             "rename", "unlockReset", "unreserve", "undoReset", "done"}

\* "panicked" is an open that panicked before it had a runtime.
RuntimePhases == {"none", "panicked", "running", "closing", "stopped", "unproven", "unregistered",
                  "released"}

\* The threads of the runtime may touch the index.
Live(h) == rt[h] \in {"running", "closing", "stopped"}

\* CallbackGate::is_alive
EnvAlive(e) == hook[e] = "live"

\* The cleanup hook has marked h, or has already detached its environment.
Cancelled(h) == h \in cancelled \/ ~EnvAlive(env[h])

Goto(h, point) == pc' = [pc EXCEPT ![h] = point]

TypeOK ==
    /\ dir \in Inodes \cup {NoInode}
    /\ retired \subseteq Inodes /\ dir \notin retired
    /\ lifecycle \in Ops \cup {NoOp}
    /\ wlock \in [Inodes -> Ops \cup {NoOp, Foreign}]
    /\ paths \in [Inodes -> Ops \cup {NoOp}]
    /\ readers \in [Inodes -> SUBSET Ops]
    /\ unproven \subseteq Ops
    /\ handles \subseteq Ops /\ opening \subseteq Ops
    /\ cancelled \subseteq Ops /\ tracked \subseteq Ops
    /\ kind \in [Ops -> Kinds]
    /\ env \in [Ops -> Envs]
    /\ ino \in [Ops -> Inodes \cup {NoInode}]
    /\ pc \in [Ops -> OpPoints]
    /\ rt \in [Ops -> RuntimePhases]
    /\ hook \in [Envs -> {"live", "detached", "sweep", "finished", "timedOut"}]
    /\ todo \in [Envs -> SUBSET Ops]
    /\ waits \in [Envs -> SUBSET (Ops \X {"runtime", "opening"})]
    /\ expired \subseteq Ops

Init ==
    /\ dir \in Inodes \cup {NoInode}
    /\ retired = {}
    /\ lifecycle = NoOp
    /\ wlock = [i \in Inodes |-> NoOp]
    /\ paths = [i \in Inodes |-> NoOp]
    /\ readers = [i \in Inodes |-> {}]
    /\ unproven = {}
    /\ handles = {} /\ opening = {} /\ cancelled = {} /\ tracked = {}
    /\ kind \in [Ops -> Kinds]
    /\ env \in [Ops -> Envs]
    /\ ino = [h \in Ops |-> NoInode]
    /\ pc = [h \in Ops |-> "unused"]
    /\ rt = [h \in Ops |-> "none"]
    /\ hook = [e \in Envs |-> "live"]
    /\ todo = [e \in Envs |-> {}]
    /\ waits = [e \in Envs |-> {}]
    /\ expired = {}

\* native_open_mode and native_reset: the operation is known to the registry
\* and to its environment before its thread starts, or is forgotten again if the
\* thread cannot be spawned.
Begin(h) ==
    /\ pc[h] = "unused"
    /\ EnvAlive(env[h])
    /\ \/ /\ opening' = opening \cup {h}
          /\ tracked' = tracked \cup {h}
          /\ Goto(h, IF kind[h] = "reset" THEN "check" ELSE "canonicalize")
       \/ /\ Goto(h, "done")
          /\ UNCHANGED <<opening, tracked>>
    /\ UNCHANGED <<fsVars, paths, readers, unproven, handles, cancelled, kind, env, ino, rt,
                   hookVars, expired>>

-----------------------------------------------------------------------------
(* open_runtime and open_runtime_with_directory.                           *)

\* A directory never used before takes the place of a missing one.
Fresh(i) == i \notin retired /\ i # dir

\* create_and_canonicalize creates a missing directory, a reader does not; the
\* request or the directory may be invalid.
Canonicalize(h) ==
    /\ pc[h] = "canonicalize"
    /\ \/ /\ dir # NoInode
          /\ Goto(h, "lock")
          /\ UNCHANGED dir
       \/ /\ Goto(h, "finish")
          /\ UNCHANGED dir
       \/ /\ dir = NoInode /\ kind[h] = "writer"
          /\ \E i \in Inodes : Fresh(i) /\ dir' = i
          /\ Goto(h, "lock")
    /\ UNCHANGED <<retired, lifecycle, wlock, regVars, tracked, kind, env, ino, rt, hookVars,
                   expired>>

\* acquire_lifecycle_lock_for_open: retried while busy, for two seconds; the lock
\* file itself may be out of reach.
Lock(h) ==
    /\ pc[h] = "lock"
    /\ \/ /\ lifecycle = NoOp
          /\ lifecycle' = h
          /\ Goto(h, "identify")
       \/ /\ lifecycle = NoOp \/ Timeouts
          /\ Goto(h, "finish")
          /\ UNCHANGED lifecycle
    /\ UNCHANGED <<dir, retired, wlock, regVars, tracked, kind, env, ino, rt, hookVars, expired>>

\* MmapDirectory::open and path_identity: a reset may have removed the path.
Identify(h) ==
    /\ pc[h] = "identify"
    /\ ino' = [ino EXCEPT ![h] = dir]
    /\ \/ dir # NoInode /\ Goto(h, "register")
       \/ Goto(h, "unlock")
    /\ UNCHANGED <<fsVars, regVars, tracked, kind, env, rt, hookVars, expired>>

\* Mutation: the quarantine is not consulted.
AdmitsQuarantined(h) ==
    \A o \in Ops : paths[ino[h]] = o => kind[h] = "reader" /\ kind[o] # "reset"

\* The registry lets h have its path: the path is not quarantined, no reset
\* has it, and no writer has it if h wants to write.
Admits(h) ==
    /\ unproven = {}
    /\ \A o \in Ops : paths[ino[h]] = o => kind[h] = "reader" /\ kind[o] # "reset"

\* The first critical section of open_runtime_with_directory.
Register(h) ==
    /\ pc[h] = "register"
    /\ \/ /\ Cancelled(h)
          /\ cancelled' = cancelled \ {h}
          /\ opening' = opening \ {h}
          /\ Goto(h, "unlock")
          /\ UNCHANGED <<paths, readers>>
       \/ /\ ~Cancelled(h) /\ ~Admits(h)
          /\ Goto(h, "unlock")
          /\ UNCHANGED <<paths, readers, opening, cancelled>>
       \/ /\ ~Cancelled(h) /\ Admits(h)
          /\ IF kind[h] = "reader"
             THEN readers' = [readers EXCEPT ![ino[h]] = @ \cup {h}] /\ UNCHANGED paths
             ELSE paths' = [paths EXCEPT ![ino[h]] = h] /\ UNCHANGED readers
          /\ Goto(h, "admit")
          /\ UNCHANGED <<opening, cancelled>>
    /\ UNCHANGED <<fsVars, unproven, handles, tracked, kind, env, ino, rt, hookVars, expired>>

\* Mutation: a failure before the runtime starts returns past release_runtime.
AfterFailureKept(h) == IF rt[h] = "none" THEN "unlock" ELSE "unregister"

\* Every error of the inner closure of open_runtime_with_directory ends in
\* release_runtime.
AfterFailure(h) == "unregister"

\* The identity check, admit_runtime, Engine::open and writer_with_payload:
\* any of them may fail, the last when another process writes; a panic unwinds
\* past the cleanup of open_runtime_with_directory.
Admit(h) ==
    /\ pc[h] = "admit"
    /\ \/ Goto(h, AfterFailure(h)) /\ UNCHANGED <<wlock, rt>>
       \/ /\ rt' = [rt EXCEPT ![h] = "panicked"]
          /\ Goto(h, "unlock")
          /\ UNCHANGED wlock
       \/ /\ kind[h] = "reader" /\ dir = ino[h]
          /\ Goto(h, "start")
          /\ UNCHANGED <<wlock, rt>>
       \/ /\ kind[h] = "writer" /\ dir = ino[h] /\ wlock[ino[h]] = NoOp
          /\ wlock' = [wlock EXCEPT ![ino[h]] = h]
          /\ Goto(h, "start")
          /\ UNCHANGED rt
    /\ UNCHANGED <<dir, retired, lifecycle, regVars, tracked, kind, env, ino, hookVars, expired>>

\* Runtime::start: a thread that cannot be spawned closes the others again.
Start(h) ==
    /\ pc[h] = "start"
    /\ rt' = [rt EXCEPT ![h] = "running"]
    /\ \/ Goto(h, "confirm")
       \/ Goto(h, "abort")
    /\ UNCHANGED <<fsVars, regVars, tracked, kind, env, ino, hookVars, expired>>

\* Mutation: a cancellation that arrived while the engine opened is overlooked.
ConfirmsAlways(h) == TRUE

\* The runtime may be handed to JavaScript.
Confirms(h) == ~Cancelled(h)

\* The second critical section: publish the handle, or give the runtime up.
Confirm(h) ==
    /\ pc[h] = "confirm"
    /\ \/ /\ Confirms(h)
          /\ handles' = handles \cup {h}
          /\ opening' = opening \ {h}
          /\ Goto(h, "opened")
          /\ UNCHANGED cancelled
       \/ /\ ~Confirms(h)
          /\ cancelled' = cancelled \ {h}
          /\ Goto(h, "abort")
          /\ UNCHANGED <<handles, opening>>
    /\ UNCHANGED <<fsVars, paths, readers, unproven, tracked, kind, env, ino, rt, hookVars, expired>>

\* runtime.force_close() of a runtime nobody else has seen.
Abort(h) ==
    /\ pc[h] = "abort"
    /\ rt' = [rt EXCEPT ![h] = "closing"]
    /\ Goto(h, "abortWait")
    /\ UNCHANGED <<fsVars, regVars, tracked, kind, env, ino, hookVars, expired>>

\* Mutation: a runtime that was not proven quiescent never signals.
ClosedProven(h) == rt[h] = "released" /\ h \notin unproven

\* CompletionSignal: the writer thread of h has signalled `closed`.
Closed(h) == rt[h] = "released"

\* runtime.wait_closed(CLEANUP_TIMEOUT), whose result is ignored.
AbortWait(h) ==
    /\ pc[h] = "abortWait"
    /\ \/ Closed(h) /\ UNCHANGED expired
       \/ ~Closed(h) /\ Timeouts /\ expired' = expired \cup {h}
    /\ Goto(h, AfterFailure(h))
    /\ UNCHANGED <<fsVars, regVars, tracked, kind, env, ino, rt, hookVars>>

\* The reservations other than those of h.
Without(h) == [i \in Inodes |-> IF paths[i] = h THEN NoOp ELSE paths[i]]

\* The registry part of release_runtime and release_runtime_handle.
Forget(h) ==
    /\ handles' = handles \ {h}
    /\ readers' = [i \in Inodes |-> readers[i] \ {h}]
    /\ paths' = Without(h)

\* release_runtime after a failed open ...
Unregister(h) ==
    /\ pc[h] = "unregister"
    /\ Forget(h)
    /\ Goto(h, "untrack")
    /\ UNCHANGED <<fsVars, unproven, opening, cancelled, tracked, kind, env, ino, rt, hookVars, expired>>

\* ... and its environment.release.
Untrack(h) ==
    /\ pc[h] = "untrack"
    /\ tracked' = tracked \ {h}
    /\ Goto(h, "unlock")
    /\ UNCHANGED <<fsVars, regVars, kind, env, ino, rt, hookVars, expired>>

\* Mutation: only a successful open gives the lock back.
UnlockedOnSuccess(h) == IF pc[h] = "opened" THEN NoOp ELSE lifecycle

\* The lock is a guard object: it is released on every way out.
Unlocked(h) == NoOp

\* The lifecycle lock dies with open_runtime, or with a failed reset.
Unlock(h) ==
    /\ pc[h] \in {"unlock", "opened"}
    /\ lifecycle' = Unlocked(h)
    /\ Goto(h, IF pc[h] = "opened" THEN "done" ELSE "finish")
    /\ opening' = IF pc[h] = "opened" THEN opening \ {h} ELSE opening
    /\ UNCHANGED <<dir, retired, wlock, paths, readers, unproven, handles, cancelled, tracked,
                   kind, env, ino, rt, hookVars, expired>>

\* The end of open_on_thread_inner after a failure, and of reset_on_thread_inner;
\* then opening_done or reset_done is signalled.
Finish(h) ==
    /\ pc[h] = "finish"
    /\ opening' = opening \ {h}
    /\ cancelled' = IF kind[h] = "reset" THEN cancelled \ {h} ELSE cancelled
    /\ tracked' = tracked \ {h}
    /\ Goto(h, "done")
    /\ UNCHANGED <<fsVars, paths, readers, unproven, handles, kind, env, ino, rt, hookVars, expired>>

OpenStep(h) ==
    \/ Canonicalize(h) \/ Lock(h) \/ Identify(h) \/ Register(h) \/ Admit(h) \/ Start(h)
    \/ Confirm(h) \/ Abort(h) \/ AbortWait(h) \/ Unregister(h) \/ Untrack(h)
    \/ Unlock(h) \/ Finish(h)

-----------------------------------------------------------------------------
(* reset_runtime.                                                          *)

\* Its only look at the cancellation.
CheckReset(h) ==
    /\ pc[h] = "check"
    /\ cancelled' = cancelled \ {h}
    /\ Goto(h, IF Cancelled(h) THEN "finish" ELSE "canonicalizeReset")
    /\ UNCHANGED <<fsVars, paths, readers, unproven, handles, opening, tracked, kind, env, ino,
                   rt, hookVars, expired>>

\* A missing path is answered `missing`, an unusable one refused; otherwise
\* initial_identity is read.
CanonicalizeReset(h) ==
    /\ pc[h] = "canonicalizeReset"
    /\ ino' = [ino EXCEPT ![h] = dir]
    /\ \/ dir # NoInode /\ Goto(h, "lockReset")
       \/ Goto(h, "finish")
    /\ UNCHANGED <<fsVars, regVars, tracked, kind, env, rt, hookVars, expired>>

\* acquire_lifecycle_lock without a retry.
LockReset(h) ==
    /\ pc[h] = "lockReset"
    /\ \/ lifecycle = NoOp /\ lifecycle' = h /\ Goto(h, "recheck")
       \/ UNCHANGED lifecycle /\ Goto(h, "finish")
    /\ UNCHANGED <<dir, retired, wlock, regVars, tracked, kind, env, ino, rt, hookVars, expired>>

\* physical_identity against initial_identity, and validate_reset_target.
Recheck(h) ==
    /\ pc[h] = "recheck"
    /\ \/ dir = ino[h] /\ Goto(h, "reserve")
       \/ Goto(h, "unlock")
    /\ UNCHANGED <<fsVars, regVars, tracked, kind, env, ino, rt, hookVars, expired>>

\* Mutation: only a writer keeps the path from being reset.
ResettableByWriter(h) == unproven = {} /\ paths[ino[h]] = NoOp

\* No writer, reset, reader or quarantine has the path.
Resettable(h) == unproven = {} /\ paths[ino[h]] = NoOp /\ readers[ino[h]] = {}

\* The critical section that reserves the path for the reset.
Reserve(h) ==
    /\ pc[h] = "reserve"
    /\ \/ /\ Resettable(h)
          /\ paths' = [paths EXCEPT ![ino[h]] = h]
          /\ Goto(h, "probeWriter")
       \/ /\ ~Resettable(h)
          /\ Goto(h, "unlock")
          /\ UNCHANGED paths
    /\ UNCHANGED <<fsVars, readers, unproven, handles, opening, cancelled, tracked, kind, env,
                   ino, rt, hookVars, expired>>

\* Mutation: Tantivy's writer lock is not asked for.
NoWriterAlways(h) == TRUE

\* The writer lock inside the directory can be acquired.
NoWriter(h) == wlock[ino[h]] = NoOp

\* The identity is read once more; the writer lock is taken to prove that no
\* process writes, and dropped again before the rename; the retired root or name may fail as well.
ProbeWriter(h) ==
    /\ pc[h] = "probeWriter"
    /\ \/ dir = ino[h] /\ NoWriter(h) /\ Goto(h, "rename")
       \/ Goto(h, "undoReset")
    /\ UNCHANGED <<fsVars, regVars, tracked, kind, env, ino, rt, hookVars, expired>>

\* What the path names after the rename.
PathAfterRename == NoInode

\* fs::rename into the retired root.
Rename(h) ==
    /\ pc[h] = "rename"
    /\ \/ /\ retired' = retired \cup {dir}
          /\ dir' = PathAfterRename
          /\ Goto(h, "unlockReset")
       \/ /\ Goto(h, "undoReset")
          /\ UNCHANGED <<dir, retired>>
    /\ UNCHANGED <<lifecycle, wlock, regVars, tracked, kind, env, ino, rt, hookVars, expired>>

\* After the rename the lock is dropped before the reservation ...
UnlockReset(h) ==
    /\ pc[h] = "unlockReset"
    /\ lifecycle' = NoOp
    /\ Goto(h, "unreserve")
    /\ UNCHANGED <<dir, retired, wlock, regVars, tracked, kind, env, ino, rt, hookVars, expired>>

\* ... and after a failure the reservation before the lock (Drop for
\* ResetReservation).
Unreserve(h) ==
    /\ pc[h] \in {"unreserve", "undoReset"}
    /\ paths' = Without(h)
    /\ Goto(h, IF pc[h] = "unreserve" THEN "finish" ELSE "unlock")
    /\ UNCHANGED <<fsVars, readers, unproven, handles, opening, cancelled, tracked, kind, env,
                   ino, rt, hookVars, expired>>

ResetStep(h) ==
    \/ CheckReset(h) \/ CanonicalizeReset(h) \/ LockReset(h) \/ Recheck(h) \/ Reserve(h)
    \/ ProbeWriter(h) \/ Rename(h) \/ UnlockReset(h) \/ Unreserve(h)

-----------------------------------------------------------------------------
(* A runtime, seen from the registry.                                      *)

\* JavaScript closes the handle, or its writer panics.  A close that will be
\* refused with E_DIRTY_CLOSE is not one here: what a refused close does to the
\* cleanup hook is the subject of CleanupReleases in module NativeRuntime.
RuntimeClose(h) ==
    /\ rt[h] = "running" /\ h \in handles
    /\ rt' = [rt EXCEPT ![h] = "closing"]
    /\ UNCHANGED <<fsVars, regVars, tracked, kind, env, ino, pc, hookVars, expired>>

\* finish_runtime up to the queue's end: the threads are joined and Writer::close
\* gave the writer lock back; or it failed, or a search thread did not end cleanly
\* (of a reader too), and nobody knows.
RuntimeStop(h) ==
    /\ rt[h] = "closing"
    /\ \/ /\ rt' = [rt EXCEPT ![h] = "stopped"]
          /\ wlock' = [i \in Inodes |-> IF wlock[i] = h THEN NoOp ELSE wlock[i]]
       \/ /\ rt' = [rt EXCEPT ![h] = "unproven"]
          /\ wlock' \in {wlock, [i \in Inodes |-> IF wlock[i] = h THEN NoOp ELSE wlock[i]]}
    /\ UNCHANGED <<dir, retired, lifecycle, regVars, tracked, kind, env, ino, pc, hookVars, expired>>

\* finish_runtime chooses release_runtime_handle over release_runtime.
Quarantines(h) == rt[h] = "unproven"

\* release_runtime, or release_runtime_handle, which quarantines the path.
RuntimeRelease(h) ==
    /\ rt[h] \in {"stopped", "unproven"}
    /\ Forget(h)
    /\ unproven' = IF Quarantines(h) THEN unproven \cup {h} ELSE unproven
    /\ rt' = [rt EXCEPT ![h] = "unregistered"]
    /\ UNCHANGED <<fsVars, opening, cancelled, tracked, kind, env, ino, pc, hookVars, expired>>

\* Their environment.release, then closed.signal().
RuntimeUntrack(h) ==
    /\ rt[h] = "unregistered"
    /\ tracked' = tracked \ {h}
    /\ rt' = [rt EXCEPT ![h] = "released"]
    /\ UNCHANGED <<fsVars, regVars, kind, env, ino, pc, hookVars, expired>>

RuntimeStep(h) == RuntimeStop(h) \/ RuntimeRelease(h) \/ RuntimeUntrack(h)

-----------------------------------------------------------------------------
(* finish_environment_cleanup.                                             *)

\* callbacks.close()
Detach(e) ==
    /\ hook[e] = "live"
    /\ hook' = [hook EXCEPT ![e] = "detached"]
    /\ UNCHANGED <<fsVars, regVars, tracked, kind, env, ino, pc, rt, todo, waits, expired>>

\* take_handles()
TakeHandles(e) ==
    /\ hook[e] = "detached"
    /\ hook' = [hook EXCEPT ![e] = "sweep"]
    /\ todo' = [todo EXCEPT ![e] = {h \in tracked : env[h] = e}]
    /\ tracked' = {h \in tracked : env[h] # e}
    /\ UNCHANGED <<fsVars, regVars, kind, env, ino, pc, rt, waits, expired>>

\* cleanup_handle: force_close a published runtime (a no-op if it is closing),
\* or cancel an operation that is still opening.
CleanupHandle(e, h) ==
    /\ hook[e] = "sweep" /\ h \in todo[e]
    /\ todo' = [todo EXCEPT ![e] = @ \ {h}]
    /\ \/ /\ h \in handles
          /\ rt' = [rt EXCEPT ![h] = IF @ = "running" THEN "closing" ELSE @]
          /\ waits' = [waits EXCEPT ![e] = @ \cup {<<h, "runtime">>}]
          /\ UNCHANGED <<opening, cancelled>>
       \/ /\ h \notin handles
          /\ opening' = opening \ {h}
          /\ cancelled' = IF h \in opening THEN cancelled \cup {h} ELSE cancelled
          /\ waits' = [waits EXCEPT ![e] = @ \cup {<<h, "opening">>}]
          /\ UNCHANGED rt
    /\ UNCHANGED <<fsVars, paths, readers, unproven, handles, tracked, kind, env, ino, pc, hook, expired>>

\* CleanupWait::wait on every entry, within the shared deadline.
CleanupWait(e) ==
    /\ hook[e] = "sweep" /\ todo[e] = {}
    /\ \/ /\ \A w \in waits[e] : IF w[2] = "runtime" THEN Closed(w[1]) ELSE pc[w[1]] = "done"
          /\ hook' = [hook EXCEPT ![e] = "finished"]
       \/ /\ Timeouts
          /\ hook' = [hook EXCEPT ![e] = "timedOut"]
    /\ waits' = [waits EXCEPT ![e] = {}]
    /\ UNCHANGED <<fsVars, regVars, tracked, kind, env, ino, pc, rt, todo, expired>>

HookStep(e) ==
    TakeHandles(e) \/ (\E h \in Ops : CleanupHandle(e, h)) \/ CleanupWait(e)

-----------------------------------------------------------------------------
(* Another process opens the path for writing, under the lifecycle lock,   *)
(* and closes it again.                                                    *)
ForeignOpen ==
    /\ lifecycle = NoOp
    /\ \E i \in Inodes :
          /\ dir = i \/ (dir = NoInode /\ Fresh(i))
          /\ wlock[i] = NoOp
          /\ dir' = i
          /\ wlock' = [wlock EXCEPT ![i] = Foreign]
    /\ UNCHANGED <<retired, lifecycle, regVars, tracked, kind, env, ino, pc, rt, hookVars, expired>>

ForeignClose ==
    /\ \E i \in Inodes : wlock[i] = Foreign /\ wlock' = [wlock EXCEPT ![i] = NoOp]
    /\ UNCHANGED <<dir, retired, lifecycle, regVars, tracked, kind, env, ino, pc, rt, hookVars, expired>>

-----------------------------------------------------------------------------
OpStep(h) == OpenStep(h) \/ ResetStep(h)

Next ==
    \/ \E h \in Ops : Begin(h) \/ OpStep(h) \/ RuntimeClose(h) \/ RuntimeStep(h)
    \/ \E e \in Envs : Detach(e) \/ HookStep(e)
    \/ ForeignOpen \/ ForeignClose

Spec == Init /\ [][Next]_vars

\* Native threads run and the hook, once called, runs to its end; nobody has to
\* open, close or tear down anything.
Fairness ==
    /\ \A h \in Ops : WF_vars(OpStep(h)) /\ WF_vars(RuntimeStep(h))
    /\ \A e \in Envs : WF_vars(HookStep(e))

FairSpec == Spec /\ Fairness

-----------------------------------------------------------------------------
(* Properties.                                                             *)

\* A reset never renames a directory that a runtime of this process or a
\* writer of another process is using, however opens, closes and resets race;
\* a runtime abandoned by an expired 30 s wait is the one exception.
ResetSparesLive ==
    /\ \A h \in Ops \ expired : Live(h) => ino[h] \notin retired
    /\ \A i \in retired : wlock[i] # Foreign

\* A path that is not proven quiescent is quarantined: no reset has it, and if it
\* was a writer that left it so, no writer runtime has been started on it since or
\* runs beside it.  (A writer that was open beside such a reader keeps running; an
\* open whose 30 s wait for its own runtime expired has given the path up before.)
QuarantineHolds ==
    expired = {} =>
        /\ unproven # {} => \A h \in Ops : kind[h] = "reset" => pc[h] \notin {"probeWriter", "rename"}
        /\ (\E o \in unproven : kind[o] = "writer") => \A h \in Ops : kind[h] = "writer" => ~Live(h)

\* When the cleanup hook of an environment returns in time, nothing it issued
\* still runs or can still start: no runtime is live, no handle is published.
HookMeansStopped ==
    \A e \in Envs : hook[e] = "finished" =>
        \A h \in Ops \ expired : env[h] = e =>
            /\ ~Live(h)
            /\ h \notin handles
            /\ pc[h] \notin {"start", "confirm", "abort"}

\* What an operation reserved is given back when it is over and no runtime of it is
\* left, at whichever point it failed or was cancelled: a path is never left reserved
\* by a handle nobody holds, unless its open panicked between its two critical
\* sections.
NothingLeftReserved ==
    \A h \in Ops : pc[h] = "done" /\ rt[h] \in {"none", "released"} =>
        /\ h \notin handles \cup opening \cup tracked
        /\ \A i \in Inodes : paths[i] # h /\ h \notin readers[i]
        /\ lifecycle # h

\* Every operation that began ends, and the hook of a closed environment
\* returns: nobody waits for somebody who waits for him.
OperationsEnd == \A h \in Ops : (pc[h] # "unused") ~> (pc[h] = "done")
HooksEnd == \A e \in Envs : (hook[e] = "detached") ~> (hook[e] = "finished")
=============================================================================
