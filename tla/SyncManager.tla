---------------------------- MODULE SyncManager ----------------------------
(***************************************************************************)
(* The background sync of analyzer/sync_manager.go: one goroutine,         *)
(* backgroundBuildLoop, that takes requests from the rebuild queue, takes  *)
(* the compute lock under the name "sync-manager", and runs the rebuild;   *)
(* and the methods other goroutines call on the manager (Trigger, Pause,   *)
(* Resume).  Each action is one critical section of the code or one stretch*)
(* of code that touches nothing another goroutine can see.                 *)
(*                                                                         *)
(* A rebuild is abstracted to the steps at which it can fail.  What it     *)
(* writes to the store and to state.json is not part of this module; the   *)
(* life of the builder's store handle is.  Every request carries a root    *)
(* path, as all requests of the program do, so the early return of         *)
(* runRebuild for an empty root is not taken.                              *)
(***************************************************************************)
EXTENDS ComputeMutex, RebuildQueue

SyncOwner == "sync-manager"

VARIABLES
    state,          \* SyncStatus.State
    pc,             \* where backgroundBuildLoop is
    req,            \* its local variable req while the loop answers for it
    builderStore,   \* SSABuilder.store: "nil", "open" or "closed"
    triggerPc,      \* [TriggerRequests -> {"idle", "enqueue", "done"}]
    cancelled,      \* the context given to Start is cancelled
    outcome         \* [Requests -> {"none", "done", "failed"}], for the properties

syncVars == <<state, pc, req, builderStore, triggerPc, cancelled, outcome>>

States == {"idle", "computing", "paused", "error"}

(* The labels of backgroundBuildLoop at which it owns the compute lock.    *)
LockedAt == {"checkAborted", "unlockPreempted", "load", "snapshot", "save",
             "publish", "unlock", "unlockFailed"}

Labels == LockedAt \cup {"dequeue", "computing", "tryLock", "requeue",
            "finishRequeued", "finish", "idle", "setError", "finishFailed",
            "stopped"}

NewSyncManager ==
    /\ NewComputeMutex
    /\ NewRebuildQueue
    /\ state = "idle"
    /\ pc = "dequeue"
    /\ req = NoRequest
    /\ builderStore = "nil"
    /\ triggerPc = [r \in TriggerRequests |-> "idle"]
    /\ cancelled = FALSE
    /\ outcome = [r \in Requests |-> "none"]

Goto(from, to) == pc = from /\ pc' = to

-----------------------------------------------------------------------------
(* backgroundBuildLoop                                                     *)

(* The queue is looked at before the context: a cancelled loop drains it.  *)
LoopDequeue ==
    /\ Goto("dequeue", "computing")
    /\ Dequeue
    /\ req' = Head(pending)
    /\ UNCHANGED mutexVars
    /\ UNCHANGED <<state, builderStore, triggerPc, cancelled, outcome>>

(* Mutant: an idle loop never looks at the context.                        *)
LoopStopNever ==
    /\ Goto("dequeue", "dequeue")
    /\ pending = <<>>
    /\ cancelled
    /\ UNCHANGED <<mutexVars, queueVars>>
    /\ UNCHANGED <<state, req, builderStore, triggerPc, cancelled, outcome>>

LoopStop ==
    /\ Goto("dequeue", "stopped")
    /\ pending = <<>>
    /\ cancelled
    /\ UNCHANGED <<mutexVars, queueVars>>
    /\ UNCHANGED <<state, req, builderStore, triggerPc, cancelled, outcome>>

LoopComputing ==
    /\ Goto("computing", "tryLock")
    /\ state' = "computing"
    /\ UNCHANGED <<mutexVars, queueVars>>
    /\ UNCHANGED <<req, builderStore, triggerPc, cancelled, outcome>>

(* A lock that is not granted, for either reason, sends the request back.  *)
LoopTryLock ==
    /\ pc = "tryLock"
    /\ TryLock(SyncOwner, RequestPriority(req))
    /\ pc' = IF Granted(SyncOwner) THEN "checkAborted" ELSE "requeue"
    /\ UNCHANGED queueVars
    /\ UNCHANGED <<state, req, builderStore, triggerPc, cancelled, outcome>>

(* The only look at the abort flag in the whole rebuild.                   *)
LoopCheckAborted ==
    /\ pc = "checkAborted"
    /\ pc' = IF CheckAborted THEN "unlockPreempted" ELSE "load"
    /\ UNCHANGED <<mutexVars, queueVars>>
    /\ UNCHANGED <<state, req, builderStore, triggerPc, cancelled, outcome>>

LoopUnlockPreempted ==
    /\ Goto("unlockPreempted", "requeue")
    /\ Unlock(SyncOwner)
    /\ UNCHANGED queueVars
    /\ UNCHANGED <<state, req, builderStore, triggerPc, cancelled, outcome>>

(* Mutant: finishActive runs before the request is back in the queue, and  *)
(* the request is forgotten.                                               *)
LoopRequeueForgets ==
    /\ Goto("requeue", "finishRequeued")
    /\ req' = NoRequest
    /\ UNCHANGED <<mutexVars, queueVars>>
    /\ UNCHANGED <<state, builderStore, triggerPc, cancelled, outcome>>

LoopRequeue ==
    /\ Goto("requeue", "finishRequeued")
    /\ Enqueue(req)
    /\ req' = NoRequest
    /\ UNCHANGED mutexVars
    /\ UNCHANGED <<state, builderStore, triggerPc, cancelled, outcome>>

LoopFinishRequeued ==
    /\ Goto("finishRequeued", "dequeue")
    /\ finishActive
    /\ UNCHANGED mutexVars
    /\ UNCHANGED <<state, req, builderStore, triggerPc, cancelled, outcome>>

-----------------------------------------------------------------------------
(* runRebuild.  A store opened by this call is closed when it returns, by  *)
(* the deferred Close; the pointer in the builder is not reset.            *)

DeferredClose ==
    builderStore' = IF builderStore = "open" THEN "closed" ELSE builderStore

(* The context check, GetOrLoad and the opening of the store.  A load may  *)
(* fail; a store that cannot be opened is noticed only by the next step.   *)
RebuildLoad ==
    /\ pc = "load"
    /\ \/ /\ pc' = "unlockFailed"
          /\ UNCHANGED builderStore
       \/ /\ ~cancelled
          /\ pc' = "snapshot"
          /\ builderStore' \in IF builderStore = "nil" THEN {"nil", "open"}
                                                       ELSE {builderStore}
    /\ UNCHANGED <<mutexVars, queueVars>>
    /\ UNCHANGED <<state, req, triggerPc, cancelled, outcome>>

(* SSABuilder.ComputeAndSnapshot.  Its own lock has no other client.       *)
ComputeAndSnapshot ==
    /\ pc = "snapshot"
    /\ \/ /\ pc' = "unlockFailed"
          /\ DeferredClose
       \/ /\ ~cancelled
          /\ builderStore = "open"
          /\ pc' = "save"
          /\ UNCHANGED builderStore
    /\ UNCHANGED <<mutexVars, queueVars>>
    /\ UNCHANGED <<state, req, triggerPc, cancelled, outcome>>

(* scanHashes and state.Save.                                              *)
RebuildSave ==
    /\ pc = "save"
    /\ \/ /\ pc' = "unlockFailed"
          /\ DeferredClose
       \/ /\ pc' = "publish"
          /\ UNCHANGED builderStore
    /\ UNCHANGED <<mutexVars, queueVars>>
    /\ UNCHANGED <<state, req, triggerPc, cancelled, outcome>>

(* m.status = status: the copy taken before the save, with State idle,     *)
(* replaces whatever Trigger or Pause wrote meanwhile.                     *)
RebuildPublish ==
    /\ Goto("publish", "unlock")
    /\ state' = "idle"
    /\ DeferredClose
    /\ UNCHANGED <<mutexVars, queueVars>>
    /\ UNCHANGED <<req, triggerPc, cancelled, outcome>>

-----------------------------------------------------------------------------
(* backgroundBuildLoop after runRebuild                                    *)

LoopUnlock ==
    /\ Goto("unlock", "finish")
    /\ Unlock(SyncOwner)
    /\ UNCHANGED queueVars
    /\ UNCHANGED <<state, req, builderStore, triggerPc, cancelled, outcome>>

LoopFinish ==
    /\ Goto("finish", "idle")
    /\ finishActive
    /\ outcome' = [outcome EXCEPT ![req] = "done"]
    /\ req' = NoRequest
    /\ UNCHANGED mutexVars
    /\ UNCHANGED <<state, builderStore, triggerPc, cancelled>>

LoopIdle ==
    /\ Goto("idle", "dequeue")
    /\ state' = "idle"
    /\ UNCHANGED <<mutexVars, queueVars>>
    /\ UNCHANGED <<req, builderStore, triggerPc, cancelled, outcome>>

(* Mutant: a failed rebuild goes back to the queue without unlocking.      *)
LoopUnlockFailedForgets ==
    /\ Goto("unlockFailed", "setError")
    /\ UNCHANGED <<mutexVars, queueVars>>
    /\ UNCHANGED <<state, req, builderStore, triggerPc, cancelled, outcome>>

LoopUnlockFailed ==
    /\ Goto("unlockFailed", "setError")
    /\ Unlock(SyncOwner)
    /\ UNCHANGED queueVars
    /\ UNCHANGED <<state, req, builderStore, triggerPc, cancelled, outcome>>

(* Mutant: the failure is recorded in the queue but not in the status.     *)
LoopSetErrorQueueOnly ==
    /\ Goto("setError", "finishFailed")
    /\ setError(req)
    /\ UNCHANGED mutexVars
    /\ UNCHANGED <<state, req, builderStore, triggerPc, cancelled, outcome>>

LoopSetError ==
    /\ Goto("setError", "finishFailed")
    /\ setError(req)
    /\ state' = "error"
    /\ UNCHANGED mutexVars
    /\ UNCHANGED <<req, builderStore, triggerPc, cancelled, outcome>>

LoopFinishFailed ==
    /\ Goto("finishFailed", "dequeue")
    /\ finishActive
    /\ outcome' = [outcome EXCEPT ![req] = "failed"]
    /\ req' = NoRequest
    /\ UNCHANGED mutexVars
    /\ UNCHANGED <<state, builderStore, triggerPc, cancelled>>

backgroundBuildLoop ==
    \/ LoopDequeue \/ LoopStop \/ LoopComputing \/ LoopTryLock
    \/ LoopCheckAborted \/ LoopUnlockPreempted \/ LoopRequeue
    \/ LoopFinishRequeued
    \/ RebuildLoad \/ ComputeAndSnapshot \/ RebuildSave \/ RebuildPublish
    \/ LoopUnlock \/ LoopFinish \/ LoopIdle
    \/ LoopUnlockFailed \/ LoopSetError \/ LoopFinishFailed

-----------------------------------------------------------------------------
(* Calls by other goroutines                                               *)

(* Trigger writes the status first and enqueues after releasing the lock.  *)
TriggerStatus(r) ==
    /\ triggerPc[r] = "idle"
    /\ triggerPc' = [triggerPc EXCEPT ![r] = "enqueue"]
    /\ state' = "computing"
    /\ UNCHANGED <<mutexVars, queueVars>>
    /\ UNCHANGED <<pc, req, builderStore, cancelled, outcome>>

TriggerEnqueue(r) ==
    /\ triggerPc[r] = "enqueue"
    /\ triggerPc' = [triggerPc EXCEPT ![r] = "done"]
    /\ Enqueue(r)
    /\ UNCHANGED mutexVars
    /\ UNCHANGED <<state, pc, req, builderStore, cancelled, outcome>>

(* The watcher's debounce tick; see FileWatcher for what leads to it.      *)
WatcherEnqueue(r) ==
    /\ createdAt[r] = 0
    /\ Enqueue(r)
    /\ UNCHANGED mutexVars
    /\ UNCHANGED syncVars

(* Pause and Resume only write the status; the loop never reads it.        *)
Pause ==
    /\ state' = "paused"
    /\ UNCHANGED <<mutexVars, queueVars>>
    /\ UNCHANGED <<pc, req, builderStore, triggerPc, cancelled, outcome>>

Resume ==
    /\ state' = "idle"
    /\ UNCHANGED <<mutexVars, queueVars>>
    /\ UNCHANGED <<pc, req, builderStore, triggerPc, cancelled, outcome>>

Cancel ==
    /\ ~cancelled
    /\ cancelled' = TRUE
    /\ UNCHANGED <<mutexVars, queueVars>>
    /\ UNCHANGED <<state, pc, req, builderStore, triggerPc, outcome>>
=============================================================================
