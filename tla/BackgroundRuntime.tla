------------------------- MODULE BackgroundRuntime -------------------------
(***************************************************************************)
(* The background runtime main.go starts (startBackgroundRuntime): the     *)
(* sync manager with its loop, the watcher as a producer of requests, and  *)
(* the query router, which shares the manager's compute lock.              *)
(***************************************************************************)
EXTENDS SyncManager, QueryRouter

vars == <<mutexVars, queueVars, syncVars, callPc>>

Init == NewSyncManager /\ NewQueryRouter

Background ==
    \/ backgroundBuildLoop
    \/ \E r \in TriggerRequests : TriggerStatus(r) \/ TriggerEnqueue(r)
    \/ \E r \in WatcherRequests : WatcherEnqueue(r)
    \/ Pause
    \/ Resume
    \/ Cancel

Foreground ==
    \E c \in Calls : beginSlowPath(c) \/ endSlowPath(c)

Next ==
    \/ Background /\ UNCHANGED callPc
    \/ Foreground /\ UNCHANGED <<queueVars, syncVars>>

Spec == Init /\ [][Next]_vars

(* The loop's goroutine is scheduled, a call of Trigger and an analysis    *)
(* that has started come to an end.  Nobody is obliged to trigger, to call *)
(* a tool or to change a file.                                             *)
Fairness ==
    /\ WF_vars(backgroundBuildLoop /\ UNCHANGED callPc)
    /\ \A r \in TriggerRequests : WF_vars(TriggerEnqueue(r) /\ UNCHANGED callPc)
    /\ \A c \in Calls : WF_vars(endSlowPath(c) /\ UNCHANGED <<queueVars, syncVars>>)

FairSpec == Spec /\ Fairness

-----------------------------------------------------------------------------
(* Every variable keeps the values its Go type and use allow.              *)
TypeOK ==
    /\ holder \in {NoOwner, SyncOwner} \cup {Tool[c] : c \in Calls}
    /\ lockPriority \in Priorities
    /\ aborted \in BOOLEAN
    /\ pending \in Seq(Requests)
    /\ active \in Requests \cup {NoRequest}
    /\ lastError \in Requests \cup {NoRequest}
    /\ createdAt \in [Requests -> Nat]
    /\ clock \in Nat \ {0}
    /\ state \in States
    /\ pc \in Labels
    /\ req \in Requests \cup {NoRequest}
    /\ builderStore \in {"nil", "open", "closed"}
    /\ triggerPc \in [TriggerRequests -> {"idle", "enqueue", "done"}]
    /\ cancelled \in BOOLEAN
    /\ outcome \in [Requests -> {"none", "done", "failed"}]
    /\ callPc \in [Calls -> CallLabels]

(* Whatever mixture of new and returning requests Enqueue is given, the    *)
(* queue is in the order of its comparison (sync_queue.go:60).             *)
QueueSorted ==
    \A i, j \in DOMAIN pending : i < j => ~Before(createdAt, pending[j], pending[i])

Queued(r) == \E i \in DOMAIN pending : pending[i] = r

(* No request is lost or done twice: every request that was ever enqueued  *)
(* is in exactly one place, the queue (once), the loop's hand, or among    *)
(* the finished ones, through any number of preemptions and retries.       *)
RequestAccounted ==
    /\ \A i, j \in DOMAIN pending : pending[i] = pending[j] => i = j
    /\ \A r \in Requests :
        /\ createdAt[r] # 0 <=> (Queued(r) \/ req = r \/ outcome[r] # "none")
        /\ ~(Queued(r) /\ req = r)
        /\ outcome[r] # "none" => ~Queued(r) /\ req # r

(* What Status() reports as active is what the loop is working on, until   *)
(* the request is safe in the queue again or finished.                     *)
ActiveIsHeld == req # NoRequest => active = req

(* The loop rebuilds only under the compute lock, nobody takes the lock    *)
(* from it (Unlock of another owner is ignored), and it never leaves the   *)
(* lock behind: on no path does it return to the queue still owning it.    *)
RebuildHoldsLock == (holder = SyncOwner) <=> (pc \in LockedAt)

(* The abort flag is only ever raised against a background rebuild, and    *)
(* never outlives it: the next holder does not start out preempted.        *)
AbortTargetsRebuild == aborted => holder = SyncOwner /\ Preempts(PriorityHigh)

Computing(c) == callPc[c] = "computing"

(* The compute lock keeps SSA-heavy analyses of different tools and the    *)
(* background rebuild apart.                                               *)
MutualExclusion ==
    /\ \A c \in Calls : Computing(c) => pc \notin LockedAt
    /\ \A c, d \in Calls : Computing(c) /\ Computing(d) => Tool[c] = Tool[d]

(* Once the queue has drained and no Trigger is under way, the status does *)
(* not say "computing" any more, whatever Trigger, Pause and Resume wrote  *)
(* during the last rebuild.                                                *)
StatusSettles ==
    (/\ pc = "dequeue"
     /\ pending = <<>>
     /\ \A r \in TriggerRequests : triggerPc[r] # "enqueue")
    => state # "computing"

(* A store handle opened for a rebuild is closed on every way out of it.   *)
NoStoreLeak == builderStore = "open" => pc \in {"snapshot", "save", "publish"}

(* The builder never works on a closed store handle.                       *)
BuilderStoreUsable == pc = "snapshot" => builderStore # "closed"

(* Every request that is enqueued is finished, unless the loop was stopped *)
(* by its context: neither busy tools nor preemption starve it for ever.   *)
EveryRequestFinishes ==
    \A r \in Requests :
        createdAt[r] # 0 ~> (outcome[r] # "none" \/ pc = "stopped")

(* Cancelling the context ends the loop, even though Dequeue serves what   *)
(* is pending before it looks at the context.                              *)
CancelStopsLoop == cancelled ~> pc = "stopped"

Promise == INSTANCE PriorityQueue WITH
    Request <- Requests,
    None <- NoRequest,
    Urgency <- RequestPriority,
    waiting <- {pending[i] : i \in DOMAIN pending},
    serving <- req,
    ended <- {r \in Requests : outcome[r] # "none"},
    arrival <- createdAt

(* The queue, the loop and the lock together serve requests one at a time, *)
(* most urgent first, and end each once (module PriorityQueue).            *)
ServesInOrder == Promise!Spec
=============================================================================
