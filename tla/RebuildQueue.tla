---------------------------- MODULE RebuildQueue ----------------------------
(***************************************************************************)
(* The rebuild queue of analyzer/sync_queue.go: the pending requests, kept *)
(* sorted by (priority, createdAt), and the one request being worked on.   *)
(* A request is a member of Requests; its priority follows from the code   *)
(* that builds it (SyncManager.Trigger: high, FileWatcher: normal), and    *)
(* createdAt[r] is the time of its first Enqueue, 0 standing for the zero  *)
(* time.  Time is a clock that may or may not advance between two Enqueues *)
(* so two requests may carry the same time.                                *)
(*                                                                         *)
(* Every method runs under the queue's own mutex.  Nothing in the program  *)
(* calls Abort, so the fields "aborted" and "reason" keep their zero value *)
(* and are left out; Dequeue polls and never waits on the condition        *)
(* variable, so its Broadcasts are left out too.                           *)
(***************************************************************************)
EXTENDS Integers, Sequences, FiniteSets, RebuildPriority

CONSTANTS
    TriggerRequests,   \* requests built by SyncManager.Trigger
    WatcherRequests,   \* requests built by the file watcher
    NoRequest          \* the nil "active" pointer

Requests == TriggerRequests \cup WatcherRequests

ASSUME RequestsAssumption ==
    /\ TriggerRequests \cap WatcherRequests = {}
    /\ NoRequest \notin Requests

VARIABLES
    pending,     \* sequence of requests, next one first
    active,      \* the request handed out by Dequeue, or NoRequest
    lastError,   \* the request whose rebuild failed last, or NoRequest
    createdAt,   \* [Requests -> Nat], 0: never enqueued
    clock        \* time.Now()

queueVars == <<pending, active, lastError, createdAt, clock>>

NewRebuildQueue ==
    /\ pending = <<>>
    /\ active = NoRequest
    /\ lastError = NoRequest
    /\ createdAt = [r \in Requests |-> 0]
    /\ clock = 1

(* Trigger asks for high priority, the watcher for normal priority.        *)
RequestPriority(r) ==
    IF r \in TriggerRequests THEN PriorityHigh ELSE PriorityNormal

(* The comparison Enqueue sorts by.                                        *)
Before(at, r, s) ==
    \/ RequestPriority(r) < RequestPriority(s)
    \/ RequestPriority(r) = RequestPriority(s) /\ at[r] < at[s]

(* The positions of the requests that r is not Before.                     *)
AheadOf(at, q, r) == {i \in DOMAIN q : ~Before(at, r, q[i])}

(* Appending r to a sorted queue and sorting it stably puts r behind every *)
(* request that r is not Before, and ahead of the others.                  *)
Insert(at, q, r) ==
    LET ahead == Cardinality(AheadOf(at, q, r))
    IN [i \in 1..(Len(q) + 1) |-> IF i <= ahead THEN q[i]
                                  ELSE IF i = ahead + 1 THEN r ELSE q[i - 1]]

(* Mutant: a request that comes back is stamped as if it were new.         *)
EnqueueRestamps(r) ==
    \E now \in {clock, clock + 1} :
        /\ now <= Cardinality(Requests) + 1
        /\ clock' = now
        /\ createdAt' = [createdAt EXCEPT ![r] = now]
        /\ pending' = Insert(createdAt', pending, r)
        /\ UNCHANGED <<active, lastError>>

(* A request that comes back keeps its first time stamp.                   *)
Enqueue(r) ==
    \E now \in {clock, clock + 1} :
        /\ IF createdAt[r] = 0
           THEN clock' = now /\ createdAt' = [createdAt EXCEPT ![r] = now]
           ELSE now = clock /\ UNCHANGED <<clock, createdAt>>
        /\ pending' = Insert(createdAt', pending, r)
        /\ UNCHANGED <<active, lastError>>

Dequeue ==
    /\ pending # <<>>
    /\ active' = Head(pending)
    /\ pending' = Tail(pending)
    /\ UNCHANGED <<lastError, createdAt, clock>>

setError(r) ==
    /\ lastError' = r
    /\ UNCHANGED <<pending, active, createdAt, clock>>

finishActive ==
    /\ active' = NoRequest
    /\ UNCHANGED <<pending, lastError, createdAt, clock>>
=============================================================================
