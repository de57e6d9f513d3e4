---------------------- MODULE BackgroundRuntime_proof ----------------------
(***************************************************************************)
(* Proofs about the background runtime.                                    *)
(***************************************************************************)
EXTENDS BackgroundRuntime, FiniteSetTheorems, TLAPS

-----------------------------------------------------------------------------
(* The stable sort of Enqueue, as an insertion                             *)

LEMMA IntervalSize == \A n \in Nat : IsFiniteSet(1..n) /\ Cardinality(1..n) = n
<1> SUFFICES ASSUME NEW n \in Nat PROVE IsFiniteSet(1..n) /\ Cardinality(1..n) = n
  OBVIOUS
<1>1. 1 \in Int /\ n \in Int
  OBVIOUS
<1>2. /\ IsFiniteSet(1..n)
      /\ Cardinality(1..n) = IF 1 > n THEN 0 ELSE n - 1 + 1
  BY <1>1, FS_Interval, Zenon
<1> QED BY <1>2

(* The number of queued requests that stay ahead fits the queue.           *)
LEMMA AheadBound ==
    ASSUME NEW at, NEW q \in Seq(Requests), NEW r \in Requests
    PROVE  /\ Cardinality(AheadOf(at, q, r)) \in 0..Len(q)
           /\ IsFiniteSet(AheadOf(at, q, r))
<1> DEFINE P == AheadOf(at, q, r)
<1>1. IsFiniteSet(1..Len(q)) /\ Cardinality(1..Len(q)) = Len(q) /\ Len(q) \in Nat
  BY IntervalSize
<1>2. P \subseteq 1..Len(q)
  BY DEF AheadOf
<1> HIDE DEF P
<1>3. IsFiniteSet(P) /\ Cardinality(P) <= Len(q)
  BY <1>1, <1>2, FS_Subset
<1>4. Cardinality(P) \in Nat
  BY <1>3, FS_CardinalityType
<1> QED BY <1>1, <1>3, <1>4 DEF P

LEMMA InsertProps ==
    ASSUME NEW at, NEW q \in Seq(Requests), NEW r \in Requests
    PROVE  LET p == Insert(at, q, r)
           IN /\ p \in Seq(Requests) /\ p # <<>>
              /\ \A x : (\E i \in DOMAIN p : p[i] = x)
                            <=> (x = r \/ \E i \in DOMAIN q : q[i] = x)
              /\ (/\ \A i, j \in DOMAIN q : q[i] = q[j] => i = j
                  /\ \A i \in DOMAIN q : q[i] # r)
                 => \A i, j \in DOMAIN p : p[i] = p[j] => i = j
<1> DEFINE a == Cardinality(AheadOf(at, q, r))
           p == Insert(at, q, r)
<1>1. a \in 0..Len(q) /\ Len(q) \in Nat
  BY AheadBound
<1>2. p = [i \in 1..(Len(q) + 1) |-> IF i <= a THEN q[i]
                                     ELSE IF i = a + 1 THEN r ELSE q[i - 1]]
  BY DEF Insert
<1> HIDE DEF a, p
<1>3. p \in Seq(Requests) /\ Len(p) = Len(q) + 1 /\ DOMAIN p = 1..(Len(q) + 1)
  BY <1>1, <1>2
<1>4. p[a + 1] = r /\ a + 1 \in DOMAIN p
  BY <1>1, <1>2, <1>3
<1>5. \A i \in DOMAIN q : \E j \in DOMAIN p : p[j] = q[i]
  <2> SUFFICES ASSUME NEW i \in DOMAIN q PROVE \E j \in DOMAIN p : p[j] = q[i]
    OBVIOUS
  <2>1. CASE i <= a
    <3>1. i \in DOMAIN p /\ p[i] = q[i]
      BY <1>1, <1>2, <1>3, <2>1
    <3> QED BY <3>1
  <2>2. CASE i > a
    <3>1. i + 1 \in DOMAIN p /\ p[i + 1] = q[i]
      BY <1>1, <1>2, <1>3, <2>2
    <3> QED BY <3>1
  <2> QED BY <1>1, <2>1, <2>2
<1> DEFINE from(j) == IF j <= a THEN j ELSE j - 1
<1>6. \A j \in DOMAIN p : j # a + 1 => from(j) \in DOMAIN q /\ p[j] = q[from(j)]
  BY <1>1, <1>2, <1>3
<1>7. \A i, j \in DOMAIN p : i # a + 1 /\ j # a + 1 /\ from(i) = from(j) => i = j
  BY <1>1, <1>3
<1> HIDE DEF from
<1>8. \A x : (\E i \in DOMAIN p : p[i] = x) <=> (x = r \/ \E i \in DOMAIN q : q[i] = x)
  BY <1>4, <1>5, <1>6
<1>9. ASSUME \A i, j \in DOMAIN q : q[i] = q[j] => i = j, \A i \in DOMAIN q : q[i] # r
      PROVE  \A i, j \in DOMAIN p : p[i] = p[j] => i = j
  BY <1>4, <1>6, <1>7, <1>9
<1>10. p # <<>>
  BY <1>1, <1>3
<1> QED BY <1>3, <1>8, <1>9, <1>10 DEF p

(* In a sorted queue the requests that stay ahead are a prefix of it, so   *)
(* the insertion sorts.                                                    *)
LEMMA InsertSorts ==
    ASSUME NEW at \in [Requests -> Nat], NEW q \in Seq(Requests), NEW r \in Requests,
           \A i, j \in DOMAIN q : i < j => ~Before(at, q[j], q[i])
    PROVE  LET p == Insert(at, q, r)
           IN \A i, j \in DOMAIN p : i < j => ~Before(at, p[j], p[i])
<1> DEFINE P == AheadOf(at, q, r)
           a == Cardinality(P)
           p == Insert(at, q, r)
<1>1. a \in 0..Len(q) /\ Len(q) \in Nat
  BY AheadBound
<1>2. p = [i \in 1..(Len(q) + 1) |-> IF i <= a THEN q[i]
                                     ELSE IF i = a + 1 THEN r ELSE q[i - 1]]
  BY DEF Insert
<1>3. \A x, y, z \in Requests : /\ Before(at, x, y) /\ ~Before(at, z, y) => Before(at, x, z)
                                /\ Before(at, x, y) => ~Before(at, y, x)
  BY DEF Before, RequestPriority, PriorityHigh, PriorityNormal
<1>4. \A i \in DOMAIN q : q[i] \in Requests /\ i \in Nat /\ i >= 1 /\ i <= Len(q)
  OBVIOUS
<1>5. /\ \A i \in P, j \in DOMAIN q : j < i => j \in P
      /\ \A i \in DOMAIN q : i \in P <=> ~Before(at, r, q[i])
      /\ P \subseteq DOMAIN q
  BY <1>3, <1>4 DEF AheadOf
<1>6. \A i \in DOMAIN q : i \in P <=> i <= a
  <2> SUFFICES ASSUME NEW i \in DOMAIN q PROVE i \in P <=> i <= a
    OBVIOUS
  <2>0. i \in Nat /\ i >= 1 /\ P \subseteq 1..Len(q)
    BY <1>4, <1>5
  <2>1. ASSUME i \in P PROVE i <= a
    <3>1. 1..i \subseteq P
      BY <1>4, <1>5, <2>0, <2>1
    <3>2. Cardinality(1..i) = i /\ IsFiniteSet(P)
      BY <2>0, IntervalSize, AheadBound
    <3> HIDE DEF P
    <3> QED BY <3>1, <3>2, FS_Subset
  <2>2. ASSUME i \notin P PROVE ~(i <= a)
    <3>1. P \subseteq 1..(i - 1)
      BY <1>4, <1>5, <2>0, <2>2
    <3>2. IsFiniteSet(1..(i - 1)) /\ Cardinality(1..(i - 1)) = i - 1
      <4>1. i - 1 \in Nat
        BY <2>0
      <4> HIDE DEF P
      <4> QED BY <4>1, IntervalSize
    <3> HIDE DEF P
    <3>3. a <= i - 1
      BY <3>1, <3>2, FS_Subset
    <3> QED BY <1>1, <2>0, <3>3
  <2> QED BY <2>1, <2>2
<1>7. /\ \A i \in DOMAIN q : i <= a => ~Before(at, r, q[i])
      /\ \A i \in DOMAIN q : i > a => Before(at, r, q[i])
  <2> HIDE DEF P, a
  <2> QED BY <1>1, <1>4, <1>5, <1>6
<1> HIDE DEF P, a, p
<1> DEFINE from(j) == IF j <= a THEN j ELSE j - 1
<1>8. /\ DOMAIN p = 1..(Len(q) + 1)
      /\ \A j \in DOMAIN p : j # a + 1 => from(j) \in DOMAIN q /\ p[j] = q[from(j)]
      /\ p[a + 1] = r
  BY <1>1, <1>2
<1> SUFFICES ASSUME NEW i \in DOMAIN p, NEW j \in DOMAIN p, i < j
             PROVE  ~Before(at, p[j], p[i])
  BY DEF p
<1>9. i \in Nat /\ j \in Nat
  BY <1>8
<1>10. CASE i = a + 1
  <2>1. from(j) \in DOMAIN q /\ p[j] = q[from(j)] /\ from(j) > a
    BY <1>1, <1>8, <1>9, <1>10
  <2>2. Before(at, r, p[j]) /\ p[j] \in Requests
    BY <1>4, <1>7, <2>1
  <2> QED BY <1>3, <1>8, <1>10, <2>2
<1>11. CASE j = a + 1
  <2>1. from(i) \in DOMAIN q /\ p[i] = q[from(i)] /\ from(i) <= a
    BY <1>1, <1>8, <1>9, <1>11
  <2> QED BY <1>7, <1>8, <1>11, <2>1
<1>12. CASE i # a + 1 /\ j # a + 1
  <2>1. from(i) < from(j)
    BY <1>1, <1>9, <1>12
  <2> QED BY <1>8, <1>12, <2>1
<1> QED BY <1>10, <1>11, <1>12

-----------------------------------------------------------------------------
(* The parts of the inductive invariant                                    *)

(* The lock and the loop; a tool holds the lock with high priority, so     *)
(* nobody raises the abort flag against it.                                *)
LockInv ==
    /\ RebuildHoldsLock
    /\ AbortTargetsRebuild
    /\ holder \notin {NoOwner, SyncOwner} => lockPriority = PriorityHigh

EmptyHanded == {"dequeue", "stopped", "finishRequeued", "idle"}

(* The queue, the loop's request and the outcomes.                         *)
QueueInv ==
    /\ QueueSorted
    /\ RequestAccounted
    /\ ActiveIsHeld
    /\ req = NoRequest <=> pc \in EmptyHanded
    /\ \A r \in TriggerRequests : createdAt[r] # 0 <=> triggerPc[r] = "done"

(* The status says "computing" only if a step that corrects it is still to *)
(* come: the loop's own, or the one a queued or coming request leads to.   *)
StatusInv ==
    /\ pc = "finishRequeued" => pending # <<>>
    /\ pc \in {"dequeue", "finishFailed", "finishRequeued"} /\ state = "computing"
        => pending # <<>> \/ \E r \in TriggerRequests : triggerPc[r] = "enqueue"

IInv == TypeOK /\ LockInv /\ QueueInv /\ StatusInv /\ NoStoreLeak

-----------------------------------------------------------------------------
(* Enqueue and Dequeue                                                     *)

LEMMA EnqueueProps ==
    ASSUME TypeOK, QueueSorted, RequestAccounted,
           NEW r \in Requests, ~Queued(r), Enqueue(r)
    PROVE  /\ pending' \in Seq(Requests) /\ pending' # <<>>
           /\ createdAt' \in [Requests -> Nat] /\ clock' \in Nat \ {0}
           /\ createdAt'[r] # 0 /\ \A x \in Requests \ {r} : createdAt'[x] = createdAt[x]
           /\ \A x \in Requests : Queued(x)' <=> (x = r \/ Queued(x))
           /\ \A i, j \in DOMAIN pending' : pending'[i] = pending'[j] => i = j
           /\ QueueSorted'
           /\ UNCHANGED <<active, lastError>>
<1>0. pending \in Seq(Requests) /\ createdAt \in [Requests -> Nat] /\ clock \in Nat \ {0}
  BY DEF TypeOK
<1>1. PICK now \in {clock, clock + 1} :
        /\ IF createdAt[r] = 0
           THEN clock' = now /\ createdAt' = [createdAt EXCEPT ![r] = now]
           ELSE now = clock /\ UNCHANGED <<clock, createdAt>>
        /\ pending' = Insert(createdAt', pending, r)
        /\ UNCHANGED <<active, lastError>>
  BY DEF Enqueue
<1>2. /\ createdAt' \in [Requests -> Nat] /\ clock' \in Nat \ {0}
      /\ createdAt'[r] # 0 /\ \A x \in Requests \ {r} : createdAt'[x] = createdAt[x]
  BY <1>0, <1>1
<1>3. /\ pending' \in Seq(Requests) /\ pending' # <<>>
      /\ \A x : (\E i \in DOMAIN pending' : pending'[i] = x)
                    <=> (x = r \/ \E i \in DOMAIN pending : pending[i] = x)
      /\ (/\ \A i, j \in DOMAIN pending : pending[i] = pending[j] => i = j
          /\ \A i \in DOMAIN pending : pending[i] # r)
         => \A i, j \in DOMAIN pending' : pending'[i] = pending'[j] => i = j
  <2> DEFINE p == Insert(createdAt', pending, r)
  <2>1. /\ p \in Seq(Requests) /\ p # <<>>
        /\ \A x : (\E i \in DOMAIN p : p[i] = x)
                      <=> (x = r \/ \E i \in DOMAIN pending : pending[i] = x)
        /\ (/\ \A i, j \in DOMAIN pending : pending[i] = pending[j] => i = j
            /\ \A i \in DOMAIN pending : pending[i] # r)
           => \A i, j \in DOMAIN p : p[i] = p[j] => i = j
    BY <1>0, InsertProps, Zenon
  <2>2. pending' = p
    BY <1>1
  <2> HIDE DEF p
  <2> QED BY <2>1, <2>2
<1>4. \A i, j \in DOMAIN pending' : pending'[i] = pending'[j] => i = j
  BY <1>3 DEF RequestAccounted, Queued
<1>5. \A i \in DOMAIN pending : pending[i] \in Requests /\ createdAt'[pending[i]] = createdAt[pending[i]]
  <2>1. \A i \in DOMAIN pending : pending[i] \in Requests
    BY <1>0
  <2>2. \A i \in DOMAIN pending : pending[i] # r
    BY DEF Queued
  <2> QED BY <1>2, <2>1, <2>2
<1>6. \A i, j \in DOMAIN pending : i < j => ~Before(createdAt', pending[j], pending[i])
  BY <1>5 DEF QueueSorted, Before
<1>7. \A i, j \in DOMAIN pending' : i < j => ~Before(createdAt', pending'[j], pending'[i])
  BY <1>0, <1>1, <1>2, <1>6, InsertSorts
<1> QED BY <1>1, <1>2, <1>3, <1>4, <1>7 DEF Queued, QueueSorted

LEMMA DequeueProps ==
    ASSUME TypeOK, QueueSorted, RequestAccounted, Dequeue
    PROVE  /\ pending' \in Seq(Requests)
           /\ Head(pending) \in Requests /\ Queued(Head(pending))
           /\ \A x \in Requests : Queued(x)' <=> (Queued(x) /\ x # Head(pending))
           /\ \A i, j \in DOMAIN pending' : pending'[i] = pending'[j] => i = j
           /\ QueueSorted'
           /\ active' = Head(pending)
           /\ UNCHANGED <<lastError, createdAt, clock>>
<1>0. pending \in Seq(Requests) /\ pending # <<>> /\ Len(pending) \in Nat
  BY DEF TypeOK, Dequeue
<1>1. /\ pending' = Tail(pending) /\ active' = Head(pending)
      /\ UNCHANGED <<lastError, createdAt, clock>>
  BY DEF Dequeue
<1>2. /\ pending' \in Seq(Requests) /\ Len(pending') = Len(pending) - 1
      /\ \A i \in 1..(Len(pending) - 1) : pending'[i] = pending[i + 1]
      /\ Head(pending) = pending[1] /\ 1 \in DOMAIN pending /\ pending[1] \in Requests
  BY <1>0, <1>1
<1>3. \A x \in Requests : Queued(x)' <=> (Queued(x) /\ x # Head(pending))
  <2> SUFFICES ASSUME NEW x \in Requests
               PROVE  (\E i \in DOMAIN pending' : pending'[i] = x)
                        <=> (Queued(x) /\ x # Head(pending))
    BY DEF Queued
  <2>1. ASSUME NEW i \in DOMAIN pending', pending'[i] = x
        PROVE  Queued(x) /\ x # Head(pending)
    <3>1. i + 1 \in DOMAIN pending /\ pending[i + 1] = x /\ i + 1 # 1
      BY <1>0, <1>2, <2>1
    <3> QED BY <1>2, <3>1 DEF Queued, RequestAccounted
  <2>2. ASSUME Queued(x), x # Head(pending)
        PROVE  \E i \in DOMAIN pending' : pending'[i] = x
    <3>1. PICK i \in DOMAIN pending : pending[i] = x
      BY <2>2 DEF Queued
    <3>2. i - 1 \in DOMAIN pending' /\ pending'[i - 1] = x
      BY <1>0, <1>2, <2>2, <3>1
    <3> QED BY <3>2
  <2> QED BY <2>1, <2>2
<1>4. \A i \in DOMAIN pending' : i \in Nat /\ i + 1 \in DOMAIN pending /\ pending'[i] = pending[i + 1]
  BY <1>0, <1>2
<1>5. \A i, j \in DOMAIN pending' : pending'[i] = pending'[j] => i = j
  <2> SUFFICES ASSUME NEW i \in DOMAIN pending', NEW j \in DOMAIN pending',
                      pending'[i] = pending'[j]
               PROVE  i = j
    OBVIOUS
  <2>1. i + 1 = j + 1
    BY <1>4 DEF RequestAccounted
  <2> QED BY <1>4, <2>1
<1>6. QueueSorted'
  <2> SUFFICES ASSUME NEW i \in DOMAIN pending', NEW j \in DOMAIN pending', i < j
               PROVE  ~Before(createdAt, pending'[j], pending'[i])
    BY <1>1 DEF QueueSorted
  <2>1. i + 1 < j + 1
    BY <1>4
  <2> QED BY <1>4, <2>1 DEF QueueSorted
<1>7. Queued(Head(pending))
  BY <1>2 DEF Queued
<1> QED BY <1>1, <1>2, <1>3, <1>5, <1>6, <1>7
-----------------------------------------------------------------------------
(* Each part is kept by every action                                       *)

LEMMA LockKept ==
    ASSUME IInv, Next
    PROVE  LockInv'
<1>0. LockInv /\ lockPriority \in Priorities /\ aborted \in BOOLEAN
  BY DEF IInv, TypeOK
<1> USE <1>0 DEF Priorities
<1>1. ASSUME backgroundBuildLoop, UNCHANGED callPc PROVE LockInv'
  <2>1. CASE LoopDequeue
    BY <1>1, <2>1 DEF LoopDequeue, Goto, mutexVars, LockInv, RebuildHoldsLock, AbortTargetsRebuild, Preempts, LockedAt, PriorityHigh, NoOwner, SyncOwner
  <2>2. CASE LoopStop
    BY <1>1, <2>2 DEF LoopStop, Goto, mutexVars, LockInv, RebuildHoldsLock, AbortTargetsRebuild, Preempts, LockedAt, PriorityHigh, NoOwner, SyncOwner
  <2>3. CASE LoopComputing
    BY <1>1, <2>3 DEF LoopComputing, Goto, mutexVars, LockInv, RebuildHoldsLock, AbortTargetsRebuild, Preempts, LockedAt, PriorityHigh, NoOwner, SyncOwner
  <2>4. CASE LoopTryLock
    <3>1. /\ holder # SyncOwner /\ ~aborted /\ pc = "tryLock"
          /\ TryLock(SyncOwner, RequestPriority(req))
          /\ pc' = IF Granted(SyncOwner) THEN "checkAborted" ELSE "requeue"
      BY <2>4 DEF LoopTryLock, LockInv, RebuildHoldsLock, AbortTargetsRebuild, LockedAt
    <3>2. CASE holder = NoOwner
      <4>1. holder' = SyncOwner /\ aborted' = FALSE /\ pc' = "checkAborted"
        BY <3>1, <3>2 DEF TryLock, Granted, NoOwner, SyncOwner
      <4> QED BY <4>1 DEF LockInv, RebuildHoldsLock, AbortTargetsRebuild, LockedAt
    <3>3. CASE holder # NoOwner
      <4>1. lockPriority = PriorityHigh
        BY <3>1, <3>3 DEF LockInv
      <4>2. ~Preempts(RequestPriority(req))
        BY <4>1 DEF Preempts, PriorityHigh
      <4>3. UNCHANGED <<holder, lockPriority, aborted>> /\ pc' = "requeue"
        BY <3>1, <3>3, <4>2 DEF TryLock, Granted
      <4> QED BY <3>1, <4>1, <4>3 DEF LockInv, RebuildHoldsLock, AbortTargetsRebuild, LockedAt
    <3> QED BY <3>2, <3>3
  <2>5. CASE LoopCheckAborted
    BY <1>1, <2>5 DEF LoopCheckAborted, Goto, mutexVars, LockInv, RebuildHoldsLock, AbortTargetsRebuild, Preempts, LockedAt, PriorityHigh, NoOwner, SyncOwner
  <2>6. CASE LoopUnlockPreempted
    BY <1>1, <2>6 DEF LoopUnlockPreempted, Goto, mutexVars, LockInv, RebuildHoldsLock, AbortTargetsRebuild, Preempts, LockedAt, PriorityHigh, NoOwner, SyncOwner, Unlock, PriorityLow
  <2>7. CASE LoopRequeue
    BY <1>1, <2>7 DEF LoopRequeue, Goto, mutexVars, LockInv, RebuildHoldsLock, AbortTargetsRebuild, Preempts, LockedAt, PriorityHigh, NoOwner, SyncOwner
  <2>8. CASE LoopFinishRequeued
    BY <1>1, <2>8 DEF LoopFinishRequeued, Goto, mutexVars, LockInv, RebuildHoldsLock, AbortTargetsRebuild, Preempts, LockedAt, PriorityHigh, NoOwner, SyncOwner
  <2>9. CASE RebuildLoad
    BY <1>1, <2>9 DEF RebuildLoad, Goto, mutexVars, LockInv, RebuildHoldsLock, AbortTargetsRebuild, Preempts, LockedAt, PriorityHigh, NoOwner, SyncOwner
  <2>10. CASE ComputeAndSnapshot
    BY <1>1, <2>10 DEF ComputeAndSnapshot, Goto, mutexVars, LockInv, RebuildHoldsLock, AbortTargetsRebuild, Preempts, LockedAt, PriorityHigh, NoOwner, SyncOwner
  <2>11. CASE RebuildSave
    BY <1>1, <2>11 DEF RebuildSave, Goto, mutexVars, LockInv, RebuildHoldsLock, AbortTargetsRebuild, Preempts, LockedAt, PriorityHigh, NoOwner, SyncOwner
  <2>12. CASE RebuildPublish
    BY <1>1, <2>12 DEF RebuildPublish, Goto, mutexVars, LockInv, RebuildHoldsLock, AbortTargetsRebuild, Preempts, LockedAt, PriorityHigh, NoOwner, SyncOwner
  <2>13. CASE LoopUnlock
    BY <1>1, <2>13 DEF LoopUnlock, Goto, mutexVars, LockInv, RebuildHoldsLock, AbortTargetsRebuild, Preempts, LockedAt, PriorityHigh, NoOwner, SyncOwner, Unlock, PriorityLow
  <2>14. CASE LoopFinish
    BY <1>1, <2>14 DEF LoopFinish, Goto, mutexVars, LockInv, RebuildHoldsLock, AbortTargetsRebuild, Preempts, LockedAt, PriorityHigh, NoOwner, SyncOwner
  <2>15. CASE LoopIdle
    BY <1>1, <2>15 DEF LoopIdle, Goto, mutexVars, LockInv, RebuildHoldsLock, AbortTargetsRebuild, Preempts, LockedAt, PriorityHigh, NoOwner, SyncOwner
  <2>16. CASE LoopUnlockFailed
    BY <1>1, <2>16 DEF LoopUnlockFailed, Goto, mutexVars, LockInv, RebuildHoldsLock, AbortTargetsRebuild, Preempts, LockedAt, PriorityHigh, NoOwner, SyncOwner, Unlock, PriorityLow
  <2>17. CASE LoopSetError
    BY <1>1, <2>17 DEF LoopSetError, Goto, mutexVars, LockInv, RebuildHoldsLock, AbortTargetsRebuild, Preempts, LockedAt, PriorityHigh, NoOwner, SyncOwner
  <2>18. CASE LoopFinishFailed
    BY <1>1, <2>18 DEF LoopFinishFailed, Goto, mutexVars, LockInv, RebuildHoldsLock, AbortTargetsRebuild, Preempts, LockedAt, PriorityHigh, NoOwner, SyncOwner
  <2> QED BY <1>1, <2>1, <2>2, <2>3, <2>4, <2>5, <2>6, <2>7, <2>8, <2>9, <2>10, <2>11, <2>12, <2>13, <2>14, <2>15, <2>16, <2>17, <2>18 DEF backgroundBuildLoop
<1>2. ASSUME NEW r \in TriggerRequests, TriggerStatus(r), UNCHANGED callPc PROVE LockInv'
  BY <1>2 DEF TriggerStatus, Goto, mutexVars, LockInv, RebuildHoldsLock, AbortTargetsRebuild, Preempts, LockedAt, PriorityHigh, NoOwner, SyncOwner
<1>3. ASSUME NEW r \in TriggerRequests, TriggerEnqueue(r), UNCHANGED callPc PROVE LockInv'
  BY <1>3 DEF TriggerEnqueue, Goto, mutexVars, LockInv, RebuildHoldsLock, AbortTargetsRebuild, Preempts, LockedAt, PriorityHigh, NoOwner, SyncOwner
<1>4. ASSUME NEW r \in WatcherRequests, WatcherEnqueue(r), UNCHANGED callPc PROVE LockInv'
  BY <1>4 DEF WatcherEnqueue, Goto, mutexVars, LockInv, RebuildHoldsLock, AbortTargetsRebuild, Preempts, LockedAt, PriorityHigh, NoOwner, SyncOwner, syncVars
<1>5. ASSUME Pause, UNCHANGED callPc PROVE LockInv'
  BY <1>5 DEF Pause, Goto, mutexVars, LockInv, RebuildHoldsLock, AbortTargetsRebuild, Preempts, LockedAt, PriorityHigh, NoOwner, SyncOwner
<1>6. ASSUME Resume, UNCHANGED callPc PROVE LockInv'
  BY <1>6 DEF Resume, Goto, mutexVars, LockInv, RebuildHoldsLock, AbortTargetsRebuild, Preempts, LockedAt, PriorityHigh, NoOwner, SyncOwner
<1>7. ASSUME Cancel, UNCHANGED callPc PROVE LockInv'
  BY <1>7 DEF Cancel, Goto, mutexVars, LockInv, RebuildHoldsLock, AbortTargetsRebuild, Preempts, LockedAt, PriorityHigh, NoOwner, SyncOwner
<1>8. ASSUME NEW c \in Calls, beginSlowPath(c), UNCHANGED <<queueVars, syncVars>> PROVE LockInv'
  <2>0. Tool[c] # NoOwner /\ Tool[c] # SyncOwner /\ UNCHANGED pc /\ TryLock(Tool[c], PriorityHigh)
    BY <1>8, ToolAssumption DEF beginSlowPath, syncVars, NoOwner, SyncOwner
  <2>1. CASE holder = NoOwner
    <3>1. holder' = Tool[c] /\ lockPriority' = PriorityHigh /\ aborted' = FALSE
      BY <2>0, <2>1 DEF TryLock, Granted
    <3>2. pc \notin LockedAt
      BY <2>1 DEF LockInv, RebuildHoldsLock, NoOwner, SyncOwner
    <3> QED BY <2>0, <3>1, <3>2 DEF LockInv, RebuildHoldsLock, AbortTargetsRebuild
  <2>2. CASE holder = Tool[c]
    <3>1. UNCHANGED mutexVars
      BY <2>0, <2>2 DEF TryLock, Granted
    <3> QED BY <2>0, <3>1 DEF mutexVars, LockInv, RebuildHoldsLock, AbortTargetsRebuild, Preempts
  <2>3. CASE ~Granted(Tool[c])
    <3>1. /\ UNCHANGED <<holder, lockPriority>> /\ holder # NoOwner
          /\ IF Preempts(PriorityHigh) THEN aborted' = TRUE ELSE UNCHANGED aborted
      BY <2>0, <2>3 DEF TryLock, Granted
    <3>2. Preempts(PriorityHigh) => holder = SyncOwner
      BY <3>1 DEF LockInv, Preempts, PriorityHigh
    <3>3. Preempts(PriorityHigh)' <=> Preempts(PriorityHigh)
      BY <3>1 DEF Preempts
    <3>4. AbortTargetsRebuild'
      BY <3>1, <3>2, <3>3 DEF LockInv, AbortTargetsRebuild
    <3> QED BY <2>0, <3>1, <3>4 DEF LockInv, RebuildHoldsLock
  <2> QED BY <2>0, <2>1, <2>2, <2>3 DEF TryLock
<1>9. ASSUME NEW c \in Calls, endSlowPath(c), UNCHANGED <<queueVars, syncVars>> PROVE LockInv'
  BY <1>9, ToolAssumption DEF endSlowPath, Goto, mutexVars, LockInv, RebuildHoldsLock, AbortTargetsRebuild, Preempts, LockedAt, PriorityHigh, NoOwner, SyncOwner, Unlock, PriorityLow, syncVars
<1> QED BY <1>1, <1>2, <1>3, <1>4, <1>5, <1>6, <1>7, <1>8, <1>9 DEF Next, Background, Foreground

LEMMA StoreKept ==
    ASSUME IInv, Next
    PROVE  NoStoreLeak'
<1>0. NoStoreLeak /\ builderStore \in {"nil", "open", "closed"}
  BY DEF IInv, TypeOK
<1> USE <1>0
<1>1. ASSUME backgroundBuildLoop, UNCHANGED callPc PROVE NoStoreLeak'
  <2>1. CASE LoopDequeue
    BY <1>1, <2>1 DEF LoopDequeue, Goto, NoStoreLeak
  <2>2. CASE LoopStop
    BY <1>1, <2>2 DEF LoopStop, Goto, NoStoreLeak
  <2>3. CASE LoopComputing
    BY <1>1, <2>3 DEF LoopComputing, Goto, NoStoreLeak
  <2>4. CASE LoopTryLock
    BY <1>1, <2>4 DEF LoopTryLock, Goto, NoStoreLeak
  <2>5. CASE LoopCheckAborted
    BY <1>1, <2>5 DEF LoopCheckAborted, Goto, NoStoreLeak
  <2>6. CASE LoopUnlockPreempted
    BY <1>1, <2>6 DEF LoopUnlockPreempted, Goto, NoStoreLeak
  <2>7. CASE LoopRequeue
    BY <1>1, <2>7 DEF LoopRequeue, Goto, NoStoreLeak
  <2>8. CASE LoopFinishRequeued
    BY <1>1, <2>8 DEF LoopFinishRequeued, Goto, NoStoreLeak
  <2>9. CASE RebuildLoad
    BY <1>1, <2>9 DEF RebuildLoad, Goto, NoStoreLeak
  <2>10. CASE ComputeAndSnapshot
    BY <1>1, <2>10 DEF ComputeAndSnapshot, Goto, NoStoreLeak, DeferredClose
  <2>11. CASE RebuildSave
    BY <1>1, <2>11 DEF RebuildSave, Goto, NoStoreLeak, DeferredClose
  <2>12. CASE RebuildPublish
    BY <1>1, <2>12 DEF RebuildPublish, Goto, NoStoreLeak, DeferredClose
  <2>13. CASE LoopUnlock
    BY <1>1, <2>13 DEF LoopUnlock, Goto, NoStoreLeak
  <2>14. CASE LoopFinish
    BY <1>1, <2>14 DEF LoopFinish, Goto, NoStoreLeak
  <2>15. CASE LoopIdle
    BY <1>1, <2>15 DEF LoopIdle, Goto, NoStoreLeak
  <2>16. CASE LoopUnlockFailed
    BY <1>1, <2>16 DEF LoopUnlockFailed, Goto, NoStoreLeak
  <2>17. CASE LoopSetError
    BY <1>1, <2>17 DEF LoopSetError, Goto, NoStoreLeak
  <2>18. CASE LoopFinishFailed
    BY <1>1, <2>18 DEF LoopFinishFailed, Goto, NoStoreLeak
  <2> QED BY <1>1, <2>1, <2>2, <2>3, <2>4, <2>5, <2>6, <2>7, <2>8, <2>9, <2>10, <2>11, <2>12, <2>13, <2>14, <2>15, <2>16, <2>17, <2>18 DEF backgroundBuildLoop
<1>2. ASSUME NEW r \in TriggerRequests, TriggerStatus(r), UNCHANGED callPc PROVE NoStoreLeak'
  BY <1>2 DEF TriggerStatus, Goto, NoStoreLeak
<1>3. ASSUME NEW r \in TriggerRequests, TriggerEnqueue(r), UNCHANGED callPc PROVE NoStoreLeak'
  BY <1>3 DEF TriggerEnqueue, Goto, NoStoreLeak
<1>4. ASSUME NEW r \in WatcherRequests, WatcherEnqueue(r), UNCHANGED callPc PROVE NoStoreLeak'
  BY <1>4 DEF WatcherEnqueue, Goto, NoStoreLeak, syncVars
<1>5. ASSUME Pause, UNCHANGED callPc PROVE NoStoreLeak'
  BY <1>5 DEF Pause, Goto, NoStoreLeak
<1>6. ASSUME Resume, UNCHANGED callPc PROVE NoStoreLeak'
  BY <1>6 DEF Resume, Goto, NoStoreLeak
<1>7. ASSUME Cancel, UNCHANGED callPc PROVE NoStoreLeak'
  BY <1>7 DEF Cancel, Goto, NoStoreLeak
<1>8. ASSUME NEW c \in Calls, beginSlowPath(c), UNCHANGED <<queueVars, syncVars>> PROVE NoStoreLeak'
  BY <1>8, ToolAssumption DEF beginSlowPath, Goto, NoStoreLeak, syncVars
<1>9. ASSUME NEW c \in Calls, endSlowPath(c), UNCHANGED <<queueVars, syncVars>> PROVE NoStoreLeak'
  BY <1>9, ToolAssumption DEF endSlowPath, Goto, NoStoreLeak, syncVars
<1> QED BY <1>1, <1>2, <1>3, <1>4, <1>5, <1>6, <1>7, <1>8, <1>9 DEF Next, Background, Foreground

LEMMA QueueUntouched ==
    ASSUME QueueInv, UNCHANGED <<pending, active, createdAt, outcome, req, triggerPc>>,
           pc \in EmptyHanded <=> pc' \in EmptyHanded
    PROVE  QueueInv'
BY DEF QueueInv, QueueSorted, RequestAccounted, ActiveIsHeld, Queued

LEMMA QueueKept ==
    ASSUME IInv, Next
    PROVE  QueueInv'
<1>0. TypeOK /\ QueueInv /\ QueueSorted /\ RequestAccounted
  BY DEF IInv, QueueInv
<1>t. /\ req \in Requests \cup {NoRequest} /\ NoRequest \notin Requests
      /\ outcome \in [Requests -> {"none", "done", "failed"}]
      /\ triggerPc \in [TriggerRequests -> {"idle", "enqueue", "done"}]
      /\ TriggerRequests \subseteq Requests /\ WatcherRequests \subseteq Requests
      /\ TriggerRequests \cap WatcherRequests = {}
  BY <1>0, RequestsAssumption DEF TypeOK, Requests
<1>1. ASSUME backgroundBuildLoop, UNCHANGED callPc PROVE QueueInv'
  <2>1. CASE LoopDequeue
    <3>1. /\ pc = "dequeue" /\ pc' = "computing" /\ Dequeue /\ req' = Head(pending)
          /\ UNCHANGED <<outcome, triggerPc>>
      BY <2>1 DEF LoopDequeue, Goto
    <3>2. /\ Head(pending) \in Requests /\ Queued(Head(pending))
          /\ \A x \in Requests : Queued(x)' <=> (Queued(x) /\ x # Head(pending))
          /\ \A i, j \in DOMAIN pending' : pending'[i] = pending'[j] => i = j
          /\ QueueSorted' /\ active' = Head(pending) /\ UNCHANGED createdAt
      BY <1>0, <3>1, DequeueProps
    <3>3. req = NoRequest
      BY <1>0, <3>1 DEF QueueInv, EmptyHanded
    <3>4. RequestAccounted'
      BY <1>0, <1>t, <3>1, <3>2, <3>3 DEF RequestAccounted
    <3> QED BY <1>0, <1>t, <3>1, <3>2, <3>4 DEF QueueInv, ActiveIsHeld, EmptyHanded
  <2>2. CASE LoopRequeue
    <3>1. /\ pc = "requeue" /\ pc' = "finishRequeued" /\ Enqueue(req) /\ req' = NoRequest
          /\ UNCHANGED <<outcome, triggerPc>>
      BY <2>2 DEF LoopRequeue, Goto
    <3>2. req \in Requests /\ ~Queued(req)
      BY <1>0, <1>t, <3>1 DEF QueueInv, EmptyHanded, RequestAccounted
    <3>3. /\ createdAt'[req] # 0
          /\ \A x \in Requests \ {req} : createdAt'[x] = createdAt[x]
          /\ \A x \in Requests : Queued(x)' <=> (x = req \/ Queued(x))
          /\ \A i, j \in DOMAIN pending' : pending'[i] = pending'[j] => i = j
          /\ QueueSorted'
      BY <1>0, <3>1, <3>2, EnqueueProps
    <3>4. createdAt[req] # 0 /\ outcome[req] = "none"
      BY <1>0, <3>2 DEF RequestAccounted
    <3>5. RequestAccounted'
      BY <1>0, <1>t, <3>1, <3>2, <3>3, <3>4 DEF RequestAccounted
    <3>6. \A x \in TriggerRequests : createdAt'[x] # 0 <=> triggerPc'[x] = "done"
      BY <1>0, <1>t, <3>1, <3>2, <3>3, <3>4 DEF QueueInv
    <3> QED BY <3>1, <3>3, <3>5, <3>6 DEF QueueInv, ActiveIsHeld, EmptyHanded
  <2>3. CASE LoopFinishRequeued
    <3>1. /\ pc = "finishRequeued" /\ pc' = "dequeue"
          /\ UNCHANGED <<pending, createdAt, req, outcome, triggerPc>>
      BY <2>3 DEF LoopFinishRequeued, Goto, finishActive
    <3>2. req = NoRequest
      BY <1>0, <3>1 DEF QueueInv, EmptyHanded
    <3> QED BY <1>0, <3>1, <3>2 DEF QueueInv, QueueSorted, RequestAccounted, ActiveIsHeld,
                                   Queued, EmptyHanded
  <2>4. ASSUME LoopFinish \/ LoopFinishFailed PROVE QueueInv'
    <3>1. /\ pc \notin EmptyHanded /\ pc' \in EmptyHanded /\ req' = NoRequest
          /\ outcome' \in {[outcome EXCEPT ![req] = "done"], [outcome EXCEPT ![req] = "failed"]}
          /\ UNCHANGED <<pending, createdAt, triggerPc>>
      BY <2>4 DEF LoopFinish, LoopFinishFailed, Goto, finishActive, EmptyHanded
    <3>2. req \in Requests /\ ~Queued(req) /\ createdAt[req] # 0
      BY <1>0, <1>t, <3>1 DEF QueueInv, RequestAccounted
    <3>3. outcome'[req] # "none" /\ \A x \in Requests \ {req} : outcome'[x] = outcome[x]
      BY <1>t, <3>1, <3>2
    <3>4. \A x : Queued(x)' <=> Queued(x)
      BY <3>1 DEF Queued
    <3>5. RequestAccounted'
      BY <1>0, <1>t, <3>1, <3>2, <3>3, <3>4 DEF RequestAccounted
    <3>6. QueueSorted'
      BY <1>0, <3>1 DEF QueueSorted
    <3> QED BY <1>0, <3>1, <3>5, <3>6 DEF QueueInv, ActiveIsHeld
  <2>5. CASE LoopStop
    BY <1>0, <2>5, QueueUntouched DEF LoopStop, Goto, queueVars, EmptyHanded
  <2>6. CASE LoopComputing
    BY <1>0, <2>6, QueueUntouched DEF LoopComputing, Goto, queueVars, EmptyHanded
  <2>7. CASE LoopTryLock
    BY <1>0, <2>7, QueueUntouched DEF LoopTryLock, Goto, queueVars, EmptyHanded
  <2>8. CASE LoopCheckAborted
    BY <1>0, <2>8, QueueUntouched DEF LoopCheckAborted, Goto, queueVars, EmptyHanded
  <2>9. CASE LoopUnlockPreempted
    BY <1>0, <2>9, QueueUntouched DEF LoopUnlockPreempted, Goto, queueVars, EmptyHanded
  <2>10. CASE RebuildLoad
    BY <1>0, <2>10, QueueUntouched DEF RebuildLoad, Goto, queueVars, EmptyHanded
  <2>11. CASE ComputeAndSnapshot
    BY <1>0, <2>11, QueueUntouched DEF ComputeAndSnapshot, Goto, queueVars, EmptyHanded
  <2>12. CASE RebuildSave
    BY <1>0, <2>12, QueueUntouched DEF RebuildSave, Goto, queueVars, EmptyHanded
  <2>13. CASE RebuildPublish
    BY <1>0, <2>13, QueueUntouched DEF RebuildPublish, Goto, queueVars, EmptyHanded
  <2>14. CASE LoopUnlock
    BY <1>0, <2>14, QueueUntouched DEF LoopUnlock, Goto, queueVars, EmptyHanded
  <2>15. CASE LoopIdle
    BY <1>0, <2>15, QueueUntouched DEF LoopIdle, Goto, queueVars, EmptyHanded
  <2>16. CASE LoopUnlockFailed
    BY <1>0, <2>16, QueueUntouched DEF LoopUnlockFailed, Goto, queueVars, EmptyHanded
  <2>17. CASE LoopSetError
    BY <1>0, <2>17, QueueUntouched DEF LoopSetError, setError, Goto, queueVars, EmptyHanded
  <2> QED BY <1>1, <2>1, <2>2, <2>3, <2>4, <2>5, <2>6, <2>7, <2>8, <2>9, <2>10, <2>11, <2>12, <2>13, <2>14, <2>15, <2>16, <2>17 DEF backgroundBuildLoop
<1>2. ASSUME NEW r \in TriggerRequests, TriggerStatus(r) PROVE QueueInv'
  <2>1. /\ triggerPc[r] = "idle" /\ triggerPc' = [triggerPc EXCEPT ![r] = "enqueue"]
        /\ UNCHANGED <<pending, active, createdAt, outcome, req, pc>>
    BY <1>2 DEF TriggerStatus, queueVars
  <2>2. \A x \in TriggerRequests : createdAt'[x] # 0 <=> triggerPc'[x] = "done"
    BY <1>0, <1>t, <2>1 DEF QueueInv
  <2> QED BY <1>0, <2>1, <2>2 DEF QueueInv, QueueSorted, RequestAccounted, ActiveIsHeld, Queued
<1>3. ASSUME NEW r \in Requests, createdAt[r] = 0, Enqueue(r),
             UNCHANGED <<pc, req, outcome>>,
             \A x \in TriggerRequests \ {r} : triggerPc'[x] = triggerPc[x],
             r \in TriggerRequests => triggerPc'[r] = "done"
      PROVE  QueueInv'
  <2>1. ~Queued(r) /\ req # r /\ outcome[r] = "none"
    BY <1>0, <1>3 DEF RequestAccounted
  <2>2. /\ createdAt'[r] # 0
        /\ \A x \in Requests \ {r} : createdAt'[x] = createdAt[x]
        /\ \A x \in Requests : Queued(x)' <=> (x = r \/ Queued(x))
        /\ \A i, j \in DOMAIN pending' : pending'[i] = pending'[j] => i = j
        /\ QueueSorted' /\ UNCHANGED active
    BY <1>0, <1>3, <2>1, EnqueueProps
  <2>3. RequestAccounted'
    BY <1>0, <1>3, <2>1, <2>2 DEF RequestAccounted
  <2>4. \A x \in TriggerRequests : createdAt'[x] # 0 <=> triggerPc'[x] = "done"
    BY <1>0, <1>t, <1>3, <2>2 DEF QueueInv
  <2> QED BY <1>0, <1>3, <2>2, <2>3, <2>4 DEF QueueInv, ActiveIsHeld
<1>4. ASSUME NEW r \in TriggerRequests, TriggerEnqueue(r) PROVE QueueInv'
  <2>1. /\ triggerPc[r] = "enqueue" /\ triggerPc' = [triggerPc EXCEPT ![r] = "done"]
        /\ Enqueue(r) /\ UNCHANGED <<pc, req, outcome>>
    BY <1>4 DEF TriggerEnqueue
  <2>2. createdAt[r] = 0
    BY <1>0, <2>1 DEF QueueInv
  <2> QED BY <1>3, <1>t, <2>1, <2>2
<1>5. ASSUME NEW r \in WatcherRequests, WatcherEnqueue(r) PROVE QueueInv'
  <2>1. createdAt[r] = 0 /\ Enqueue(r) /\ UNCHANGED <<pc, req, outcome, triggerPc>>
    BY <1>5 DEF WatcherEnqueue, syncVars
  <2> QED BY <1>3, <1>t, <2>1
<1>6. ASSUME Pause \/ Resume \/ Cancel PROVE QueueInv'
  BY <1>0, <1>6, QueueUntouched DEF Pause, Resume, Cancel, queueVars
<1>7. ASSUME UNCHANGED <<queueVars, syncVars>> PROVE QueueInv'
  BY <1>0, <1>7, QueueUntouched DEF queueVars, syncVars
<1> QED BY <1>1, <1>2, <1>4, <1>5, <1>6, <1>7 DEF Next, Background, Foreground

LEMMA StatusKept ==
    ASSUME IInv, Next
    PROVE  StatusInv'
<1>0. TypeOK /\ QueueInv /\ StatusInv /\ QueueSorted /\ RequestAccounted
  BY DEF IInv, QueueInv
<1>t. /\ req \in Requests \cup {NoRequest} /\ NoRequest \notin Requests
      /\ triggerPc \in [TriggerRequests -> {"idle", "enqueue", "done"}]
      /\ TriggerRequests \subseteq Requests /\ WatcherRequests \subseteq Requests
  BY <1>0, RequestsAssumption DEF TypeOK, Requests
<1>1. ASSUME backgroundBuildLoop PROVE StatusInv'
  <2>1. CASE LoopRequeue
    <3>1. Enqueue(req) /\ req \in Requests /\ ~Queued(req)
      BY <1>0, <1>t, <2>1 DEF LoopRequeue, Goto, QueueInv, EmptyHanded, RequestAccounted
    <3>2. pending' # <<>>
      BY <1>0, <3>1, EnqueueProps
    <3> QED BY <3>2 DEF StatusInv
  <2>2. CASE LoopFinishRequeued
    BY <1>0, <2>2 DEF LoopFinishRequeued, Goto, finishActive, StatusInv
  <2>3. CASE LoopFinishFailed
    BY <1>0, <2>3 DEF LoopFinishFailed, Goto, finishActive, StatusInv
  <2>4. CASE LoopSetError
    BY <2>4 DEF LoopSetError, Goto, StatusInv
  <2>5. CASE LoopIdle
    BY <2>5 DEF LoopIdle, Goto, StatusInv
  <2>6. CASE LoopDequeue
    BY <2>6 DEF LoopDequeue, Goto, StatusInv
  <2>7. CASE LoopStop
    BY <2>7 DEF LoopStop, Goto, StatusInv
  <2>8. CASE LoopComputing
    BY <2>8 DEF LoopComputing, Goto, StatusInv
  <2>9. CASE LoopTryLock
    BY <2>9 DEF LoopTryLock, Goto, StatusInv
  <2>10. CASE LoopCheckAborted
    BY <2>10 DEF LoopCheckAborted, Goto, StatusInv
  <2>11. CASE LoopUnlockPreempted
    BY <2>11 DEF LoopUnlockPreempted, Goto, StatusInv
  <2>12. CASE RebuildLoad
    BY <2>12 DEF RebuildLoad, Goto, StatusInv
  <2>13. CASE ComputeAndSnapshot
    BY <2>13 DEF ComputeAndSnapshot, Goto, StatusInv
  <2>14. CASE RebuildSave
    BY <2>14 DEF RebuildSave, Goto, StatusInv
  <2>15. CASE RebuildPublish
    BY <2>15 DEF RebuildPublish, Goto, StatusInv
  <2>16. CASE LoopUnlock
    BY <2>16 DEF LoopUnlock, Goto, StatusInv
  <2>17. CASE LoopFinish
    BY <2>17 DEF LoopFinish, Goto, StatusInv
  <2>18. CASE LoopUnlockFailed
    BY <2>18 DEF LoopUnlockFailed, Goto, StatusInv
  <2> QED BY <1>1, <2>1, <2>2, <2>3, <2>4, <2>5, <2>6, <2>7, <2>8, <2>9, <2>10, <2>11, <2>12, <2>13, <2>14, <2>15, <2>16, <2>17, <2>18 DEF backgroundBuildLoop
<1>2. ASSUME NEW r \in TriggerRequests, TriggerStatus(r) PROVE StatusInv'
  <2>1. triggerPc'[r] = "enqueue" /\ UNCHANGED <<pending, pc>>
    BY <1>t, <1>2 DEF TriggerStatus, queueVars
  <2> QED BY <1>0, <2>1 DEF StatusInv
<1>3. ASSUME NEW r \in Requests, Enqueue(r), createdAt[r] = 0 PROVE StatusInv'
  <2>1. ~Queued(r)
    BY <1>0, <1>3 DEF RequestAccounted
  <2>2. pending' # <<>>
    BY <1>0, <1>3, <2>1, EnqueueProps
  <2> QED BY <2>2 DEF StatusInv
<1>4. ASSUME NEW r \in TriggerRequests, TriggerEnqueue(r) PROVE StatusInv'
  BY <1>0, <1>t, <1>3, <1>4 DEF TriggerEnqueue, QueueInv
<1>5. ASSUME NEW r \in WatcherRequests, WatcherEnqueue(r) PROVE StatusInv'
  BY <1>t, <1>3, <1>5 DEF WatcherEnqueue
<1>6. ASSUME Pause \/ Resume PROVE StatusInv'
  BY <1>0, <1>6 DEF Pause, Resume, queueVars, StatusInv
<1>7. ASSUME Cancel \/ UNCHANGED <<queueVars, syncVars>> PROVE StatusInv'
  BY <1>0, <1>7 DEF Cancel, queueVars, syncVars, StatusInv
<1> QED BY <1>1, <1>2, <1>4, <1>5, <1>6, <1>7 DEF Next, Background, Foreground

(* TypeOK, one part after the other                                        *)

LEMMA QueueTypeKept ==
    ASSUME IInv, Next
    PROVE  /\ pending' \in Seq(Requests)
           /\ active' \in Requests \cup {NoRequest}
           /\ lastError' \in Requests \cup {NoRequest}
           /\ createdAt' \in [Requests -> Nat]
           /\ clock' \in Nat \ {0}
<1> DEFINE QT == /\ pending \in Seq(Requests)
                 /\ active \in Requests \cup {NoRequest}
                 /\ lastError \in Requests \cup {NoRequest}
                 /\ createdAt \in [Requests -> Nat]
                 /\ clock \in Nat \ {0}
<1>0. TypeOK /\ QueueInv /\ QueueSorted /\ RequestAccounted /\ QT
  BY DEF IInv, QueueInv, TypeOK
<1>t. /\ req \in Requests \cup {NoRequest} /\ NoRequest \notin Requests
      /\ TriggerRequests \subseteq Requests /\ WatcherRequests \subseteq Requests
  BY <1>0, RequestsAssumption DEF TypeOK, Requests
<1>1. ASSUME UNCHANGED queueVars PROVE QT'
  BY <1>0, <1>1 DEF queueVars
<1>2. ASSUME NEW r \in Requests, ~Queued(r), Enqueue(r) PROVE QT'
  BY <1>0, <1>2, EnqueueProps
<1>3. ASSUME Dequeue PROVE QT'
  BY <1>0, <1>3, DequeueProps
<1>4. ASSUME finishActive \/ setError(req) PROVE QT'
  BY <1>0, <1>t, <1>4 DEF finishActive, setError
<1>5. ASSUME LoopRequeue PROVE QT'
  <2>1. Enqueue(req) /\ req \in Requests /\ ~Queued(req)
    BY <1>0, <1>t, <1>5 DEF LoopRequeue, Goto, QueueInv, EmptyHanded, RequestAccounted
  <2> QED BY <1>2, <2>1
<1>6. ASSUME NEW r \in Requests, createdAt[r] = 0, Enqueue(r) PROVE QT'
  <2>1. ~Queued(r)
    BY <1>0, <1>6 DEF RequestAccounted
  <2> QED BY <1>2, <1>6, <2>1
<1>7. ASSUME NEW r \in TriggerRequests, TriggerEnqueue(r) PROVE QT'
  <2>1. r \in Requests /\ createdAt[r] = 0 /\ Enqueue(r)
    BY <1>0, <1>t, <1>7 DEF TriggerEnqueue, QueueInv
  <2> QED BY <1>6, <2>1
<1>8. ASSUME NEW r \in WatcherRequests, WatcherEnqueue(r) PROVE QT'
  <2>1. r \in Requests /\ createdAt[r] = 0 /\ Enqueue(r)
    BY <1>t, <1>8 DEF WatcherEnqueue
  <2> QED BY <1>6, <2>1
<1>9. ASSUME backgroundBuildLoop PROVE QT'
  <2>1. LoopRequeue \/ Dequeue \/ finishActive \/ setError(req) \/ UNCHANGED queueVars
    BY <1>9 DEF backgroundBuildLoop, LoopDequeue, LoopStop, LoopComputing, LoopTryLock,
                LoopCheckAborted, LoopUnlockPreempted, LoopFinishRequeued, RebuildLoad,
                ComputeAndSnapshot, RebuildSave, RebuildPublish, LoopUnlock, LoopFinish,
                LoopIdle, LoopUnlockFailed, LoopSetError, LoopFinishFailed
  <2> HIDE DEF QT
  <2> QED BY <1>1, <1>3, <1>4, <1>5, <2>1
<1>10. ASSUME Pause \/ Resume \/ Cancel \/ \E r \in TriggerRequests : TriggerStatus(r)
       PROVE QT'
  <2>1. UNCHANGED queueVars
    BY <1>10 DEF Pause, Resume, Cancel, TriggerStatus
  <2> QED BY <1>1, <2>1
<1>11. QT'
  <2> HIDE DEF QT
  <2> QED BY <1>1, <1>7, <1>8, <1>9, <1>10 DEF Next, Background, Foreground
<1> QED BY <1>11

LEMMA LockTypeKept ==
    ASSUME IInv, Next
    PROVE  /\ holder' \in {NoOwner, SyncOwner} \cup {Tool[c] : c \in Calls}
           /\ lockPriority' \in Priorities
           /\ aborted' \in BOOLEAN
<1> DEFINE LT == /\ holder \in {NoOwner, SyncOwner} \cup {Tool[c] : c \in Calls}
                 /\ lockPriority \in Priorities
                 /\ aborted \in BOOLEAN
<1>0. LT
  BY DEF IInv, TypeOK
<1>1. ASSUME UNCHANGED mutexVars PROVE LT'
  BY <1>0, <1>1 DEF mutexVars
<1>2. ASSUME NEW o \in {NoOwner, SyncOwner} \cup {Tool[c] : c \in Calls},
             NEW p \in Priorities, TryLock(o, p)
      PROVE  LT'
  <2>1. CASE holder' = o /\ lockPriority' = p /\ aborted' = FALSE
    BY <1>2, <2>1
  <2>2. CASE UNCHANGED <<holder, lockPriority>> /\ aborted' = TRUE
    BY <1>0, <2>2
  <2> QED BY <1>1, <1>2, <2>1, <2>2 DEF TryLock, mutexVars
<1>3. ASSUME NEW o, Unlock(o) PROVE LT'
  <2>1. CASE holder' = NoOwner /\ lockPriority' = PriorityLow /\ aborted' = FALSE
    BY <2>1 DEF Priorities
  <2> QED BY <1>1, <1>3, <2>1 DEF Unlock
<1>4. RequestPriority(req) \in Priorities /\ PriorityHigh \in Priorities
  BY DEF RequestPriority, Priorities
<1>5. ASSUME backgroundBuildLoop PROVE LT'
  <2>1. TryLock(SyncOwner, RequestPriority(req)) \/ Unlock(SyncOwner) \/ UNCHANGED mutexVars
    BY <1>5 DEF backgroundBuildLoop, LoopDequeue, LoopStop, LoopComputing, LoopTryLock,
                LoopCheckAborted, LoopUnlockPreempted, LoopRequeue, LoopFinishRequeued,
                RebuildLoad, ComputeAndSnapshot, RebuildSave, RebuildPublish, LoopUnlock,
                LoopFinish, LoopIdle, LoopUnlockFailed, LoopSetError, LoopFinishFailed
  <2> HIDE DEF LT
  <2> QED BY <1>1, <1>2, <1>3, <1>4, <2>1
<1>6. ASSUME NEW c \in Calls, beginSlowPath(c) \/ endSlowPath(c) PROVE LT'
  <2>1. TryLock(Tool[c], PriorityHigh) \/ Unlock(Tool[c])
    BY <1>6 DEF beginSlowPath, endSlowPath
  <2> HIDE DEF LT
  <2> QED BY <1>2, <1>3, <1>4, <2>1
<1>7. ASSUME \/ Pause \/ Resume \/ Cancel
             \/ \E r \in TriggerRequests : TriggerStatus(r) \/ TriggerEnqueue(r)
             \/ \E r \in WatcherRequests : WatcherEnqueue(r)
      PROVE  LT'
  <2>1. UNCHANGED mutexVars
    BY <1>7 DEF Pause, Resume, Cancel, TriggerStatus, TriggerEnqueue, WatcherEnqueue
  <2> QED BY <1>1, <2>1
<1>8. LT'
  <2> HIDE DEF LT
  <2> QED BY <1>5, <1>6, <1>7 DEF Next, Background, Foreground
<1> QED BY <1>8

LEMMA SyncTypeKept ==
    ASSUME IInv, Next
    PROVE  /\ state' \in States
           /\ pc' \in Labels
           /\ req' \in Requests \cup {NoRequest}
           /\ builderStore' \in {"nil", "open", "closed"}
           /\ triggerPc' \in [TriggerRequests -> {"idle", "enqueue", "done"}]
           /\ cancelled' \in BOOLEAN
           /\ outcome' \in [Requests -> {"none", "done", "failed"}]
           /\ callPc' \in [Calls -> CallLabels]
<1>0. /\ TypeOK /\ QueueInv /\ QueueSorted /\ RequestAccounted
      /\ state \in States /\ pc \in Labels /\ req \in Requests \cup {NoRequest}
      /\ builderStore \in {"nil", "open", "closed"}
      /\ triggerPc \in [TriggerRequests -> {"idle", "enqueue", "done"}]
      /\ cancelled \in BOOLEAN
      /\ outcome \in [Requests -> {"none", "done", "failed"}]
      /\ callPc \in [Calls -> CallLabels]
  BY DEF IInv, QueueInv, TypeOK
<1>1. state' \in States
  <2>1. state' \in {"idle", "computing", "paused", "error"} \/ UNCHANGED state
    BY DEF Next, Background, Foreground, backgroundBuildLoop, LoopDequeue, LoopStop,
           LoopComputing, LoopTryLock, LoopCheckAborted, LoopUnlockPreempted, LoopRequeue,
           LoopFinishRequeued, RebuildLoad, ComputeAndSnapshot, RebuildSave, RebuildPublish,
           LoopUnlock, LoopFinish, LoopIdle, LoopUnlockFailed, LoopSetError,
           LoopFinishFailed, TriggerStatus, TriggerEnqueue, WatcherEnqueue, Pause, Resume,
           Cancel, syncVars
  <2> QED BY <1>0, <2>1 DEF States
<1>2. pc' \in Labels
  <2>1. ASSUME backgroundBuildLoop PROVE pc' \in Labels
    BY <2>1 DEF backgroundBuildLoop, LoopDequeue, LoopStop,
           LoopComputing, LoopTryLock, LoopCheckAborted, LoopUnlockPreempted, LoopRequeue,
           LoopFinishRequeued, RebuildLoad, ComputeAndSnapshot, RebuildSave, RebuildPublish,
           LoopUnlock, LoopFinish, LoopIdle, LoopUnlockFailed, LoopSetError,
           LoopFinishFailed, Goto, Labels, LockedAt
  <2>2. ASSUME ~backgroundBuildLoop PROVE UNCHANGED pc
    BY <2>2 DEF Next, Background, Foreground, TriggerStatus, TriggerEnqueue, WatcherEnqueue,
                Pause, Resume, Cancel, syncVars
  <2> QED BY <1>0, <2>1, <2>2
<1>3. req' \in Requests \cup {NoRequest}
  <2>1. ASSUME LoopDequeue PROVE req' \in Requests
    BY <1>0, <2>1, DequeueProps DEF LoopDequeue
  <2>2. LoopDequeue \/ req' = NoRequest \/ UNCHANGED req
    BY DEF Next, Background, Foreground, backgroundBuildLoop, LoopStop,
           LoopComputing, LoopTryLock, LoopCheckAborted, LoopUnlockPreempted, LoopRequeue,
           LoopFinishRequeued, RebuildLoad, ComputeAndSnapshot, RebuildSave, RebuildPublish,
           LoopUnlock, LoopFinish, LoopIdle, LoopUnlockFailed, LoopSetError,
           LoopFinishFailed, TriggerStatus, TriggerEnqueue, WatcherEnqueue, Pause, Resume,
           Cancel, syncVars
  <2> QED BY <1>0, <2>1, <2>2
<1>4. builderStore' \in {"nil", "open", "closed"}
  <2>1. builderStore' \in {"nil", "open", "closed"} \/ UNCHANGED builderStore
    BY <1>0 DEF Next, Background, Foreground, backgroundBuildLoop, LoopDequeue, LoopStop,
           LoopComputing, LoopTryLock, LoopCheckAborted, LoopUnlockPreempted, LoopRequeue,
           LoopFinishRequeued, RebuildLoad, ComputeAndSnapshot, RebuildSave, RebuildPublish,
           LoopUnlock, LoopFinish, LoopIdle, LoopUnlockFailed, LoopSetError,
           LoopFinishFailed, TriggerStatus, TriggerEnqueue, WatcherEnqueue, Pause, Resume,
           Cancel, syncVars, DeferredClose
  <2> QED BY <1>0, <2>1
<1>5. triggerPc' \in [TriggerRequests -> {"idle", "enqueue", "done"}]
  <2>1. \/ UNCHANGED triggerPc
        \/ \E r \in TriggerRequests : triggerPc' = [triggerPc EXCEPT ![r] = "enqueue"]
        \/ \E r \in TriggerRequests : triggerPc' = [triggerPc EXCEPT ![r] = "done"]
    BY DEF Next, Background, Foreground, backgroundBuildLoop, LoopDequeue, LoopStop,
           LoopComputing, LoopTryLock, LoopCheckAborted, LoopUnlockPreempted, LoopRequeue,
           LoopFinishRequeued, RebuildLoad, ComputeAndSnapshot, RebuildSave, RebuildPublish,
           LoopUnlock, LoopFinish, LoopIdle, LoopUnlockFailed, LoopSetError,
           LoopFinishFailed, TriggerStatus, TriggerEnqueue, WatcherEnqueue, Pause, Resume,
           Cancel, syncVars
  <2> QED BY <1>0, <2>1
<1>6. cancelled' \in BOOLEAN
  <2>1. UNCHANGED cancelled \/ cancelled' = TRUE
    BY DEF Next, Background, Foreground, backgroundBuildLoop, LoopDequeue, LoopStop,
           LoopComputing, LoopTryLock, LoopCheckAborted, LoopUnlockPreempted, LoopRequeue,
           LoopFinishRequeued, RebuildLoad, ComputeAndSnapshot, RebuildSave, RebuildPublish,
           LoopUnlock, LoopFinish, LoopIdle, LoopUnlockFailed, LoopSetError,
           LoopFinishFailed, TriggerStatus, TriggerEnqueue, WatcherEnqueue, Pause, Resume,
           Cancel, syncVars
  <2> QED BY <1>0, <2>1
<1>7. outcome' \in [Requests -> {"none", "done", "failed"}]
  <2>1. \/ UNCHANGED outcome
        \/ outcome' = [outcome EXCEPT ![req] = "done"]
        \/ outcome' = [outcome EXCEPT ![req] = "failed"]
    BY DEF Next, Background, Foreground, backgroundBuildLoop, LoopDequeue, LoopStop,
           LoopComputing, LoopTryLock, LoopCheckAborted, LoopUnlockPreempted, LoopRequeue,
           LoopFinishRequeued, RebuildLoad, ComputeAndSnapshot, RebuildSave, RebuildPublish,
           LoopUnlock, LoopFinish, LoopIdle, LoopUnlockFailed, LoopSetError,
           LoopFinishFailed, TriggerStatus, TriggerEnqueue, WatcherEnqueue, Pause, Resume,
           Cancel, syncVars
  <2> QED BY <1>0, <2>1
<1>8. callPc' \in [Calls -> CallLabels]
  BY <1>0 DEF Next, Foreground, beginSlowPath, endSlowPath, CallLabels
<1> QED BY <1>1, <1>2, <1>3, <1>4, <1>5, <1>6, <1>7, <1>8

-----------------------------------------------------------------------------
(* The theorems                                                            *)

LEMMA InitIInv == Init => IInv
<1> SUFFICES ASSUME Init PROVE IInv
  OBVIOUS
<1> USE DEF Init, NewSyncManager, NewQueryRouter, NewComputeMutex, NewRebuildQueue
<1>1. TypeOK
  <2>1. pending \in Seq(Requests) /\ createdAt \in [Requests -> Nat] /\ clock \in Nat \ {0}
    OBVIOUS
  <2>2. state \in States /\ pc \in Labels /\ lockPriority \in Priorities
    BY DEF States, Labels, Priorities
  <2>3. callPc \in [Calls -> CallLabels]
    BY DEF CallLabels
  <2>4. /\ triggerPc \in [TriggerRequests -> {"idle", "enqueue", "done"}]
        /\ outcome \in [Requests -> {"none", "done", "failed"}]
    OBVIOUS
  <2>5. aborted \in BOOLEAN /\ cancelled \in BOOLEAN
    OBVIOUS
  <2> QED BY <2>1, <2>2, <2>3, <2>4, <2>5, Zenon DEF TypeOK
<1>2. LockInv /\ NoStoreLeak
  BY DEF LockInv, RebuildHoldsLock, AbortTargetsRebuild, LockedAt, NoOwner, SyncOwner,
         NoStoreLeak
<1>3. QueueInv
  <2>1. \A r : ~Queued(r)
    BY DEF Queued
  <2>2. DOMAIN pending = {}
    OBVIOUS
  <2>3. RequestAccounted
    BY <2>1, <2>2, RequestsAssumption DEF RequestAccounted
  <2> QED BY <2>2, <2>3 DEF QueueInv, QueueSorted, ActiveIsHeld, EmptyHanded, Requests
<1>4. StatusInv
  BY DEF StatusInv
<1> QED BY <1>1, <1>2, <1>3, <1>4 DEF IInv

LEMMA NextIInv == IInv /\ [Next]_vars => IInv'
<1>1. ASSUME IInv, Next PROVE IInv'
  <2>1. TypeOK'
    BY <1>1, QueueTypeKept, LockTypeKept, SyncTypeKept DEF TypeOK
  <2> QED BY <1>1, <2>1, LockKept, QueueKept, StatusKept, StoreKept DEF IInv
<1>2. ASSUME IInv, UNCHANGED vars PROVE IInv'
  <2>1. UNCHANGED mutexVars /\ UNCHANGED queueVars /\ UNCHANGED syncVars /\ UNCHANGED callPc
    BY <1>2 DEF vars
  <2>2. UNCHANGED <<holder, lockPriority, aborted, pending, active, lastError, createdAt,
                    clock, state, pc, req, builderStore, triggerPc, cancelled, outcome>>
    BY <2>1 DEF mutexVars, queueVars, syncVars
  <2>3. TypeOK'
    BY <1>2, <2>1, <2>2 DEF IInv, TypeOK
  <2>4. QueueInv'
    BY <1>2, <2>2, QueueUntouched DEF IInv
  <2>5. LockInv' /\ NoStoreLeak' /\ StatusInv'
    BY <1>2, <2>2 DEF IInv, LockInv, RebuildHoldsLock, AbortTargetsRebuild, Preempts,
                      NoStoreLeak, StatusInv
  <2> QED BY <2>3, <2>4, <2>5 DEF IInv
<1> QED BY <1>1, <1>2

LEMMA IInvAlways == Spec => []IInv
BY InitIInv, NextIInv, PTL DEF Spec

(* Every variable of the runtime always has a value of its type: the       *)
(* queue's sequence, the loop's label and the lock's owner in particular.  *)
THEOREM TypeCorrect == Spec => []TypeOK
<1>1. IInv => TypeOK
  BY DEF IInv
<1> QED BY <1>1, IInvAlways, PTL

(* The queue is in the order of Enqueue's comparison in every state.       *)
THEOREM QueueStaysSorted == Spec => []QueueSorted
<1>1. IInv => QueueSorted
  BY DEF IInv, QueueInv
<1> QED BY <1>1, IInvAlways, PTL

(* No request is lost, duplicated or done twice by the loop of             *)
(* sync_manager.go, and Status() names the one it works on.                *)
THEOREM NoRequestLost == Spec => []RequestAccounted /\ []ActiveIsHeld
<1>1. IInv => RequestAccounted /\ ActiveIsHeld
  BY DEF IInv, QueueInv
<1> QED BY <1>1, IInvAlways, PTL

(* The loop owns the compute lock exactly between TryLock and Unlock.      *)
THEOREM LockFollowsLoop == Spec => []RebuildHoldsLock
<1>1. IInv => RebuildHoldsLock
  BY DEF IInv, LockInv
<1> QED BY <1>1, IInvAlways, PTL

(* The abort flag is never raised against a tool, and never left over.     *)
THEOREM AbortIsAimed == Spec => []AbortTargetsRebuild
<1>1. IInv => AbortTargetsRebuild
  BY DEF IInv, LockInv
<1> QED BY <1>1, IInvAlways, PTL

(* A drained queue is not reported as "computing".                         *)
THEOREM StatusIsSettled == Spec => []StatusSettles
<1>1. IInv => StatusSettles
  BY DEF IInv, StatusInv, StatusSettles
<1> QED BY <1>1, IInvAlways, PTL

(* The store handle a rebuild opens is closed when the rebuild is over.    *)
THEOREM StoreIsClosed == Spec => []NoStoreLeak
<1>1. IInv => NoStoreLeak
  BY DEF IInv
<1> QED BY <1>1, IInvAlways, PTL

-----------------------------------------------------------------------------
(* Mutual exclusion needs more than IInv: a call that computes owns the    *)
(* lock, which is true only if no two calls are of the same tool (the lock *)
(* is re-entrant by name and keeps no count).                              *)
CallOwnsLock == \A c \in Calls : Computing(c) => holder = Tool[c]

LEMMA OwnsKept ==
    ASSUME \A c, d \in Calls : Tool[c] = Tool[d] => c = d,
           IInv, CallOwnsLock, [Next]_vars
    PROVE  CallOwnsLock'
<1>0. /\ callPc \in [Calls -> CallLabels] /\ LockInv
      /\ \A c \in Calls : Tool[c] # NoOwner /\ Tool[c] # SyncOwner
  <2>1. callPc \in [Calls -> CallLabels] /\ LockInv
    BY DEF IInv, TypeOK
  <2>2. \A c \in Calls : Tool[c] # NoOwner /\ Tool[c] # SyncOwner
    BY ToolAssumption, Zenon DEF NoOwner, SyncOwner
  <2> QED BY <2>1, <2>2
<1>1. ASSUME UNCHANGED <<holder, callPc>> PROVE CallOwnsLock'
  BY <1>1 DEF CallOwnsLock, Computing
<1>2. ASSUME backgroundBuildLoop, UNCHANGED callPc PROVE CallOwnsLock'
  <2>1. TryLock(SyncOwner, RequestPriority(req)) \/ Unlock(SyncOwner) \/ UNCHANGED mutexVars
    BY <1>2 DEF backgroundBuildLoop, LoopDequeue, LoopStop, LoopComputing, LoopTryLock,
                LoopCheckAborted, LoopUnlockPreempted, LoopRequeue, LoopFinishRequeued,
                RebuildLoad, ComputeAndSnapshot, RebuildSave, RebuildPublish, LoopUnlock,
                LoopFinish, LoopIdle, LoopUnlockFailed, LoopSetError, LoopFinishFailed
  <2>2. holder' = holder \/ holder \in {NoOwner, SyncOwner}
    BY <2>1 DEF TryLock, Unlock, mutexVars
  <2>3. CASE holder \in {NoOwner, SyncOwner}
    BY <1>0, <1>2, <2>3 DEF CallOwnsLock, Computing
  <2> QED BY <1>1, <1>2, <2>2, <2>3
<1>3. ASSUME NEW c \in Calls, beginSlowPath(c) PROVE CallOwnsLock'
  <2>1. /\ callPc[c] = "start" /\ TryLock(Tool[c], PriorityHigh)
        /\ callPc' = [callPc EXCEPT ![c] = IF Granted(Tool[c]) THEN "computing" ELSE "busy"]
    BY <1>3 DEF beginSlowPath
  <2>2. CASE Granted(Tool[c])
    <3>1. holder' = Tool[c]
      BY <2>1, <2>2 DEF TryLock, Granted, mutexVars
    <3>2. \A d \in Calls \ {c} : ~Computing(d)
      BY <1>0, <2>1, <2>2 DEF CallOwnsLock, Granted
    <3>3. \A d \in Calls \ {c} : callPc'[d] = callPc[d]
      BY <1>0, <2>1
    <3> QED BY <3>1, <3>2, <3>3 DEF CallOwnsLock, Computing
  <2>3. CASE ~Granted(Tool[c])
    <3>1. holder' = holder
      BY <2>1, <2>3 DEF TryLock, Granted
    <3>2. \A d \in Calls : callPc'[d] = "computing" => callPc[d] = "computing"
      BY <1>0, <2>1, <2>3
    <3> QED BY <3>1, <3>2 DEF CallOwnsLock, Computing
  <2> QED BY <2>2, <2>3
<1>4. ASSUME NEW c \in Calls, endSlowPath(c) PROVE CallOwnsLock'
  <2>1. /\ callPc[c] = "computing" /\ callPc' = [callPc EXCEPT ![c] = "answered"]
    BY <1>4 DEF endSlowPath
  <2>2. \A d \in Calls \ {c} : ~Computing(d) /\ callPc'[d] = callPc[d]
    BY <1>0, <2>1 DEF CallOwnsLock, Computing
  <2>3. callPc'[c] = "answered"
    BY <1>0, <2>1
  <2> QED BY <2>2, <2>3 DEF CallOwnsLock, Computing
<1>5. ASSUME \/ Pause \/ Resume \/ Cancel
             \/ \E r \in TriggerRequests : TriggerStatus(r) \/ TriggerEnqueue(r)
             \/ \E r \in WatcherRequests : WatcherEnqueue(r)
      PROVE  UNCHANGED holder
  BY <1>5 DEF Pause, Resume, Cancel, TriggerStatus, TriggerEnqueue, WatcherEnqueue, mutexVars
<1>6. ASSUME UNCHANGED vars PROVE UNCHANGED <<holder, callPc>>
  BY <1>6 DEF vars, mutexVars
<1> QED BY <1>1, <1>2, <1>3, <1>4, <1>5, <1>6 DEF Next, Background, Foreground

(* The compute lock excludes two SSA-heavy computations at a time as long  *)
(* as no two concurrent calls are of the same tool.                        *)
THEOREM LockExcludes ==
    ASSUME \A c, d \in Calls : Tool[c] = Tool[d] => c = d
    PROVE  Spec => []MutualExclusion
<1>1. Init => CallOwnsLock
  BY DEF Init, NewQueryRouter, CallOwnsLock, Computing
<1>2. IInv /\ CallOwnsLock /\ [Next]_vars => CallOwnsLock'
  BY OwnsKept
<1>3. IInv /\ CallOwnsLock => MutualExclusion
  <2> SUFFICES ASSUME IInv, CallOwnsLock PROVE MutualExclusion
    OBVIOUS
  <2>1. \A c \in Calls : Tool[c] # SyncOwner
    BY ToolAssumption, Zenon DEF SyncOwner
  <2> QED BY <2>1 DEF MutualExclusion, IInv, LockInv, RebuildHoldsLock, CallOwnsLock
<1> QED BY <1>1, <1>2, <1>3, InitIInv, NextIInv, PTL DEF Spec

-----------------------------------------------------------------------------
(* The queue, the loop and the lock implement PriorityQueue.  Beyond IInv  *)
(* the refinement needs the clock: no request carries a later time than it *)
(* shows, so a request that is stamped now arrives after the others.       *)
ClockInv == \A r \in Requests : createdAt[r] <= clock

LEMMA EnqueueClock ==
    ASSUME TypeOK, ClockInv, NEW r \in Requests, Enqueue(r)
    PROVE  /\ ClockInv'
           /\ createdAt[r] = 0 =>
                /\ createdAt' = [createdAt EXCEPT ![r] = createdAt'[r]]
                /\ createdAt'[r] > 0
                /\ \A s \in Requests : createdAt'[r] >= createdAt[s]
           /\ createdAt[r] # 0 => UNCHANGED createdAt
<1>0. createdAt \in [Requests -> Nat] /\ clock \in Nat \ {0}
  BY DEF TypeOK
<1>1. PICK now \in {clock, clock + 1} :
        IF createdAt[r] = 0
        THEN clock' = now /\ createdAt' = [createdAt EXCEPT ![r] = now]
        ELSE now = clock /\ UNCHANGED <<clock, createdAt>>
  BY DEF Enqueue
<1>2. CASE createdAt[r] = 0
  <2>1. /\ clock' = now /\ now >= clock /\ now \in Nat /\ now > 0
        /\ createdAt' = [createdAt EXCEPT ![r] = now]
    BY <1>0, <1>1, <1>2
  <2>2. createdAt'[r] = now /\ \A s \in Requests \ {r} : createdAt'[s] = createdAt[s]
    BY <1>0, <2>1
  <2>3. \A s \in Requests : createdAt[s] \in Nat /\ createdAt[s] <= now
    BY <1>0, <2>1 DEF ClockInv
  <2>4. \A s \in Requests : createdAt'[s] <= clock'
    BY <2>1, <2>2, <2>3
  <2>5. createdAt' = [createdAt EXCEPT ![r] = createdAt'[r]]
    BY <2>1, <2>2
  <2>6. createdAt'[r] > 0 /\ \A s \in Requests : createdAt'[r] >= createdAt[s]
    BY <2>1, <2>2, <2>3
  <2> QED BY <1>2, <2>4, <2>5, <2>6 DEF ClockInv
<1>3. CASE createdAt[r] # 0
  BY <1>1, <1>3 DEF ClockInv
<1> QED BY <1>2, <1>3

LEMMA ClockKept == TypeOK /\ QueueInv /\ ClockInv /\ [Next]_vars => ClockInv'
<1> SUFFICES ASSUME TypeOK, QueueInv, ClockInv, [Next]_vars PROVE ClockInv'
  OBVIOUS
<1>1. ASSUME UNCHANGED <<createdAt, clock>> PROVE ClockInv'
  BY <1>1 DEF ClockInv
<1>2. ASSUME backgroundBuildLoop PROVE ClockInv'
  <2>1. CASE LoopRequeue
    <3>1. req \in Requests /\ Enqueue(req)
      BY <2>1 DEF LoopRequeue, Goto, QueueInv, EmptyHanded, TypeOK
    <3> QED BY <3>1, EnqueueClock
  <2>2. CASE ~LoopRequeue
    BY <1>1, <1>2, <2>2 DEF backgroundBuildLoop, LoopDequeue, LoopStop, LoopComputing,
          LoopTryLock, LoopCheckAborted, LoopUnlockPreempted, LoopFinishRequeued,
          RebuildLoad, ComputeAndSnapshot, RebuildSave, RebuildPublish, LoopUnlock,
          LoopFinish, LoopIdle, LoopUnlockFailed, LoopSetError, LoopFinishFailed,
          Dequeue, finishActive, setError, queueVars
  <2> QED BY <2>1, <2>2
<1>3. ASSUME NEW r \in Requests, Enqueue(r) PROVE ClockInv'
  BY <1>3, EnqueueClock
<1>4. ASSUME NEW r \in TriggerRequests, TriggerStatus(r) \/ TriggerEnqueue(r) PROVE ClockInv'
  BY <1>1, <1>3, <1>4 DEF TriggerStatus, TriggerEnqueue, Requests, queueVars
<1>5. ASSUME NEW r \in WatcherRequests, WatcherEnqueue(r) PROVE ClockInv'
  BY <1>3, <1>5 DEF WatcherEnqueue, Requests
<1>6. ASSUME Pause \/ Resume \/ Cancel \/ UNCHANGED vars \/ UNCHANGED <<queueVars, syncVars>>
      PROVE  ClockInv'
  BY <1>1, <1>6 DEF Pause, Resume, Cancel, queueVars, vars
<1> QED BY <1>2, <1>4, <1>5, <1>6 DEF Next, Background, Foreground

(* What the abstract queue sees of the runtime, under the names of the     *)
(* refinement mapping.                                                     *)
InQueue == {pending[i] : i \in DOMAIN pending}
Over == {r \in Requests : outcome[r] # "none"}

LEMMA InQueueIsQueued ==
    ASSUME pending \in Seq(Requests)
    PROVE  InQueue = {r \in Requests : Queued(r)}
BY DEF InQueue, Queued

LEMMA PromiseInit == Init => Promise!Init
<1> SUFFICES ASSUME Init PROVE Promise!Init
  OBVIOUS
<1>1. /\ pending = <<>> /\ req = NoRequest /\ createdAt = [r \in Requests |-> 0]
      /\ outcome = [r \in Requests |-> "none"]
  BY DEF Init, NewSyncManager, NewRebuildQueue
<1>2. {pending[i] : i \in DOMAIN pending} = {}
  BY <1>1
<1>3. {r \in Requests : outcome[r] # "none"} = {}
  BY <1>1
<1> QED BY <1>1, <1>2, <1>3 DEF Promise!Init

(* A step that moves no request is a stutter of the abstract queue.        *)
LEMMA PromiseStutter ==
    ASSUME UNCHANGED <<pending, req, outcome, createdAt>>
    PROVE  UNCHANGED Promise!vars
BY DEF Promise!vars

LEMMA PromiseArrive ==
    ASSUME TypeOK, QueueInv, ClockInv, NEW r \in Requests, createdAt[r] = 0,
           Enqueue(r), UNCHANGED <<req, outcome>>
    PROVE  Promise!Next
<1>0. TypeOK /\ QueueSorted /\ RequestAccounted /\ ~Queued(r)
  BY DEF QueueInv, RequestAccounted
<1>1. /\ pending' \in Seq(Requests)
      /\ \A x \in Requests : Queued(x)' <=> (x = r \/ Queued(x))
  BY <1>0, EnqueueProps
<1>2. /\ createdAt' = [createdAt EXCEPT ![r] = createdAt'[r]]
      /\ createdAt'[r] > 0
      /\ \A s \in Requests : createdAt'[r] >= createdAt[s]
  BY EnqueueClock
<1>3. InQueue' = InQueue \cup {r}
  <2>1. InQueue = {x \in Requests : Queued(x)}
    BY InQueueIsQueued DEF TypeOK
  <2>2. InQueue' = {x \in Requests : Queued(x)'}
    BY <1>1 DEF InQueue, Queued
  <2> QED BY <1>1, <2>1, <2>2
<1>4. Promise!Arrive(r)
  BY <1>2, <1>3 DEF Promise!Arrive, Promise!ArrivalTimes, InQueue
<1> QED BY <1>4 DEF Promise!Next

LEMMA PromiseServe ==
    ASSUME TypeOK, QueueInv, LoopDequeue
    PROVE  Promise!Next
<1>0. TypeOK /\ QueueSorted /\ RequestAccounted /\ pending \in Seq(Requests)
  BY DEF QueueInv, TypeOK
<1>r. PICK r : r = Head(pending)
  OBVIOUS
<1>1. /\ req = NoRequest /\ Dequeue /\ req' = r
      /\ UNCHANGED <<outcome, createdAt>>
  BY <1>r DEF LoopDequeue, Goto, QueueInv, EmptyHanded, Dequeue
<1>2. /\ r \in Requests /\ Queued(r)
      /\ \A x \in Requests : Queued(x)' <=> (Queued(x) /\ x # r)
      /\ pending' \in Seq(Requests)
  BY <1>0, <1>1, <1>r, DequeueProps
<1>3. InQueue' = InQueue \ {r}
  <2>1. InQueue = {x \in Requests : Queued(x)}
    BY <1>0, InQueueIsQueued
  <2>2. InQueue' = {x \in Requests : Queued(x)'}
    BY <1>2 DEF InQueue, Queued
  <2> QED BY <1>2, <2>1, <2>2
<1>4. \A s \in InQueue : ~Before(createdAt, s, r)
  <2> SUFFICES ASSUME NEW i \in DOMAIN pending PROVE ~Before(createdAt, pending[i], r)
    BY DEF InQueue
  <2>1. pending # <<>> /\ r = pending[1] /\ 1 \in DOMAIN pending
    BY <1>0, <1>1, <1>r DEF Dequeue
  <2>2. i = 1 \/ 1 < i
    BY <1>0
  <2>3. CASE i = 1
    <3>1. createdAt[pending[1]] \in Nat /\ RequestPriority(pending[1]) \in Nat
      BY <1>0, <2>1 DEF TypeOK, RequestPriority, PriorityHigh, PriorityNormal
    <3> QED BY <2>1, <2>3, <3>1 DEF Before
  <2>4. CASE 1 < i
    BY <1>0, <2>1, <2>4 DEF QueueSorted
  <2> QED BY <2>2, <2>3, <2>4
<1>5. r \in InQueue
  BY <1>0, <1>2, InQueueIsQueued
<1>6. Promise!Serve(r)
  BY <1>1, <1>3, <1>4, <1>5 DEF Promise!Serve, Promise!MoreUrgent, InQueue, Before
<1> QED BY <1>2, <1>6 DEF Promise!Next

LEMMA PromiseSendBack ==
    ASSUME TypeOK, QueueInv, LoopRequeue
    PROVE  Promise!Next
<1>0. TypeOK /\ QueueSorted /\ RequestAccounted /\ NoRequest \notin Requests
  BY RequestsAssumption DEF QueueInv, Requests
<1>1. /\ req \in Requests /\ ~Queued(req) /\ createdAt[req] # 0
      /\ Enqueue(req) /\ req' = NoRequest /\ UNCHANGED outcome
  BY <1>0 DEF LoopRequeue, Goto, QueueInv, EmptyHanded, TypeOK, RequestAccounted
<1>2. /\ pending' \in Seq(Requests)
      /\ \A x \in Requests : Queued(x)' <=> (x = req \/ Queued(x))
  BY <1>0, <1>1, EnqueueProps
<1>3. UNCHANGED createdAt
  BY <1>1 DEF Enqueue
<1>4. InQueue' = InQueue \cup {req}
  <2>1. InQueue = {x \in Requests : Queued(x)}
    BY InQueueIsQueued DEF TypeOK
  <2>2. InQueue' = {x \in Requests : Queued(x)'}
    BY <1>2 DEF InQueue, Queued
  <2> QED BY <1>1, <1>2, <2>1, <2>2
<1>5. Promise!SendBack
  BY <1>0, <1>1, <1>3, <1>4 DEF Promise!SendBack, InQueue
<1> QED BY <1>5 DEF Promise!Next

LEMMA PromiseEnd ==
    ASSUME TypeOK, QueueInv, LoopFinish \/ LoopFinishFailed
    PROVE  Promise!Next
<1>0. NoRequest \notin Requests
  BY RequestsAssumption DEF Requests
<1>1. /\ req \in Requests /\ req' = NoRequest
      /\ outcome' \in {[outcome EXCEPT ![req] = "done"], [outcome EXCEPT ![req] = "failed"]}
      /\ UNCHANGED <<pending, createdAt>>
  BY DEF LoopFinish, LoopFinishFailed, Goto, finishActive, EmptyHanded, QueueInv, TypeOK
<1>2. outcome \in [Requests -> {"none", "done", "failed"}]
  BY DEF TypeOK
<1>3. Over' = Over \cup {req}
  <2>1. outcome'[req] # "none" /\ \A x \in Requests \ {req} : outcome'[x] = outcome[x]
    BY <1>1, <1>2
  <2> QED BY <1>1, <2>1 DEF Over
<1>4. Promise!End
  BY <1>0, <1>1, <1>3 DEF Promise!End, Over
<1> QED BY <1>4 DEF Promise!Next

LEMMA PromiseStep ==
    ASSUME IInv, ClockInv, [Next]_vars
    PROVE  [Promise!Next]_(Promise!vars)
<1>0. TypeOK /\ QueueInv
  BY DEF IInv
<1>1. ASSUME UNCHANGED <<pending, req, outcome, createdAt>>
      PROVE  [Promise!Next]_(Promise!vars)
  BY <1>1, PromiseStutter
<1>2. ASSUME backgroundBuildLoop PROVE [Promise!Next]_(Promise!vars)
  <2>1. CASE LoopDequeue
    BY <1>0, <2>1, PromiseServe
  <2>2. CASE LoopRequeue
    BY <1>0, <2>2, PromiseSendBack
  <2>3. CASE LoopFinish \/ LoopFinishFailed
    BY <1>0, <2>3, PromiseEnd
  <2>4. CASE ~(LoopDequeue \/ LoopRequeue \/ LoopFinish \/ LoopFinishFailed)
    <3>1. UNCHANGED <<pending, req, outcome, createdAt>>
      BY <1>2, <2>4 DEF backgroundBuildLoop, LoopStop, LoopComputing,
          LoopTryLock, LoopCheckAborted, LoopUnlockPreempted, LoopFinishRequeued,
          RebuildLoad, ComputeAndSnapshot, RebuildSave, RebuildPublish, LoopUnlock,
          LoopIdle, LoopUnlockFailed, LoopSetError, finishActive, setError, queueVars
    <3> QED BY <1>1, <3>1
  <2> QED BY <2>1, <2>2, <2>3, <2>4
<1>3. ASSUME NEW r \in TriggerRequests, TriggerEnqueue(r) PROVE Promise!Next
  <2>1. /\ r \in Requests /\ Enqueue(r) /\ triggerPc[r] = "enqueue"
        /\ UNCHANGED <<req, outcome>>
    BY <1>3 DEF TriggerEnqueue, Requests
  <2>2. createdAt[r] = 0
    BY <1>0, <2>1 DEF QueueInv
  <2> QED BY <1>0, <2>1, <2>2, PromiseArrive
<1>4. ASSUME NEW r \in WatcherRequests, WatcherEnqueue(r) PROVE Promise!Next
  <2>1. r \in Requests /\ createdAt[r] = 0 /\ Enqueue(r) /\ UNCHANGED <<req, outcome>>
    BY <1>4 DEF WatcherEnqueue, Requests, syncVars
  <2> QED BY <1>0, <2>1, PromiseArrive
<1>5. ASSUME \/ \E r \in TriggerRequests : TriggerStatus(r)
             \/ Pause \/ Resume \/ Cancel
             \/ UNCHANGED <<queueVars, syncVars>> \/ UNCHANGED vars
      PROVE  UNCHANGED <<pending, req, outcome, createdAt>>
  BY <1>5 DEF TriggerStatus, Pause, Resume, Cancel, queueVars, syncVars, vars
<1> QED BY <1>1, <1>2, <1>3, <1>4, <1>5 DEF Next, Background, Foreground

(* sync_queue.go, sync_manager.go and the lock together serve requests one *)
(* at a time, most urgent first, and end each once, however often a        *)
(* request is sent back: they implement the abstract priority queue.       *)
THEOREM ImplementsPriorityQueue == Spec => ServesInOrder
<1>1. Init => ClockInv
  BY DEF Init, NewSyncManager, NewRebuildQueue, ClockInv
<1>2. IInv => TypeOK /\ QueueInv
  BY DEF IInv
<1>3. IInv /\ ClockInv /\ [Next]_vars => [Promise!Next]_(Promise!vars)
  BY PromiseStep
<1> QED
  BY <1>1, <1>2, <1>3, PromiseInit, InitIInv, NextIInv, ClockKept, PTL
     DEF Spec, ServesInOrder, Promise!Spec
=============================================================================
