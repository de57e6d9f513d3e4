---------------------------- MODULE ComputeMutex ----------------------------
(***************************************************************************)
(* The compute lock of analyzer/compute_mutex.go: a try-lock with an owner *)
(* NAME, a priority and an abort flag.  TryLock never blocks.  A caller of *)
(* high priority that meets a holder of lower priority raises the abort    *)
(* flag and is turned away all the same; the holder is expected to look at *)
(* the flag (CheckAborted).  A caller that gives the holder's own name is  *)
(* let in: the lock is re-entrant by name, and keeps no count.             *)
(*                                                                         *)
(* Every method runs under the struct's own sync.Mutex, so each is one     *)
(* atomic action.  The nil receiver (always granted) is not modelled: both *)
(* users of the lock build it with NewComputeMutex.                        *)
(***************************************************************************)
EXTENDS Integers, RebuildPriority

NoOwner == ""

VARIABLES
    holder,         \* name of the owner, or NoOwner
    lockPriority,   \* the field "priority"
    aborted         \* the field "aborted"

mutexVars == <<holder, lockPriority, aborted>>

NewComputeMutex ==
    /\ holder = NoOwner
    /\ lockPriority = PriorityLow
    /\ aborted = FALSE

(* The two outcomes of TryLock that matter to a caller: entering, or an    *)
(* error (ErrComputeAborted and ErrComputeInProgress).                     *)
Granted(owner) == holder \in {NoOwner, owner}

Preempts(priority) == priority = PriorityHigh /\ lockPriority > PriorityHigh

TryLock(owner, priority) ==
    \/ /\ holder = NoOwner
       /\ holder' = owner
       /\ lockPriority' = priority
       /\ aborted' = FALSE
    \/ /\ holder = owner
       /\ holder # NoOwner
       /\ UNCHANGED mutexVars
    \/ /\ ~Granted(owner)
       /\ IF Preempts(priority) THEN aborted' = TRUE ELSE UNCHANGED aborted
       /\ UNCHANGED <<holder, lockPriority>>

(* Mutant: the abort flag survives into the next holder's tenure.          *)
UnlockKeepsAbort(owner) ==
    IF holder \in {NoOwner, owner}
    THEN holder' = NoOwner /\ lockPriority' = PriorityLow /\ UNCHANGED aborted
    ELSE UNCHANGED mutexVars

(* Unlock ignores a caller that is not the holder; an unlocked lock is     *)
(* reset again.  No caller passes the empty name.                          *)
Unlock(owner) ==
    IF holder \in {NoOwner, owner}
    THEN holder' = NoOwner /\ lockPriority' = PriorityLow /\ aborted' = FALSE
    ELSE UNCHANGED mutexVars

CheckAborted == aborted
=============================================================================
