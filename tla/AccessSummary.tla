---- MODULE AccessSummary ----
(***************************************************************************)
(* What the concurrency scan knows of an analysed Go program: for every    *)
(* function the field accesses of its body with the locks held there, and  *)
(* the same after the calls are followed to a bounded depth.               *)
(*                                                                         *)
(* The analysed programs share one object: every function has it as its    *)
(* only pointer, main as a parameter or as the address of a local, the     *)
(* goroutine as an argument or as a captured variable, the helpers as an   *)
(* argument.  Names of fields stand for themselves; bodies are without     *)
(* branches and loops.                                                     *)
(***************************************************************************)
EXTENDS Integers, FiniteSets, SequencesExt

CONSTANT MaxCallDepth   \* how far expandFunctionAccesses follows calls

ASSUME MaxCallDepthAssumption == MaxCallDepth \in Nat

GoFunctions == {"main", "worker", "helper", "leaf"}

\* An instruction is [op, on]: on is a field, or the callee of a call.
Loads == {"Load", "AtomicLoad"}
Stores == {"Store", "AtomicStore"}
Accesses == Loads \cup Stores
LockCalls == {"Lock", "RLock", "Unlock", "RUnlock", "DeferUnlock", "DeferRUnlock"}

\* How the body of f refers to the shared object.
rootKey(code, f) ==
    [kind |-> IF f = "main" THEN code.root
              ELSE IF f = "worker" /\ code.closure THEN "freevar" ELSE "param",
     id   |-> f]

memoryKey(code, f, field) ==
    [kind |-> rootKey(code, f).kind, id |-> f, field |-> field]

\* A parameter that a closure captures lives in a cell of its own, which is
\* taken for an alias of it.
Spilled(code) == code.closure /\ code.root = "param"

\* "rlock:" in front of the root of a lock that is held for reading.
Lock(key, read) == [key |-> key, read |-> read]

-----------------------------------------------------------------------------
(* One function: scan.  s.locks is the lockset, which a deferred unlock      *)
(* leaves as it is because the lock is held until the function returns.     *)

\* A call through a value that cannot be resolved may do anything to its
\* arguments: one write to an unknown part of the object.
recordUnknownCallEffects(code, f, s) ==
    [key |-> [memoryKey(code, f, "") EXCEPT !.kind = "unknown"],
     write |-> TRUE, atomic |-> FALSE, locks |-> s.locks]

recordAccess(code, f, s, instr) ==
    [key |-> memoryKey(code, f, instr.on), write |-> instr.op \in Stores,
     atomic |-> instr.op \in {"AtomicLoad", "AtomicStore"}, locks |-> s.locks]

addLock(s, lock) == [s EXCEPT !.locks = @ \cup {lock}]
removeLock(s, lock) == [s EXCEPT !.locks = @ \ {lock}]

\* Mutant: a deferred unlock counts as an unlock.
recordLockCallDropsDeferred(code, f, s, instr) ==
    LET key == memoryKey(code, f, instr.on)
    IN  CASE instr.op = "Lock" -> addLock(s, Lock(key, FALSE))
          [] instr.op = "RLock" -> addLock(s, Lock(key, TRUE))
          [] instr.op \in {"Unlock", "DeferUnlock"} -> removeLock(s, Lock(key, FALSE))
          [] instr.op \in {"RUnlock", "DeferRUnlock"} -> removeLock(s, Lock(key, TRUE))

recordLockCall(code, f, s, instr) ==
    LET key == memoryKey(code, f, instr.on)
    IN  CASE instr.op = "Lock" -> addLock(s, Lock(key, FALSE))
          [] instr.op = "RLock" -> addLock(s, Lock(key, TRUE))
          [] instr.op = "Unlock" -> removeLock(s, Lock(key, FALSE))
          [] instr.op = "RUnlock" -> removeLock(s, Lock(key, TRUE))
          [] OTHER -> s

\* recordStaticCall: the call with the locks held at it.
recordStaticCall(s, instr) == [callee |-> instr.on, locks |-> s.locks]

recordInstr(code, f, s, instr) ==
    CASE instr.op \in Accesses -> [s EXCEPT !.accesses = @ \cup {recordAccess(code, f, s, instr)}]
      [] instr.op = "Call" -> [s EXCEPT !.calls = @ \cup {recordStaticCall(s, instr)}]
      [] instr.op = "DynCall" -> [s EXCEPT !.accesses = @ \cup {recordUnknownCallEffects(code, f, s)}]
      [] instr.op = "Go" -> s
      [] OTHER -> recordLockCall(code, f, s, instr)

\* Whatever main does with a captured parameter, it loads the pointer first, and
\* the load is recorded as a read of the object without a field.  The go
\* statement passes the cell itself.
recordRead(code, f, s, instr) ==
    IF f = "main" /\ Spilled(code) /\ instr.op # "Go"
    THEN [s EXCEPT !.accesses = @ \cup {[key |-> memoryKey(code, f, ""), write |-> FALSE,
                                         atomic |-> FALSE, locks |-> s.locks]}]
    ELSE s

Record(code, f, s, instr) == recordInstr(code, f, recordRead(code, f, s, instr), instr)

scan(code, f) ==
    LET body == code.body[f]
        After[n \in 0..Len(body)] ==
            IF n = 0 THEN [locks |-> {}, accesses |-> {}, calls |-> {}]
            ELSE Record(code, f, After[n - 1], body[n])
    IN  After[Len(body)]

-----------------------------------------------------------------------------
(* Following calls: the accesses of a callee, in terms of the caller.       *)

\* The key of the callee's object becomes the key of the caller's.  An unknown
\* access is only renamed where a closure captured the object; what is passed
\* as an argument keeps the name it has in the callee.
substituteRoot(key, f, root, bound) ==
    IF key.id # f THEN key
    ELSE IF key.kind = "unknown" THEN [key EXCEPT !.id = IF bound THEN root.id ELSE @]
    ELSE [kind |-> root.kind, id |-> root.id, field |-> key.field]

substituteLockset(locks, f, root, bound) ==
    {[l EXCEPT !.key = substituteRoot(@, f, root, bound)] : l \in locks}

Substitute(accesses, f, root, bound) ==
    {[a EXCEPT !.key = substituteRoot(@, f, root, bound),
               !.locks = substituteLockset(@, f, root, bound)] : a \in accesses}

\* The locks held at the call protect what the callee does.
mergeLocksets(accesses, locks) == {[a EXCEPT !.locks = @ \cup locks] : a \in accesses}

\* expandFunctionAccesses, for every function, from the inside out.
Expanded(code) ==
    LET summary == [f \in GoFunctions |-> scan(code, f)]
        Expand[d \in 0..MaxCallDepth] ==
            [f \in GoFunctions |->
                summary[f].accesses \cup
                (IF d = 0 THEN {}
                 ELSE UNION {mergeLocksets(
                                Substitute(Expand[d - 1][c.callee], c.callee, rootKey(code, f), FALSE),
                                c.locks) : c \in summary[f].calls})]
    IN  Expand[MaxCallDepth]

\* ExpandConcurrentAccesses: every declared function as a caller of its own,
\* without a goroutine, and the goroutine that main starts.
ExpandConcurrentAccesses(code) ==
    LET expanded == Expanded(code)
        Tag(accesses, inGoroutine) == {[access |-> a, inGoroutine |-> inGoroutine] : a \in accesses}
        declared == IF code.closure THEN GoFunctions \ {"worker"} ELSE GoFunctions
        spawned == Substitute(expanded["worker"], "worker", rootKey(code, "main"), code.closure)
    IN  Tag(UNION {expanded[f] : f \in declared}, FALSE) \cup Tag(spawned, TRUE)
====
