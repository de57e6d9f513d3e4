---------------------------- MODULE QueryRouter ----------------------------
(***************************************************************************)
(* The query router of main.go as a client of the compute lock.  A call of *)
(* an SSA-heavy tool takes the lock under the NAME OF THE TOOL with high   *)
(* priority (beginSlowPath); it is answered "busy" when it is turned away, *)
(* and otherwise computes and releases the lock in a deferred Unlock.  The *)
(* MCP server runs calls concurrently, and two of them may be of the same  *)
(* tool.                                                                   *)
(***************************************************************************)
EXTENDS ComputeMutex

CONSTANTS
    Calls,   \* the tool calls
    Tool     \* [Calls -> STRING], the tool each call is of

ASSUME ToolAssumption ==
    \A c \in Calls : Tool[c] \in STRING \ {"", "sync-manager"}

VARIABLE callPc   \* [Calls -> CallLabels]

CallLabels == {"start", "computing", "answered", "busy"}

NewQueryRouter == callPc = [c \in Calls |-> "start"]

(* Mutant: a call turned away by TryLock computes all the same.            *)
beginSlowPathIgnoresBusy(c) ==
    /\ callPc[c] = "start"
    /\ TryLock(Tool[c], PriorityHigh)
    /\ callPc' = [callPc EXCEPT ![c] = "computing"]

beginSlowPath(c) ==
    /\ callPc[c] = "start"
    /\ TryLock(Tool[c], PriorityHigh)
    /\ callPc' = [callPc EXCEPT ![c] =
                    IF Granted(Tool[c]) THEN "computing" ELSE "busy"]

(* The analysis is over, with a result or an error, and Unlock runs.       *)
endSlowPath(c) ==
    /\ callPc[c] = "computing"
    /\ Unlock(Tool[c])
    /\ callPc' = [callPc EXCEPT ![c] = "answered"]
=============================================================================
