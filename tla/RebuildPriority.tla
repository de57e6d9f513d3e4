-------------------------- MODULE RebuildPriority --------------------------
(***************************************************************************)
(* The priorities of analyzer/sync_queue.go, smaller is more urgent.       *)
(***************************************************************************)
PriorityHigh == 0
PriorityNormal == 1
PriorityLow == 2

Priorities == {PriorityHigh, PriorityNormal, PriorityLow}
=============================================================================
