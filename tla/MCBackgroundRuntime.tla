------------------------ MODULE MCBackgroundRuntime ------------------------
(* Values of the constants of BackgroundRuntime for model checking.        *)
EXTENDS BackgroundRuntime, TLC

CONSTANTS t1, w1, w2, c1, c2

DistinctTools == [c \in Calls |-> IF c = c1 THEN "find_callers" ELSE "find_dead_code"]

SameTool == [c \in Calls |-> "find_callers"]

=============================================================================
