---------------------------- MODULE MCWorkspace ----------------------------
(* Values of the constants of Workspace for model checking.                *)
EXTENDS Workspace, TLC

(* The goroutines are interchangeable.                                     *)
CallSymmetry == Permutations(Calls)
=============================================================================
