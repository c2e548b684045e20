------------------------------ MODULE MCTasks ------------------------------
(* Instances of Tasks for TLC: which tasks there are and what they call.   *)
EXTENDS Tasks, TLC

Symmetry == Permutations(Tasks)
=============================================================================
