---------------------------- MODULE MCTaskRunner ----------------------------
(* TaskRunner with the symmetry the model checker may use for safety.       *)
EXTENDS TaskRunner, TLC

TaskSymmetry == Permutations(TaskIds) \cup Permutations(Waiters)
=============================================================================
