----------------------------- MODULE MCTaskStore -----------------------------
(* TaskStore with the symmetry the model checker may use: ids are opaque.   *)
EXTENDS TaskStore, TLC

TaskSymmetry == Permutations(TaskIds)
=============================================================================
