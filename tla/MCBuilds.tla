------------------------------ MODULE MCBuilds ------------------------------
(* Builds with the symmetry the model checker may use for safety.           *)
EXTENDS Builds, TLC

CallSymmetry == Permutations(Calls)
=============================================================================
