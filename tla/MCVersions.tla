----------------------------- MODULE MCVersions -----------------------------
(* Versions with the model values of its instance.                          *)
EXTENDS Versions, TLC

CallSymmetry == Permutations(Calls)
=============================================================================
