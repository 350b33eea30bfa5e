----------------------------- MODULE MCBuildGate -----------------------------
(* BuildGate with the symmetry that the model checker may use: nothing in   *)
(* the gate tells one call from another.                                    *)
EXTENDS BuildGate, TLC

CallSymmetry == Permutations(Calls)
=============================================================================
