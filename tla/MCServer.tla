------------------------------ MODULE MCServer ------------------------------
(* Server with the model values of its instances.                           *)
EXTENDS Server, TLC
=============================================================================
