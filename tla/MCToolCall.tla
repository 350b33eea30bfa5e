----------------------------- MODULE MCToolCall -----------------------------
(* ToolCall with the model values of its instances.                         *)
EXTENDS ToolCall, TLC
=============================================================================
