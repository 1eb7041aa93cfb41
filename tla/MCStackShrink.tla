--------------------------- MODULE MCStackShrink ---------------------------
(* A small instance of StackShrink for TLC, whose constants are all model  *)
(* values and numbers given in the configuration.                          *)
EXTENDS StackShrink, TLC
=============================================================================
