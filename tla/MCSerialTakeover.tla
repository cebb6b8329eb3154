-------------------------- MODULE MCSerialTakeover --------------------------
(* Model checking of SerialTakeover.                                       *)
EXTENDS SerialTakeover
=============================================================================
