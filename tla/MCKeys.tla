-------------------------------- MODULE MCKeys --------------------------------
(* Keys and their interrupts on small instances.                           *)
EXTENDS Keys
=============================================================================
