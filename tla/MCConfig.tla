------------------------------ MODULE MCConfig ------------------------------
(* The configuration store on small instances.                             *)
EXTENDS ConfigRefinement
=============================================================================
