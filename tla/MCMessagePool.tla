--------------------------- MODULE MCMessagePool ---------------------------
(* The message pool on small instances.                                    *)
EXTENDS MessagePool

=============================================================================
