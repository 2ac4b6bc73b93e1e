--------------------------- MODULE MCConnectivity ---------------------------
(* Network, MQTT, event queue and supervisor on small instances.           *)
EXTENDS Connectivity
=============================================================================
