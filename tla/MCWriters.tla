----------------------------- MODULE MCWriters -----------------------------
(* The writers of the configuration on small instances: a profile with a   *)
(* placeholder for the device's number, the same filled in, and another    *)
(* with SMS recovery.                                                      *)
EXTENDS ConfigWriters

MCExpand  == [p \in {"template", "own", "sms"} |-> IF p = "template" THEN "own" ELSE p]
MCDefault == [volume |-> 1, profile |-> "template"]

=============================================================================
