----------------------------- MODULE ConfigCell -----------------------------
(***************************************************************************)
(* What sb_config promises to its writers: one durable configuration.  A   *)
(* commit takes effect at one instant between its call and its return, or  *)
(* not at all; a restart runs with the configuration that took effect      *)
(* last.                                                                   *)
(***************************************************************************)
CONSTANTS Config, Default, None

VARIABLES
  stored,    (* the configuration a restart would run with                 *)
  running,   (* the configuration the device runs with                     *)
  request    (* the configuration being committed, None when idle          *)

cellVars == <<stored, running, request>>

Init == stored = Default /\ running = Default /\ request = None

Request(c) == /\ request = None
              /\ request' = c
              /\ UNCHANGED <<stored, running>>

TakeEffect == /\ request # None
              /\ stored' = request
              /\ UNCHANGED <<running, request>>

(* A successful return: the device runs with what is stored.               *)
Succeed == /\ request # None /\ stored = request
           /\ running' = request
           /\ request' = None
           /\ UNCHANGED stored

(* A commit that failed changed nothing.                                   *)
Fail == /\ request # None /\ stored = running
        /\ request' = None
        /\ UNCHANGED <<stored, running>>

(* Power is cut at any moment and the device comes back.                   *)
Restart == /\ running' = stored
           /\ request' = None
           /\ UNCHANGED stored

Next == \/ \E c \in Config : Request(c)
        \/ TakeEffect
        \/ Succeed
        \/ Fail
        \/ Restart

Spec == Init /\ [][Next]_cellVars

=============================================================================
