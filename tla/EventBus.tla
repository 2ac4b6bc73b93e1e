------------------------------ MODULE EventBus ------------------------------
(***************************************************************************)
(* sb_event_bus.c: the queue of events every task and callback posts to,   *)
(* with QL_NO_WAIT, and the supervisor alone reads.  A full queue drops    *)
(* the event; no caller looks at the result.                               *)
(*                                                                         *)
(* Events the supervisor only logs (registered, csq, published, ...) are   *)
(* left out.                                                               *)
(***************************************************************************)
EXTENDS Naturals, Sequences

CONSTANT EventDepth     (* SB_EVENT_QUEUE_DEPTH                            *)

ASSUME EventAssumption == EventDepth \in Nat \ {0}

VARIABLES
  events,      (* s_event_queue                                            *)
  dropped      (* history: some event found the queue full                 *)

busVars == <<events, dropped>>

BusInit == events = <<>> /\ dropped = FALSE

Quiet == UNCHANGED busVars

Post(e) == IF Len(events) < EventDepth
           THEN events' = Append(events, e) /\ UNCHANGED dropped
           ELSE dropped' = TRUE /\ UNCHANGED events

Wait(e) == /\ events # <<>>
           /\ e = Head(events)
           /\ events' = Tail(events)
           /\ UNCHANGED dropped

=============================================================================
