------------------------------ MODULE Network ------------------------------
(***************************************************************************)
(* sb_network_service.c: the task that checks the SIM, waits for the       *)
(* registration, starts the data call and watches it, and the modem's      *)
(* callback, which runs beside the task and posts events of its own.       *)
(*                                                                         *)
(* online is the flag of s_network_status the MQTT and HTTP tasks poll; it *)
(* is set while the task still waits and announced one step later.         *)
(***************************************************************************)
EXTENDS EventBus

CONSTANTS
  Disturbance,   (* what may happen besides: see Disturbances              *)
  LongSleeps     (* the tasks' sleeps outlast the supervisor's backlog     *)

Disturbances == {
  "auto_connect",   (* the modem restores a dropped data call by itself    *)
  "query",          (* ql_get_data_call_info fails on a healthy call       *)
  "rx_full"         (* a message finds the receive pool full               *)
}

ASSUME NetworkAssumption == /\ Disturbance \subseteq Disturbances
                            /\ LongSleeps \in BOOLEAN

VARIABLES
  net,         (* where the network task is                                *)
  online,      (* s_network_status.online                                  *)
  callback,    (* s_datacall_callback_state = 1                            *)
  dataCall,    (* the modem's data call is up                              *)
  notice       (* the change of it the callback has not delivered yet      *)

modem   == <<dataCall, notice>>
netVars == <<net, online, callback, dataCall, notice>>

NetworkInit == /\ net = "sim" /\ online = FALSE
               /\ callback = FALSE
               /\ dataCall = FALSE /\ notice = "none"

(* A sleep of seconds is over.                                             *)
Slept == LongSleeps => events = <<>>

----------------------------------------------------------------------------
(* The task *)

SimReadyNow == /\ net = "sim" /\ Slept
               /\ Post("sim_ready")
               /\ net' = "register"
               /\ UNCHANGED <<online, callback, modem>>

SimFails == /\ net = "sim" /\ Slept
            /\ Post("sim_fault")
            /\ UNCHANGED netVars

Registered == /\ net = "register"
              /\ online' = FALSE
              /\ net' = "start"
              /\ UNCHANGED <<callback, modem, busVars>>

RegisterTimeout == /\ net = "register"
                   /\ Post("network_lost")
                   /\ net' = "sim"
                   /\ UNCHANGED <<online, callback, modem>>

StartDataCall == /\ net = "start"
                 /\ callback' = FALSE
                 /\ net' = "wait"
                 /\ UNCHANGED <<online, modem, busVars>>

StartRefused == /\ net = "start"
                /\ callback' = FALSE
                /\ Post("datacall_fault")
                /\ net' = "sim"
                /\ UNCHANGED <<online, modem>>

DataCallReady == /\ net = "wait" /\ (callback \/ dataCall)
                 /\ online' = TRUE
                 /\ net' = "announce"
                 /\ UNCHANGED <<callback, modem, busVars>>

(* Variant: a data call that does not come up is not reported.             *)
DataCallTimeoutSilent == /\ net = "wait" /\ Slept
                         /\ net' = "sim"
                         /\ UNCHANGED <<online, callback, modem, busVars>>

DataCallTimeout == /\ net = "wait" /\ Slept
                   /\ Post("datacall_fault")
                   /\ net' = "sim"
                   /\ UNCHANGED <<online, callback, modem>>

Announce == /\ net = "announce"
            /\ Post("datacall_ready")
            /\ net' = "online"
            /\ UNCHANGED <<online, callback, modem>>

(* The poll of the data call finds it down; a poll that finds it up        *)
(* changes nothing.                                                        *)
GoOffline == /\ net = "online"
             /\ online' = FALSE
             /\ net' = "lost"
             /\ UNCHANGED <<callback, modem, busVars>>

PollDown   == ~dataCall /\ Slept /\ GoOffline
QueryFails == "query" \in Disturbance /\ Slept /\ GoOffline

ReportLost == /\ net = "lost"
              /\ Post("network_lost")
              /\ net' = "sim"
              /\ UNCHANGED <<online, callback, modem>>

(* What SIM, operator and modem may do to the task.                        *)
Setback == SimFails \/ RegisterTimeout \/ StartRefused \/ DataCallTimeout

NetworkTask == \/ SimReadyNow \/ Registered \/ StartDataCall \/ DataCallReady
               \/ Announce \/ PollDown \/ ReportLost \/ Setback

----------------------------------------------------------------------------
(* The modem *)

DataCallUp == /\ ~dataCall
              /\ \/ net = "wait"
                 \/ "auto_connect" \in Disturbance /\ net = "online"
              /\ dataCall' = TRUE /\ notice' = "up"
              /\ UNCHANGED <<net, online, callback, busVars>>

DataCallDown == /\ dataCall
                /\ dataCall' = FALSE /\ notice' = "down"
                /\ UNCHANGED <<net, online, callback, busVars>>

(* Variant: the fault is posted whatever the new state is.                 *)
DataCallCbAnyState == /\ notice # "none"
                      /\ callback' = (notice = "up")
                      /\ notice' = "none"
                      /\ Post("datacall_fault")
                      /\ UNCHANGED <<net, online, dataCall>>

(* sb_network_data_call_cb().                                              *)
DataCallCb == /\ notice # "none"
              /\ callback' = (notice = "up")
              /\ notice' = "none"
              /\ IF notice = "down" THEN Post("datacall_fault") ELSE Quiet
              /\ UNCHANGED <<net, online, dataCall>>

Modem == DataCallUp \/ DataCallDown

NetworkNext == NetworkTask \/ QueryFails \/ Modem \/ DataCallCb

=============================================================================
