---------------------------- MODULE Connectivity ----------------------------
(***************************************************************************)
(* Network task, modem callback, MQTT task, event queue and supervisor     *)
(* together: does the LED tell the shop keeper what the device is doing?   *)
(* The tasks share nothing but the online flag and the event queue, so the *)
(* LED is right only if the events arrive in an order that makes it so.    *)
(***************************************************************************)
EXTENDS MqttLink, Supervisor

CONSTANT Boots   (* bound: the sets of services a boot manages to start    *)

Service == {"network", "mqtt", "others"}

ASSUME BootsAssumption == Boots \subseteq SUBSET Service

VARIABLES
  started,     (* sb_app_entry() goes on when a service does not start     *)
  overlaid     (* history: since the last good news of network or MQTT     *)
               (* task another service reported a fault, a message found   *)
               (* the receive pool full, or the modem restored the call    *)

conVars == <<events, dropped, net, online, callback, dataCall, notice,
             mq, fails, opened, reported, broker, ready, row, rested,
             led, said, balance, started, overlaid>>

ConInit == /\ LinkInit /\ SupervisorInit
           /\ started \in Boots /\ overlaid = FALSE

NetworkRuns == /\ "network" \in started
               /\ NetworkNext
               /\ overlaid' = CASE Announce -> FALSE
                                [] DataCallUp /\ net = "online" -> TRUE
                                [] OTHER -> overlaid
               /\ UNCHANGED <<mqVars, ledVars, started>>

MqttRuns == /\ "mqtt" \in started
            /\ MqttNext
            /\ overlaid' = CASE Welcome -> FALSE
                             [] MessageRefused -> TRUE
                             [] OTHER -> overlaid
            /\ UNCHANGED <<ledVars, started>>

(* Of the other services: these set the LED.                               *)
Faults == {"unregistered", "nor_fault", "battery_low"}

(* Keys and heartbeat timer, HTTP service, battery and storage.            *)
OthersPost == /\ "others" \in started
              /\ \E e \in Faults \cup {"volume_key", "mode_key", "heartbeat"} :
                   /\ Post(e)
                   /\ overlaid' = (overlaid \/ e \in Faults)
              /\ UNCHANGED <<netVars, mqVars, ledVars, started>>

SupervisorRuns == /\ Supervise
                  /\ UNCHANGED <<netVars, mqVars, started, overlaid>>

ConNext == NetworkRuns \/ MqttRuns \/ OthersPost \/ SupervisorRuns

ConSpec == ConInit /\ [][ConNext]_conVars

(* The three tasks and the callback run for ever; every call they wait in  *)
(* has a timeout, and a sleep ends whatever the others do, so a task that  *)
(* Slept holds back time and again is not held back for ever (SF).         *)
(* Nothing is assumed of the modem and the broker.                         *)
FairConSpec == /\ ConSpec
               /\ SF_conVars(NetworkTask /\ NetworkRuns)
               /\ WF_conVars(DataCallCb /\ NetworkRuns)
               /\ SF_conVars(MqttTask /\ MqttRuns)
               /\ WF_conVars(SupervisorRuns)

----------------------------------------------------------------------------
(* Properties *)

Connected == online /\ mq = "loop"

(* "Solid on: ready": with the session running, the data call up and       *)
(* nothing left to report, the LED is solid on, in whatever order the      *)
(* three tasks and the callback had their say, unless an event was         *)
(* dropped or something else was reported since the last good news: the    *)
(* fault of another service, a full receive pool, a call that went away    *)
(* and was restored by the modem.  Those the LED goes on showing.          *)
ConnectedIsShown ==
  /\ Connected /\ net = "online" /\ dataCall /\ notice = "none"
  /\ events = <<>> /\ ~dropped /\ ~overlaid
  => led.base = "internet_ok"

(* "PDP fail: ... slow blink": a data call that stays down is shown as no  *)
(* internet from some moment on, whatever the MQTT task has to say.        *)
OfflineIsShown == <>[]~dataCall => <>[](led.base = "no_internet")

(* "Restore network/broker. MQTT service should reconnect automatically":  *)
(* once SIM, operator, data call and broker are there for good, whatever   *)
(* happened before, the session comes up and, if no event was dropped and  *)
(* nothing else is reported in the end, the LED says so.                   *)
Reconnects ==
  <>[](dataCall /\ broker /\ ready = Needs) /\ <>[][~Setback]_conVars /\ []~dropped /\ <>[]~overlaid
    => <>[](Connected /\ led.base = "internet_ok")

=============================================================================
