----------------------------- MODULE Supervisor -----------------------------
(***************************************************************************)
(* sb_supervisor.c and sb_led_status.c: the task that reads the event      *)
(* queue, and what it makes of an event: the state of the one LED and the  *)
(* two spoken alerts about the data call.  The alerts about SIM, MQTT and  *)
(* battery, whose flags no other alert touches, are left out, and so is    *)
(* the blinking; the acknowledgement of a key press, which hides the LED's *)
(* state for a few heartbeats, is not.                                     *)
(***************************************************************************)
EXTENDS EventBus, Integers

VARIABLES
  led,         (* s_led_state, s_led_base_state, s_led_ack_toggles_left    *)
  said,        (* the alerts of s_alert_..._announced that are set         *)
  balance      (* history: "no internet" alerts minus "internet" alerts    *)

ledVars == <<led, said, balance>>

LedBase == {"internet_ok", "no_internet", "no_mqtt", "unregistered",
            "battery_low", "error"}
LedAck  == {"volume_mode", "transaction_mode"}

SupervisorInit ==
  /\ led = [shown |-> "no_internet", base |-> "no_internet", toggles |-> 0]
  /\ said = {}
  /\ balance = 0

(* sb_led_status_set() *)
SetLed(state) == led' = [shown |-> state, base |-> state, toggles |-> 0]
Acknowledge(state, toggles) ==
  led' = [led EXCEPT !.shown = state, !.toggles = toggles]

(* sb_supervisor_play_alert_once(): the flag is set whether or not the     *)
(* audio queue took the prompt.                                            *)
Say(alert, weight) == balance' = IF alert \in said THEN balance ELSE balance + weight

----------------------------------------------------------------------------

(* Events whose only effect here is a new state of the LED.                *)
Show(event, state) == /\ Wait(event)
                      /\ SetLed(state)
                      /\ UNCHANGED <<said, balance>>

SimFault == Show("sim_fault", "no_internet")

SimReady == Wait("sim_ready") /\ UNCHANGED ledVars

(* Variant: the "internet" alert is not armed again.                       *)
InternetLostOnce ==
  /\ Wait("network_lost") \/ Wait("datacall_fault")
  /\ SetLed("no_internet")
  /\ said' = said \cup {"no_internet"}
  /\ Say("no_internet", 1)

InternetLost == /\ Wait("network_lost") \/ Wait("datacall_fault")
                /\ SetLed("no_internet")
                /\ said' = (said \ {"internet"}) \cup {"no_internet"}
                /\ Say("no_internet", 1)

InternetReady == /\ Wait("datacall_ready")
                 /\ SetLed("internet_ok")
                 /\ said' = (said \ {"no_internet"}) \cup {"internet"}
                 /\ Say("internet", -1)

(* Variant: MQTT_READY arms the alert again and leaves the LED.            *)
MqttReadyDark == Wait("mqtt_ready") /\ UNCHANGED ledVars

MqttReady == Show("mqtt_ready", "internet_ok")

MqttDown == Show("mqtt_fault", "no_mqtt") \/ Show("mqtt_disconnected", "no_mqtt")

Unregistered == Show("unregistered", "unregistered")
NorFault     == Show("nor_fault", "error")
BatteryLow   == Show("battery_low", "battery_low")

(* The key handlers of sb_business_service.c.                              *)
VolumeKey == /\ Wait("volume_key")
             /\ Acknowledge("volume_mode", 2)
             /\ UNCHANGED <<said, balance>>

ModeKey == /\ Wait("mode_key")
           /\ Acknowledge("transaction_mode", 4)
           /\ UNCHANGED <<said, balance>>

(* Variant: the state before the acknowledgement is not restored.          *)
HeartbeatStays ==
  /\ Wait("heartbeat")
  /\ led' = [led EXCEPT !.toggles = IF @ > 0 THEN @ - 1 ELSE 0]
  /\ UNCHANGED <<said, balance>>

(* sb_led_status_on_heartbeat()                                            *)
Heartbeat == /\ Wait("heartbeat")
             /\ led' = CASE led.toggles = 0 -> led
                         [] led.toggles = 1 -> [led EXCEPT !.toggles = 0, !.shown = led.base]
                         [] OTHER           -> [led EXCEPT !.toggles = @ - 1]
             /\ UNCHANGED <<said, balance>>

Supervise == \/ SimReady \/ SimFault \/ InternetLost \/ InternetReady
             \/ MqttReady \/ MqttDown \/ Unregistered \/ NorFault \/ BatteryLow
             \/ VolumeKey \/ ModeKey \/ Heartbeat

----------------------------------------------------------------------------
(* Properties *)

(* "... then previous state": whatever arrives meanwhile, an               *)
(* acknowledgement hides the state only while it blinks, and what is       *)
(* hidden or shown otherwise is one and the same state.                    *)
AckGivesWay == (led.toggles = 0) = (led.shown = led.base)

(* The device does not say twice in a row that the internet is gone, or    *)
(* twice that it is back, in whatever order faults, losses and recoveries  *)
(* are reported and however many of the reports the queue dropped.         *)
AlertsAlternate == balance \in -1 .. 1

=============================================================================
