------------------------------ MODULE MqttLink ------------------------------
(***************************************************************************)
(* sb_mqtt_service.c: the life of the MQTT session.  The task waits for    *)
(* the network, checks configuration and TLS files, opens socket, session  *)
(* and both subscriptions, runs the session until something breaks, closes *)
(* everything and starts over; three failed attempts in a row trip a       *)
(* circuit breaker.                                                        *)
(***************************************************************************)
EXTENDS Network

CONSTANT FailLimit      (* SB_MQTT_CONNECT_FAIL_LIMIT                      *)

ASSUME MqttAssumption == FailLimit \in Nat \ {0}

VARIABLES
  mq,          (* where the MQTT task is                                   *)
  fails,       (* s_mqtt_connect_fail_count, no further than FailLimit     *)
  opened,      (* what of the connection is open                           *)
  reported,    (* config_fault_reported, cert_fault_reported               *)
  broker,      (* the broker answers                                       *)
  ready,       (* what a session needs beforehand and finds                *)
  row,         (* history: failed attempts since the last session          *)
  rested       (* history: a cool-down since the last failed attempt       *)

mqVars   == <<mq, fails, opened, reported, broker, ready, row, rested>>
linkVars == <<events, dropped, net, online, callback, dataCall, notice,
              mq, fails, opened, reported, broker, ready, row, rested>>

MqPc == {"wait", "config", "certs", "socket", "session", "payment", "command",
         "welcome", "loop", "leave", "refused", "tripped", "cooldown"}

(* What a connection is made of, and the steps that open it.               *)
Connection == {"client", "socket", "session", "payment", "command"}
OpenSteps  == {"socket", "session", "payment", "command"}

(* Host, port, client id and topic set; TLS not asked for, or its files in *)
(* place and the time valid.                                               *)
Needs == {"config", "certs"}

(* What opens after what.                                                  *)
Following == [socket |-> "session", session |-> "payment",
              payment |-> "command", command |-> "welcome"]

MqttInit == /\ mq = "wait" /\ fails = 0 /\ opened = {}
            /\ reported = {}
            /\ broker \in BOOLEAN /\ ready \in SUBSET Needs
            /\ row = 0 /\ rested = FALSE

Reachable == broker /\ dataCall

Capped(n) == IF n < FailLimit THEN n ELSE FailLimit

----------------------------------------------------------------------------

WaitNetwork == /\ mq = "wait" /\ Slept /\ online
               /\ mq' = "config"
               /\ UNCHANGED <<netVars, busVars, fails, opened, reported, broker,
                              ready, row, rested>>

(* A check that fails is reported the first time only.                     *)
Check(what, next) ==
  /\ mq = what
  /\ IF what \in ready
     THEN mq' = next /\ reported' = reported \ {what} /\ Quiet
     ELSE /\ mq' = "wait" /\ reported' = reported \cup {what}
          /\ IF what \in reported THEN Quiet ELSE Post("mqtt_fault")
  /\ UNCHANGED <<netVars, fails, opened, broker, ready, row, rested>>

CheckConfig == Check("config", "certs")
CheckCerts  == Check("certs", "socket")

(* MQTTClientInit and NetworkConnect, MQTTConnect, the two MQTTSubscribe.   *)
Open == /\ mq \in OpenSteps /\ Reachable
        /\ opened' = opened \cup {mq} \cup IF mq = "socket" THEN {"client"} ELSE {}
        /\ mq' = Following[mq]
        /\ row' = IF mq = "command" THEN 0 ELSE row
        /\ UNCHANGED <<netVars, busVars, fails, reported, broker, ready, rested>>

(* MQTTDisconnect, NetworkDisconnect and MQTTClientDeinit, on what is open. *)
SignedOff(o) == o \ {"session", "payment", "command"}
HungUp(o)    == o \ {"socket"}
Released(o)  == o \ {"client"}

(* A step fails; the code after it closes what it closes.                  *)
Fails(step, left) == /\ mq = step /\ ~Reachable
                     /\ opened' = left
                     /\ mq' = "refused"
                     /\ row' = Capped(row + 1) /\ rested' = FALSE
                     /\ UNCHANGED <<netVars, busVars, fails, reported, broker, ready>>

(* The client was initialised before the socket was asked for.             *)
NoSocket  == Fails("socket", Released(opened \cup {"client"}))
NoSession == Fails("session", Released(HungUp(opened)))
NoPaymentTopic == Fails("payment", Released(HungUp(SignedOff(opened))))

(* Variant: the last of the four clean-ups forgets the socket.             *)
NoCommandTopicLeaks == Fails("command", Released(SignedOff(opened)))

NoCommandTopic == Fails("command", Released(HungUp(SignedOff(opened))))

OpenFails == NoSocket \/ NoSession \/ NoPaymentTopic \/ NoCommandTopic

(* Variant: the breaker trips one failure late.                            *)
RefusedLate ==
  /\ mq = "refused"
  /\ fails' = Capped(fails + 1)
  /\ Post("mqtt_fault")
  /\ mq' = IF fails >= FailLimit THEN "tripped" ELSE "wait"
  /\ UNCHANGED <<netVars, opened, reported, broker, ready, row, rested>>

Refused == /\ mq = "refused"
           /\ fails' = Capped(fails + 1)
           /\ Post("mqtt_fault")
           /\ mq' = IF fails' >= FailLimit THEN "tripped" ELSE "wait"
           /\ UNCHANGED <<netVars, opened, reported, broker, ready, row, rested>>

Tripped == /\ mq = "tripped"
           /\ Post("mqtt_fault")
           /\ mq' = "cooldown"
           /\ UNCHANGED <<netVars, fails, opened, reported, broker, ready, row, rested>>

(* The count keeps its value: the attempt after the cool-down is a single  *)
(* one, and the next failure trips the breaker again.                      *)
Cooldown == /\ mq = "cooldown" /\ Slept
            /\ mq' = "wait"
            /\ rested' = TRUE
            /\ UNCHANGED <<netVars, busVars, fails, opened, reported, broker, ready, row>>

Welcome == /\ mq = "welcome"
           /\ fails' = 0
           /\ Post("mqtt_ready")
           /\ mq' = "loop"
           /\ UNCHANGED <<netVars, opened, reported, broker, ready, row, rested>>

(* The connected loop: the network flag, the publications, the yield.      *)
Break(event) == /\ mq = "loop"
                /\ Post(event)
                /\ mq' = "leave"
                /\ UNCHANGED <<netVars, fails, reported, broker, ready, row, rested>>

(* A publication or a yield that fails may have ended the session already. *)
Breaks(event) == /\ ~Reachable /\ Break(event)
                 /\ opened' \in {opened, SignedOff(opened)}

NetworkGone   == ~online /\ Break("mqtt_disconnected") /\ UNCHANGED opened
PublishFails  == online /\ Breaks("mqtt_fault")
YieldFails    == online /\ Breaks("mqtt_disconnected")

(* sb_mqtt_disconnect() signs off only where there is a session.           *)
Leave == /\ mq = "leave"
         /\ opened' = Released(HungUp(IF "session" \in opened THEN SignedOff(opened) ELSE opened))
         /\ mq' = "wait"
         /\ UNCHANGED <<netVars, busVars, fails, reported, broker, ready, row, rested>>

MqttTask == \/ WaitNetwork \/ CheckConfig \/ CheckCerts
            \/ Open \/ OpenFails \/ Refused \/ Tripped \/ Cooldown
            \/ Welcome \/ NetworkGone \/ PublishFails \/ YieldFails \/ Leave

(* sb_mqtt_message_arrived() with no slot left.                            *)
MessageRefused == /\ "rx_full" \in Disturbance
                  /\ mq = "loop" /\ Reachable
                  /\ Post("mqtt_fault")
                  /\ UNCHANGED <<netVars, mqVars>>

(* The broker comes and goes, the files and the time come.                 *)
Surroundings == /\ \/ broker' = ~broker /\ UNCHANGED ready
                   \/ /\ "certs" \notin ready
                      /\ ready' = ready \cup {"certs"}
                      /\ UNCHANGED broker
                /\ UNCHANGED <<netVars, busVars, mq, fails, opened, reported, row, rested>>

LinkInit == BusInit /\ NetworkInit /\ MqttInit

MqttNext == MqttTask \/ MessageRefused \/ Surroundings

----------------------------------------------------------------------------
(* Properties *)

(* Whichever step of a connection fails, and however a session ends, the   *)
(* clean-up written for that very case closes all that was open by then:   *)
(* neither the waits nor the next attempt have a client, a socket or a     *)
(* session left over.  A running session has everything                    *)
(* (sb_mqtt_connect, sb_mqtt_disconnect).                                  *)
NothingLeftOpen ==
  /\ mq \notin {"session", "payment", "command", "welcome", "loop", "leave"} => opened = {}
  /\ mq \in {"welcome", "loop"} => opened = Connection

(* The circuit breaker: after FailLimit attempts failed in a row each      *)
(* further attempt comes after a cool-down, and a device whose last        *)
(* session worked is not made to wait for one before that.                 *)
BreakerIsExact ==
  /\ mq \in OpenSteps /\ row = FailLimit => rested
  /\ mq = "cooldown" => row = FailLimit

=============================================================================
