------------------------- MODULE ConnectivityProofs -------------------------
(***************************************************************************)
(* The MQTT session and the supervisor for every depth of the event queue, *)
(* every limit of the circuit breaker and every disturbance.               *)
(***************************************************************************)
EXTENDS Connectivity, TLAPS

(* What of a connection is open, by where the task is.                     *)
OpenAt(pc) == CASE pc = "session" -> {"client", "socket"}
                [] pc = "payment" -> {"client", "socket", "session"}
                [] pc = "command" -> {"client", "socket", "session", "payment"}
                [] pc \in {"welcome", "loop"} -> Connection
                [] OTHER          -> {}

(* A session that is left may have ended by itself.                        *)
OpenInv == IF mq = "leave" THEN opened \in {Connection, SignedOff(Connection)}
                           ELSE opened = OpenAt(mq)

(* The breaker's count is the number of failures in a row, one behind      *)
(* while a failure is being handled and not yet reset in "welcome"; at the *)
(* limit only the states around a cool-down have not rested.               *)
BreakerInv ==
  /\ mq = "refused" => row = Capped(fails + 1)
  /\ mq \notin {"refused", "welcome"} => row = fails
  /\ mq \in {"welcome", "loop", "leave"} => row = 0
  /\ mq \in {"tripped", "cooldown"} => row = FailLimit
  /\ mq \notin {"refused", "tripped", "cooldown"} /\ row = FailLimit => rested

(* The part of the state the MQTT task owns.                               *)
SessionType == /\ mq \in MqPc
               /\ fails \in 0 .. FailLimit /\ row \in 0 .. FailLimit
               /\ rested \in BOOLEAN

SessionInv == /\ SessionType
              /\ OpenInv
              /\ BreakerInv

----------------------------------------------------------------------------
(* The MQTT session                                                        *)

(* Counting up to the limit stays within it.                               *)
LEMMA CappedType ==
  ASSUME NEW n \in 0 .. FailLimit
  PROVE  /\ Capped(n + 1) \in 0 .. FailLimit
         /\ n < FailLimit => Capped(n + 1) = n + 1
         /\ n = FailLimit => Capped(n + 1) = FailLimit
BY MqttAssumption DEF Capped

(* A check passes on to the next step or back to waiting.                  *)
LEMMA CheckKeepsSession ==
  ASSUME SessionInv, CheckConfig \/ CheckCerts
  PROVE  SessionInv'
<1>1. /\ mq \in {"config", "certs"}
      /\ mq' \in {"wait", "certs", "socket"}
      /\ UNCHANGED <<fails, opened, row, rested>>
  BY DEF CheckConfig, CheckCerts, Check
<1>2. SessionType'
  BY <1>1 DEF SessionInv, SessionType, MqPc
<1>3. OpenInv'
  BY <1>1 DEF SessionInv, OpenInv, OpenAt
<1>4. BreakerInv'
  BY <1>1 DEF SessionInv, BreakerInv, Capped
<1> QED BY <1>2, <1>3, <1>4 DEF SessionInv

LEMMA OpenKeepsSession ==
  ASSUME SessionInv, Open
  PROVE  SessionInv'
<1>1. /\ mq \in {"socket", "session", "payment", "command"}
      /\ opened' = opened \cup {mq} \cup IF mq = "socket" THEN {"client"} ELSE {}
      /\ mq' = Following[mq]
      /\ row' = IF mq = "command" THEN 0 ELSE row
      /\ UNCHANGED <<fails, rested>>
  BY DEF Open, OpenSteps
<1>2. /\ mq = "socket"  => mq' = "session"
      /\ mq = "session" => mq' = "payment"
      /\ mq = "payment" => mq' = "command"
      /\ mq = "command" => mq' = "welcome"
  BY <1>1 DEF Following
<1>3. SessionType'
  BY <1>1, <1>2, MqttAssumption DEF SessionInv, SessionType, MqPc
<1>4. OpenInv'
  BY <1>1, <1>2 DEF SessionInv, OpenInv, OpenAt, Connection
<1>5. BreakerInv'
  BY <1>1, <1>2, MqttAssumption DEF SessionInv, BreakerInv, Capped
<1> QED BY <1>3, <1>4, <1>5 DEF SessionInv

(* Each of the four clean-ups closes what its step found open.             *)
LEMMA FailureClosesAll ==
  ASSUME SessionInv, OpenFails
  PROVE  /\ mq \in {"socket", "session", "payment", "command"}
         /\ opened' = {} /\ mq' = "refused"
         /\ row' = Capped(row + 1) /\ rested' = FALSE
         /\ fails' = fails
<1>1. CASE NoSocket
  BY <1>1 DEF NoSocket, Fails, Released, SessionInv, OpenInv, OpenAt
<1>2. CASE NoSession
  BY <1>2 DEF NoSession, Fails, Released, HungUp, SessionInv, OpenInv, OpenAt
<1>3. CASE NoPaymentTopic
  BY <1>3 DEF NoPaymentTopic, Fails, Released, HungUp, SignedOff, SessionInv, OpenInv, OpenAt
<1>4. CASE NoCommandTopic
  BY <1>4 DEF NoCommandTopic, Fails, Released, HungUp, SignedOff, SessionInv, OpenInv, OpenAt
<1> QED BY <1>1, <1>2, <1>3, <1>4 DEF OpenFails

LEMMA FailureKeepsSession ==
  ASSUME SessionInv, OpenFails \/ Refused \/ Tripped \/ Cooldown
  PROVE  SessionInv'
<1> USE DEF SessionInv, SessionType
<1>1. CASE OpenFails
  <2>1. /\ mq \in {"socket", "session", "payment", "command"}
        /\ opened' = {} /\ mq' = "refused"
        /\ row' = Capped(row + 1) /\ rested' = FALSE
        /\ fails' = fails
    BY <1>1, FailureClosesAll
  <2>2. row = fails
    BY <2>1 DEF BreakerInv
  <2>3. SessionType' /\ OpenInv'
    BY <2>1, CappedType DEF MqPc, OpenInv, OpenAt
  <2>4. BreakerInv'
    BY <2>1, <2>2 DEF BreakerInv, Capped
  <2> QED BY <2>3, <2>4
<1>2. CASE Refused
  <2>1. /\ mq = "refused"
        /\ fails' = Capped(fails + 1)
        /\ mq' = IF fails' >= FailLimit THEN "tripped" ELSE "wait"
        /\ UNCHANGED <<opened, row, rested>>
    BY <1>2 DEF Refused
  <2>2. fails' = row /\ row \in 0 .. FailLimit
    BY <2>1 DEF BreakerInv
  <2>3. SessionType' /\ OpenInv'
    BY <2>1, <2>2 DEF MqPc, OpenInv, OpenAt
  <2>4. mq' = "tripped" => row = FailLimit
    BY <2>1, <2>2, MqttAssumption
  <2>5. mq' = "wait" => row # FailLimit
    BY <2>1, <2>2, MqttAssumption
  <2>6. BreakerInv'
    BY <2>1, <2>2, <2>4, <2>5 DEF BreakerInv
  <2> QED BY <2>3, <2>6
<1>3. CASE Tripped
  BY <1>3 DEF Tripped, MqPc, OpenInv, OpenAt, BreakerInv
<1>4. CASE Cooldown
  BY <1>4 DEF Cooldown, MqPc, OpenInv, OpenAt, BreakerInv
<1> QED BY <1>1, <1>2, <1>3, <1>4

LEMMA RunningKeepsSession ==
  ASSUME SessionInv,
         WaitNetwork \/ Welcome \/ NetworkGone \/ PublishFails \/ YieldFails \/ Leave
  PROVE  SessionInv'
<1> USE DEF SessionInv, SessionType
<1>1. CASE WaitNetwork
  BY <1>1 DEF WaitNetwork, MqPc, OpenInv, OpenAt, BreakerInv
<1>2. CASE Welcome
  BY <1>2, MqttAssumption DEF Welcome, MqPc, OpenInv, OpenAt, BreakerInv
<1>3. CASE NetworkGone \/ PublishFails \/ YieldFails
  <2>1. /\ mq = "loop" /\ mq' = "leave"
        /\ opened' \in {opened, SignedOff(opened)}
        /\ UNCHANGED <<fails, row, rested>>
    BY <1>3 DEF NetworkGone, PublishFails, YieldFails, Breaks, Break
  <2>2. OpenInv'
    BY <2>1 DEF OpenInv, OpenAt
  <2> QED BY <2>1, <2>2 DEF MqPc, BreakerInv
<1>4. CASE Leave
  <2>1. /\ mq = "leave" /\ mq' = "wait"
        /\ UNCHANGED <<fails, row, rested>>
    BY <1>4 DEF Leave
  <2>2. opened' = {}
    BY <1>4 DEF Leave, OpenInv, Connection, SignedOff, HungUp, Released
  <2> QED BY <2>1, <2>2, MqttAssumption DEF MqPc, OpenInv, OpenAt, BreakerInv
<1> QED BY <1>1, <1>2, <1>3, <1>4

(* The session invariant holds whatever network, modem, broker, keys and   *)
(* supervisor do.                                                          *)
THEOREM SessionInvariant == ConSpec => []SessionInv
<1>1. ASSUME ConInit PROVE SessionInv
  <2>1. mq = "wait" /\ fails = 0 /\ opened = {} /\ row = 0 /\ rested = FALSE
    BY <1>1 DEF ConInit, LinkInit, MqttInit
  <2>2. SessionType
    <3>1. mq \in MqPc /\ rested \in BOOLEAN
      BY <2>1, Zenon DEF MqPc
    <3>2. fails \in 0 .. FailLimit /\ row \in 0 .. FailLimit
      BY <2>1, MqttAssumption
    <3> QED BY <3>1, <3>2 DEF SessionType
  <2>3. OpenInv
    BY <2>1 DEF OpenInv, OpenAt
  <2>4. BreakerInv
    BY <2>1, MqttAssumption DEF BreakerInv
  <2> QED BY <2>2, <2>3, <2>4 DEF SessionInv
<1>2. SessionInv /\ [ConNext]_conVars => SessionInv'
  <2> SUFFICES ASSUME SessionInv, [ConNext]_conVars PROVE SessionInv'
    OBVIOUS
  <2>1. ASSUME UNCHANGED <<mq, fails, opened, row, rested>> PROVE SessionInv'
    BY <2>1 DEF SessionInv, SessionType, OpenInv, OpenAt, BreakerInv, Capped
  <2>2. CASE NetworkRuns \/ OthersPost \/ SupervisorRuns
    BY <2>1, <2>2 DEF NetworkRuns, OthersPost, SupervisorRuns, mqVars
  <2>3. CASE MqttRuns
    <3>1. CASE MqttTask
      BY <3>1, CheckKeepsSession, OpenKeepsSession, FailureKeepsSession,
         RunningKeepsSession DEF MqttTask
    <3>2. CASE MessageRefused \/ Surroundings
      BY <2>1, <3>2 DEF MessageRefused, Surroundings, mqVars
    <3> QED BY <2>3, <3>1, <3>2 DEF MqttRuns, MqttNext
  <2>4. CASE UNCHANGED conVars
    BY <2>1, <2>4 DEF conVars
  <2> QED BY <2>2, <2>3, <2>4 DEF ConNext
<1> QED BY <1>1, <1>2, PTL DEF ConSpec

(* Nothing is left open between two attempts, whichever step of which      *)
(* attempt fails and however a session ends: each clean-up path of         *)
(* sb_mqtt_connect() and the one of sb_mqtt_disconnect() closes what was   *)
(* open where it is taken, and a running session has everything.           *)
THEOREM CleanReconnection == ConSpec => []NothingLeftOpen
<1>1. SessionInv => NothingLeftOpen
  BY DEF SessionInv, SessionType, MqPc, OpenInv, OpenAt, NothingLeftOpen
<1> QED BY <1>1, SessionInvariant, PTL

(* The circuit breaker is exact for every limit: never an attempt after    *)
(* FailLimit failures without a cool-down, never a cool-down before.       *)
THEOREM ExactBreaker == ConSpec => []BreakerIsExact
<1>1. SessionInv => BreakerIsExact
  BY DEF SessionInv, BreakerInv, BreakerIsExact, OpenSteps
<1> QED BY <1>1, SessionInvariant, PTL

----------------------------------------------------------------------------
(* The supervisor and the LED                                              *)

LedInv == /\ led \in [shown : LedBase \cup LedAck, base : LedBase, toggles : 0 .. 4]
          /\ AckGivesWay

(* A balance of one alert more is possible only where the next alert is    *)
(* the other one.                                                          *)
AlertInv ==
  /\ balance \in Int
  /\ ~({"internet", "no_internet"} \subseteq said)
  /\ "no_internet" \in said => balance \in {0, 1}
  /\ "internet" \in said => balance \in {-1, 0}
  /\ "internet" \notin said /\ "no_internet" \notin said => balance = 0

LEMMA SetLedKeepsLed ==
  ASSUME NEW state \in LedBase, SetLed(state)
  PROVE  LedInv'
BY DEF SetLed, LedInv, AckGivesWay

LEMMA AcknowledgeKeepsLed ==
  ASSUME LedInv, NEW state \in LedAck, NEW n \in {2, 4}, Acknowledge(state, n)
  PROVE  LedInv'
<1>1. led.base \in LedBase /\ led.base # state
  BY DEF LedInv, LedBase, LedAck
<1>2. led' = [shown |-> state, base |-> led.base, toggles |-> n]
  BY DEF Acknowledge, LedInv
<1> QED BY <1>1, <1>2 DEF LedInv, AckGivesWay

LEMMA HeartbeatKeepsLed ==
  ASSUME LedInv, Heartbeat
  PROVE  LedInv'
<1>1. led.shown \in LedBase \cup LedAck /\ led.base \in LedBase /\ led.toggles \in 0 .. 4
  BY DEF LedInv
<1>2. CASE led.toggles = 0
  BY <1>2 DEF Heartbeat, LedInv, AckGivesWay
<1>3. CASE led.toggles = 1
  <2>1. led' = [led EXCEPT !.toggles = 0, !.shown = led.base]
    BY <1>3 DEF Heartbeat
  <2>2. led'.shown = led.base /\ led'.base = led.base /\ led'.toggles = 0
    BY <2>1 DEF LedInv
  <2> DEFINE dark == [led EXCEPT !.toggles = 0]
  <2>3. dark \in [shown : LedBase \cup LedAck, base : LedBase, toggles : 0 .. 4]
    BY <1>1 DEF LedInv
  <2>4. led' = [dark EXCEPT !.shown = led.base]
    BY <2>1
  <2> HIDE DEF dark
  <2>5. led' \in [shown : LedBase \cup LedAck, base : LedBase, toggles : 0 .. 4]
    BY <1>1, <2>3, <2>4
  <2> QED BY <2>2, <2>5 DEF LedInv, AckGivesWay
<1>4. CASE led.toggles \in 2 .. 4
  <2>1. led' = [shown |-> led.shown, base |-> led.base, toggles |-> led.toggles - 1]
    BY <1>4 DEF Heartbeat, LedInv
  <2>2. led.shown # led.base
    BY <1>4 DEF LedInv, AckGivesWay
  <2>3. led.toggles - 1 \in 1 .. 3
    BY <1>4
  <2> QED BY <1>1, <2>1, <2>2, <2>3 DEF LedInv, AckGivesWay
<1> QED BY <1>1, <1>2, <1>3, <1>4

(* One conjunct per kind of event: alerts of the link, and the rest.       *)
LEMMA LinkEventsKeepAlerts ==
  ASSUME AlertInv, InternetLost \/ InternetReady
  PROVE  AlertInv'
<1>1. CASE InternetLost
  <2>1. /\ said' = (said \ {"internet"}) \cup {"no_internet"}
        /\ balance' = IF "no_internet" \in said THEN balance ELSE balance + 1
    BY <1>1 DEF InternetLost, Say
  <2>2. "no_internet" \in said' /\ "internet" \notin said'
    BY <2>1
  <2>3. balance' \in {0, 1}
    BY <2>1 DEF AlertInv
  <2> QED BY <2>2, <2>3 DEF AlertInv
<1>2. CASE InternetReady
  <2>1. /\ said' = (said \ {"no_internet"}) \cup {"internet"}
        /\ balance' = IF "internet" \in said THEN balance ELSE balance + -1
    BY <1>2 DEF InternetReady, Say
  <2>2. "internet" \in said' /\ "no_internet" \notin said'
    BY <2>1
  <2>3. balance' \in {-1, 0}
    BY <2>1 DEF AlertInv
  <2> QED BY <2>2, <2>3 DEF AlertInv
<1> QED BY <1>1, <1>2

LEMMA OtherEventsKeepAlerts ==
  ASSUME AlertInv, balance' = balance,
         "internet" \in said' <=> "internet" \in said,
         "no_internet" \in said' <=> "no_internet" \in said
  PROVE  AlertInv'
BY DEF AlertInv

LEMMA SuperviseKeepsBoth ==
  ASSUME LedInv, AlertInv, Supervise
  PROVE  LedInv' /\ AlertInv'
<1>1. CASE InternetLost \/ InternetReady
  BY <1>1, SetLedKeepsLed, LinkEventsKeepAlerts
     DEF InternetLost, InternetReady, LedBase
<1>2. CASE SimReady
  BY <1>2, OtherEventsKeepAlerts DEF SimReady, ledVars, LedInv, AckGivesWay
<1>3. ASSUME NEW event, NEW state \in LedBase, Show(event, state)
      PROVE  LedInv' /\ AlertInv'
  BY <1>3, SetLedKeepsLed, OtherEventsKeepAlerts DEF Show
<1>4. CASE SimFault \/ MqttReady \/ MqttDown
  BY <1>3, <1>4 DEF SimFault, MqttReady, MqttDown, LedBase
<1>5. CASE Unregistered \/ NorFault \/ BatteryLow
  BY <1>3, <1>5 DEF Unregistered, NorFault, BatteryLow, LedBase
<1>6. CASE VolumeKey \/ ModeKey
  BY <1>6, AcknowledgeKeepsLed, OtherEventsKeepAlerts DEF VolumeKey, ModeKey, LedAck
<1>7. CASE Heartbeat
  BY <1>7, HeartbeatKeepsLed, OtherEventsKeepAlerts DEF Heartbeat
<1> QED BY <1>1, <1>2, <1>4, <1>5, <1>6, <1>7 DEF Supervise

(* LED and alerts, whatever is posted and whatever the queue drops.        *)
THEOREM SupervisorInvariant == ConSpec => [](LedInv /\ AlertInv)
<1>1. ConInit => LedInv /\ AlertInv
  BY DEF ConInit, SupervisorInit, LedInv, AckGivesWay, AlertInv, LedBase
<1>2. LedInv /\ AlertInv /\ [ConNext]_conVars => LedInv' /\ AlertInv'
  <2> SUFFICES ASSUME LedInv, AlertInv, [ConNext]_conVars
               PROVE  LedInv' /\ AlertInv'
    OBVIOUS
  <2>1. CASE UNCHANGED ledVars
    BY <2>1 DEF ledVars, LedInv, AckGivesWay, AlertInv
  <2>2. CASE SupervisorRuns
    BY <2>2, SuperviseKeepsBoth DEF SupervisorRuns
  <2> QED BY <2>1, <2>2 DEF ConNext, NetworkRuns, MqttRuns, OthersPost, conVars, ledVars
<1> QED BY <1>1, <1>2, PTL DEF ConSpec

(* A key acknowledgement hides the LED's state only while it blinks, for   *)
(* every sequence of events.                                               *)
THEOREM AcknowledgementEnds == ConSpec => []AckGivesWay
<1>1. LedInv /\ AlertInv => AckGivesWay
  BY DEF LedInv
<1> QED BY <1>1, SupervisorInvariant, PTL

(* The spoken internet alerts alternate, however many events were dropped. *)
THEOREM AlternatingAlerts == ConSpec => []AlertsAlternate
<1>1. LedInv /\ AlertInv => AlertsAlternate
  BY DEF AlertInv, AlertsAlternate
<1> QED BY <1>1, SupervisorInvariant, PTL

----------------------------------------------------------------------------
(* What the LED will show                                                  *)

Good == {"datacall_ready", "mqtt_ready"}
Bad  == {"sim_fault", "network_lost", "datacall_fault", "mqtt_fault", "mqtt_disconnected",
         "unregistered", "nor_fault", "battery_low"}
Event == Good \cup Bad \cup {"sim_ready", "volume_key", "mode_key", "heartbeat"}

(* The last event of the queue q that sets the LED, or without one the LED *)
(* itself, says that the internet is there.                                *)
NoneBad(q, n)     == \A i \in n .. Len(q) : q[i] \notin Bad
WillShow(q, base) == \/ \E j \in 1 .. Len(q) : q[j] \in Good /\ NoneBad(q, j + 1)
                     \/ base = "internet_ok" /\ NoneBad(q, 1)

LinkUp == mq = "loop" /\ net = "online" /\ dataCall

(* Network and MQTT task report in any order, and yet the last word is     *)
(* right: a data call that is up came up before it was announced and is no *)
(* news any more, and a session was announced when it began.               *)
ShownInv == /\ events \in Seq(Event)
            /\ overlaid \in BOOLEAN
            /\ dataCall => notice # "down"
            /\ ~dropped /\ ~overlaid /\ LinkUp => WillShow(events, led.base)

(* An event is posted that keeps or sets what will be shown.               *)
LEMMA WillShowPosted ==
  ASSUME NEW S, NEW q \in Seq(S), NEW e \in S, NEW base,
         e \in Good \/ (e \notin Bad /\ WillShow(q, base))
  PROVE  WillShow(Append(q, e), base)
<1> PICK n \in Nat : n = Len(q)
  OBVIOUS
<1> PICK r : r = Append(q, e)
  OBVIOUS
<1>1. Len(r) = n + 1 /\ r[n + 1] = e /\ \A i \in 1 .. n : r[i] = q[i]
  OBVIOUS
<1>2. ASSUME e \notin Bad, NEW a \in 1 .. n + 1, NoneBad(q, a) PROVE NoneBad(r, a)
  BY <1>1, <1>2 DEF NoneBad
<1>3. CASE e \in Good
  <2>1. NoneBad(r, n + 1 + 1) /\ n + 1 \in 1 .. n + 1
    BY <1>1 DEF NoneBad
  <2> QED
    BY <1>1, <1>3, <2>1 DEF WillShow
<1>4. CASE e \notin Bad /\ WillShow(q, base)
  <2>1. CASE base = "internet_ok" /\ NoneBad(q, 1)
    BY <1>1, <1>2, <1>4, <2>1 DEF WillShow
  <2>2. ASSUME NEW j \in 1 .. n, q[j] \in Good, NoneBad(q, j + 1)
        PROVE  WillShow(r, base)
    <3>1. j \in 1 .. n + 1 /\ j + 1 \in 1 .. n + 1 /\ r[j] \in Good
      BY <1>1, <2>2
    <3> QED
      BY <1>1, <1>2, <1>4, <2>2, <3>1 DEF WillShow
  <2> QED
    BY <1>4, <2>1, <2>2 DEF WillShow
<1> QED
  BY <1>3, <1>4

(* The first event is handled.                                             *)
LEMMA WillShowHandled ==
  ASSUME NEW S, NEW q \in Seq(S), q # <<>>, NEW base, NEW next, WillShow(q, base),
         q[1] \in Good => next = "internet_ok",
         q[1] \notin Good \cup Bad => next = base
  PROVE  WillShow(Tail(q), next)
<1> PICK n \in Nat : n = Len(q) - 1
  OBVIOUS
<1> PICK r : r = Tail(q)
  OBVIOUS
<1>1. Len(q) = n + 1 /\ Len(r) = n /\ \A i \in 1 .. n : r[i] = q[i + 1]
  OBVIOUS
<1>2. ASSUME NEW a \in 1 .. n + 1, NoneBad(q, a + 1) PROVE NoneBad(r, a)
  BY <1>1, <1>2 DEF NoneBad
<1>3. CASE base = "internet_ok" /\ NoneBad(q, 1)
  <2>1. q[1] \notin Bad /\ NoneBad(q, 1 + 1)
    BY <1>1, <1>3 DEF NoneBad
  <2>2. NoneBad(r, 1)
    BY <1>2, <2>1
  <2> QED
    BY <1>3, <2>1, <2>2 DEF WillShow
<1>4. ASSUME NEW j \in 1 .. n + 1, q[j] \in Good, NoneBad(q, j + 1)
      PROVE  WillShow(r, next)
  <2>1. NoneBad(r, j)
    BY <1>2, <1>4
  <2>2. CASE j = 1
    BY <1>4, <2>1, <2>2 DEF WillShow
  <2>3. CASE j # 1
    <3>1. j - 1 \in 1 .. n /\ j - 1 + 1 = j /\ r[j - 1] = q[j]
      BY <1>1, <2>3
    <3> QED
      BY <1>1, <1>4, <2>1, <3>1 DEF WillShow
  <2> QED
    BY <2>2, <2>3
<1> QED
  BY <1>1, <1>3, <1>4 DEF WillShow

(* A step posts one event at most, or drops it.                            *)
Posts(E) == \/ UNCHANGED <<events, dropped>>
            \/ dropped'
            \/ \E e \in E : events' = Append(events, e) /\ dropped' = dropped

LEMMA PostKeepsType ==
  ASSUME events \in Seq(Event), NEW e \in Event, Post(e)
  PROVE  events' \in Seq(Event) /\ (dropped => dropped')
BY DEF Post

(* The tasks: while the link is up nothing bad is posted that the history  *)
(* does not know of, and what brings it up posts something good.           *)
LEMMA PostsKeepShown ==
  ASSUME ShownInv, UNCHANGED led,
         dataCall' => notice' # "down",
         events' \in Seq(Event), overlaid' \in BOOLEAN,
         dropped => dropped',
         LinkUp' => \/ LinkUp /\ (overlaid => overlaid') /\ Posts(Event \ Bad)
                    \/ dropped' \/ overlaid' \/ \E e \in Good : events' = Append(events, e)
  PROVE  ShownInv'
<1> SUFFICES ASSUME ~dropped', ~overlaid', LinkUp' PROVE WillShow(events', led.base)
  BY DEF ShownInv, WillShow, NoneBad, Good, Bad
<1>1. CASE \E e \in Good : events' = Append(events, e)
  <2>1. PICK e \in Good : events' = Append(events, e)
    BY <1>1
  <2>2. events \in Seq(Event) /\ e \in Event
    BY DEF ShownInv, Event
  <2>3. WillShow(Append(events, e), led.base)
    BY <2>2, WillShowPosted
  <2> QED
    BY <2>1, <2>3
<1>2. CASE LinkUp /\ (overlaid => overlaid') /\ Posts(Event \ Bad)
  <2>1. WillShow(events, led.base) /\ events \in Seq(Event)
    BY <1>2 DEF ShownInv
  <2>2. ASSUME NEW e \in Event \ Bad PROVE WillShow(Append(events, e), led.base)
    BY <2>1, WillShowPosted
  <2> QED
    BY <1>2, <2>1, <2>2 DEF Posts
<1> QED
  BY <1>1, <1>2

LEMMA NetworkKeepsShown ==
  ASSUME ShownInv, NetworkRuns
  PROVE  ShownInv'
<1>1. UNCHANGED led /\ mq' = mq
  BY DEF NetworkRuns, ledVars, mqVars
<1>o. /\ overlaid' \in BOOLEAN
      /\ ~Announce => (overlaid => overlaid')
      /\ DataCallUp /\ net = "online" => overlaid'
  <2>1. overlaid' = CASE Announce -> FALSE
                      [] DataCallUp /\ net = "online" -> TRUE
                      [] OTHER -> overlaid
    BY DEF NetworkRuns
  <2>2. ~(Announce /\ net = "online")
    BY DEF Announce
  <2> QED
    BY <2>1, <2>2 DEF ShownInv
<1>2. events \in Seq(Event) /\ Bad \cup Good \cup {"sim_ready"} \subseteq Event
  BY DEF ShownInv, Event
<1>3. CASE NetworkTask \/ QueryFails
  <2>1. UNCHANGED modem
    BY <1>3 DEF NetworkTask, Setback, SimReadyNow, SimFails, Registered, RegisterTimeout,
                StartDataCall, StartRefused, DataCallReady, DataCallTimeout, Announce,
                PollDown, QueryFails, GoOffline, ReportLost, netVars, modem
  <2>2. \/ UNCHANGED busVars
        \/ \E e \in Bad \cup {"sim_ready"} : Post(e)
        \/ Post("datacall_ready")
    BY <1>3 DEF NetworkTask, Setback, SimReadyNow, SimFails, Registered, RegisterTimeout,
                StartDataCall, StartRefused, DataCallReady, DataCallTimeout, Announce,
                PollDown, QueryFails, GoOffline, ReportLost, Bad
  <2>3. net' = "online" => Post("datacall_ready")
    BY <1>3 DEF NetworkTask, Setback, SimReadyNow, SimFails, Registered, RegisterTimeout,
                StartDataCall, StartRefused, DataCallReady, DataCallTimeout, Announce,
                PollDown, QueryFails, GoOffline, ReportLost, netVars
  <2>4. events' \in Seq(Event) /\ (dropped => dropped')
    BY <1>2, <2>2, PostKeepsType DEF busVars, Good
  <2>5. LinkUp' => dropped' \/ \E e \in Good : events' = Append(events, e)
    BY <2>3 DEF LinkUp, Post, Good
  <2>6. dataCall' => notice' # "down"
    BY <2>1 DEF modem, ShownInv
  <2> QED
    BY <1>1, <1>o, <2>4, <2>5, <2>6, PostsKeepShown
<1>4. CASE DataCallUp
  <2>1. /\ net' = net /\ UNCHANGED <<events, dropped>> /\ notice' = "up"
    BY <1>4 DEF DataCallUp, busVars
  <2>2. LinkUp' => overlaid'
    BY <1>4, <1>o, <2>1 DEF LinkUp
  <2> QED
    BY <1>1, <1>o, <2>1, <2>2, PostsKeepShown DEF ShownInv
<1>5. CASE DataCallDown
  <2>1. ~dataCall' /\ UNCHANGED <<events, dropped>>
    BY <1>5 DEF DataCallDown, busVars
  <2> QED
    BY <1>1, <1>o, <2>1, PostsKeepShown DEF LinkUp, ShownInv
<1>6. CASE DataCallCb
  <2>1. /\ UNCHANGED <<net, dataCall>> /\ notice' = "none"
        /\ IF notice = "down" THEN Post("datacall_fault") ELSE UNCHANGED <<events, dropped>>
    BY <1>6 DEF DataCallCb, Quiet, busVars
  <2>2. events' \in Seq(Event) /\ (dropped => dropped')
    BY <1>2, <2>1, PostKeepsType DEF Bad
  <2>3. LinkUp' => LinkUp /\ Posts(Event \ Bad)
    BY <1>1, <2>1 DEF LinkUp, ShownInv, Posts
  <2>4. ~Announce
    BY <2>1 DEF Announce
  <2> QED
    BY <1>1, <1>o, <2>1, <2>2, <2>3, <2>4, PostsKeepShown
<1> QED
  BY <1>3, <1>4, <1>5, <1>6 DEF NetworkRuns, NetworkNext, Modem

LEMMA MqttKeepsShown ==
  ASSUME ShownInv, MqttRuns
  PROVE  ShownInv'
<1>o. /\ overlaid' \in BOOLEAN
      /\ ~Welcome => (overlaid => overlaid')
      /\ MessageRefused => overlaid'
  <2>1. overlaid' = CASE Welcome -> FALSE
                      [] MessageRefused -> TRUE
                      [] OTHER -> overlaid
    BY DEF MqttRuns
  <2>2. ~(Welcome /\ MessageRefused)
    BY DEF Welcome, MessageRefused
  <2> QED
    BY <2>1, <2>2 DEF ShownInv
<1>s. UNCHANGED led
  BY DEF MqttRuns, ledVars
<1>1. CASE MqttTask
  <2>1. UNCHANGED <<net, dataCall, notice>>
    BY <1>1 DEF MqttTask, WaitNetwork, CheckConfig, CheckCerts, Check, Open,
                OpenFails, NoSocket, NoSession, NoPaymentTopic, NoCommandTopic, Fails,
                Refused, Tripped, Cooldown, Welcome, NetworkGone, PublishFails,
                YieldFails, Breaks, Break, Leave, netVars
  <2>2. \/ UNCHANGED busVars
        \/ \E e \in {"mqtt_fault", "mqtt_disconnected", "mqtt_ready"} : Post(e)
    BY <1>1 DEF MqttTask, WaitNetwork, CheckConfig, CheckCerts, Check, Open,
                OpenFails, NoSocket, NoSession, NoPaymentTopic, NoCommandTopic, Fails,
                Refused, Tripped, Cooldown, Welcome, NetworkGone, PublishFails,
                YieldFails, Breaks, Break, Leave, Quiet
  <2>3. mq' = "loop" => Post("mqtt_ready")
    BY <1>1 DEF MqttTask, WaitNetwork, CheckConfig, CheckCerts, Check, Open, OpenSteps,
                Following, OpenFails, NoSocket, NoSession, NoPaymentTopic, NoCommandTopic,
                Fails, Refused, Tripped, Cooldown, Welcome, NetworkGone,
                PublishFails, YieldFails, Breaks, Break, Leave
  <2>4. events' \in Seq(Event) /\ (dropped => dropped')
    <3>1. {"mqtt_fault", "mqtt_disconnected", "mqtt_ready"} \subseteq Event
      BY DEF Event, Good, Bad
    <3>2. events \in Seq(Event)
      BY DEF ShownInv
    <3> QED
      BY <2>2, <3>1, <3>2, PostKeepsType DEF busVars
  <2>5. LinkUp' => dropped' \/ \E e \in Good : events' = Append(events, e)
    BY <2>3 DEF LinkUp, Post, Good
  <2> QED
    BY <1>o, <1>s, <2>1, <2>4, <2>5, PostsKeepShown DEF ShownInv
<1>2. CASE MessageRefused
  <2>1. UNCHANGED <<dataCall, notice>> /\ Post("mqtt_fault") /\ overlaid'
    BY <1>2, <1>o DEF MessageRefused, netVars
  <2>2. events' \in Seq(Event) /\ (dropped => dropped')
    BY <2>1, PostKeepsType DEF ShownInv, Event, Bad
  <2> QED
    BY <1>o, <1>s, <2>1, <2>2, PostsKeepShown DEF ShownInv
<1>3. CASE Surroundings
  <2>1. UNCHANGED <<net, dataCall, notice, mq, events, dropped>>
    BY <1>3 DEF Surroundings, netVars, busVars
  <2>2. ~Welcome
    BY <2>1 DEF Welcome
  <2> QED
    BY <1>o, <1>s, <2>1, <2>2, PostsKeepShown DEF ShownInv, LinkUp, Posts
<1> QED
  BY <1>1, <1>2, <1>3 DEF MqttRuns, MqttNext

(* Keys and heartbeats leave the LED's state, and faults are remembered.   *)
LEMMA OthersKeepShown ==
  ASSUME ShownInv, OthersPost
  PROVE  ShownInv'
<1>1. UNCHANGED <<led, net, dataCall, notice, mq>>
  BY DEF OthersPost, netVars, mqVars, ledVars
<1>2. PICK e \in Faults \cup {"volume_key", "mode_key", "heartbeat"} :
        Post(e) /\ overlaid' = (overlaid \/ e \in Faults)
  BY DEF OthersPost
<1>3. e \in Event /\ (e \notin Faults => e \in Event \ Bad)
  BY <1>2 DEF Event, Bad, Good, Faults
<1>4. events' \in Seq(Event) /\ (dropped => dropped') /\ overlaid' \in BOOLEAN
  BY <1>2, <1>3, PostKeepsType DEF ShownInv
<1>5. LinkUp' => LinkUp /\ (overlaid => overlaid') /\ (Posts(Event \ Bad) \/ overlaid')
  BY <1>1, <1>2, <1>3 DEF LinkUp, Posts, Post
<1> QED
  BY <1>1, <1>4, <1>5, PostsKeepShown DEF ShownInv

LEMMA SupervisorKeepsShown ==
  ASSUME ShownInv, LedInv, SupervisorRuns
  PROVE  ShownInv'
<1>1. UNCHANGED <<overlaid, net, dataCall, notice, mq>> /\ Supervise
  BY DEF SupervisorRuns, netVars, mqVars
<1>2. PICK e : Wait(e) /\ (e \in Good => led'.base = "internet_ok")
                       /\ (e \notin Good \cup Bad => led'.base = led.base)
  <2>1. CASE SimReady \/ SimFault \/ InternetLost \/ InternetReady \/ MqttReady \/ MqttDown
    BY <2>1 DEF SimReady, SimFault, InternetLost, InternetReady, MqttReady, MqttDown, Show,
                SetLed, ledVars, Good, Bad
  <2>2. CASE Unregistered \/ NorFault \/ BatteryLow
    BY <2>2 DEF Unregistered, NorFault, BatteryLow, Show, Good, Bad
  <2>3. CASE VolumeKey \/ ModeKey
    BY <2>3 DEF VolumeKey, ModeKey, Acknowledge, LedInv, Good
  <2>4. CASE Heartbeat
    <3>1. led' \in {led, [led EXCEPT !.toggles = 0, !.shown = led.base],
                    [led EXCEPT !.toggles = @ - 1]}
      BY <2>4 DEF Heartbeat, LedInv
    <3>2. led'.base = led.base
      BY <3>1 DEF LedInv
    <3> QED
      BY <2>4, <3>2 DEF Heartbeat, Good
  <2> QED
    BY <1>1, <2>1, <2>2, <2>3, <2>4 DEF Supervise
<1>3. events # <<>> /\ events' = Tail(events) /\ e = events[1] /\ dropped' = dropped
  BY <1>2 DEF Wait
<1>4. events' \in Seq(Event)
  BY <1>3 DEF ShownInv
<1>5. ~dropped /\ ~overlaid /\ LinkUp => WillShow(Tail(events), led'.base)
  <2>1. PICK base : base = led.base
    OBVIOUS
  <2>2. PICK next : next = led'.base
    OBVIOUS
  <2>3. ~dropped /\ ~overlaid /\ LinkUp => WillShow(events, base)
    BY <2>1 DEF ShownInv
  <2> QED
    BY <1>2, <1>3, <2>1, <2>2, <2>3, WillShowHandled DEF ShownInv
<1>6. LinkUp' = LinkUp
  BY <1>1 DEF LinkUp
<1>7. (~dropped /\ ~overlaid /\ LinkUp => WillShow(events, led.base))'
  BY <1>1, <1>3, <1>5, <1>6 DEF WillShow, NoneBad, Good, Bad
<1> QED
  BY <1>1, <1>4, <1>7 DEF ShownInv

(* With the session running, the data call up and nothing left to report,  *)
(* the LED is solid on, unless an event was dropped or a fault from        *)
(* elsewhere came after the last good news: for every disturbance, every   *)
(* set of services, every depth of the event queue, every limit of the     *)
(* breaker and any sleeps.                                                 *)
THEOREM ConnectionIsShown == ConSpec => []ConnectedIsShown
<1>1. ConInit => ShownInv
  <2> SUFFICES ASSUME ConInit PROVE ShownInv
    OBVIOUS
  <2>1. events = <<>> /\ overlaid = FALSE /\ dataCall = FALSE /\ mq = "wait"
    BY DEF ConInit, LinkInit, BusInit, NetworkInit, MqttInit
  <2>2. events \in Seq(Event)
    BY <2>1
  <2>3. overlaid \in BOOLEAN
    BY <2>1, Zenon
  <2>4. ~LinkUp /\ ~dataCall
    BY <2>1, Zenon DEF LinkUp
  <2> QED
    BY <2>2, <2>3, <2>4 DEF ShownInv
<1>2. LedInv /\ ShownInv /\ [ConNext]_conVars => ShownInv'
  <2> SUFFICES ASSUME LedInv, ShownInv, [ConNext]_conVars PROVE ShownInv'
    OBVIOUS
  <2>1. CASE UNCHANGED conVars
    <3>1. UNCHANGED <<led, overlaid, net, dataCall, notice, mq, events, dropped>>
      BY <2>1 DEF conVars
    <3> QED
      BY <3>1, PostsKeepShown DEF ShownInv, LinkUp, Posts
  <2> QED
    BY <2>1, NetworkKeepsShown, MqttKeepsShown, OthersKeepShown, SupervisorKeepsShown
       DEF ConNext
<1>3. ShownInv => ConnectedIsShown
  BY DEF ShownInv, ConnectedIsShown, Connected, LinkUp, WillShow
<1>4. ConSpec => [](LedInv /\ AlertInv)
  BY SupervisorInvariant
<1> QED
  BY <1>1, <1>2, <1>3, <1>4, PTL DEF ConSpec

=============================================================================
