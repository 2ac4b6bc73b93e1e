-------------------------------- MODULE Keys --------------------------------
(***************************************************************************)
(* From a push button to what the device does about it: the interrupt, the *)
(* debounce task of sb_hal_key.c, the KEY_EDGE event and the supervisor's  *)
(* call of sb_business_service_handle_key_edge().  The interrupt switches  *)
(* itself off until the debounce task has looked at the pin.               *)
(*                                                                         *)
(* A tick of the clock is longer than any debouncing (40 ms, for at most   *)
(* three keys one after the other), so the clock stands still meanwhile;   *)
(* the supervisor may be behind by any time.  An edge that comes while the *)
(* interrupt is off leaves no trace but the level of the pin.              *)
(***************************************************************************)
EXTENDS EventBus, FiniteSets

CONSTANTS
  Key,         (* SB_KEY_VOLUME_UP, SB_KEY_VOLUME_DOWN, SB_KEY_MODE        *)
  NoKey,       (* the subject of events that are not about keys            *)
  KeyDepth,    (* SB_KEY_QUEUE_DEPTH                                       *)
  LongPress,   (* SB_BUSINESS_LONG_PRESS_MS                                *)
  MaxClock     (* bound: how long a run lasts                              *)

ASSUME KeyAssumption == /\ IsFiniteSet(Key) /\ NoKey \notin Key
                        /\ KeyDepth \in Nat /\ Cardinality(Key) <= KeyDepth
                        /\ LongPress \in Nat /\ MaxClock \in Nat

VARIABLES
  clock,
  pin,         (* Key -> the key is down                                   *)
  armed,       (* the keys whose interrupt is on                           *)
  keyQueue,    (* s_key_queue                                              *)
  keyTask,     (* the debounce task: where it is, and with which key       *)
  seen,        (* s_key_last_pressed                                       *)
  held,        (* s_key_state                                              *)
  finger,      (* history: whether the key was pushed, and when            *)
  missed,      (* history: keys whose last edge the task could not see     *)
  slipped,     (* history: some edge was ever missed                       *)
  wrong        (* history: some action was not the one asked for           *)

driverVars == <<armed, keyQueue, keyTask, seen>>
truthVars  == <<finger, missed, slipped>>
keyVars == <<events, dropped, clock, pin, armed, keyQueue, keyTask, seen, held,
             finger, missed, slipped, wrong>>

Waiting   == [pc |-> "wait", key |-> NoKey]
NotHeld   == [down |-> FALSE, at |-> 0]
NotPushed == [pushed |-> FALSE, at |-> 0]

----------------------------------------------------------------------------

(* A key may be down at boot: its level is taken as seen.                  *)
KeyInit == /\ BusInit
           /\ clock = 0
           /\ pin \in [Key -> BOOLEAN]
           /\ armed = Key
           /\ keyQueue = <<>> /\ keyTask = Waiting
           /\ seen = pin
           /\ held = [k \in Key |-> NotHeld]
           /\ finger = [k \in Key |-> NotPushed]
           /\ missed = {} /\ slipped = FALSE
           /\ wrong = FALSE

(* What the finger does, as a test procedure would tell it: a bounce - up  *)
(* and down again while the device still debounces - is the same press,    *)
(* and a key that is down at boot has not been pushed.                     *)
Finger(k) ==
  finger' = IF pin[k] \/ (seen[k] /\ k \notin missed) THEN finger
            ELSE [finger EXCEPT ![k] = [pushed |-> TRUE, at |-> clock]]

(* What the release of a key asks for.                                     *)
Asked(k) == IF ~finger[k].pushed THEN "none"
            ELSE IF clock - finger[k].at >= LongPress THEN "long" ELSE "short"

(* Variant: the interrupt is switched off, and nothing queued.             *)
InterruptLost(k) == armed' = armed \ {k} /\ UNCHANGED keyQueue

(* sb_key_irq_post()                                                       *)
Interrupt(k) == IF Len(keyQueue) < KeyDepth
                THEN armed' = armed \ {k} /\ keyQueue' = Append(keyQueue, k)
                ELSE UNCHANGED <<armed, keyQueue>>

(* The level of a key changes.                                             *)
Flip(k) ==
  /\ pin' = [pin EXCEPT ![k] = ~@]
  /\ Finger(k)
  /\ IF k \in armed THEN Interrupt(k) ELSE UNCHANGED <<armed, keyQueue>>
  /\ IF keyTask = [pc |-> "enable", key |-> k]
     THEN /\ missed' = IF seen[k] # pin'[k] THEN missed \cup {k} ELSE missed \ {k}
          /\ slipped' = TRUE
     ELSE UNCHANGED <<missed, slipped>>
  /\ UNCHANGED <<busVars, clock, keyTask, seen, held, wrong>>

TakeKey == /\ keyTask.pc = "wait" /\ keyQueue # <<>>
           /\ keyTask' = [pc |-> "debounce", key |-> Head(keyQueue)]
           /\ keyQueue' = Tail(keyQueue)
           /\ UNCHANGED <<busVars, clock, pin, armed, seen, held, truthVars, wrong>>

(* sb_key_post_edge_event(); "asks" is for the properties alone.           *)
Report(k) == Post([key |-> k, down |-> pin[k], at |-> clock,
                   asks |-> IF pin[k] THEN "none" ELSE Asked(k)])

(* A press that the device has seen end is over.                           *)
Debounced(k) == /\ keyTask = [pc |-> "debounce", key |-> k]
                /\ keyTask' = [keyTask EXCEPT !.pc = "enable"]
                /\ UNCHANGED <<clock, pin, armed, keyQueue, held, wrong>>

(* Variant: a level is taken as seen only if the event found room.         *)
SampleIfPosted(k) ==
  /\ Debounced(k)
  /\ IF seen[k] # pin[k] THEN Report(k) ELSE Quiet
  /\ seen' = IF Len(events) < EventDepth THEN [seen EXCEPT ![k] = pin[k]] ELSE seen
  /\ finger' = IF pin[k] THEN finger ELSE [finger EXCEPT ![k] = NotPushed]
  /\ missed' = missed \ {k}
  /\ UNCHANGED slipped

(* The pin is read when the bouncing is over.                              *)
Sample(k) == /\ Debounced(k)
             /\ IF seen[k] # pin[k] THEN Report(k) ELSE Quiet
             /\ seen' = [seen EXCEPT ![k] = pin[k]]
             /\ finger' = IF pin[k] THEN finger ELSE [finger EXCEPT ![k] = NotPushed]
             /\ missed' = missed \ {k}
             /\ UNCHANGED slipped

(* The pin could not be read.                                              *)
SampleFails(k) == /\ Debounced(k)
                  /\ missed' = IF seen[k] # pin[k] THEN missed \cup {k} ELSE missed
                  /\ slipped' = TRUE
                  /\ UNCHANGED <<busVars, seen, finger>>

(* Variant: the interrupt is switched on only if the key is up.            *)
EnableWhenUp ==
  /\ keyTask.pc = "enable"
  /\ armed' = armed \cup {k \in {keyTask.key} : ~seen[k]}
  /\ keyTask' = Waiting
  /\ UNCHANGED <<busVars, clock, pin, keyQueue, seen, held, truthVars, wrong>>

Enable == /\ keyTask.pc = "enable"
          /\ armed' = armed \cup {keyTask.key}
          /\ keyTask' = Waiting
          /\ UNCHANGED <<busVars, clock, pin, keyQueue, seen, held, truthVars, wrong>>

KeyTask == \/ TakeKey
           \/ \E k \in Key : Sample(k) \/ SampleFails(k)
           \/ Enable

----------------------------------------------------------------------------

(* The action a KEY_EDGE event leads to: none for a press, and none for a  *)
(* release whose press was not handled.                                    *)
(* Variant: the time is the time of handling.                              *)
TakenWhenHandled(e) ==
  IF e.down \/ ~held[e.key].down THEN "none"
  ELSE IF clock - held[e.key].at >= LongPress THEN "long" ELSE "short"

Taken(e) == IF e.down \/ ~held[e.key].down THEN "none"
            ELSE IF e.at - held[e.key].at >= LongPress THEN "long" ELSE "short"

Handle(e) == /\ held' = [held EXCEPT ![e.key] =
                           IF e.down THEN [down |-> TRUE, at |-> e.at] ELSE NotHeld]
             /\ wrong' = (wrong \/ Taken(e) # e.asks)

Supervise == /\ events # <<>>
             /\ Wait(Head(events))
             /\ IF Head(events).key = NoKey THEN UNCHANGED <<held, wrong>>
                                            ELSE Handle(Head(events))
             /\ UNCHANGED <<clock, pin, driverVars, truthVars>>

(* All the other events of the device.                                     *)
OtherPost == /\ Post([key |-> NoKey, down |-> FALSE, at |-> 0, asks |-> "none"])
             /\ UNCHANGED <<clock, pin, driverVars, held, truthVars, wrong>>

Tick == /\ clock < MaxClock
        /\ keyTask = Waiting /\ keyQueue = <<>>
        /\ clock' = clock + 1
        /\ UNCHANGED <<busVars, pin, driverVars, held, truthVars, wrong>>

KeyNext == \/ \E k \in Key : Flip(k)
           \/ KeyTask
           \/ Supervise
           \/ OtherPost
           \/ Tick

KeySpec == KeyInit /\ [][KeyNext]_keyVars

(* The debounce task waits for nobody but its queue, and sleeps for a      *)
(* fixed time; nothing is assumed of the keys or of the supervisor.        *)
FairKeySpec == KeySpec /\ WF_keyVars(KeyTask)

----------------------------------------------------------------------------
(* Properties *)

KeyTypeOK ==
  /\ clock \in 0 .. MaxClock
  /\ armed \subseteq Key /\ missed \subseteq Key
  /\ pin \in [Key -> BOOLEAN] /\ seen \in [Key -> BOOLEAN]
  /\ keyQueue \in Seq(Key)
  /\ \/ keyTask = Waiting
     \/ keyTask \in [pc : {"debounce", "enable"}, key : Key]

Queued(k) == \E i \in DOMAIN keyQueue : keyQueue[i] = k

(* A key whose interrupt is off is waiting for the debounce task or in its *)
(* hands, in one place only: no key goes deaf, and none is debounced twice *)
(* for one edge (sb_hal_key.c: the interrupt is off from the edge until    *)
(* the pin has been read).                                                 *)
NoKeyGoesDeaf ==
  \A k \in Key : /\ k \notin armed <=> Queued(k) \/ keyTask.key = k
                 /\ ~(Queued(k) /\ keyTask.key = k)

(* The interrupt always finds room in the queue: its "queue full" branch,  *)
(* which would leave an edge unseen with nobody to look again, is never    *)
(* taken, because a key is in the queue at most once.                      *)
EdgeFindsRoom == armed # {} => Len(keyQueue) < KeyDepth

(* A key that can interrupt is where the device last saw it - so that the  *)
(* next edge is news - unless an edge fell between the reading of the pin  *)
(* and the interrupt's return, or the pin could not be read.               *)
ListenerAgrees == \A k \in armed \ missed : seen[k] = pin[k]

(* "Short volume up ... Long volume up ...": a press leads to one action   *)
(* and to the one that fits the time the key was down, however late the    *)
(* supervisor gets to it, whatever bounces, and whatever the other keys do *)
(* - as long as the event queue dropped nothing and no edge was missed.    *)
ActionFitsPress == wrong => dropped \/ slipped

(* A change of a key that lasts is seen, with every queue of the device    *)
(* full and the supervisor stuck.                                          *)
ChangeIsSeen == \A k \in Key : seen[k] # pin[k] ~> seen[k] = pin[k] \/ slipped

=============================================================================
