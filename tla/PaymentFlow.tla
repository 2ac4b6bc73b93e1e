---------------------------- MODULE PaymentFlow ----------------------------
(***************************************************************************)
(* A payment's way through the device: the MQTT task puts the message in   *)
(* the receive queue, the business task enters it in the ledger, queues    *)
(* the acknowledgement and the announcement, the MQTT task publishes the   *)
(* one and the audio task plays the other (sb_mqtt_service.c,              *)
(* sb_business_service.c, sb_payment_processor.c, sb_audio_service.c).     *)
(*                                                                         *)
(* The ledger is the payment window that Ledger implements, the receive    *)
(* and transmit queues the channels that MessagePool implements.  All      *)
(* posts are QL_NO_WAIT: a full queue drops what it is given.              *)
(***************************************************************************)
EXTENDS Naturals, Sequences, FiniteSets, SequencesExt

CONSTANTS
  Json,         (* payment messages that carry a transaction id            *)
  Compat,       (* amount#language#provider messages, which carry none     *)
  Bad,          (* payment messages that do not parse as a payment         *)
  RxDepth,      (* SB_MQTT_INBOUND_QUEUE_DEPTH                             *)
  AckDepth,     (* SB_MQTT_OUTBOUND_QUEUE_DEPTH                            *)
  AudioDepth,   (* SB_AUDIO_SERVICE_QUEUE_DEPTH                            *)
  MaxRecords,   (* SB_LEDGER_MAX_RECORDS                                   *)
  Date,         (* dates the clock shows                                   *)
  MaxArrivals,  (* bound: messages that arrive                             *)
  MaxCuts       (* bound: power cuts                                       *)

ASSUME FlowAssumption ==
  /\ {RxDepth, AckDepth, AudioDepth, MaxRecords} \subseteq Nat \ {0}
  /\ {MaxArrivals, MaxCuts} \subseteq Nat
  /\ Json \cap (Compat \cup Bad) = {} /\ "none" \notin Json \cup Compat \cup Bad

Payments == Json \cup Compat
Msg      == Payments \cup Bad

(* A transaction id: the message's own, or its CRC and the system tick.  A *)
(* tick stands for the moment a message is handled; that the counter could *)
(* show the same value after a restart is left out.                        *)
Id == (Json \X {0}) \cup (Compat \X (1 .. MaxArrivals))

VARIABLES
  up, window, daily, stored,   (* the ledger, see PaymentWindow            *)
  online,      (* the MQTT session is up                                   *)
  rx,          (* messages in the receive queue                            *)
  task,        (* the business task: where it is, and with which message   *)
  acks,        (* acknowledgements in the transmit queue                   *)
  audio,       (* requests in the audio queue                              *)
  tick,        (* ql_rtos_get_systicks()                                   *)
  arrivals,    (* bound: messages arrived so far                           *)
  cuts,        (* bound: power cuts so far                                 *)
  acked,       (* history: payments published as accepted                  *)
  heard,       (* history: announcements taken up by the audio task        *)
  forgets,     (* history: how often the record of a payment was lost      *)
  unsaved      (* history: the last save removed the file and is not done, *)
               (* or it failed                                             *)

Win == INSTANCE PaymentWindow WITH TxId <- Id, Amount <- {1}

ledgerVars == <<up, window, daily, stored>>
history    == <<acked, heard, forgets, unsaved>>
flowVars   == <<up, window, daily, stored, online, rx, task, acks, audio, tick,
                arrivals, cuts, acked, heard, forgets, unsaved>>

At(pc) == task.pc = pc
Working(pc, m, status) == [pc |-> pc, msg |-> m, status |-> status]
Resting == Working("idle", "none", "none")
Polling == Working("poll", "none", "none")

Listed(w, id) == \E i \in DOMAIN w : w[i].tx_id = id
Known(m)  == \E i \in DOMAIN window : window[i].tx_id[1] = m
Stored(m) == \E i \in DOMAIN stored.window : stored.window[i].tx_id[1] = m

(* ql_rtos_queue_release(..., QL_NO_WAIT) with the result ignored.         *)
Post(queue, item, depth) ==
  IF Len(queue) < depth THEN Append(queue, item) ELSE queue

(* With the date of the clock.  A payment taken while the clock cannot be  *)
(* read is undated, which only the totals see: they are Ledger's.          *)
Payment(id, date) == [tx_id |-> id, date |-> date, amount |-> 1]

(* The records of these payments are lost.                                 *)
Forget(lost) ==
  forgets' = [m \in Json |-> forgets[m] + IF m \in lost THEN 1 ELSE 0]

----------------------------------------------------------------------------

FlowInit == /\ Win!Init
            /\ online = FALSE
            /\ rx = <<>> /\ acks = <<>> /\ audio = <<>>
            /\ task = Resting
            /\ tick = 0 /\ arrivals = 0 /\ cuts = 0
            /\ acked = {} /\ heard = [m \in Json |-> 0]
            /\ forgets = [m \in Json |-> 0] /\ unsaved = FALSE

(* The MQTT task.  A message that finds the receive queue full is dropped; *)
(* the session is clean, so messages sent while it is down never arrive.   *)
Arrive(m) == /\ online /\ arrivals < MaxArrivals
             /\ arrivals' = arrivals + 1
             /\ rx' = Post(rx, m, RxDepth)
             /\ UNCHANGED <<ledgerVars, online, task, acks, audio, tick, cuts, history>>

(* An acknowledgement whose publication fails has left the queue already.  *)
Publish == /\ online /\ acks # <<>>
           /\ acks' = Tail(acks)
           /\ \/ /\ acked' = acked \cup {m \in Json : Head(acks) = <<m, "accepted">>}
                 /\ UNCHANGED online
              \/ online' = FALSE /\ UNCHANGED acked
           /\ UNCHANGED <<ledgerVars, rx, task, audio, tick, arrivals, cuts,
                          heard, forgets, unsaved>>

LinkUp == /\ up /\ ~online
          /\ online' = TRUE
          /\ UNCHANGED <<ledgerVars, rx, task, acks, audio, tick, arrivals, cuts, history>>

LinkDown == /\ online
            /\ online' = FALSE
            /\ UNCHANGED <<ledgerVars, rx, task, acks, audio, tick, arrivals, cuts, history>>

(* The business task takes the next message.  Three outcomes: it does not  *)
(* parse, the ledger knows its id, or it is entered.                       *)
TakeNext(m) == /\ up /\ At("idle") /\ rx # <<>>
               /\ m = Head(rx)
               /\ rx' = Tail(rx)
               /\ UNCHANGED <<online, acks, audio, arrivals, cuts, acked, heard, unsaved>>

(* The error prompt, except for the commands of the compatible format.     *)
TakeBad(m) == /\ TakeNext(m) /\ m \in Bad
              /\ task' = Working("prompt", m, "error") \/ task' = Polling
              /\ UNCHANGED <<ledgerVars, tick, forgets>>

(* The id the payment processor gives a message.                           *)
Identified(m, id) ==
  \/ m \in Json /\ id = <<m, 0>> /\ UNCHANGED tick
  \/ m \in Compat /\ tick' = tick + 1 /\ id = <<m, tick'>>

(* Variant: a duplicate goes on like a new payment.                        *)
TakeDuplicateAsNew(m) ==
  /\ TakeNext(m)
  /\ \E id \in Id : /\ Identified(m, id)
                    /\ Listed(window, id)
                    /\ task' = Working("ack", m, "accepted")
  /\ UNCHANGED <<ledgerVars, forgets>>

TakeDuplicate(m) ==
  /\ TakeNext(m)
  /\ \E id \in Id : /\ Identified(m, id)
                    /\ Listed(window, id)
                    /\ task' = Working("ack", m, "duplicate")
  /\ UNCHANGED <<ledgerVars, forgets>>

TakeNew(m) ==
  /\ TakeNext(m)
  /\ \E id \in Id, date \in Date : Identified(m, id) /\ Win!Accept(Payment(id, date))
  /\ Forget({n \in Json : Known(n) /\ ~Known(n)'})
  /\ task' = Working("save", m, "accepted")

(* Every thirtieth turn of the task's loop, with or without a message: a   *)
(* new date starts a new day, which is saved.                              *)
NoMessage == /\ up /\ At("idle") /\ rx = <<>>
             /\ task' = Polling
             /\ UNCHANGED <<ledgerVars, online, rx, acks, audio, tick, arrivals, cuts, history>>

Poll == /\ At("poll")
        /\ \/ task' = Resting /\ UNCHANGED ledgerVars
           \/ \E date \in Date : Win!NewDay(date) /\ task' = Working("save", "none", "none")
        /\ UNCHANGED <<online, rx, acks, audio, tick, arrivals, cuts, history>>

(* The save of a payment or of a new day: between the removal of the old   *)
(* file and the renaming of the new one there is none.                     *)
SaveGap == /\ At("save") /\ stored # Win!Blank
           /\ Win!Lose
           /\ unsaved' = TRUE
           /\ UNCHANGED <<online, rx, task, acks, audio, tick, arrivals, cuts,
                          acked, heard, forgets>>

(* Whether it succeeds or not, the task goes on.                           *)
Saved == /\ task' = IF task.msg = "none" THEN Resting ELSE [task EXCEPT !.pc = "ack"]
         /\ UNCHANGED <<online, rx, acks, audio, tick, arrivals, cuts, acked, heard, forgets>>

(* Variant: the payment is acknowledged without having been saved.         *)
SaveSkipped == At("save") /\ Saved /\ UNCHANGED <<ledgerVars, unsaved>>

SaveDone == At("save") /\ Saved /\ Win!Persist /\ unsaved' = FALSE

(* sb_ledger_save() fails, before or after the old file was removed.       *)
SaveFails == At("save") /\ Saved /\ unsaved' = TRUE /\ UNCHANGED ledgerVars

(* Variant: the acknowledgement waits for room in the transmit queue.      *)
AckWaits ==
  /\ At("ack") /\ Len(acks) < AckDepth
  /\ acks' = Append(acks, <<task.msg, task.status>>)
  /\ task' = IF task.status = "accepted" THEN [task EXCEPT !.pc = "announce"] ELSE Polling
  /\ UNCHANGED <<ledgerVars, online, rx, audio, tick, arrivals, cuts, history>>

Ack == /\ At("ack")
       /\ acks' = Post(acks, <<task.msg, task.status>>, AckDepth)
       /\ task' = IF task.status = "accepted" THEN [task EXCEPT !.pc = "announce"]
                                              ELSE Polling
       /\ UNCHANGED <<ledgerVars, online, rx, audio, tick, arrivals, cuts, history>>

(* Variant: the newest request takes the place of those that wait.         *)
AnnounceFlushes ==
  /\ At("announce") \/ At("prompt")
  /\ audio' = <<task.msg>>
  /\ task' = Polling
  /\ UNCHANGED <<ledgerVars, online, rx, acks, tick, arrivals, cuts, history>>

(* sb_audio_service_play_amount(), or play_prompt() of the error prompt.   *)
Announce == /\ At("announce") \/ At("prompt")
            /\ audio' = Post(audio, task.msg, AudioDepth)
            /\ task' = Polling
            /\ UNCHANGED <<ledgerVars, online, rx, acks, tick, arrivals, cuts, history>>

(* The audio task.  A request counts as heard when the task takes it up,   *)
(* whether or not the codec is ready, the assets are there and the decoder *)
(* succeeds: each failure is logged and the request is over.               *)
Play == /\ audio # <<>>
        /\ audio' = Tail(audio)
        /\ heard' = [m \in Json |-> heard[m] + IF m = Head(audio) THEN 1 ELSE 0]
        /\ UNCHANGED <<ledgerVars, online, rx, task, acks, tick, arrivals, cuts,
                       acked, forgets, unsaved>>

(* Every queue and every task is in RAM.  A payment being saved is one the *)
(* ledger has not answered for yet.                                        *)
Cut == /\ up /\ cuts < MaxCuts
       /\ cuts' = cuts + 1
       /\ Win!PowerCut
       /\ online' = FALSE
       /\ rx' = <<>> /\ acks' = <<>> /\ audio' = <<>>
       /\ task' = Resting
       /\ Forget({m \in Json : /\ unsaved /\ Known(m) /\ ~Stored(m)
                               /\ ~(At("save") /\ task.msg = m)})
       /\ UNCHANGED <<tick, arrivals, acked, heard, unsaved>>

(* sb_ledger_load() finds a file that is short or fails its CRC, or cannot *)
(* read a good one: it saves an empty ledger in its place.  If that fails  *)
(* too the service does not start, and the next boot may.                  *)
LoadDefaults == /\ ~up /\ stored # Win!Blank
                /\ Win!Lose
                /\ Forget({m \in Json : Stored(m)})
                /\ UNCHANGED <<online, rx, task, acks, audio, tick, arrivals, cuts,
                               acked, heard, unsaved>>

Boot == /\ Win!Restart
        /\ window' = stored.window
        /\ unsaved' = FALSE
        /\ UNCHANGED <<online, rx, task, acks, audio, tick, arrivals, cuts,
                       acked, heard, forgets>>

BusinessTask == \/ \E m \in Msg : TakeBad(m) \/ TakeDuplicate(m) \/ TakeNew(m)
                \/ NoMessage \/ Poll
                \/ SaveDone \/ SaveFails \/ Ack \/ Announce

FlowNext == \/ \E m \in Msg : Arrive(m)
            \/ Publish \/ LinkUp \/ LinkDown
            \/ BusinessTask \/ SaveGap
            \/ Play
            \/ Cut \/ LoadDefaults \/ Boot

FlowSpec == FlowInit /\ [][FlowNext]_flowVars

(* The business and audio tasks never wait for anybody but their queue.    *)
(* Nothing is assumed of the network.                                      *)
FairFlowSpec == FlowSpec /\ WF_flowVars(BusinessTask) /\ WF_flowVars(Play)

----------------------------------------------------------------------------
(* Properties *)

(* The announcements of m that are queued or about to be.                  *)
Underway(m) ==
  Cardinality({i \in DOMAIN audio : audio[i] = m})
    + IF task.msg = m /\ task.status = "accepted" THEN 1 ELSE 0

(* "No second audio announcement": a payment that carries its transaction  *)
(* id is announced once, whatever is delivered again, whatever the power   *)
(* cuts and losses, and at most once more for each time its record was     *)
(* lost: pushed out of the ring, gone with the power after a save that     *)
(* failed or had not put the new file in place, or unreadable at a boot.   *)
(* A failed save that a later one makes up for loses nothing.              *)
AnnouncedOnce ==
  \A m \in Json : heard[m] + Underway(m) <= 1 + forgets[m]

(* A payment acknowledged as accepted is not forgotten: it is in the       *)
(* ledger, or in what a restart returns to, unless its record was lost.    *)
AcceptedAckIsKept ==
  \A m \in Json :
    m \in acked \/ <<m, "accepted">> \in ToSet(acks) =>
      forgets[m] > 0 \/ (IF up THEN Known(m) ELSE Stored(m))

(* A payment in the receive queue gets into the ledger while the power     *)
(* stays on, with the network gone and every other queue full: the         *)
(* business task waits for nobody.                                         *)
QueuedIsEntered ==
  \A m \in Json : m \in ToSet(rx) ~> Known(m) \/ ~up

(* An announcement that got into the audio queue is taken up by the audio  *)
(* task: no later payment, full queue or lost session pushes it out.       *)
QueuedIsHeard == \A m \in Json : m \in ToSet(audio) ~> heard[m] > 0 \/ ~up

=============================================================================
