---------------------------- MODULE MessagePool ----------------------------
(***************************************************************************)
(* The static message pools of sb_mqtt_service.c: an array of message      *)
(* slots with a used flag each, and an RTOS queue of the same depth that   *)
(* carries only slot indices.  The mutex protects the used flags alone;    *)
(* the message is written into its slot, and copied out of it, with no     *)
(* lock held.                                                              *)
(*                                                                         *)
(* The module stands for either pool: for the receive pool the sender is   *)
(* the MQTT task (sb_mqtt_message_arrived) and the receiver the business   *)
(* task (sb_mqtt_service_receive); for the transmit pool the senders are   *)
(* the tasks that call sb_mqtt_service_publish and the receiver is the     *)
(* MQTT task (sb_mqtt_drain_publish_queue).                                *)
(***************************************************************************)
EXTENDS Naturals, Sequences, FiniteSets

CONSTANTS
  Sender,      (* tasks that put messages in                               *)
  Message,
  Depth,       (* slots, and entries of the RTOS queue                     *)
  None

ASSUME PoolAssumption == /\ Depth \in Nat \ {0}
                         /\ None \notin Message

Slot == 0 .. Depth - 1

VARIABLES
  used,      (* the slots whose used flag is set                           *)
  pool,      (* slot -> message                                            *)
  queue,     (* slot indices in the RTOS queue                             *)
  sender,    (* Sender -> its place in a call, the slot it holds           *)
  receiver   (* the receiver's place, the slot it holds, what it got       *)

poolVars == <<used, pool, queue, sender, receiver>>

SenderPc   == {"idle", "fill", "release"}
ReceiverPc == {"wait", "copy", "free"}

NotSending == [pc |-> "idle", slot |-> 0, msg |-> None]

----------------------------------------------------------------------------

PoolInit == /\ used = {}
            /\ pool = [s \in Slot |-> None]
            /\ queue = <<>>
            /\ sender = [t \in Sender |-> NotSending]
            /\ receiver = [pc |-> "wait", slot |-> 0, msg |-> None]

(* Variant: the used flag is not set.                                      *)
AllocUnmarked(t, m) ==
  /\ sender[t].pc = "idle"
  /\ \E s \in Slot \ used :
       /\ \A r \in Slot \ used : s <= r
       /\ sender' = [sender EXCEPT ![t] = [pc |-> "fill", slot |-> s, msg |-> m]]
  /\ UNCHANGED <<used, pool, queue, receiver>>

(* sb_mqtt_pool_alloc(): the first slot that is not used.  With no slot    *)
(* left the message is dropped and nothing changes.                        *)
Alloc(t, m) ==
  /\ sender[t].pc = "idle"
  /\ \E s \in Slot \ used :
       /\ \A r \in Slot \ used : s <= r
       /\ used' = used \cup {s}
       /\ sender' = [sender EXCEPT ![t] = [pc |-> "fill", slot |-> s, msg |-> m]]
  /\ UNCHANGED <<pool, queue, receiver>>

Fill(t) ==
  /\ sender[t].pc = "fill"
  /\ pool' = [pool EXCEPT ![sender[t].slot] = sender[t].msg]
  /\ sender' = [sender EXCEPT ![t].pc = "release"]
  /\ UNCHANGED <<used, queue, receiver>>

(* Variant: the queue takes one index less.                                *)
ReleaseOneLess(t) ==
  /\ sender[t].pc = "release"
  /\ IF Len(queue) < Depth - 1
     THEN queue' = Append(queue, sender[t].slot) /\ UNCHANGED used
     ELSE used' = used \ {sender[t].slot} /\ UNCHANGED queue
  /\ sender' = [sender EXCEPT ![t] = NotSending]
  /\ UNCHANGED <<pool, receiver>>

(* ql_rtos_queue_release() with QL_NO_WAIT; a sender the queue refuses     *)
(* gives its slot back.                                                    *)
Release(t) ==
  /\ sender[t].pc = "release"
  /\ IF Len(queue) < Depth
     THEN queue' = Append(queue, sender[t].slot) /\ UNCHANGED used
     ELSE used' = used \ {sender[t].slot} /\ UNCHANGED queue
  /\ sender' = [sender EXCEPT ![t] = NotSending]
  /\ UNCHANGED <<pool, receiver>>

(* Variant: the slot is freed before the message is copied out of it.      *)
DequeueFrees ==
  /\ receiver.pc = "wait"
  /\ queue # <<>>
  /\ receiver' = [receiver EXCEPT !.pc = "copy", !.slot = Head(queue)]
  /\ queue' = Tail(queue)
  /\ used' = used \ {Head(queue)}
  /\ UNCHANGED <<pool, sender>>

Dequeue == /\ receiver.pc = "wait"
           /\ queue # <<>>
           /\ receiver' = [receiver EXCEPT !.pc = "copy", !.slot = Head(queue)]
           /\ queue' = Tail(queue)
           /\ UNCHANGED <<used, pool, sender>>

Copy == /\ receiver.pc = "copy"
        /\ receiver' = [receiver EXCEPT !.pc = "free", !.msg = pool[receiver.slot]]
        /\ UNCHANGED <<used, pool, queue, sender>>

FreeSlot == /\ receiver.pc = "free"
            /\ used' = used \ {receiver.slot}
            /\ receiver' = [receiver EXCEPT !.pc = "wait", !.slot = 0]
            /\ UNCHANGED <<pool, queue, sender>>

Put(t)  == Fill(t) \/ Release(t)
Take    == Dequeue \/ Copy \/ FreeSlot

PoolNext == \/ \E t \in Sender : (\E m \in Message : Alloc(t, m)) \/ Put(t)
            \/ Take

PoolSpec == PoolInit /\ [][PoolNext]_poolVars

(* Both tasks run for ever; whether a sender has anything to send is up to *)
(* the network and the payments.                                           *)
PoolFairness == (\A t \in Sender : WF_poolVars(Put(t))) /\ WF_poolVars(Take)

FairPoolSpec == PoolSpec /\ PoolFairness

----------------------------------------------------------------------------
(* Properties *)

PoolTypeOK ==
  /\ used \subseteq Slot
  /\ pool \in [Slot -> Message \cup {None}]
  /\ queue \in Seq(Slot)
  /\ sender \in [Sender -> [pc : SenderPc, slot : Slot, msg : Message \cup {None}]]
  /\ receiver \in [pc : ReceiverPc, slot : Slot, msg : Message \cup {None}]

Sending   == {t \in Sender : sender[t].pc # "idle"}
Receiving == receiver.pc # "wait"

Queued == {queue[i] : i \in 1 .. Len(queue)}

(* Ownership: a slot is in use exactly while one sender fills it, the      *)
(* queue carries its index, or the receiver copies it - one of the three,  *)
(* and once.  The code copies messages with no lock held and relies on     *)
(* this; a slot with two owners is a garbled message, a used slot with     *)
(* none is lost for ever.                                                  *)
SlotHasOneOwner ==
  /\ used = Queued \cup {sender[t].slot : t \in Sending}
                   \cup (IF Receiving THEN {receiver.slot} ELSE {})
  /\ \A i, j \in 1 .. Len(queue) : queue[i] = queue[j] => i = j
  /\ \A t, u \in Sending : sender[t].slot = sender[u].slot => t = u
  /\ \A t \in Sending : sender[t].slot \notin Queued
  /\ Receiving => /\ receiver.slot \notin Queued
                  /\ \A t \in Sending : sender[t].slot # receiver.slot

(* A sender that got a slot finds room in the queue: the release that      *)
(* follows an allocation never fails, so that a caller that ignores its    *)
(* result (sb_serial_submit_rx_line does) leaks no slot and no message.    *)
RoomForAllocated == \A t \in Sending : Len(queue) < Depth

(* Messages in transit: the one being copied, then those in the queue.     *)
InTransit ==
  (IF receiver.pc = "copy" THEN <<pool[receiver.slot]>> ELSE <<>>)
    \o [i \in 1 .. Len(queue) |-> pool[queue[i]]]

Chan == INSTANCE Channel WITH
          Capacity <- Depth, chan <- InTransit, out <- receiver.msg

(* The pool with its queue is a bounded FIFO channel: what the receiver    *)
(* gets is what was sent, in the order of the releases, once and intact.   *)
ImplementsChannel == Chan!Spec

(* A message that got a slot reaches the receiver.                         *)
AllocatedIsReceived ==
  \A t \in Sender, m \in Message :
    sender[t].pc = "fill" /\ sender[t].msg = m ~> receiver.msg = m

=============================================================================
