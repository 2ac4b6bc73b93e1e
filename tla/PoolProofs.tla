----------------------------- MODULE PoolProofs -----------------------------
(***************************************************************************)
(* Proofs about a message's way: through a pool, and through the tasks.    *)
(*                                                                         *)
(* The pool, for every depth, every set of senders and messages: a slot    *)
(* has one owner, a sender that holds one finds room in the queue, and     *)
(* the pool is a bounded channel.                                          *)
(*                                                                         *)
(* The payment flow, whose queues are such channels, for every set of      *)
(* messages and every size of the queues and of the ring: no second        *)
(* announcement, and no accepted acknowledgement that the ledger forgets.  *)
(* The inductive invariant ties what was announced and acknowledged to the *)
(* window, and the window to the file.                                     *)
(***************************************************************************)
EXTENDS MessagePool, PaymentFlow, FiniteSetTheorems, FunctionTheorems, TLAPS

PoolInv == PoolTypeOK /\ SlotHasOneOwner

(* The queue after a release carries the slots it carried and the new one. *)
LEMMA AppendQueued ==
  ASSUME PoolTypeOK, NEW s \in Slot, queue' = Append(queue, s)
  PROVE  /\ Len(queue') = Len(queue) + 1
         /\ \A i \in 1 .. Len(queue) : queue'[i] = queue[i]
         /\ queue'[Len(queue) + 1] = s
         /\ Queued' = Queued \cup {s}
<1>q. queue \in Seq(Slot) /\ Len(queue) \in Nat
  BY DEF PoolTypeOK
<1>1. /\ Len(queue') = Len(queue) + 1
      /\ \A i \in 1 .. Len(queue) : queue'[i] = queue[i]
      /\ queue'[Len(queue) + 1] = s
  BY <1>q
<1>2. Queued' = {queue'[i] : i \in 1 .. Len(queue) + 1}
  BY <1>1 DEF Queued
<1>3. 1 .. Len(queue) + 1 = (1 .. Len(queue)) \cup {Len(queue) + 1}
  BY <1>q
<1>4. Queued' = Queued \cup {s}
  BY <1>1, <1>2, <1>3 DEF Queued
<1> QED BY <1>1, <1>4

(* Taking the head off a queue without repetitions removes just that slot. *)
LEMMA TailQueued ==
  ASSUME PoolTypeOK, queue # <<>>, queue' = Tail(queue),
         \A i, j \in 1 .. Len(queue) : queue[i] = queue[j] => i = j
  PROVE  /\ Head(queue) \in Queued
         /\ Head(queue) \notin Queued'
         /\ Queued = Queued' \cup {Head(queue)}
         /\ \A i, j \in 1 .. Len(queue') : queue'[i] = queue'[j] => i = j
<1>q. queue \in Seq(Slot) /\ Len(queue) \in Nat \ {0} /\ Head(queue) = queue[1]
  BY DEF PoolTypeOK
<1>1. Len(queue') = Len(queue) - 1 /\ \A i \in 1 .. Len(queue') : queue'[i] = queue[i + 1]
  BY <1>q
<1>2. Head(queue) \in Queued
  BY <1>q DEF Queued
<1>3. Head(queue) \notin Queued'
  BY <1>q, <1>1 DEF Queued
<1>4. Queued' \subseteq Queued
  BY <1>q, <1>1 DEF Queued
<1>5. ASSUME NEW i \in 1 .. Len(queue), i # 1
      PROVE  queue[i] \in Queued'
  <2>1. i - 1 \in 1 .. Len(queue') /\ queue'[i - 1] = queue[i]
    BY <1>q, <1>1, <1>5
  <2> QED BY <2>1 DEF Queued
<1>6. Queued \subseteq Queued' \cup {Head(queue)}
  BY <1>q, <1>5 DEF Queued
<1>7. \A i, j \in 1 .. Len(queue') : queue'[i] = queue'[j] => i = j
  BY <1>q, <1>1
<1> QED BY <1>2, <1>3, <1>4, <1>6, <1>7

(* Only t's place changes.                                                 *)
LEMMA SenderStep ==
  ASSUME PoolTypeOK, NEW t \in Sender, NEW r,
         sender' = [sender EXCEPT ![t] = r]
  PROVE  /\ sender'[t] = r
         /\ \A u \in Sender \ {t} : sender'[u] = sender[u]
         /\ Sending' = IF r.pc = "idle" THEN Sending \ {t} ELSE Sending \cup {t}
BY DEF PoolTypeOK, Sending

----------------------------------------------------------------------------

LEMMA AllocKeepsInv ==
  ASSUME PoolInv, NEW t \in Sender, NEW m \in Message, Alloc(t, m)
  PROVE  PoolInv'
<1> USE DEF PoolInv
<1>1. PICK s \in Slot \ used :
        /\ used' = used \cup {s}
        /\ sender' = [sender EXCEPT ![t] = [pc |-> "fill", slot |-> s, msg |-> m]]
  BY DEF Alloc
<1>2. UNCHANGED <<pool, queue, receiver>> /\ t \notin Sending
  BY DEF Alloc, Sending
<1> DEFINE held == [pc |-> "fill", slot |-> s, msg |-> m]
<1>h. held.pc # "idle" /\ held.slot = s
  OBVIOUS
<1>r. PoolTypeOK /\ sender' = [sender EXCEPT ![t] = held]
  BY <1>1
<1> HIDE DEF held
<1>3. /\ sender'[t] = held
      /\ \A u \in Sender \ {t} : sender'[u] = sender[u]
      /\ Sending' = Sending \cup {t}
  BY <1>r, <1>h, SenderStep
<1>4. PoolTypeOK'
  BY <1>1, <1>2 DEF PoolTypeOK, SenderPc
<1>5. Queued' = Queued /\ Receiving' = Receiving /\ Sending \subseteq Sender
  BY <1>2 DEF Queued, Receiving, Sending
<1>6. /\ s \notin Queued
      /\ \A u \in Sending : sender[u].slot # s
      /\ Receiving => receiver.slot # s
  BY <1>1 DEF SlotHasOneOwner
<1>7. {sender'[u].slot : u \in Sending'} = {sender[u].slot : u \in Sending} \cup {s}
  BY <1>2, <1>3, <1>5, <1>h
<1>8. SlotHasOneOwner'
  <2>1. used' = Queued' \cup {sender'[u].slot : u \in Sending'}
                        \cup (IF Receiving' THEN {receiver'.slot} ELSE {})
    BY <1>1, <1>2, <1>5, <1>7 DEF SlotHasOneOwner
  <2>2. \A u, v \in Sending' : sender'[u].slot = sender'[v].slot => u = v
    BY <1>2, <1>3, <1>5, <1>6, <1>h DEF SlotHasOneOwner
  <2>3. \A u \in Sending' : sender'[u].slot \notin Queued'
    BY <1>2, <1>3, <1>5, <1>6, <1>h DEF SlotHasOneOwner
  <2>4. Receiving' => /\ receiver'.slot \notin Queued'
                      /\ \A u \in Sending' : sender'[u].slot # receiver'.slot
    BY <1>2, <1>3, <1>5, <1>6, <1>h DEF SlotHasOneOwner
  <2> QED BY <1>2, <2>1, <2>2, <2>3, <2>4 DEF SlotHasOneOwner
<1> QED BY <1>4, <1>8

LEMMA FillKeepsInv ==
  ASSUME PoolInv, NEW t \in Sender, Fill(t)
  PROVE  PoolInv'
<1> USE DEF PoolInv
<1>1. /\ sender[t].pc = "fill" /\ t \in Sending
      /\ pool' = [pool EXCEPT ![sender[t].slot] = sender[t].msg]
      /\ sender' = [sender EXCEPT ![t].pc = "release"]
      /\ UNCHANGED <<used, queue, receiver>>
  BY DEF Fill, Sending
<1>2. PoolTypeOK'
  BY <1>1 DEF PoolTypeOK, SenderPc
<1>3. Sending' = Sending /\ \A u \in Sender : sender'[u].slot = sender[u].slot
  BY <1>1 DEF Sending, PoolTypeOK
<1>4. Queued' = Queued /\ Receiving' = Receiving /\ Sending \subseteq Sender
  BY <1>1 DEF Queued, Receiving, Sending
<1>5. {sender'[u].slot : u \in Sending'} = {sender[u].slot : u \in Sending}
  BY <1>3, <1>4
<1>6. SlotHasOneOwner'
  BY <1>1, <1>3, <1>4, <1>5 DEF SlotHasOneOwner
<1> QED BY <1>2, <1>6

(* The queue holds different slots: it leaves room for any set of slots it *)
(* does not carry.                                                         *)
LEMMA QueueLeavesRoom ==
  ASSUME PoolInv, NEW S \in SUBSET Slot, S \cap Queued = {}
  PROVE  Len(queue) + Cardinality(S) =< Depth
<1>1. queue \in Seq(Slot) /\ Len(queue) \in Nat /\ Depth \in Nat \ {0}
  BY PoolAssumption DEF PoolInv, PoolTypeOK
<1>2. IsFiniteSet(Slot) /\ Cardinality(Slot) = Depth
  <2>1. IsFiniteSet(0 .. Depth - 1) /\ Cardinality(0 .. Depth - 1) = Depth
    BY <1>1, FS_Interval
  <2> QED BY <2>1 DEF Slot
<1>3. IsFiniteSet(1 .. Len(queue)) /\ Cardinality(1 .. Len(queue)) = Len(queue)
  BY <1>1, FS_Interval
<1>4. /\ IsFiniteSet(S) /\ Cardinality(S) \in Nat
      /\ IsFiniteSet(Slot \ S)
      /\ Cardinality(Slot \ S) = Depth - Cardinality(S)
  <2>1. IsFiniteSet(S) /\ Cardinality(S) \in Nat
    BY <1>2, FS_Subset, FS_CardinalityType
  <2>2. /\ IsFiniteSet(Slot \ S)
        /\ Cardinality(Slot \ S) = Cardinality(Slot) - Cardinality(Slot \cap S)
    BY <1>2, FS_Difference, Zenon
  <2>3. Slot \cap S = S
    OBVIOUS
  <2> QED BY <1>2, <2>1, <2>2, <2>3
<1> DEFINE f == [i \in 1 .. Len(queue) |-> queue[i]]
<1>5. f \in Injection(1 .. Len(queue), Slot \ S)
  <2>1. ASSUME NEW i \in 1 .. Len(queue)
        PROVE  queue[i] \in Slot \ S
    BY <1>1 DEF Queued
  <2>2. \A i, j \in 1 .. Len(queue) : queue[i] = queue[j] => i = j
    BY DEF PoolInv, SlotHasOneOwner
  <2> QED BY <2>1, <2>2 DEF Injection, IsInjective
<1> HIDE DEF f
<1>6. Len(queue) =< Depth - Cardinality(S)
  BY <1>3, <1>4, <1>5, FS_Injection
<1> QED BY <1>1, <1>4, <1>6

(* A sender that holds a slot finds room, and finds room for one more      *)
(* while the receiver copies a message out.                                *)
LEMMA HolderHasRoom ==
  ASSUME PoolInv, NEW t \in Sending
  PROVE  /\ Len(queue) < Depth
         /\ receiver.pc = "copy" => Len(queue) + 1 < Depth
<1> DEFINE mine == sender[t].slot
<1>1. /\ mine \in Slot /\ mine \notin Queued /\ receiver.slot \in Slot
      /\ Receiving => receiver.slot \notin Queued /\ mine # receiver.slot
  BY DEF PoolInv, PoolTypeOK, Sending, SlotHasOneOwner
<1>2. Len(queue) \in Nat /\ Depth \in Nat
  BY PoolAssumption DEF PoolInv, PoolTypeOK
<1> HIDE DEF mine
<1>3. Len(queue) < Depth
  <2>1. Len(queue) + Cardinality({mine}) =< Depth
    BY <1>1, QueueLeavesRoom
  <2>2. Cardinality({mine}) = 1
    BY FS_Singleton
  <2> QED BY <1>2, <2>1, <2>2
<1>4. ASSUME receiver.pc = "copy" PROVE Len(queue) + 1 < Depth
  <2>1. receiver.slot \notin Queued /\ mine # receiver.slot
    BY <1>1, <1>4 DEF Receiving
  <2>2. Len(queue) + Cardinality({mine, receiver.slot}) =< Depth
    BY <1>1, <2>1, QueueLeavesRoom
  <2>3. Cardinality({mine, receiver.slot}) = 2
    <3>1. IsFiniteSet({mine}) /\ Cardinality({mine}) = 1
      BY FS_Singleton
    <3>2. /\ IsFiniteSet({mine} \cup {receiver.slot})
          /\ Cardinality({mine} \cup {receiver.slot}) = Cardinality({mine}) + 1
      BY <2>1, <3>1, FS_AddElement, receiver.slot \notin {mine}, Zenon
    <3>3. {mine, receiver.slot} = {mine} \cup {receiver.slot}
      OBVIOUS
    <3> QED BY <3>1, <3>2, <3>3
  <2> QED BY <1>2, <2>2, <2>3
<1> QED BY <1>3, <1>4

LEMMA ReleaseKeepsInv ==
  ASSUME PoolInv, NEW t \in Sender, Release(t)
  PROVE  PoolInv'
<1> USE DEF PoolInv
<1> DEFINE mine == sender[t].slot
<1>1. t \in Sending /\ mine \in Slot
  BY DEF Release, Sending, PoolTypeOK
<1>2. /\ queue' = Append(queue, mine)
      /\ sender' = [sender EXCEPT ![t] = NotSending]
      /\ UNCHANGED <<used, pool, receiver>>
  BY <1>1, HolderHasRoom DEF Release
<1>3. PoolTypeOK'
  <2>1. queue' \in Seq(Slot)
    BY <1>1, <1>2 DEF PoolTypeOK
  <2>2. NotSending \in [pc : SenderPc, slot : Slot, msg : Message \cup {None}]
    BY PoolAssumption DEF NotSending, SenderPc, Slot
  <2> QED BY <1>2, <2>1, <2>2 DEF PoolTypeOK
<1>4. /\ \A u \in Sender \ {t} : sender'[u] = sender[u]
      /\ Sending' = Sending \ {t}
  <2>1. PoolTypeOK /\ sender' = [sender EXCEPT ![t] = NotSending]
    BY <1>2
  <2>2. NotSending.pc = "idle"
    BY DEF NotSending
  <2> QED BY ONLY <2>1, <2>2, SenderStep, t \in Sender
<1>5. /\ Len(queue') = Len(queue) + 1 /\ Len(queue) \in Nat
      /\ \A i \in 1 .. Len(queue) : queue'[i] = queue[i]
      /\ queue'[Len(queue) + 1] = mine
      /\ Queued' = Queued \cup {mine}
  BY <1>1, <1>2, AppendQueued DEF PoolTypeOK
<1>6. Receiving' = Receiving /\ Sending \subseteq Sender
  BY <1>2 DEF Receiving, Sending
<1>7. /\ mine \notin Queued
      /\ \A u \in Sending \ {t} : sender[u].slot # mine
      /\ Receiving => receiver.slot # mine
  BY <1>1 DEF SlotHasOneOwner
<1>8. {sender[u].slot : u \in Sending} = {sender'[u].slot : u \in Sending'} \cup {mine}
  BY <1>1, <1>4, <1>6
<1>9. SlotHasOneOwner'
  <2>1. used' = Queued' \cup {sender'[u].slot : u \in Sending'}
                        \cup (IF Receiving' THEN {receiver'.slot} ELSE {})
    BY <1>2, <1>5, <1>6, <1>8 DEF SlotHasOneOwner
  <2>2. \A i, j \in 1 .. Len(queue') : queue'[i] = queue'[j] => i = j
    <3>1. \A i \in 1 .. Len(queue) : queue[i] # mine
      BY <1>7 DEF Queued
    <3> QED BY <1>5, <3>1 DEF SlotHasOneOwner
  <2>3. \A u, v \in Sending' : sender'[u].slot = sender'[v].slot => u = v
    BY <1>4, <1>6 DEF SlotHasOneOwner
  <2>4. \A u \in Sending' : sender'[u].slot \notin Queued'
    BY <1>4, <1>5, <1>6, <1>7 DEF SlotHasOneOwner
  <2>5. Receiving' => /\ receiver'.slot \notin Queued'
                      /\ \A u \in Sending' : sender'[u].slot # receiver'.slot
    BY <1>2, <1>4, <1>5, <1>6, <1>7 DEF SlotHasOneOwner
  <2> QED BY <2>1, <2>2, <2>3, <2>4, <2>5 DEF SlotHasOneOwner
<1> QED BY <1>3, <1>9

LEMMA DequeueKeepsInv ==
  ASSUME PoolInv, Dequeue
  PROVE  PoolInv'
<1> USE DEF PoolInv
<1>1. /\ ~Receiving /\ queue # <<>>
      /\ receiver' = [receiver EXCEPT !.pc = "copy", !.slot = Head(queue)]
      /\ queue' = Tail(queue)
      /\ UNCHANGED <<used, pool, sender>>
  BY DEF Dequeue, Receiving
<1>2. Head(queue) \in Slot /\ queue' \in Seq(Slot)
  BY <1>1 DEF PoolTypeOK
<1>3. PoolTypeOK'
  BY <1>1, <1>2 DEF PoolTypeOK, ReceiverPc
<1>4. Receiving' /\ receiver'.slot = Head(queue) /\ Sending' = Sending
  BY <1>1 DEF Receiving, Sending, PoolTypeOK
<1>5. /\ Head(queue) \in Queued
      /\ Head(queue) \notin Queued'
      /\ Queued = Queued' \cup {Head(queue)}
      /\ \A i, j \in 1 .. Len(queue') : queue'[i] = queue'[j] => i = j
  BY <1>1, TailQueued DEF SlotHasOneOwner
<1>6. SlotHasOneOwner'
  <2>1. used' = Queued' \cup {sender'[u].slot : u \in Sending'}
                        \cup (IF Receiving' THEN {receiver'.slot} ELSE {})
    BY <1>1, <1>4, <1>5 DEF SlotHasOneOwner
  <2>2. \A u \in Sending' : sender'[u].slot \notin Queued'
    BY <1>1, <1>4, <1>5 DEF SlotHasOneOwner
  <2>3. /\ receiver'.slot \notin Queued'
        /\ \A u \in Sending' : sender'[u].slot # receiver'.slot
    BY <1>1, <1>4, <1>5 DEF SlotHasOneOwner
  <2> QED BY <1>1, <1>4, <1>5, <2>1, <2>2, <2>3 DEF SlotHasOneOwner
<1> QED BY <1>3, <1>6

LEMMA CopyKeepsInv ==
  ASSUME PoolInv, Copy
  PROVE  PoolInv'
<1> USE DEF PoolInv
<1>1. /\ Receiving /\ Receiving' /\ receiver'.slot = receiver.slot
      /\ UNCHANGED <<used, pool, queue, sender>>
  BY DEF Copy, Receiving, PoolTypeOK
<1>2. PoolTypeOK'
  BY DEF Copy, PoolTypeOK, ReceiverPc
<1>3. Queued' = Queued /\ Sending' = Sending
  BY <1>1 DEF Queued, Sending
<1>4. SlotHasOneOwner'
  BY <1>1, <1>3 DEF SlotHasOneOwner
<1> QED BY <1>2, <1>4

LEMMA FreeSlotKeepsInv ==
  ASSUME PoolInv, FreeSlot
  PROVE  PoolInv'
<1> USE DEF PoolInv
<1>1. /\ Receiving /\ ~Receiving'
      /\ used' = used \ {receiver.slot}
      /\ UNCHANGED <<pool, queue, sender>>
  BY DEF FreeSlot, Receiving, PoolTypeOK
<1>2. PoolTypeOK'
  <2>1. 0 \in Slot
    BY PoolAssumption DEF Slot
  <2> QED BY <2>1 DEF FreeSlot, PoolTypeOK, ReceiverPc
<1>3. Queued' = Queued /\ Sending' = Sending
  BY <1>1 DEF Queued, Sending
<1>4. SlotHasOneOwner'
  BY <1>1, <1>3 DEF SlotHasOneOwner
<1> QED BY <1>2, <1>4

----------------------------------------------------------------------------

LEMMA PoolInitInv ==
  ASSUME PoolInit
  PROVE  PoolInv
<1>1. PoolTypeOK
  BY PoolAssumption
     DEF PoolInit, PoolTypeOK, NotSending, SenderPc, ReceiverPc, Slot
<1>2. Sending = {} /\ ~Receiving /\ Queued = {} /\ Len(queue) = 0
  BY DEF PoolInit, Sending, Receiving, Queued, NotSending
<1>3. SlotHasOneOwner
  BY <1>2 DEF PoolInit, SlotHasOneOwner
<1> QED BY <1>1, <1>3 DEF PoolInv

LEMMA PoolStepInv ==
  ASSUME PoolInv, [PoolNext]_poolVars
  PROVE  PoolInv'
<1>1. ASSUME NEW t \in Sender, NEW m \in Message, Alloc(t, m) PROVE PoolInv'
  BY <1>1, AllocKeepsInv
<1>2. ASSUME NEW t \in Sender, Fill(t) PROVE PoolInv'
  BY <1>2, FillKeepsInv
<1>3. ASSUME NEW t \in Sender, Release(t) PROVE PoolInv'
  BY <1>3, ReleaseKeepsInv
<1>4. CASE Dequeue
  BY <1>4, DequeueKeepsInv
<1>5. CASE Copy
  BY <1>5, CopyKeepsInv
<1>6. CASE FreeSlot
  BY <1>6, FreeSlotKeepsInv
<1>7. CASE UNCHANGED poolVars
  BY <1>7 DEF poolVars, PoolInv, PoolTypeOK, SlotHasOneOwner, Queued,
              Sending, Receiving
<1> QED BY <1>1, <1>2, <1>3, <1>4, <1>5, <1>6, <1>7 DEF PoolNext, Put, Take

(* Types and ownership hold in every reachable state, for every depth and  *)
(* every set of senders: the lock-free copies of sb_mqtt_service.c are     *)
(* safe because the index queue hands each slot to one task at a time.     *)
THEOREM PoolInvariant == PoolSpec => []PoolInv
<1>1. PoolInit => PoolInv
  BY PoolInitInv
<1>2. PoolInv /\ [PoolNext]_poolVars => PoolInv'
  BY PoolStepInv
<1> QED BY <1>1, <1>2, PTL DEF PoolSpec

(* No slot is ever shared or lost.                                         *)
THEOREM OneOwner == PoolSpec => []SlotHasOneOwner
<1>1. PoolInv => SlotHasOneOwner
  BY DEF PoolInv
<1> QED BY <1>1, PoolInvariant, PTL

(* The queue never refuses a sender that holds a slot, at every depth: the *)
(* refusal branches of both services, one of which gives the slot back     *)
(* while the other ignores the result, are never taken.                    *)
THEOREM ReleaseSucceeds == PoolSpec => []RoomForAllocated
<1>1. PoolInv => RoomForAllocated
  BY HolderHasRoom DEF RoomForAllocated
<1> QED BY <1>1, PoolInvariant, PTL

----------------------------------------------------------------------------
(* The pool is a bounded first-in first-out channel. *)

(* A sender carries a message, and between its copy and the release the    *)
(* slot it holds carries it too.                                           *)
SlotCarriesMessage ==
  \A t \in Sending : /\ sender[t].msg \in Message
                     /\ sender[t].pc = "release" => pool[sender[t].slot] = sender[t].msg

CarryInv == PoolInv /\ SlotCarriesMessage

(* Nobody else writes a slot: Fill touches the slot of its own sender.     *)
LEMMA FillKeepsCarry ==
  ASSUME CarryInv, NEW t \in Sender, Fill(t)
  PROVE  SlotCarriesMessage'
<1>1. /\ t \in Sending /\ PoolTypeOK /\ SlotHasOneOwner
      /\ pool' = [pool EXCEPT ![sender[t].slot] = sender[t].msg]
      /\ sender' = [sender EXCEPT ![t].pc = "release"]
  BY DEF Fill, Sending, CarryInv, PoolInv
<1>2. Sending' = Sending /\ Sending \subseteq Sender
  BY <1>1 DEF Sending, PoolTypeOK
<1>3. /\ sender'[t].slot = sender[t].slot /\ sender'[t].msg = sender[t].msg
      /\ pool'[sender[t].slot] = sender[t].msg
  BY <1>1, <1>2 DEF PoolTypeOK
<1>4. ASSUME NEW u \in Sending, u # t
      PROVE  sender'[u] = sender[u] /\ pool'[sender[u].slot] = pool[sender[u].slot]
  <2>1. sender[u].slot # sender[t].slot
    BY <1>1, <1>4 DEF SlotHasOneOwner
  <2> QED BY <1>1, <1>2, <1>4, <2>1 DEF PoolTypeOK
<1> QED BY <1>2, <1>3, <1>4 DEF SlotCarriesMessage, CarryInv

(* The other actions leave the slots alone.                                *)
LEMMA StepKeepsCarry ==
  ASSUME CarryInv, [PoolNext]_poolVars
  PROVE  SlotCarriesMessage'
<1>1. PoolTypeOK
  BY DEF CarryInv, PoolInv
<1>2. ASSUME NEW t \in Sender, NEW m \in Message, Alloc(t, m)
      PROVE  SlotCarriesMessage'
  <2>1. PICK s \in Slot \ used :
          sender' = [sender EXCEPT ![t] = [pc |-> "fill", slot |-> s, msg |-> m]]
    BY <1>2 DEF Alloc
  <2>2. pool' = pool /\ \A u \in Sending : u \in Sender
    BY <1>2 DEF Alloc, Sending
  <2>3. /\ sender'[t] = [pc |-> "fill", slot |-> s, msg |-> m]
        /\ \A u \in Sender \ {t} : sender'[u] = sender[u]
    BY <1>1, <2>1 DEF PoolTypeOK
  <2> QED BY <2>2, <2>3 DEF CarryInv, SlotCarriesMessage, Sending
<1>3. ASSUME NEW t \in Sender, Fill(t) PROVE SlotCarriesMessage'
  BY <1>3, FillKeepsCarry
<1>4. ASSUME NEW t \in Sender, Release(t) PROVE SlotCarriesMessage'
  <2>1. pool' = pool /\ sender' = [sender EXCEPT ![t] = NotSending]
    BY <1>4 DEF Release
  <2>2. /\ sender'[t] = NotSending
        /\ \A u \in Sender \ {t} : sender'[u] = sender[u]
    BY <1>1, <2>1 DEF PoolTypeOK
  <2> QED BY <2>1, <2>2 DEF CarryInv, SlotCarriesMessage, Sending, NotSending
<1>5. CASE Take \/ UNCHANGED poolVars
  <2>1. pool' = pool /\ sender' = sender
    BY <1>5 DEF Take, Dequeue, Copy, FreeSlot, poolVars
  <2> QED BY <2>1 DEF CarryInv, SlotCarriesMessage, Sending
<1> QED BY <1>2, <1>3, <1>4, <1>5 DEF PoolNext, Put

(* A step that leaves the queue and the slots of the messages in transit   *)
(* alone leaves the channel alone.                                         *)
LEMMA SameTransit ==
  ASSUME PoolTypeOK,
         queue' = queue, receiver'.pc = "copy" <=> receiver.pc = "copy",
         \A s \in Queued : pool'[s] = pool[s],
         receiver.pc = "copy" => pool'[receiver'.slot] = pool[receiver.slot]
  PROVE  InTransit' = InTransit
<1> DEFINE held  == IF receiver.pc = "copy" THEN <<pool[receiver.slot]>> ELSE <<>>
           waits == [i \in 1 .. Len(queue) |-> pool[queue[i]]]
<1>1. held' = held
  OBVIOUS
<1>2. \A i \in 1 .. Len(queue) : pool'[queue[i]] = pool[queue[i]]
  BY DEF Queued
<1>3. waits' = waits
  BY <1>2
<1>4. InTransit = held \o waits
  BY DEF InTransit
<1>5. InTransit' = held' \o waits'
  BY DEF InTransit
<1> HIDE DEF held, waits
<1> QED BY <1>1, <1>3, <1>4, <1>5

(* The channel as one sequence: its length and its elements.               *)
InHand == IF receiver.pc = "copy" THEN 1 ELSE 0

TransitIsHandThenQueue ==
  /\ InTransit \in Seq(Message \cup {None})
  /\ Len(InTransit) = Len(queue) + InHand
  /\ InHand = 1 => InTransit[1] = pool[receiver.slot]
  /\ \A i \in 1 .. Len(queue) : InTransit[i + InHand] = pool[queue[i]]

LEMMA TransitElements == PoolTypeOK => TransitIsHandThenQueue
<1> SUFFICES ASSUME PoolTypeOK PROVE TransitIsHandThenQueue
  OBVIOUS
<1> USE DEF TransitIsHandThenQueue, InHand
<1> DEFINE waits == [i \in 1 .. Len(queue) |-> pool[queue[i]]]
<1>1. queue \in Seq(Slot) /\ Len(queue) \in Nat
  BY DEF PoolTypeOK
<1>2. \A i \in 1 .. Len(queue) : pool[queue[i]] \in Message \cup {None}
  BY <1>1 DEF PoolTypeOK
<1>3. /\ waits \in Seq(Message \cup {None}) /\ Len(waits) = Len(queue)
      /\ \A i \in 1 .. Len(queue) : waits[i] = pool[queue[i]]
  BY <1>1, <1>2
<1> HIDE DEF waits
<1>4. CASE receiver.pc = "copy"
  <2>1. pool[receiver.slot] \in Message \cup {None}
    BY DEF PoolTypeOK
  <2>2. InTransit = <<pool[receiver.slot]>> \o waits
    BY <1>4 DEF InTransit, waits
  <2> QED BY <1>1, <1>3, <1>4, <2>1, <2>2
<1>5. CASE receiver.pc # "copy"
  <2>1. InTransit = <<>> \o waits
    BY <1>5 DEF InTransit, waits
  <2> QED BY <1>1, <1>3, <1>5, <2>1
<1> QED BY <1>4, <1>5

LEMMA TransitElementsNext == PoolTypeOK' => TransitIsHandThenQueue'
BY TransitElements, PTL

(* A release is the send of the message the slot carries.                  *)
LEMMA ReleaseSends ==
  ASSUME CarryInv, PoolTypeOK', NEW t \in Sender, Release(t)
  PROVE  Chan!Send(sender[t].msg) /\ sender[t].msg \in Message
<1> DEFINE m == sender[t].msg
           k == InHand
<1>1. /\ PoolInv /\ PoolTypeOK /\ t \in Sending /\ sender[t].slot \in Slot
      /\ m \in Message /\ pool[sender[t].slot] = m
  BY DEF CarryInv, PoolInv, PoolTypeOK, SlotCarriesMessage, Release, Sending
<1>2. Len(queue) < Depth /\ (receiver.pc = "copy" => Len(queue) + 1 < Depth)
  BY <1>1, HolderHasRoom
<1>3. queue' = Append(queue, sender[t].slot) /\ pool' = pool /\ receiver' = receiver
  BY <1>2 DEF Release
<1>4. /\ Len(queue') = Len(queue) + 1 /\ Len(queue) \in Nat
      /\ \A i \in 1 .. Len(queue) : queue'[i] = queue[i]
      /\ queue'[Len(queue) + 1] = sender[t].slot
  BY <1>1, <1>3, AppendQueued DEF PoolTypeOK
<1>5. /\ InTransit \in Seq(Message \cup {None})
      /\ Len(InTransit) = Len(queue) + k
      /\ k = 1 => InTransit[1] = pool[receiver.slot]
      /\ \A i \in 1 .. Len(queue) : InTransit[i + k] = pool[queue[i]]
  BY <1>1, TransitElements DEF TransitIsHandThenQueue
<1>6. /\ InTransit' \in Seq(Message \cup {None})
      /\ Len(InTransit') = Len(queue') + k
      /\ k = 1 => InTransit'[1] = pool'[receiver'.slot]
      /\ \A i \in 1 .. Len(queue') : InTransit'[i + k] = pool'[queue'[i]]
  <2>1. InHand' = InHand
    BY <1>3 DEF InHand
  <2>2. TransitIsHandThenQueue'
    BY TransitElementsNext
  <2> QED BY <2>1, <2>2 DEF TransitIsHandThenQueue
<1>7. Len(InTransit) < Depth
  BY <1>2, <1>4, <1>5 DEF InHand
<1>8. k \in 0 .. 1 /\ (k = 1 <=> receiver.pc = "copy")
  BY DEF InHand
<1> HIDE DEF k, m
<1>9. InTransit' = Append(InTransit, m)
  <2>1. Len(InTransit') = Len(InTransit) + 1
    BY <1>4, <1>5, <1>6, <1>8
  <2>2. ASSUME NEW j \in 1 .. Len(InTransit)
        PROVE  InTransit'[j] = InTransit[j]
    <3>1. CASE j =< k
      BY <1>3, <1>5, <1>6, <1>8, <3>1
    <3>2. CASE j > k
      <4>1. j - k \in 1 .. Len(queue) /\ (j - k) + k = j /\ j - k \in 1 .. Len(queue')
        BY <1>4, <1>5, <1>8, <3>2
      <4>2. InTransit[(j - k) + k] = pool[queue[j - k]]
        BY <1>5, <4>1
      <4>3. InTransit'[(j - k) + k] = pool'[queue'[j - k]]
        BY <1>6, <4>1
      <4> QED BY <1>3, <1>4, <4>1, <4>2, <4>3
    <3> QED BY <1>8, <3>1, <3>2
  <2>3. InTransit'[Len(InTransit) + 1] = m
    <3>1. Len(queue) + 1 \in 1 .. Len(queue') /\ Len(InTransit) + 1 = (Len(queue) + 1) + k
      BY <1>4, <1>5, <1>8
    <3>2. InTransit'[(Len(queue) + 1) + k] = pool'[queue'[Len(queue) + 1]]
      BY <1>6, <3>1
    <3> QED BY <1>1, <1>3, <1>4, <3>1, <3>2 DEF m
  <2> QED BY <1>1, <1>5, <1>6, <2>1, <2>2, <2>3 DEF m
<1>10. UNCHANGED receiver.msg
  BY <1>3
<1> QED BY <1>1, <1>7, <1>9, <1>10 DEF Chan!Send, m

(* A dequeue moves the oldest message from the queue to the receiver's     *)
(* hand: the channel holds what it held.                                   *)
LEMMA DequeueStutters ==
  ASSUME PoolInv, PoolTypeOK', Dequeue
  PROVE  InTransit' = InTransit /\ UNCHANGED receiver.msg
<1>1. /\ PoolTypeOK /\ receiver.pc = "wait" /\ queue # <<>> /\ pool' = pool
      /\ queue' = Tail(queue)
      /\ receiver' = [receiver EXCEPT !.pc = "copy", !.slot = Head(queue)]
  BY DEF Dequeue, PoolInv
<1>2. /\ receiver'.pc = "copy" /\ receiver'.slot = Head(queue) /\ receiver'.msg = receiver.msg
  BY <1>1 DEF PoolTypeOK
<1>3. /\ queue \in Seq(Slot) /\ Len(queue) \in Nat \ {0} /\ Head(queue) = queue[1]
      /\ Len(queue') = Len(queue) - 1
      /\ \A i \in 1 .. Len(queue') : queue'[i] = queue[i + 1]
  BY <1>1 DEF PoolTypeOK
<1>4. /\ InTransit \in Seq(Message \cup {None})
      /\ Len(InTransit) = Len(queue)
      /\ \A i \in 1 .. Len(queue) : InTransit[i] = pool[queue[i]]
  BY <1>1, <1>3, TransitElements DEF TransitIsHandThenQueue, InHand
<1>5. /\ InTransit' \in Seq(Message \cup {None})
      /\ Len(InTransit') = Len(queue') + 1
      /\ InTransit'[1] = pool'[receiver'.slot]
      /\ \A i \in 1 .. Len(queue') : InTransit'[i + 1] = pool'[queue'[i]]
  BY <1>2, TransitElementsNext DEF TransitIsHandThenQueue, InHand
<1>6. ASSUME NEW j \in 1 .. Len(queue)
      PROVE  InTransit'[j] = InTransit[j]
  <2>1. CASE j = 1
    BY <1>1, <1>2, <1>3, <1>4, <1>5, <2>1
  <2>2. CASE j # 1
    <3>1. j - 1 \in 1 .. Len(queue') /\ (j - 1) + 1 = j
      BY <1>3, <2>2
    <3>2. InTransit'[(j - 1) + 1] = pool'[queue'[j - 1]] /\ queue'[j - 1] = queue[(j - 1) + 1]
      BY <1>3, <1>5, <3>1
    <3> QED BY <1>1, <1>4, <3>1, <3>2
  <2> QED BY <2>1, <2>2
<1>7. InTransit' = InTransit
  BY <1>3, <1>4, <1>5, <1>6
<1> QED BY <1>2, <1>7

(* The copy out of the slot is the reception of the oldest message.        *)
LEMMA CopyReceives ==
  ASSUME PoolInv, PoolTypeOK', Copy
  PROVE  Chan!Receive
<1>1. /\ PoolTypeOK /\ receiver.pc = "copy" /\ pool' = pool /\ queue' = queue
      /\ receiver' = [receiver EXCEPT !.pc = "free", !.msg = pool[receiver.slot]]
  BY DEF Copy, PoolInv
<1>2. receiver'.pc = "free" /\ receiver'.msg = pool[receiver.slot]
  BY <1>1 DEF PoolTypeOK
<1>3. Len(queue) \in Nat
  BY <1>1 DEF PoolTypeOK
<1>4. /\ InTransit \in Seq(Message \cup {None})
      /\ Len(InTransit) = Len(queue) + 1
      /\ InTransit[1] = pool[receiver.slot]
      /\ \A i \in 1 .. Len(queue) : InTransit[i + 1] = pool[queue[i]]
  BY <1>1, TransitElements DEF TransitIsHandThenQueue, InHand
<1>5. /\ InTransit' \in Seq(Message \cup {None})
      /\ Len(InTransit') = Len(queue)
      /\ \A i \in 1 .. Len(queue) : InTransit'[i] = pool[queue[i]]
  <2>1. InHand' = 0 /\ Len(queue') = Len(queue)
    BY <1>1, <1>2 DEF InHand
  <2>2. TransitIsHandThenQueue'
    BY TransitElementsNext
  <2>3. \A i \in 1 .. Len(queue') : i + 0 = i
    OBVIOUS
  <2> QED BY <1>1, <1>3, <2>1, <2>2, <2>3 DEF TransitIsHandThenQueue
<1>6. InTransit # <<>> /\ Head(InTransit) = InTransit[1]
  BY <1>3, <1>4
<1>7. InTransit' = Tail(InTransit)
  BY <1>3, <1>4, <1>5
<1> QED BY <1>2, <1>4, <1>6, <1>7 DEF Chan!Receive

(* Every behaviour of the pool, mapped to its messages in transit, is a    *)
(* behaviour of a bounded first-in first-out channel: for every depth, set *)
(* of senders and messages, what sb_mqtt_service_receive returns is what   *)
(* was put in, unchanged, once, and in the order of the queue releases.    *)
THEOREM PoolIsChannel == PoolSpec => ImplementsChannel
<1>1. PoolInit => CarryInv
  BY PoolInitInv DEF PoolInit, CarryInv, SlotCarriesMessage, Sending, NotSending
<1>2. CarryInv /\ [PoolNext]_poolVars => CarryInv'
  BY PoolStepInv, StepKeepsCarry DEF CarryInv
<1>3. PoolInit => Chan!Init
  BY DEF PoolInit, Chan!Init, InTransit
<1>4. CarryInv /\ PoolTypeOK' /\ [PoolNext]_poolVars
        => [Chan!Next]_<<InTransit, receiver.msg>>
  <2> SUFFICES ASSUME CarryInv, PoolTypeOK', [PoolNext]_poolVars
               PROVE  [Chan!Next]_<<InTransit, receiver.msg>>
    OBVIOUS
  <2>i. PoolInv /\ PoolTypeOK /\ SlotHasOneOwner
    BY DEF CarryInv, PoolInv
  <2>1. ASSUME NEW t \in Sender, NEW m \in Message, Alloc(t, m)
        PROVE  UNCHANGED <<InTransit, receiver.msg>>
    BY <2>i, <2>1, SameTransit DEF Alloc
  <2>2. ASSUME NEW t \in Sender, Fill(t)
        PROVE  UNCHANGED <<InTransit, receiver.msg>>
    <3>1. /\ t \in Sending /\ UNCHANGED <<queue, receiver>>
          /\ pool' = [pool EXCEPT ![sender[t].slot] = sender[t].msg]
      BY <2>2 DEF Fill, Sending
    <3>2. sender[t].slot \notin Queued /\ (Receiving => sender[t].slot # receiver.slot)
      BY <2>i, <3>1 DEF SlotHasOneOwner
    <3>3. Queued \subseteq Slot /\ receiver.slot \in Slot /\ pool \in [Slot -> Message \cup {None}]
      BY <2>i DEF Queued, PoolTypeOK
    <3>4. \A s \in Queued : pool'[s] = pool[s]
      BY <3>1, <3>2, <3>3
    <3>5. receiver.pc = "copy" => pool'[receiver'.slot] = pool[receiver.slot]
      BY <3>1, <3>2, <3>3 DEF Receiving
    <3> QED BY <2>i, <3>1, <3>4, <3>5, SameTransit
  <2>3. ASSUME NEW t \in Sender, Release(t) PROVE Chan!Next
    BY <2>3, ReleaseSends DEF Chan!Next
  <2>4. CASE Dequeue
    BY <2>i, <2>4, DequeueStutters
  <2>5. CASE Copy
    BY <2>i, <2>5, CopyReceives DEF Chan!Next
  <2>6. CASE FreeSlot
    <3>1. /\ UNCHANGED <<pool, queue>> /\ receiver.pc = "free"
          /\ receiver' = [receiver EXCEPT !.pc = "wait", !.slot = 0]
      BY <2>6 DEF FreeSlot
    <3>2. receiver'.pc = "wait" /\ receiver'.msg = receiver.msg
      BY <2>i, <3>1 DEF PoolTypeOK
    <3> QED BY <2>i, <3>1, <3>2, SameTransit
  <2>7. CASE UNCHANGED poolVars
    BY <2>i, <2>7, SameTransit DEF poolVars
  <2> QED BY <2>1, <2>2, <2>3, <2>4, <2>5, <2>6, <2>7 DEF PoolNext, Put, Take
<1>5. CarryInv' => PoolTypeOK'
  BY DEF CarryInv, PoolInv
<1> QED BY <1>1, <1>2, <1>3, <1>4, <1>5, PTL DEF PoolSpec, ImplementsChannel, Chan!Spec

----------------------------------------------------------------------------
(* The payment flow *)

Turn == [pc     : {"idle", "poll", "prompt", "save", "ack", "announce"},
         msg    : Msg \cup {"none"},
         status : {"none", "error", "accepted", "duplicate"}]

FlowTypeOK ==
  /\ up \in BOOLEAN /\ unsaved \in BOOLEAN
  /\ window \in Seq(Win!Payment) /\ stored.window \in Seq(Win!Payment)
  /\ rx \in Seq(Msg) /\ audio \in Seq(Msg)
  /\ acks \in Seq(Msg \X {"accepted", "duplicate"})
  /\ task \in Turn
  /\ heard \in [Json -> Nat] /\ forgets \in [Json -> Nat]

(* What the business task holds at each place; it holds nothing, and       *)
(* nothing is queued for the others, while the device is off.              *)
TaskHolds ==
  /\ At("idle") => task = Resting
  /\ At("poll") => task = Polling
  /\ ~At("idle") => up
  /\ At("prompt") => task.msg \in Bad /\ task.status = "error"
  /\ At("ack") => task.msg \in Msg /\ task.status \in {"accepted", "duplicate"}
  /\ At("save") => \/ task.msg \in Msg /\ task.status = "accepted"
                   \/ task = Working("save", "none", "none")
  /\ At("announce") => task.msg \in Msg /\ task.status = "accepted"
  /\ ~up => audio = <<>> /\ acks = <<>>

(* Unless a save failed or has the file removed, the file has every        *)
(* payment of the window but the one being saved.                          *)
FileFollows ==
  up /\ ~unsaved =>
    \A n \in Json : Known(n) => Stored(n) \/ (At("save") /\ task.msg = n)

Places(s, m) == {i \in DOMAIN s : s[i] = m}
Held(m)      == IF task.msg = m /\ task.status = "accepted" THEN 1 ELSE 0
Owed(m)      == heard[m] + Underway(m)

Accepted(m) == m \in acked \/ <<m, "accepted">> \in ToSet(acks)

(* The device remembers m, or will when it is on again.                    *)
OnRecord(m) == IF up THEN Known(m) ELSE Stored(m)

(* Each announcement is paid for by the record of the payment or by a loss *)
(* of it, and an acceptance by one of them; a payment taken as new that    *)
(* had been accepted before was lost.                                      *)
Kept(m) ==
  /\ Owed(m) <= forgets[m] + IF OnRecord(m) THEN 1 ELSE 0
  /\ Accepted(m) => forgets[m] > 0 \/ OnRecord(m)
  /\ At("save") /\ task.msg = m /\ Accepted(m) => forgets[m] > 0

AllKept == \A m \in Json : Kept(m)

FlowInv == FlowTypeOK /\ TaskHolds /\ FileFollows /\ AllKept

----------------------------------------------------------------------------
(* Sequences *)

LEMMA PlacesFinite ==
  ASSUME NEW S, NEW s \in Seq(S), NEW m
  PROVE  IsFiniteSet(Places(s, m)) /\ Cardinality(Places(s, m)) \in Nat
<1>1. Len(s) \in Nat /\ Places(s, m) \subseteq 1 .. Len(s)
  BY DEF Places
<1>2. IsFiniteSet(1 .. Len(s))
  BY <1>1, FS_Interval
<1> QED
  BY <1>1, <1>2, FS_Subset, FS_CardinalityType

LEMMA NoPlaces == ASSUME NEW m PROVE Cardinality(Places(<<>>, m)) = 0
<1>1. Places(<<>>, m) = {}
  BY DEF Places
<1> QED
  BY <1>1, FS_EmptySet

LEMMA PlacesAppend ==
  ASSUME NEW S, NEW s \in Seq(S), NEW x \in S, NEW m
  PROVE  Cardinality(Places(Append(s, x), m))
           = Cardinality(Places(s, m)) + IF x = m THEN 1 ELSE 0
<1> DEFINE n == Len(s) + 1
<1>1. /\ Len(s) \in Nat /\ DOMAIN s = 1 .. Len(s) /\ DOMAIN Append(s, x) = 1 .. n
      /\ Append(s, x)[n] = x /\ \A i \in 1 .. Len(s) : Append(s, x)[i] = s[i]
  OBVIOUS
<1>2. IsFiniteSet(Places(s, m)) /\ Cardinality(Places(s, m)) \in Nat
  BY PlacesFinite
<1>3. n \notin Places(s, m)
  BY <1>1 DEF Places
<1>4. CASE x = m
  <2>1. Places(Append(s, x), m) = Places(s, m) \cup {n}
    BY <1>1, <1>4 DEF Places
  <2> QED
    BY <1>2, <1>3, <1>4, <2>1, FS_AddElement
<1>5. CASE x # m
  <2>1. Places(Append(s, x), m) = Places(s, m)
    BY <1>1, <1>5 DEF Places
  <2> QED
    BY <1>2, <1>5, <2>1
<1> QED
  BY <1>4, <1>5

LEMMA PlacesTail ==
  ASSUME NEW S, NEW s \in Seq(S), s # <<>>, NEW m
  PROVE  Cardinality(Places(s, m))
           = Cardinality(Places(Tail(s), m)) + IF Head(s) = m THEN 1 ELSE 0
<1> DEFINE P == Places(s, m)
           T == Places(Tail(s), m)
           f == [i \in T |-> i + 1]
<1>1. /\ Len(s) \in Nat \ {0} /\ DOMAIN s = 1 .. Len(s) /\ Head(s) = s[1]
      /\ Tail(s) \in Seq(S) /\ DOMAIN Tail(s) = 1 .. Len(s) - 1
      /\ \A i \in 1 .. Len(s) - 1 : Tail(s)[i] = s[i + 1]
  OBVIOUS
<1>2. IsFiniteSet(T) /\ Cardinality(T) \in Nat
  BY <1>1, PlacesFinite
<1>3. f \in Bijection(T, P \ {1})
  <2>1. ASSUME NEW i \in T PROVE i + 1 \in P \ {1}
    BY <1>1 DEF Places
  <2>2. ASSUME NEW i \in T, NEW j \in T, i + 1 = j + 1 PROVE i = j
    BY <1>1, <2>2 DEF Places
  <2>3. ASSUME NEW j \in P \ {1} PROVE j - 1 \in T /\ j - 1 + 1 = j
    BY <1>1 DEF Places
  <2>4. ASSUME NEW j \in P \ {1} PROVE \E i \in T : f[i] = j
    BY <2>3
  <2>5. f \in [T -> P \ {1}] /\ \A a, b \in T : f[a] = f[b] => a = b
    BY <2>1, <2>2
  <2> QED
    BY <2>4, <2>5, Fun_IsBij
<1>4. IsFiniteSet(P \ {1}) /\ Cardinality(P \ {1}) = Cardinality(T)
  BY <1>2, <1>3, FS_Bijection DEF ExistsBijection
<1>5. CASE Head(s) = m
  <2>1. P = (P \ {1}) \cup {1} /\ 1 \notin P \ {1}
    BY <1>1, <1>5 DEF Places
  <2> HIDE DEF P, T
  <2>2. Cardinality((P \ {1}) \cup {1}) = Cardinality(P \ {1}) + 1
    BY <1>4, <2>1, FS_AddElement, Zenon
  <2>3. Cardinality(P) = Cardinality(T) + 1
    BY <1>4, <2>1, <2>2
  <2> QED
    BY <1>5, <2>3 DEF P, T
<1>6. CASE Head(s) # m
  <2>1. P \ {1} = P
    BY <1>1, <1>6 DEF Places
  <2> HIDE DEF P, T
  <2>2. Cardinality(P) = Cardinality(T)
    BY <1>4, <2>1, Zenon
  <2>3. Cardinality(T) + 0 = Cardinality(T)
    BY <1>2
  <2> QED
    BY <1>6, <2>2, <2>3 DEF P, T
<1> QED
  BY <1>5, <1>6

LEMMA ToSetSteps ==
  ASSUME NEW S, NEW s \in Seq(S)
  PROVE  /\ ToSet(<<>>) = {}
         /\ \A x \in S : ToSet(Append(s, x)) = ToSet(s) \cup {x}
         /\ s # <<>> => ToSet(Tail(s)) \subseteq ToSet(s) /\ Head(s) \in ToSet(s)
                        /\ Tail(s) \in Seq(S) /\ Head(s) \in S
<1>1. ToSet(<<>>) = {}
  BY DEF ToSet
<1>2. ASSUME NEW x \in S PROVE ToSet(Append(s, x)) = ToSet(s) \cup {x}
  <2>1. /\ Len(s) \in Nat /\ DOMAIN s = 1 .. Len(s)
        /\ DOMAIN Append(s, x) = 1 .. Len(s) + 1
        /\ Append(s, x)[Len(s) + 1] = x
        /\ \A i \in 1 .. Len(s) : Append(s, x)[i] = s[i]
    OBVIOUS
  <2>2. 1 .. Len(s) + 1 = (1 .. Len(s)) \cup {Len(s) + 1}
    BY <2>1
  <2> QED
    BY <2>1, <2>2 DEF ToSet
<1>3. ASSUME s # <<>>
      PROVE  ToSet(Tail(s)) \subseteq ToSet(s) /\ Head(s) \in ToSet(s)
             /\ Tail(s) \in Seq(S) /\ Head(s) \in S
  <2>1. /\ Len(s) \in Nat \ {0} /\ DOMAIN s = 1 .. Len(s) /\ Head(s) = s[1]
        /\ Tail(s) \in Seq(S) /\ DOMAIN Tail(s) = 1 .. Len(s) - 1
        /\ \A i \in 1 .. Len(s) - 1 : Tail(s)[i] = s[i + 1]
    BY <1>3
  <2> QED
    BY <1>3, <2>1 DEF ToSet
<1> QED
  BY <1>1, <1>2, <1>3

(* A post puts the item last or leaves the queue as it is.                 *)
LEMMA PostCases ==
  ASSUME NEW S, NEW s \in Seq(S), NEW x \in S, NEW depth
  PROVE  Post(s, x, depth) \in Seq(S)
         /\ (Post(s, x, depth) = Append(s, x) \/ Post(s, x, depth) = s)
         /\ ToSet(Post(s, x, depth)) \subseteq ToSet(s) \cup {x}
<1>1. Post(s, x, depth) \in Seq(S)
      /\ (Post(s, x, depth) = Append(s, x) \/ Post(s, x, depth) = s)
  BY DEF Post
<1>2. ToSet(Append(s, x)) = ToSet(s) \cup {x}
  BY ToSetSteps
<1> QED
  BY <1>1, <1>2

(* What is announced, counted in the parts of the device.                  *)
LEMMA Counted ==
  ASSUME FlowTypeOK, NEW m \in Json
  PROVE  /\ Underway(m) = Cardinality(Places(audio, m)) + Held(m)
         /\ Cardinality(Places(audio, m)) \in Nat /\ Held(m) \in {0, 1}
         /\ heard[m] \in Nat /\ forgets[m] \in Nat /\ Owed(m) \in Nat
<1>1. Cardinality(Places(audio, m)) \in Nat
  BY PlacesFinite DEF FlowTypeOK
<1>2. Underway(m) = Cardinality(Places(audio, m)) + Held(m)
  BY DEF Underway, Places, Held
<1>3. Held(m) \in {0, 1} /\ heard[m] \in Nat /\ forgets[m] \in Nat
  BY DEF Held, FlowTypeOK
<1> QED
  BY <1>1, <1>2, <1>3 DEF Owed

OwedIsNat == \A m \in Json : Owed(m) \in Nat /\ forgets[m] \in Nat

LEMMA OwedType == FlowTypeOK => OwedIsNat
BY Counted DEF OwedIsNat

LEMMA OwedTypeNext == FlowTypeOK' => OwedIsNat'
BY OwedType, PTL

LEMMA JsonIsMsg == Json \subseteq Msg
BY DEF Msg, Payments

LEMMA ForgetCounts ==
  ASSUME FlowTypeOK, NEW lost, Forget(lost)
  PROVE  /\ forgets' \in [Json -> Nat]
         /\ \A m \in Json : /\ forgets'[m] >= forgets[m]
                            /\ m \in lost => forgets'[m] = forgets[m] + 1
<1>1. forgets \in [Json -> Nat] /\ forgets' = [m \in Json |-> forgets[m] + IF m \in lost THEN 1 ELSE 0]
  BY DEF FlowTypeOK, Forget
<1> QED
  BY <1>1

(* A message with a transaction id of its own has no other.                *)
LEMMA OneId ==
  ASSUME FlowTypeOK, NEW m \in Json
  PROVE  Known(m) <=> Listed(window, <<m, 0>>)
<1>1. ASSUME NEW id \in Id, id[1] = m PROVE id = <<m, 0>>
  BY <1>1, FlowAssumption DEF Id
<1>2. ASSUME NEW i \in DOMAIN window PROVE window[i].tx_id \in Id
  <2>1. window[i] \in Win!Payment
    BY DEF FlowTypeOK
  <2> QED
    BY <2>1 DEF Win!Payment
<1>3. <<m, 0>>[1] = m
  OBVIOUS
<1> QED
  BY <1>1, <1>2, <1>3 DEF Known, Listed

----------------------------------------------------------------------------

LEMMA FlowInitInv == FlowInit => FlowInv
<1> SUFFICES ASSUME FlowInit PROVE FlowInv
  OBVIOUS
<1>1. /\ ~up /\ window = <<>> /\ stored = Win!Blank /\ stored.window = <<>>
      /\ rx = <<>> /\ acks = <<>> /\ audio = <<>> /\ task = Resting
      /\ acked = {} /\ heard = [m \in Json |-> 0] /\ forgets = [m \in Json |-> 0]
      /\ up \in BOOLEAN /\ unsaved \in BOOLEAN
  BY DEF FlowInit, Win!Init, Win!Blank
<1>2. FlowTypeOK
  <2>1. /\ window \in Seq(Win!Payment) /\ stored.window \in Seq(Win!Payment)
        /\ rx \in Seq(Msg) /\ audio \in Seq(Msg)
        /\ acks \in Seq(Msg \X {"accepted", "duplicate"})
    BY <1>1
  <2>2. task \in Turn /\ heard \in [Json -> Nat] /\ forgets \in [Json -> Nat]
    BY <1>1 DEF Resting, Working, Turn
  <2> QED
    BY <1>1, <2>1, <2>2 DEF FlowTypeOK
<1>3. TaskHolds /\ FileFollows
  BY <1>1 DEF TaskHolds, FileFollows, At, Resting, Working
<1>4. ASSUME NEW m \in Json PROVE Kept(m)
  <2>1. Owed(m) = 0 /\ forgets[m] = 0
    BY <1>1, <1>2, Counted, NoPlaces DEF Held, Resting, Working, Owed
  <2>2. ~Accepted(m)
    BY <1>1 DEF Accepted, ToSet
  <2> QED
    BY <2>1, <2>2 DEF Kept
<1> QED
  BY <1>2, <1>3, <1>4 DEF FlowInv, AllKept

(* No more announcements, no new acceptance, and no loss that is not       *)
(* counted.                                                                *)
LEMMA KeptStays ==
  ASSUME FlowTypeOK, FlowTypeOK', NEW m \in Json, Kept(m),
         Owed(m)' <= Owed(m), Accepted(m)' => Accepted(m),
         forgets'[m] >= forgets[m],
         OnRecord(m) => OnRecord(m)' \/ forgets'[m] >= forgets[m] + 1,
         At("save")' /\ task'.msg = m => At("save") /\ task.msg = m
  PROVE  Kept(m)'
<1>1. Owed(m) \in Nat /\ forgets[m] \in Nat
  BY OwedType DEF OwedIsNat
<1>2. Owed(m)' \in Nat /\ forgets'[m] \in Nat
  BY OwedTypeNext DEF OwedIsNat
<1>3. CASE OnRecord(m)'
  BY <1>1, <1>2, <1>3 DEF Kept
<1>4. CASE ~OnRecord(m)'
  BY <1>1, <1>2, <1>4 DEF Kept
<1> QED
  BY <1>3, <1>4

(* Steps that leave the announcements and the records alone.               *)
LEMMA AloneKeeps ==
  ASSUME FlowInv, FlowTypeOK',
         UNCHANGED <<up, window, stored, audio, heard, forgets>>,
         \A m \in Json : /\ Held(m)' = Held(m) /\ (Accepted(m)' => Accepted(m))
                         /\ At("save")' /\ task'.msg = m => At("save") /\ task.msg = m
  PROVE  AllKept'
<1> SUFFICES ASSUME NEW m \in Json PROVE Kept(m)'
  BY DEF AllKept
<1>1. FlowTypeOK /\ Kept(m) /\ Held(m)' = Held(m) /\ (Accepted(m)' => Accepted(m))
      /\ (At("save")' /\ task'.msg = m => At("save") /\ task.msg = m)
  BY DEF FlowInv, AllKept
<1>2. Underway(m)' = Underway(m)
  BY <1>1 DEF Underway, Held
<1>3. Owed(m)' = Owed(m) /\ Owed(m) \in Nat /\ forgets[m] \in Nat
  BY <1>1, <1>2, OwedType DEF Owed, OwedIsNat
<1>4. OnRecord(m)' <=> OnRecord(m)
  BY DEF OnRecord, Known, Stored
<1>5. Owed(m)' <= Owed(m) /\ forgets'[m] >= forgets[m]
  BY <1>3
<1> QED
  BY <1>1, <1>4, <1>5, KeptStays

LEMMA NetworkKeepsInv ==
  ASSUME FlowInv, UNCHANGED <<up, window, stored, task, audio, heard, forgets, unsaved>>,
         rx' \in Seq(Msg), acks' \in Seq(Msg \X {"accepted", "duplicate"}),
         \A m \in Json : Accepted(m)' => Accepted(m),
         ~up => acks' = <<>>
  PROVE  FlowInv'
<1>1. FlowTypeOK /\ TaskHolds /\ FileFollows
  BY DEF FlowInv
<1>2. FlowTypeOK'
  BY <1>1 DEF FlowTypeOK, Win!Payment, Msg, Payments, Id, Turn
<1>3. TaskHolds' /\ FileFollows'
  BY <1>1 DEF TaskHolds, FileFollows, At, Known, Stored, Resting, Polling, Working
<1>4. AllKept'
  BY <1>2, AloneKeeps DEF Held, At
<1> QED
  BY <1>2, <1>3, <1>4 DEF FlowInv

LEMMA ArriveKeepsInv == ASSUME FlowInv, NEW m \in Msg, Arrive(m) PROVE FlowInv'
<1>1. /\ UNCHANGED <<up, window, stored, task, audio, heard, forgets, unsaved>>
      /\ rx' = Post(rx, m, RxDepth) /\ acks' = acks /\ acked' = acked
  BY DEF Arrive, ledgerVars, history
<1>2. rx \in Seq(Msg) /\ acks \in Seq(Msg \X {"accepted", "duplicate"})
      /\ (~up => acks = <<>>)
  BY DEF FlowInv, FlowTypeOK, TaskHolds
<1>3. rx' \in Seq(Msg)
  BY <1>1, <1>2, PostCases
<1> QED
  BY <1>1, <1>2, <1>3, NetworkKeepsInv DEF Accepted

LEMMA PublishKeepsInv == FlowInv /\ Publish => FlowInv'
<1> SUFFICES ASSUME FlowInv, Publish PROVE FlowInv'
  OBVIOUS
<1>1. /\ UNCHANGED <<up, window, stored, task, audio, heard, forgets, unsaved>>
      /\ rx' = rx /\ acks # <<>> /\ acks' = Tail(acks)
      /\ acked' \subseteq acked \cup {m \in Json : Head(acks) = <<m, "accepted">>}
  BY DEF Publish, ledgerVars
<1>2. rx \in Seq(Msg) /\ acks \in Seq(Msg \X {"accepted", "duplicate"})
      /\ (~up => acks = <<>>)
  BY DEF FlowInv, FlowTypeOK, TaskHolds
<1>3. /\ ToSet(Tail(acks)) \subseteq ToSet(acks) /\ Head(acks) \in ToSet(acks)
      /\ Tail(acks) \in Seq(Msg \X {"accepted", "duplicate"})
  BY <1>1, <1>2, ToSetSteps
<1>4. ASSUME NEW m \in Json, Accepted(m)' PROVE Accepted(m)
  BY <1>1, <1>3, <1>4 DEF Accepted
<1> QED
  BY <1>1, <1>2, <1>3, <1>4, NetworkKeepsInv

LEMMA LinkKeepsInv == FlowInv /\ (LinkUp \/ LinkDown) => FlowInv'
<1> SUFFICES ASSUME FlowInv, LinkUp \/ LinkDown PROVE FlowInv'
  OBVIOUS
<1>1. /\ UNCHANGED <<up, window, stored, task, audio, heard, forgets, unsaved>>
      /\ rx' = rx /\ acks' = acks /\ acked' = acked
  BY DEF LinkUp, LinkDown, ledgerVars, history
<1>2. rx \in Seq(Msg) /\ acks \in Seq(Msg \X {"accepted", "duplicate"})
      /\ (~up => acks = <<>>)
  BY DEF FlowInv, FlowTypeOK, TaskHolds
<1> QED
  BY <1>1, <1>2, NetworkKeepsInv DEF Accepted

----------------------------------------------------------------------------
(* The business task at the head of its loop: it holds no new payment.     *)
LEMMA LoopKeepsInv ==
  ASSUME FlowInv, task \in {Resting, Polling}, up,
         UNCHANGED <<up, window, stored, acks, audio, acked, heard, forgets, unsaved>>,
         rx' \in Seq(Msg),
         \/ task' \in {Resting, Polling}
         \/ task' = Working("save", "none", "none")
         \/ \E m \in Msg : \/ task' = Working("prompt", m, "error") /\ m \in Bad
                           \/ task' = Working("ack", m, "duplicate")
  PROVE  FlowInv'
<1>1. FlowTypeOK /\ TaskHolds /\ FileFollows /\ AllKept
  BY DEF FlowInv
<1>2. task' \in Turn
  BY DEF Resting, Polling, Working, Turn, Msg, Payments
<1>3. FlowTypeOK'
  BY <1>1, <1>2 DEF FlowTypeOK, Win!Payment, Msg, Payments, Id
<1>4. TaskHolds'
  BY <1>1 DEF TaskHolds, At, Working, Resting, Polling
<1>5. ~At("save")
  BY DEF At, Resting, Polling, Working
<1>6. FileFollows'
  BY <1>1, <1>5 DEF FileFollows, Known, Stored
<1>7. ASSUME NEW m \in Json
      PROVE  Held(m)' = 0 /\ Held(m) = 0 /\ ~(At("save")' /\ task'.msg = m)
  BY FlowAssumption DEF Held, At, Working, Resting, Polling
<1>8. AllKept'
  BY <1>3, <1>7, AloneKeeps DEF Accepted
<1> QED
  BY <1>3, <1>4, <1>6, <1>8 DEF FlowInv

LEMMA TakeKeepsInv ==
  ASSUME FlowInv, NEW m \in Msg, TakeBad(m) \/ TakeDuplicate(m)
  PROVE  FlowInv'
<1>1. /\ up /\ At("idle") /\ rx # <<>> /\ rx' = Tail(rx)
      /\ UNCHANGED <<up, window, stored, acks, audio, acked, heard, forgets, unsaved>>
      /\ \/ task' = Polling
         \/ task' = Working("prompt", m, "error") /\ m \in Bad
         \/ task' = Working("ack", m, "duplicate")
  BY DEF TakeBad, TakeDuplicate, TakeNext, ledgerVars
<1>2. task = Resting /\ rx' \in Seq(Msg)
  BY <1>1, ToSetSteps DEF FlowInv, FlowTypeOK, TaskHolds
<1> QED
  BY <1>1, <1>2, LoopKeepsInv

LEMMA PollKeepsInv == FlowInv /\ (NoMessage \/ Poll) => FlowInv'
<1> SUFFICES ASSUME FlowInv, NoMessage \/ Poll PROVE FlowInv'
  OBVIOUS
<1>1. /\ At("idle") \/ At("poll")
      /\ UNCHANGED <<up, window, stored, rx, acks, audio, acked, heard, forgets, unsaved>>
      /\ task' \in {Resting, Polling} \/ task' = Working("save", "none", "none")
  BY DEF NoMessage, Poll, ledgerVars, history, Win!NewDay
<1>2. task \in {Resting, Polling} /\ rx' \in Seq(Msg)
  BY <1>1 DEF FlowInv, FlowTypeOK, TaskHolds
<1>3. up
  BY <1>1 DEF FlowInv, TaskHolds, NoMessage, Poll, At
<1> QED
  BY <1>1, <1>2, <1>3, LoopKeepsInv

(* The window after a payment was entered.                                 *)
LEMMA WindowGrows ==
  ASSUME FlowTypeOK, NEW p \in Win!Payment, window' = Win!Trim(Append(window, p))
  PROVE  /\ window' \in Seq(Win!Payment)
         /\ \A n : Known(n)' => Known(n) \/ n = p.tx_id[1]
         /\ Known(p.tx_id[1])'
<1> DEFINE w == Append(window, p)
<1>1. /\ window \in Seq(Win!Payment) /\ Len(window) \in Nat /\ MaxRecords \in Nat \ {0}
      /\ DOMAIN window = 1 .. Len(window)
  BY FlowAssumption DEF FlowTypeOK
<1>2. /\ w \in Seq(Win!Payment) /\ Len(w) = Len(window) + 1 /\ w[Len(w)] = p
      /\ \A i \in 1 .. Len(window) : w[i] = window[i]
  BY <1>1
<1>3. CASE Len(w) > MaxRecords
  <2>1. window' = Tail(w) /\ Len(w) > 1
    BY <1>1, <1>2, <1>3 DEF Win!Trim
  <2>2. /\ window' \in Seq(Win!Payment) /\ Len(window') = Len(w) - 1
        /\ \A i \in 1 .. Len(window') : window'[i] = w[i + 1]
    BY <1>2, <2>1
  <2>3. /\ DOMAIN window' = 1 .. Len(window') /\ Len(window') \in DOMAIN window'
        /\ window'[Len(window')] = p /\ window' # <<>>
    BY <1>1, <1>2, <2>1, <2>2
  <2>4. ASSUME NEW i \in DOMAIN window'
        PROVE  window'[i] = p \/ \E j \in DOMAIN window : window'[i] = window[j]
    <3>1. window'[i] = w[i + 1] /\ i + 1 \in 1 .. Len(w)
      BY <1>1, <1>2, <2>2, <2>3
    <3> QED
      BY <1>1, <1>2, <3>1
  <2> QED
    BY <2>2, <2>3, <2>4 DEF Known
<1>4. CASE ~(Len(w) > MaxRecords)
  <2>1. window' = w
    BY <1>4 DEF Win!Trim
  <2>2. DOMAIN window' = 1 .. Len(window') /\ Len(window') \in DOMAIN window'
        /\ window' # <<>>
    BY <1>1, <1>2, <2>1
  <2>3. ASSUME NEW i \in DOMAIN window'
        PROVE  window'[i] = p \/ \E j \in DOMAIN window : window'[i] = window[j]
    BY <1>1, <1>2, <2>1, <2>2
  <2> QED
    BY <1>2, <2>1, <2>2, <2>3 DEF Known
<1> QED
  BY <1>3, <1>4

LEMMA TakeNewKeepsInv == ASSUME FlowInv, NEW m \in Msg, TakeNew(m) PROVE FlowInv'
<1>1. FlowTypeOK /\ TaskHolds /\ FileFollows /\ AllKept
  BY DEF FlowInv
<1>2. PICK id \in Id, date \in Date : Identified(m, id) /\ Win!Accept(Payment(id, date))
  BY DEF TakeNew
<1>3. /\ up /\ up' = up /\ stored' = stored
      /\ task = Resting /\ task' = Working("save", m, "accepted")
      /\ rx # <<>> /\ rx' = Tail(rx)
      /\ UNCHANGED <<acks, audio, acked, heard, unsaved>>
      /\ window' = Win!Trim(Append(window, Payment(id, date)))
      /\ ~Listed(window, id)
      /\ Forget({n \in Json : Known(n) /\ ~Known(n)'})
  BY <1>1, <1>2 DEF TakeNew, TakeNext, TaskHolds, Win!Accept, Listed, Payment
<1>4. /\ Payment(id, date) \in Win!Payment /\ Payment(id, date).tx_id[1] = m
      /\ m \in Json => id = <<m, 0>>
  <2>1. id[1] = m
    BY <1>2 DEF Identified
  <2>2. m \in Json => id = <<m, 0>>
    BY <1>2, FlowAssumption DEF Identified
  <2> QED
    BY <2>1, <2>2 DEF Payment, Win!Payment
<1>5. /\ window' \in Seq(Win!Payment)
      /\ \A n : Known(n)' => Known(n) \/ n = m
      /\ Known(m)'
  <2> PICK p \in Win!Payment : p = Payment(id, date)
    BY <1>4
  <2>1. window' = Win!Trim(Append(window, p))
    BY <1>3
  <2> QED
    BY <1>1, <1>4, <2>1, WindowGrows
<1>6. /\ forgets' \in [Json -> Nat]
      /\ \A n \in Json : /\ forgets'[n] >= forgets[n]
                         /\ Known(n) /\ ~Known(n)' => forgets'[n] = forgets[n] + 1
  BY <1>1, <1>3, ForgetCounts
<1>7. FlowTypeOK'
  <2>1. rx' \in Seq(Msg)
    BY <1>1, <1>3, ToSetSteps DEF FlowTypeOK
  <2>2. task' \in Turn
    BY <1>3 DEF Working, Turn
  <2> QED
    BY <1>1, <1>3, <1>5, <1>6, <2>1, <2>2 DEF FlowTypeOK, Win!Payment, Msg, Payments, Id
<1>8. TaskHolds'
  BY <1>1, <1>3 DEF TaskHolds, At, Working, Resting, Polling
<1>9. FileFollows'
  BY <1>1, <1>3, <1>5 DEF FileFollows, At, Working, Resting, Stored
<1>10. ASSUME NEW n \in Json, n # m PROVE Kept(n)'
  <2>1. Underway(n)' = Underway(n)
    BY <1>3, <1>10, FlowAssumption DEF Underway, Working, Resting
  <2>2. Owed(n)' <= Owed(n)
    BY <1>1, <1>3, <2>1, OwedType DEF Owed, OwedIsNat
  <2>3. OnRecord(n) => OnRecord(n)' \/ forgets'[n] >= forgets[n] + 1
    BY <1>1, <1>3, <1>6, OwedType DEF OnRecord, OwedIsNat
  <2>4. task'.msg # n /\ Kept(n) /\ (Accepted(n)' => Accepted(n))
    BY <1>1, <1>3, <1>10 DEF Working, AllKept, Accepted
  <2> QED
    BY <1>1, <1>6, <1>7, <2>2, <2>3, <2>4, KeptStays
<1>11. ASSUME m \in Json PROVE Kept(m)'
  <2>1. ~Known(m) /\ ~OnRecord(m)
    BY <1>1, <1>3, <1>4, <1>11, OneId DEF OnRecord
  <2>2. /\ Owed(m) \in Nat /\ forgets[m] \in Nat /\ forgets'[m] \in Nat /\ forgets'[m] >= forgets[m]
        /\ Kept(m)
    BY <1>1, <1>6, <1>11, OwedType DEF OwedIsNat, AllKept
  <2>3. Owed(m) <= forgets[m] /\ (Accepted(m) => forgets[m] > 0)
    BY <2>1, <2>2 DEF Kept
  <2>4. Owed(m)' = Owed(m) + 1
    <3>1. /\ Underway(m) = Cardinality(Places(audio, m)) + Held(m)
          /\ Cardinality(Places(audio, m)) \in Nat /\ heard[m] \in Nat
      BY <1>1, <1>11, Counted
    <3>2. Held(m) = 0
      BY <1>3, <1>11, FlowAssumption DEF Held, Resting, Working
    <3>3. Underway(m)' = Cardinality(Places(audio, m)) + 1
      BY <1>3 DEF Underway, Working, Places
    <3> QED
      BY <1>3, <3>1, <3>2, <3>3 DEF Owed
  <2>5. OnRecord(m)' /\ (Accepted(m)' => forgets'[m] > 0)
    BY <1>3, <1>5, <2>2, <2>3 DEF OnRecord, Accepted
  <2> QED
    BY <2>2, <2>3, <2>4, <2>5 DEF Kept
<1>12. AllKept'
  BY <1>10, <1>11 DEF AllKept
<1> QED
  BY <1>7, <1>8, <1>9, <1>12 DEF FlowInv

----------------------------------------------------------------------------

LEMMA SaveGapKeepsInv == FlowInv /\ SaveGap => FlowInv'
<1> SUFFICES ASSUME FlowInv, SaveGap PROVE FlowInv'
  OBVIOUS
<1>1. FlowTypeOK /\ TaskHolds /\ FileFollows /\ AllKept
  BY DEF FlowInv
<1>2. /\ At("save") /\ stored' = Win!Blank /\ unsaved' = TRUE
      /\ UNCHANGED <<up, window, rx, task, acks, audio, acked, heard, forgets>>
  BY DEF SaveGap, Win!Lose
<1>3. up /\ stored'.window = <<>>
  BY <1>1, <1>2 DEF TaskHolds, At, Win!Blank
<1>4. FlowTypeOK'
  <2>1. stored'.window \in Seq(Win!Payment)
    BY <1>3
  <2> QED
    BY <1>1, <1>2, <2>1 DEF FlowTypeOK, Win!Payment, Msg, Payments, Id, Turn
<1>5. TaskHolds' /\ FileFollows'
  BY <1>1, <1>2 DEF TaskHolds, FileFollows, At, Resting, Polling, Working
<1>6. ASSUME NEW m \in Json PROVE Kept(m)'
  <2>1. Kept(m)
    BY <1>1 DEF AllKept
  <2> QED
    BY <1>2, <1>3, <2>1 DEF Kept, Owed, Underway, Accepted, OnRecord, Known, At
<1> QED
  BY <1>4, <1>5, <1>6 DEF FlowInv, AllKept

LEMMA SavedKeepsInv == FlowInv /\ (SaveDone \/ SaveFails) => FlowInv'
<1> SUFFICES ASSUME FlowInv, SaveDone \/ SaveFails PROVE FlowInv'
  OBVIOUS
<1>1. FlowTypeOK /\ TaskHolds /\ FileFollows /\ AllKept
  BY DEF FlowInv
<1>2. /\ At("save")
      /\ \/ stored'.window = window /\ unsaved' = FALSE
         \/ stored' = stored /\ unsaved' = TRUE
      /\ UNCHANGED <<up, window, rx, acks, audio, acked, heard, forgets>>
      /\ task' = IF task.msg = "none" THEN Resting ELSE [task EXCEPT !.pc = "ack"]
  BY DEF SaveDone, SaveFails, Saved, Win!Persist, ledgerVars
<1>3. /\ up
      /\ \/ /\ task.msg \in Msg /\ task.status = "accepted"
            /\ task' = Working("ack", task.msg, "accepted")
         \/ task = Working("save", "none", "none") /\ task' = Resting
  <2>1. up /\ task \in Turn
    BY <1>1, <1>2 DEF TaskHolds, At, FlowTypeOK
  <2>2. CASE task.msg \in Msg /\ task.status = "accepted"
    <3>1. task.msg # "none"
      BY <2>2, FlowAssumption DEF Msg, Payments
    <3> QED
      BY <1>2, <2>1, <2>2, <3>1 DEF Working, Turn
  <2>3. CASE task = Working("save", "none", "none")
    BY <1>2, <2>1, <2>3 DEF Working
  <2> QED
    BY <1>1, <1>2, <2>2, <2>3 DEF TaskHolds
<1>4. FlowTypeOK'
  <2>1. task' \in Turn
    BY <1>3 DEF Working, Resting, Turn
  <2>2. stored'.window \in Seq(Win!Payment) /\ unsaved' \in BOOLEAN
    BY <1>1, <1>2 DEF FlowTypeOK
  <2> QED
    BY <1>1, <1>2, <2>1, <2>2 DEF FlowTypeOK, Win!Payment, Msg, Payments, Id
<1>5. TaskHolds'
  BY <1>1, <1>2, <1>3 DEF TaskHolds, At, Resting, Polling, Working
<1>6. FileFollows'
  BY <1>2 DEF FileFollows, Known, Stored
<1>7. ASSUME NEW m \in Json PROVE Kept(m)'
  <2>1. Kept(m)
    BY <1>1 DEF AllKept
  <2>2. (task'.msg = m /\ task'.status = "accepted") <=> (task.msg = m /\ task.status = "accepted")
    BY <1>3, FlowAssumption DEF Resting, Working
  <2>3. Underway(m)' = Underway(m)
    BY <1>2, <2>2 DEF Underway
  <2>4. OnRecord(m)' <=> OnRecord(m)
    BY <1>2, <1>3 DEF OnRecord, Known
  <2>5. ~At("save")'
    BY <1>3 DEF At, Resting, Working
  <2>6. Owed(m)' = Owed(m) /\ (Accepted(m)' <=> Accepted(m)) /\ forgets' = forgets
    BY <1>2, <2>3 DEF Owed, Accepted
  <2> QED
    BY <2>1, <2>4, <2>5, <2>6 DEF Kept
<1> QED
  BY <1>4, <1>5, <1>6, <1>7 DEF FlowInv, AllKept

LEMMA AckKeepsInv == FlowInv /\ Ack => FlowInv'
<1> SUFFICES ASSUME FlowInv, Ack PROVE FlowInv'
  OBVIOUS
<1>1. FlowTypeOK /\ TaskHolds /\ FileFollows /\ AllKept
  BY DEF FlowInv
<1>2. /\ At("ack") /\ acks' = Post(acks, <<task.msg, task.status>>, AckDepth)
      /\ task' = IF task.status = "accepted" THEN [task EXCEPT !.pc = "announce"] ELSE Polling
      /\ UNCHANGED <<up, window, stored, rx, audio, acked, heard, forgets, unsaved>>
  BY DEF Ack, ledgerVars, history
<1>3. /\ up /\ task.msg \in Msg /\ task.status \in {"accepted", "duplicate"}
      /\ \/ task.status = "accepted" /\ task' = Working("announce", task.msg, "accepted")
         \/ task.status # "accepted" /\ task' = Polling
  <2>1. up /\ task.msg \in Msg /\ task.status \in {"accepted", "duplicate"}
    BY <1>1, <1>2 DEF TaskHolds, At
  <2>2. task \in Turn
    BY <1>1 DEF FlowTypeOK
  <2> QED
    BY <1>2, <2>1, <2>2 DEF Turn, Working
<1>4. /\ acks' \in Seq(Msg \X {"accepted", "duplicate"})
      /\ ToSet(acks') \subseteq ToSet(acks) \cup {<<task.msg, task.status>>}
  <2>1. acks \in Seq(Msg \X {"accepted", "duplicate"})
    BY <1>1 DEF FlowTypeOK
  <2>2. ASSUME NEW A, NEW ack \in A, acks \in Seq(A), acks' = Post(acks, ack, AckDepth)
        PROVE  acks' \in Seq(A) /\ ToSet(acks') \subseteq ToSet(acks) \cup {ack}
    BY ONLY <2>2, PostCases
  <2> DEFINE A   == Msg \X {"accepted", "duplicate"}
             ack == <<task.msg, task.status>>
  <2>3. ack \in A
    BY <1>3
  <2>4. acks \in Seq(A) /\ acks' = Post(acks, ack, AckDepth)
    BY <1>2, <2>1
  <2> HIDE DEF A, ack
  <2>5. acks' \in Seq(A) /\ ToSet(acks') \subseteq ToSet(acks) \cup {ack}
    BY ONLY <2>2, <2>3, <2>4
  <2> QED
    BY ONLY <2>5 DEF A, ack
<1>5. FlowTypeOK'
  <2>1. task' \in Turn
    BY <1>3 DEF Working, Polling, Turn
  <2> QED
    BY <1>1, <1>2, <1>4, <2>1 DEF FlowTypeOK, Win!Payment, Msg, Payments, Id
<1>6. TaskHolds'
  BY <1>1, <1>2, <1>3 DEF TaskHolds, At, Resting, Polling, Working
<1>7. FileFollows'
  BY <1>1, <1>2 DEF FileFollows, At, Known, Stored
<1>8. ASSUME NEW m \in Json PROVE Kept(m)'
  <2>1. Kept(m)
    BY <1>1 DEF AllKept
  <2>2. Held(m)' = Held(m)
    BY <1>3, FlowAssumption DEF Held, Polling, Working
  <2>3. Underway(m)' = Underway(m)
    BY <1>2, <2>2 DEF Underway, Held
  <2>4. Owed(m)' = Owed(m) /\ forgets'[m] = forgets[m]
    BY <1>2, <2>3 DEF Owed
  <2>5. OnRecord(m)' <=> OnRecord(m)
    BY <1>2 DEF OnRecord, Known, Stored
  <2>6. ~At("save")'
    BY <1>3 DEF At, Polling, Working
  <2>7. Accepted(m)' => Accepted(m) \/ Held(m) = 1
    BY <1>2, <1>4 DEF Accepted, Held
  <2>8. Held(m) = 1 => Owed(m) >= 1
    BY <1>1, Counted DEF Owed
  <2>9. Accepted(m)' => forgets[m] > 0 \/ OnRecord(m)
    <3>1. Owed(m) \in Nat /\ forgets[m] \in Nat
      BY <1>1, OwedType DEF OwedIsNat
    <3> QED
      BY <2>1, <2>7, <2>8, <3>1 DEF Kept
  <2> QED
    BY <2>1, <2>4, <2>5, <2>6, <2>9 DEF Kept
<1> QED
  BY <1>5, <1>6, <1>7, <1>8 DEF FlowInv, AllKept

LEMMA AnnounceKeepsInv == FlowInv /\ Announce => FlowInv'
<1> SUFFICES ASSUME FlowInv, Announce PROVE FlowInv'
  OBVIOUS
<1>1. FlowTypeOK /\ TaskHolds /\ FileFollows /\ AllKept
  BY DEF FlowInv
<1>2. /\ At("announce") \/ At("prompt")
      /\ audio' = Post(audio, task.msg, AudioDepth) /\ task' = Polling
      /\ UNCHANGED <<up, window, stored, rx, acks, acked, heard, forgets, unsaved>>
  BY DEF Announce, ledgerVars, history
<1>3. up /\ task.msg \in Msg
  BY <1>1, <1>2 DEF TaskHolds, At, Msg
<1>4. /\ audio' \in Seq(Msg) /\ audio \in Seq(Msg)
      /\ audio' = audio \/ audio' = Append(audio, task.msg)
  BY <1>1, <1>2, <1>3, PostCases DEF FlowTypeOK
<1>5. FlowTypeOK'
  <2>1. task' \in Turn
    BY <1>2 DEF Polling, Working, Turn
  <2> QED
    BY <1>1, <1>2, <1>4, <2>1 DEF FlowTypeOK, Win!Payment, Msg, Payments, Id
<1>6. TaskHolds'
  BY <1>1, <1>2, <1>3 DEF TaskHolds, At, Polling, Working
<1>7. FileFollows'
  BY <1>1, <1>2 DEF FileFollows, At, Known, Stored
<1>8. ASSUME NEW m \in Json PROVE Kept(m)'
  <2>1. m \in Msg /\ m \notin Bad
    BY FlowAssumption DEF Msg, Payments
  <2>2. task.msg = m => Held(m) = 1
    BY <1>1, <1>2, <2>1 DEF TaskHolds, At, Held
  <2>3. /\ Underway(m) = Cardinality(Places(audio, m)) + Held(m)
        /\ Cardinality(Places(audio, m)) \in Nat /\ Held(m) \in {0, 1} /\ heard[m] \in Nat
    BY <1>1, Counted
  <2>4. Underway(m)' = Cardinality(Places(audio', m)) /\ Cardinality(Places(audio', m)) \in Nat
    <3>1. Cardinality(Places(audio', m)) \in Nat
      BY <1>4, PlacesFinite
    <3>2. task'.msg # m
      BY <1>2, FlowAssumption DEF Polling, Working
    <3> QED
      BY <3>1, <3>2 DEF Underway, Places
  <2>5. Cardinality(Places(audio', m)) <= Cardinality(Places(audio, m)) + Held(m)
    <3>1. CASE audio' = audio
      BY <2>3, <3>1
    <3>2. CASE audio' = Append(audio, task.msg)
      <4>1. Cardinality(Places(audio', m))
              = Cardinality(Places(audio, m)) + IF task.msg = m THEN 1 ELSE 0
        BY <1>3, <1>4, <3>2, PlacesAppend
      <4> QED
        BY <2>2, <2>3, <4>1
    <3> QED
      BY <1>4, <3>1, <3>2
  <2>6. Owed(m)' <= Owed(m)
    BY <1>2, <2>3, <2>4, <2>5 DEF Owed
  <2>7. ~At("save")' /\ (Accepted(m)' => Accepted(m)) /\ (OnRecord(m)' <=> OnRecord(m))
    BY <1>2 DEF At, Polling, Working, Accepted, OnRecord, Known, Stored
  <2>8. Kept(m) /\ forgets'[m] >= forgets[m]
    BY <1>1, <1>2, OwedType DEF AllKept, OwedIsNat
  <2> QED
    BY <1>1, <1>5, <2>6, <2>7, <2>8, KeptStays
<1> QED
  BY <1>5, <1>6, <1>7, <1>8 DEF FlowInv, AllKept

LEMMA PlayKeepsInv == FlowInv /\ Play => FlowInv'
<1> SUFFICES ASSUME FlowInv, Play PROVE FlowInv'
  OBVIOUS
<1>1. FlowTypeOK /\ TaskHolds /\ FileFollows /\ AllKept
  BY DEF FlowInv
<1>2. /\ audio # <<>> /\ audio' = Tail(audio)
      /\ heard' = [m \in Json |-> heard[m] + IF m = Head(audio) THEN 1 ELSE 0]
      /\ UNCHANGED <<up, window, stored, task, rx, acks, acked, forgets, unsaved>>
  BY DEF Play, ledgerVars
<1>3. audio \in Seq(Msg) /\ audio' \in Seq(Msg) /\ Head(audio) \in Msg
  BY <1>1, <1>2, ToSetSteps DEF FlowTypeOK
<1>4. /\ heard \in [Json -> Nat] /\ heard' \in [Json -> Nat]
      /\ \A m \in Json : heard'[m] = heard[m] + IF Head(audio) = m THEN 1 ELSE 0
  BY <1>1, <1>2, <1>3 DEF FlowTypeOK
<1>5. FlowTypeOK'
  BY <1>1, <1>2, <1>3, <1>4 DEF FlowTypeOK, Win!Payment, Msg, Payments, Id, Turn
<1>6. TaskHolds' /\ FileFollows'
  <2>1. up
    BY <1>1, <1>2 DEF TaskHolds
  <2> QED
    BY <1>1, <1>2, <2>1 DEF TaskHolds, FileFollows, At, Resting, Polling, Working, Known, Stored
<1>7. ASSUME NEW m \in Json PROVE Kept(m)'
  <2>1. Cardinality(Places(audio, m))
          = Cardinality(Places(audio', m)) + IF Head(audio) = m THEN 1 ELSE 0
    BY <1>2, <1>3, PlacesTail
  <2>2. Cardinality(Places(audio', m)) \in Nat
    BY <1>3, PlacesFinite
  <2>3. /\ Underway(m) = Cardinality(Places(audio, m)) + Held(m)
        /\ Held(m) \in {0, 1} /\ heard[m] \in Nat
    BY <1>1, Counted
  <2>4. Underway(m)' = Cardinality(Places(audio', m)) + Held(m)
    BY <1>2 DEF Underway, Places, Held
  <2>5. Owed(m)' <= Owed(m)
    BY <1>4, <2>1, <2>2, <2>3, <2>4 DEF Owed
  <2>6. /\ (Accepted(m)' => Accepted(m)) /\ (OnRecord(m)' <=> OnRecord(m))
        /\ (At("save")' /\ task'.msg = m => At("save") /\ task.msg = m)
    BY <1>2 DEF Accepted, OnRecord, Known, Stored, At
  <2>7. Kept(m) /\ forgets'[m] >= forgets[m]
    BY <1>1, <1>2, OwedType DEF AllKept, OwedIsNat
  <2> QED
    BY <1>1, <1>5, <2>5, <2>6, <2>7, KeptStays
<1> QED
  BY <1>5, <1>6, <1>7 DEF FlowInv, AllKept

----------------------------------------------------------------------------
(* With the power goes what the file does not have.                        *)
LEMMA CutKeepsInv == FlowInv /\ Cut => FlowInv'
<1> SUFFICES ASSUME FlowInv, Cut PROVE FlowInv'
  OBVIOUS
<1> DEFINE lost == {m \in Json : /\ unsaved /\ Known(m) /\ ~Stored(m)
                                 /\ ~(At("save") /\ task.msg = m)}
<1>1. FlowTypeOK /\ TaskHolds /\ FileFollows /\ AllKept
  BY DEF FlowInv
<1>2. /\ up /\ up' = FALSE /\ window' = <<>> /\ stored' = stored
      /\ rx' = <<>> /\ acks' = <<>> /\ audio' = <<>> /\ task' = Resting
      /\ Forget(lost)
      /\ UNCHANGED <<acked, heard, unsaved>>
  BY DEF Cut, Win!PowerCut
<1>3. /\ forgets' \in [Json -> Nat]
      /\ \A m \in Json : /\ forgets'[m] >= forgets[m]
                         /\ m \in lost => forgets'[m] = forgets[m] + 1
  <2> HIDE DEF lost
  <2> QED
    BY <1>1, <1>2, ForgetCounts
<1>4. FlowTypeOK'
  <2>1. /\ window' \in Seq(Win!Payment) /\ rx' \in Seq(Msg) /\ audio' \in Seq(Msg)
        /\ acks' \in Seq(Msg \X {"accepted", "duplicate"})
    BY <1>2
  <2>2. task' \in Turn
    BY <1>2 DEF Resting, Working, Turn
  <2>3. up' \in BOOLEAN /\ unsaved' \in BOOLEAN
    BY <1>1, <1>2 DEF FlowTypeOK
  <2> QED
    BY <1>1, <1>2, <1>3, <2>1, <2>2, <2>3 DEF FlowTypeOK, Win!Payment, Msg, Payments, Id
<1>5. TaskHolds' /\ FileFollows'
  BY <1>2 DEF TaskHolds, FileFollows, At, Resting, Working
<1>6. ASSUME NEW m \in Json PROVE Kept(m)'
  <2>1. Kept(m) /\ (OnRecord(m) <=> Known(m)) /\ (OnRecord(m)' <=> Stored(m)) /\ ~At("save")'
    BY <1>1, <1>2 DEF AllKept, OnRecord, Stored, At, Resting, Working
  <2>2. /\ Underway(m) = Cardinality(Places(audio, m)) + Held(m)
        /\ Cardinality(Places(audio, m)) \in Nat /\ Held(m) \in {0, 1} /\ heard[m] \in Nat
        /\ forgets[m] \in Nat /\ forgets'[m] \in Nat /\ forgets'[m] >= forgets[m]
    BY <1>1, <1>3, Counted
  <2>3. Owed(m)' = heard[m]
    <3>1. Underway(m)' = Cardinality(Places(<<>>, m)) + 0
      BY <1>2, FlowAssumption DEF Underway, Places, Resting, Working
    <3>2. Cardinality(Places(<<>>, m)) = 0
      BY NoPlaces
    <3> QED
      BY <1>2, <2>2, <3>1, <3>2 DEF Owed
  <2>4. Owed(m) = heard[m] + Cardinality(Places(audio, m)) + Held(m)
    BY <2>2 DEF Owed
  <2>5. Accepted(m)' => Accepted(m)
    BY <1>2 DEF Accepted, ToSet
  <2>6. CASE At("save") /\ task.msg = m
    <3>1. Held(m) = 1 /\ (Accepted(m) => forgets[m] > 0)
      BY <1>1, <2>1, <2>6, FlowAssumption DEF TaskHolds, Held, Kept, Working
    <3>2. heard[m] <= forgets[m]
      BY <2>1, <2>2, <2>4, <3>1 DEF Kept
    <3> QED
      BY <2>1, <2>2, <2>3, <2>5, <3>1, <3>2 DEF Kept
  <2>7. CASE ~(At("save") /\ task.msg = m)
    <3>1. Known(m) /\ ~Stored(m) => forgets'[m] = forgets[m] + 1
      BY <1>1, <1>2, <1>3, <2>7 DEF FileFollows
    <3>2. heard[m] <= Owed(m)
      BY <2>2, <2>4
    <3>3. CASE Stored(m)
      <4>1. heard[m] <= forgets'[m] + 1
        <5>1. Owed(m) <= forgets[m] + 1
          BY <2>1, <2>2, <2>4 DEF Kept
        <5> QED
          BY <2>2, <2>4, <3>2, <5>1
      <4> QED
        BY <2>1, <2>3, <3>3, <4>1 DEF Kept
    <3>4. CASE ~Stored(m)
      <4>1. heard[m] <= forgets'[m]
        <5>1. Owed(m) <= forgets[m] + IF Known(m) THEN 1 ELSE 0
          BY <2>1 DEF Kept
        <5> QED
          BY <2>2, <2>4, <3>1, <3>2, <3>4, <5>1
      <4>2. Accepted(m) => forgets'[m] > 0
        BY <2>1, <2>2, <3>1, <3>4 DEF Kept
      <4> QED
        BY <2>1, <2>2, <2>3, <2>5, <3>4, <4>1, <4>2 DEF Kept
    <3> QED
      BY <3>3, <3>4
  <2> QED
    BY <2>6, <2>7
<1> QED
  BY <1>4, <1>5, <1>6 DEF FlowInv, AllKept

LEMMA LoadDefaultsKeepsInv == FlowInv /\ LoadDefaults => FlowInv'
<1> SUFFICES ASSUME FlowInv, LoadDefaults PROVE FlowInv'
  OBVIOUS
<1> DEFINE lost == {m \in Json : Stored(m)}
<1>1. FlowTypeOK /\ TaskHolds /\ FileFollows /\ AllKept
  BY DEF FlowInv
<1>2. /\ ~up /\ stored' = Win!Blank /\ Forget(lost)
      /\ UNCHANGED <<up, window, rx, task, acks, audio, acked, heard, unsaved>>
  BY DEF LoadDefaults, Win!Lose
<1>3. /\ forgets' \in [Json -> Nat]
      /\ \A m \in Json : /\ forgets'[m] >= forgets[m]
                         /\ m \in lost => forgets'[m] = forgets[m] + 1
  <2> HIDE DEF lost
  <2> QED
    BY <1>1, <1>2, ForgetCounts
<1>4. FlowTypeOK'
  <2>1. stored'.window = <<>>
    BY <1>2 DEF Win!Blank
  <2>2. stored'.window \in Seq(Win!Payment)
    BY <2>1
  <2> QED
    BY <1>1, <1>2, <1>3, <2>2 DEF FlowTypeOK, Win!Payment, Msg, Payments, Id, Turn
<1>5. TaskHolds' /\ FileFollows'
  BY <1>1, <1>2 DEF TaskHolds, FileFollows, At, Resting, Polling, Working
<1>6. ASSUME NEW m \in Json PROVE Kept(m)'
  <2>1. Underway(m)' = Underway(m)
    BY <1>2 DEF Underway
  <2>2. Owed(m)' = Owed(m) /\ Owed(m) \in Nat /\ forgets[m] \in Nat
    BY <1>1, <1>2, <2>1, OwedType DEF Owed, OwedIsNat
  <2>3. OnRecord(m) => forgets'[m] = forgets[m] + 1
    BY <1>2, <1>3 DEF OnRecord
  <2>4. Kept(m) /\ forgets'[m] >= forgets[m] /\ (Accepted(m)' => Accepted(m))
        /\ (At("save")' /\ task'.msg = m => At("save") /\ task.msg = m)
    BY <1>1, <1>2, <1>3 DEF AllKept, Accepted, At
  <2> HIDE DEF lost
  <2>5. Owed(m)' <= Owed(m) /\ (OnRecord(m) => forgets'[m] >= forgets[m] + 1)
    BY <2>2, <2>3
  <2> QED
    BY <1>1, <1>4, <2>4, <2>5, KeptStays
<1> QED
  BY <1>4, <1>5, <1>6 DEF FlowInv, AllKept

LEMMA BootKeepsInv == FlowInv /\ Boot => FlowInv'
<1> SUFFICES ASSUME FlowInv, Boot PROVE FlowInv'
  OBVIOUS
<1>1. FlowTypeOK /\ TaskHolds /\ FileFollows /\ AllKept
  BY DEF FlowInv
<1>2. /\ ~up /\ up' = TRUE /\ window' = stored.window /\ stored' = stored
      /\ unsaved' = FALSE
      /\ UNCHANGED <<rx, task, acks, audio, acked, heard, forgets>>
  BY DEF Boot, Win!Restart
<1>3. task = Resting
  BY <1>1, <1>2 DEF TaskHolds
<1>4. FlowTypeOK'
  BY <1>1, <1>2 DEF FlowTypeOK, Win!Payment, Msg, Payments, Id, Turn
<1>5. TaskHolds' /\ FileFollows'
  BY <1>1, <1>2, <1>3 DEF TaskHolds, FileFollows, At, Resting, Polling, Working, Known, Stored
<1>6. ASSUME NEW m \in Json PROVE Kept(m)'
  <2>1. Known(m)' <=> Stored(m)
    BY <1>2 DEF Known, Stored
  <2>2. ~At("save")' /\ Kept(m)
    BY <1>1, <1>2, <1>3 DEF At, Resting, Working, AllKept
  <2> QED
    BY <1>2, <2>1, <2>2 DEF Kept, Owed, Underway, Accepted, OnRecord
<1> QED
  BY <1>4, <1>5, <1>6 DEF FlowInv, AllKept

LEMMA FlowStepInv == FlowInv /\ [FlowNext]_flowVars => FlowInv'
<1> SUFFICES ASSUME FlowInv, [FlowNext]_flowVars PROVE FlowInv'
  OBVIOUS
<1>1. CASE UNCHANGED flowVars
  <2>1. UNCHANGED <<up, window, stored, task, audio, heard, forgets, unsaved, rx, acks, acked>>
    BY <1>1 DEF flowVars
  <2> QED
    BY <2>1, NetworkKeepsInv DEF FlowInv, FlowTypeOK, TaskHolds, Accepted
<1> QED
  BY <1>1, ArriveKeepsInv, PublishKeepsInv, LinkKeepsInv, TakeKeepsInv, TakeNewKeepsInv,
     PollKeepsInv, SaveGapKeepsInv, SavedKeepsInv, AckKeepsInv, AnnounceKeepsInv,
     PlayKeepsInv, CutKeepsInv, LoadDefaultsKeepsInv, BootKeepsInv DEF FlowNext, BusinessTask

LEMMA FlowInvariant == FlowSpec => []FlowInv
BY FlowInitInv, FlowStepInv, PTL DEF FlowSpec

(* A payment that carries its id is announced once, and once more at most  *)
(* for each time its record was lost, whatever saves fail and whenever the *)
(* power is cut, for every set of messages and every size of the queues    *)
(* and of the ring.                                                        *)
THEOREM NoSecondAnnouncement == FlowSpec => []AnnouncedOnce
<1>1. FlowInv => AnnouncedOnce
  <2> SUFFICES ASSUME FlowInv, NEW m \in Json PROVE heard[m] + Underway(m) <= 1 + forgets[m]
    BY DEF AnnouncedOnce
  <2>1. Kept(m) /\ Owed(m) \in Nat /\ forgets[m] \in Nat
    BY OwedType DEF FlowInv, AllKept, OwedIsNat
  <2>2. Owed(m) <= 1 + forgets[m]
    BY <2>1 DEF Kept
  <2> QED
    BY <2>2 DEF Owed
<1> QED
  BY <1>1, FlowInvariant, PTL

(* An accepted acknowledgement is backed by the ledger or by its file      *)
(* unless the record of the payment was lost.                              *)
THEOREM AcceptedIsRemembered == FlowSpec => []AcceptedAckIsKept
<1>1. FlowInv => AcceptedAckIsKept
  BY DEF FlowInv, AllKept, Kept, Accepted, OnRecord, AcceptedAckIsKept
<1> QED
  BY <1>1, FlowInvariant, PTL

=============================================================================
