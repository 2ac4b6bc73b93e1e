------------------------------ MODULE KeyProofs ------------------------------
(***************************************************************************)
(* Keys for every set of keys, every depth of both queues and every long   *)
(* press: no key goes deaf, the interrupt always finds room, a key that    *)
(* can interrupt is where the device last saw it, and a press leads to the *)
(* action that fits it.                                                    *)
(***************************************************************************)
EXTENDS Keys, FiniteSetTheorems, TLAPS

(* A key is in the queue of the debounce task once at most.                *)
QueuedOnce == \A i, j \in DOMAIN keyQueue : keyQueue[i] = keyQueue[j] => i = j

Enabling(k) == keyTask.pc = "enable" /\ keyTask.key = k

(* The same holds already while the debounce task is about to switch the   *)
(* interrupt on.                                                           *)
SeenWhenListening ==
  \A k \in Key \ missed : k \in armed \/ Enabling(k) => seen[k] = pin[k]

KeyInv == KeyTypeOK /\ NoKeyGoesDeaf /\ QueuedOnce /\ SeenWhenListening

----------------------------------------------------------------------------

LEMMA KeyInitInv == KeyInit => KeyInv
<1> SUFFICES ASSUME KeyInit PROVE KeyInv
  OBVIOUS
<1> USE KeyAssumption
<1>1. KeyTypeOK
  BY DEF KeyInit, KeyTypeOK
<1>2. NoKeyGoesDeaf
  BY DEF KeyInit, NoKeyGoesDeaf, Queued, Waiting
<1>3. QueuedOnce
  BY DEF KeyInit, QueuedOnce
<1>4. SeenWhenListening
  BY DEF KeyInit, SeenWhenListening
<1> QED
  BY <1>1, <1>2, <1>3, <1>4 DEF KeyInv

LEMMA IntervalSize ==
  ASSUME NEW n \in Nat
  PROVE  IsFiniteSet(1 .. n) /\ Cardinality(1 .. n) = n
BY FS_Interval

(* Were the queue full, it would carry KeyDepth different keys, none of    *)
(* them the one that interrupts, of at most KeyDepth.                      *)
LEMMA RoomForEdge ==
  ASSUME KeyTypeOK, NoKeyGoesDeaf, QueuedOnce, NEW k \in armed
  PROVE  Len(keyQueue) < KeyDepth
<1>1. keyQueue \in Seq(Key) /\ Len(keyQueue) \in Nat /\ k \in Key /\ KeyDepth \in Nat
  BY KeyAssumption DEF KeyTypeOK
<1> SUFFICES ASSUME KeyDepth <= Len(keyQueue) PROVE FALSE
  BY <1>1
<1> PICK n \in Nat : n = Len(keyQueue)
  BY <1>1
<1> DEFINE f == [i \in 1 .. n |-> keyQueue[i]]
<1>2. IsFiniteSet(Key) /\ Cardinality(Key) \in Nat /\ Cardinality(Key) <= KeyDepth
  BY KeyAssumption, FS_CardinalityType
<1>3. IsFiniteSet(1 .. n) /\ Cardinality(1 .. n) = n
  BY IntervalSize
<1>4. IsFiniteSet(Key \ {k}) /\ Cardinality(Key \ {k}) = Cardinality(Key) - 1
  BY <1>1, <1>2, FS_RemoveElement
<1>5. Cardinality(Key \ {k}) < Cardinality(1 .. n)
  BY <1>1, <1>2, <1>3, <1>4
<1>6. f \in [1 .. n -> Key \ {k}]
  <2>1. ASSUME NEW i \in 1 .. n PROVE keyQueue[i] \in Key \ {k}
    BY <1>1, <2>1 DEF NoKeyGoesDeaf, Queued
  <2> QED
    BY <2>1
<1> HIDE DEF f
<1>7. \E x, y \in 1 .. n : x # y /\ f[x] = f[y]
  BY <1>3, <1>4, <1>5, <1>6, FS_PigeonHole
<1> QED
  BY <1>1, <1>7 DEF f, QueuedOnce

(* The cases of a step.                                                    *)
LEMMA KeyStepCases ==
  ASSUME KeyNext
  PROVE  \/ \E k \in Key : Flip(k) \/ Sample(k) \/ SampleFails(k)
         \/ TakeKey \/ Enable \/ Supervise \/ OtherPost \/ Tick
BY DEF KeyNext, KeyTask

(* The interrupt: the key goes from the armed ones to the queue.           *)
LEMMA InterruptQueues ==
  ASSUME KeyTypeOK, NoKeyGoesDeaf, QueuedOnce, NEW k \in armed, Interrupt(k)
  PROVE  /\ armed' = armed \ {k} /\ keyQueue' \in Seq(Key)
         /\ DOMAIN keyQueue' = DOMAIN keyQueue \cup {Len(keyQueue) + 1}
         /\ \A i \in DOMAIN keyQueue : keyQueue'[i] = keyQueue[i]
         /\ keyQueue'[Len(keyQueue) + 1] = k
         /\ Len(keyQueue) + 1 \notin DOMAIN keyQueue
<1>1. keyQueue \in Seq(Key) /\ k \in Key
  BY DEF KeyTypeOK
<1>2. armed' = armed \ {k} /\ keyQueue' = Append(keyQueue, k)
  BY RoomForEdge DEF Interrupt
<1>3. Len(keyQueue) \in Nat /\ DOMAIN keyQueue = 1 .. Len(keyQueue)
  BY <1>1
<1> QED
  BY <1>1, <1>2, <1>3

LEMMA KeyTypeStep ==
  ASSUME KeyInv, KeyNext
  PROVE  KeyTypeOK'
<1> USE DEF KeyInv
<1>1. ASSUME NEW k \in Key, Flip(k) PROVE KeyTypeOK'
  <2>1. armed' \subseteq Key /\ keyQueue' \in Seq(Key)
    BY <1>1, InterruptQueues DEF Flip, KeyTypeOK
  <2>2. missed' \subseteq Key
    BY <1>1 DEF Flip, KeyTypeOK
  <2>3. pin' \in [Key -> BOOLEAN]
    BY <1>1 DEF Flip, KeyTypeOK
  <2> QED
    BY <1>1, <2>1, <2>2, <2>3 DEF Flip, KeyTypeOK
<1>2. CASE TakeKey
  BY <1>2 DEF TakeKey, KeyTypeOK, driverVars, truthVars
<1>3. ASSUME NEW k \in Key, Sample(k) PROVE KeyTypeOK'
  <2>1. seen' \in [Key -> BOOLEAN]
    BY <1>3 DEF Sample, Debounced, KeyTypeOK
  <2> QED
    BY <1>3, <2>1 DEF Sample, Debounced, KeyTypeOK
<1>4. ASSUME NEW k \in Key, SampleFails(k) PROVE KeyTypeOK'
  BY <1>4 DEF SampleFails, Debounced, KeyTypeOK
<1>5. CASE Enable
  BY <1>5 DEF Enable, truthVars, Waiting, KeyTypeOK
<1>6. CASE Supervise \/ OtherPost
  BY <1>6 DEF Supervise, OtherPost, driverVars, truthVars, KeyTypeOK
<1>7. CASE Tick
  BY <1>7, KeyAssumption DEF Tick, driverVars, truthVars, KeyTypeOK
<1> QED
  BY <1>1, <1>2, <1>3, <1>4, <1>5, <1>6, <1>7, KeyStepCases

LEMMA DeafStep ==
  ASSUME KeyInv, KeyNext
  PROVE  NoKeyGoesDeaf' /\ QueuedOnce'
<1> USE KeyAssumption DEF KeyInv
<1>0. keyQueue \in Seq(Key)
  BY DEF KeyTypeOK
<1>1. ASSUME NEW k \in Key, Flip(k) PROVE NoKeyGoesDeaf' /\ QueuedOnce'
  <2>1. CASE k \notin armed
    BY <1>1, <2>1 DEF Flip, NoKeyGoesDeaf, Queued, QueuedOnce
  <2>2. CASE k \in armed
    <3>1. Interrupt(k) /\ keyTask' = keyTask
      BY <1>1, <2>2 DEF Flip
    <3>2. ~Queued(k) /\ keyTask.key # k
      BY <2>2 DEF NoKeyGoesDeaf
    <3>3. \A j \in Key : Queued(j)' <=> Queued(j) \/ j = k
      BY <2>2, <3>1, InterruptQueues DEF Queued
    <3>4. NoKeyGoesDeaf'
      BY <2>2, <3>1, <3>2, <3>3, InterruptQueues DEF NoKeyGoesDeaf
    <3>5. QueuedOnce'
      BY <2>2, <3>1, <3>2, InterruptQueues DEF QueuedOnce, Queued
    <3> QED
      BY <3>4, <3>5
  <2> QED
    BY <2>1, <2>2
<1>2. CASE TakeKey
  <2>1. /\ keyQueue' = Tail(keyQueue) /\ keyQueue # <<>> /\ armed' = armed
        /\ keyTask.pc = "wait" /\ keyTask' = [pc |-> "debounce", key |-> Head(keyQueue)]
    BY <1>2 DEF TakeKey
  <2>2. /\ DOMAIN keyQueue = 1 .. Len(keyQueue) /\ Len(keyQueue) \in Nat \ {0}
        /\ DOMAIN keyQueue' = 1 .. Len(keyQueue) - 1
        /\ \A i \in DOMAIN keyQueue' : keyQueue'[i] = keyQueue[i + 1]
        /\ Head(keyQueue) = keyQueue[1]
    BY <1>0, <2>1
  <2>3. keyTask.key \notin Key /\ keyTask'.key = keyQueue[1]
    BY <2>1, <2>2 DEF KeyTypeOK, Waiting
  <2>4. QueuedOnce'
    BY <2>2 DEF QueuedOnce
  <2>5. ASSUME NEW j \in Key
        PROVE  /\ Queued(j) <=> Queued(j)' \/ keyTask'.key = j
               /\ ~(Queued(j)' /\ keyTask'.key = j)
    <3>1. ASSUME Queued(j), keyQueue[1] # j PROVE Queued(j)'
      <4>1. PICK i \in 2 .. Len(keyQueue) : keyQueue[i] = j
        BY <2>2, <3>1 DEF Queued
      <4>2. i - 1 \in DOMAIN keyQueue' /\ keyQueue'[i - 1] = j
        BY <2>2, <4>1
      <4> QED
        BY <4>2 DEF Queued
    <3>2. ASSUME Queued(j)' PROVE Queued(j) /\ keyQueue[1] # j
      <4>1. PICK i \in DOMAIN keyQueue' : keyQueue'[i] = j
        BY <3>2 DEF Queued
      <4>2. i + 1 \in DOMAIN keyQueue /\ keyQueue[i + 1] = j /\ i + 1 # 1
        BY <2>2, <4>1
      <4>3. 1 \in DOMAIN keyQueue
        BY <2>2
      <4> QED
        BY <4>2, <4>3 DEF Queued, QueuedOnce
    <3>3. keyQueue[1] = j => Queued(j)
      BY <2>2 DEF Queued
    <3> QED
      BY <2>3, <3>1, <3>2, <3>3
  <2> QED
    BY <2>1, <2>3, <2>4, <2>5 DEF NoKeyGoesDeaf
<1>3. ASSUME NEW k \in Key, Sample(k) \/ SampleFails(k)
      PROVE  NoKeyGoesDeaf' /\ QueuedOnce'
  BY <1>3 DEF Sample, SampleFails, Debounced, NoKeyGoesDeaf, Queued, QueuedOnce
<1>4. CASE Enable
  BY <1>4 DEF Enable, Waiting, KeyTypeOK, NoKeyGoesDeaf, Queued, QueuedOnce
<1> QED
  BY <1>1, <1>2, <1>3, <1>4, KeyStepCases
  DEF Supervise, OtherPost, Tick, driverVars, NoKeyGoesDeaf, Queued, QueuedOnce

LEMMA SeenStep ==
  ASSUME KeyInv, KeyNext
  PROVE  SeenWhenListening'
<1> USE KeyAssumption DEF KeyInv
<1>1. ASSUME NEW k \in Key, Flip(k) PROVE SeenWhenListening'
  <2>1. seen' = seen /\ keyTask' = keyTask /\ armed' \subseteq armed \ {k}
    <3>1. k \in armed => armed' = armed \ {k}
      BY <1>1, InterruptQueues DEF Flip
    <3> QED
      BY <1>1, <3>1 DEF Flip
  <2>2. \A j \in Key \ {k} : /\ pin'[j] = pin[j]
                             /\ j \in missed' <=> j \in missed
    BY <1>1 DEF Flip, KeyTypeOK
  <2>3. Enabling(k) /\ k \notin missed' => seen[k] = pin'[k]
    <3>1. Enabling(k) => keyTask = [pc |-> "enable", key |-> k]
      BY DEF Enabling, KeyTypeOK, Waiting
    <3> QED
      BY <1>1, <3>1 DEF Flip
  <2> QED
    BY <2>1, <2>2, <2>3 DEF SeenWhenListening, Enabling
<1>2. CASE TakeKey
  BY <1>2 DEF TakeKey, truthVars, SeenWhenListening, Enabling
<1>3. ASSUME NEW k \in Key, Sample(k) PROVE SeenWhenListening'
  <2>1. /\ keyTask.key = k /\ keyTask'.key = k /\ pin' = pin /\ armed' = armed
        /\ \A j \in Key \ {k} : /\ seen'[j] = seen[j]
                                /\ j \in missed' <=> j \in missed
        /\ seen'[k] = pin[k]
    <3>1. keyTask.key = k /\ keyTask'.key = k /\ pin' = pin /\ armed' = armed
      BY <1>3 DEF Sample, Debounced
    <3>2. seen' = [seen EXCEPT ![k] = pin[k]] /\ missed' = missed \ {k}
      BY <1>3 DEF Sample
    <3> QED
      BY <3>1, <3>2 DEF KeyTypeOK
  <2>2. ASSUME NEW j \in Key \ missed', j \in armed' \/ Enabling(j)'
        PROVE  seen'[j] = pin'[j]
    <3>1. CASE j = k
      BY <2>1, <3>1
    <3>2. CASE j # k
      <4>1. j \in armed /\ j \notin missed
        BY <2>1, <2>2, <3>2 DEF Enabling
      <4>2. seen[j] = pin[j]
        BY <4>1 DEF SeenWhenListening
      <4>3. seen'[j] = seen[j]
        BY <2>1, <3>2
      <4>4. pin' = pin
        BY <2>1
      <4> QED
        BY <4>2, <4>3, <4>4
    <3> QED
      BY <3>1, <3>2
  <2> QED
    BY <2>2 DEF SeenWhenListening
<1>4. ASSUME NEW k \in Key, SampleFails(k) PROVE SeenWhenListening'
  <2>1. /\ keyTask.key = k /\ keyTask'.key = k /\ pin' = pin /\ armed' = armed
        /\ seen' = seen
        /\ \A j \in Key \ {k} : j \in missed' <=> j \in missed
        /\ k \notin missed' => seen[k] = pin[k]
    <3>1. keyTask.key = k /\ keyTask'.key = k /\ pin' = pin /\ armed' = armed
      BY <1>4 DEF SampleFails, Debounced
    <3>2. /\ seen' = seen
          /\ missed' = IF seen[k] # pin[k] THEN missed \cup {k} ELSE missed
      BY <1>4 DEF SampleFails, Quiet, busVars
    <3> QED
      BY <3>1, <3>2
  <2>2. ASSUME NEW j \in Key \ missed', j \in armed' \/ Enabling(j)'
        PROVE  seen'[j] = pin'[j]
    <3>1. CASE j = k
      BY <2>1, <2>2, <3>1
    <3>2. CASE j # k
      <4>1. j \in armed /\ j \notin missed
        BY <2>1, <2>2, <3>2 DEF Enabling
      <4> QED
        BY <2>1, <4>1 DEF SeenWhenListening
    <3> QED
      BY <3>1, <3>2
  <2> QED
    BY <2>2 DEF SeenWhenListening
<1>5. CASE Enable
  BY <1>5 DEF Enable, truthVars, Waiting, SeenWhenListening, Enabling
<1> QED
  BY <1>1, <1>2, <1>3, <1>4, <1>5, KeyStepCases
  DEF Supervise, OtherPost, Tick, driverVars, truthVars, SeenWhenListening, Enabling

----------------------------------------------------------------------------

(* The inductive invariant, and with it type correctness.                  *)
THEOREM KeyInvariant == KeySpec => []KeyInv
<1>1. KeyInv /\ [KeyNext]_keyVars => KeyInv'
  <2> SUFFICES ASSUME KeyInv, [KeyNext]_keyVars PROVE KeyInv'
    OBVIOUS
  <2>1. CASE KeyNext
    BY <2>1, KeyTypeStep, DeafStep, SeenStep DEF KeyInv
  <2>2. CASE UNCHANGED keyVars
    BY <2>2
    DEF keyVars, KeyInv, KeyTypeOK, NoKeyGoesDeaf, Queued, QueuedOnce,
        SeenWhenListening, Enabling
  <2> QED
    BY <2>1, <2>2
<1> QED
  BY KeyInitInv, <1>1, PTL DEF KeySpec

(* A key whose interrupt is off is in the debounce task's queue or hands.  *)
THEOREM NoDeafKey == KeySpec => []NoKeyGoesDeaf
<1>1. KeyInv => NoKeyGoesDeaf
  BY DEF KeyInv
<1> QED
  BY <1>1, KeyInvariant, PTL

(* The "queue full" branch of the interrupt is never taken.                *)
THEOREM RoomInQueue == KeySpec => []EdgeFindsRoom
<1>1. KeyInv => EdgeFindsRoom
  BY RoomForEdge DEF KeyInv, EdgeFindsRoom
<1> QED
  BY <1>1, KeyInvariant, PTL

(* A key that can interrupt is where the device last saw it.               *)
THEOREM ListenerSees == KeySpec => []ListenerAgrees
<1>1. KeyInv => ListenerAgrees
  BY DEF KeyInv, KeyTypeOK, SeenWhenListening, ListenerAgrees
<1> QED
  BY <1>1, KeyInvariant, PTL

----------------------------------------------------------------------------
(* The right action for a press.  What the device will make of a key is    *)
(* settled when the debounce task reads the pin, and the supervisor, which *)
(* may be behind by any number of events, acts on it later: the invariant  *)
(* says of the queue that each event asks for what it will lead to from    *)
(* the event of the same key before it.                                    *)

(* An event of the queue, and a key as the supervisor has it.              *)
Edge  == [key : Key \cup {NoKey}, down : BOOLEAN, at : Nat, asks : {"none", "short", "long"}]
State == [down : BOOLEAN, at : Nat]

PressTypeOK == /\ events \in Seq(Edge)
               /\ held \in [Key -> State]
               /\ finger \in [Key -> [pushed : BOOLEAN, at : Nat]]

(* What an event makes of a key, and the action it leads to from there.    *)
Effect(e)   == IF e.down THEN [down |-> TRUE, at |-> e.at] ELSE NotHeld
Takes(h, e) == IF e.down \/ ~h.down THEN "none"
               ELSE IF e.at - h.at >= LongPress THEN "long" ELSE "short"

(* A key as the supervisor will have it when it has handled every event.   *)
Told(k) == IF seen[k] /\ finger[k].pushed
           THEN [down |-> TRUE, at |-> finger[k].at] ELSE NotHeld

(* Every event of k in the queue q asks for what it will lead to, from the *)
(* event of k before it or, without one, from h, what the supervisor has;  *)
(* the last one, or h, makes of k what was told.                           *)
NoneIn(q, a, b, k) == \A i \in a .. b : q[i].key # k

FirstFits(q, k, h) ==
  \A j \in 1 .. Len(q) :
    q[j].key = k /\ NoneIn(q, 1, j - 1, k) => q[j].asks = Takes(h, q[j])
NextFits(q, k) ==
  \A i, j \in 1 .. Len(q) :
    i < j /\ q[i].key = k /\ q[j].key = k /\ NoneIn(q, i + 1, j - 1, k) =>
      q[j].asks = Takes(Effect(q[i]), q[j])
LastTells(q, k, told) ==
  \A j \in 1 .. Len(q) :
    q[j].key = k /\ NoneIn(q, j + 1, Len(q), k) => Effect(q[j]) = told
NoneTells(q, k, h, told) == NoneIn(q, 1, Len(q), k) => h = told

Fits(q, k, h, told) ==
  FirstFits(q, k, h) /\ NextFits(q, k) /\ LastTells(q, k, told) /\ NoneTells(q, k, h, told)

EventsFit == \A k \in Key : Fits(events, k, held[k], Told(k))

(* A press the device has not seen is as old as the clock, and the         *)
(* debounce task is about to read the pin.                                 *)
Pending(k) == Queued(k) \/ keyTask = [pc |-> "debounce", key |-> k]
PressIsNew ==
  \A k \in Key : ~seen[k] => /\ pin[k] => finger[k].pushed
                             /\ finger[k].pushed => finger[k].at = clock /\ Pending(k)

PressInv == /\ PressTypeOK
            /\ ~dropped /\ ~slipped => missed = {} /\ EventsFit /\ PressIsNew /\ ~wrong

----------------------------------------------------------------------------

LEMMA PressInitInv == KeyInit => PressInv
<1> SUFFICES ASSUME KeyInit PROVE PressInv
  OBVIOUS
<1>1. /\ events = <<>> /\ held = [k \in Key |-> NotHeld]
      /\ finger = [k \in Key |-> NotPushed] /\ seen = pin /\ missed = {} /\ ~wrong
  BY DEF KeyInit, BusInit
<1>2. PressTypeOK
  BY <1>1 DEF PressTypeOK, NotHeld, NotPushed, State
<1>3. ASSUME NEW k \in Key PROVE Fits(events, k, held[k], Told(k))
  <2>1. Len(events) = 0 /\ 1 .. 0 = {}
    BY <1>1
  <2>2. held[k] = Told(k)
    BY <1>1 DEF Told, NotPushed
  <2> QED
    BY <2>1, <2>2 DEF Fits, FirstFits, NextFits, LastTells, NoneTells
<1>4. PressIsNew
  BY <1>1 DEF PressIsNew, NotPushed
<1> QED
  BY <1>1, <1>2, <1>3, <1>4 DEF PressInv, EventsFit

(* An event is posted: one of the key asks for what it leads to from what  *)
(* was told, and tells itself; any other tells nothing of the key.         *)
LEMMA FitsPosted ==
  ASSUME NEW q \in Seq(Edge), NEW e \in Edge, NEW k, NEW h, NEW told, NEW new,
         Fits(q, k, h, told),
         IF e.key = k THEN e.asks = Takes(told, e) /\ new = Effect(e) ELSE new = told
  PROVE  Fits(Append(q, e), k, h, new)
<1> PICK n \in Nat : n = Len(q)
  OBVIOUS
<1> PICK r : r = Append(q, e)
  OBVIOUS
<1>1. Len(r) = n + 1 /\ r[n + 1] = e /\ \A i \in 1 .. n : r[i] = q[i]
  OBVIOUS
<1>2. FirstFits(q, k, h) /\ NextFits(q, k) /\ LastTells(q, k, told) /\ NoneTells(q, k, h, told)
  BY DEF Fits
<1>3. ASSUME NEW a \in Nat \ {0}, NEW b \in Nat, b <= n
      PROVE  NoneIn(r, a, b, k) <=> NoneIn(q, a, b, k)
  BY <1>1, <1>3 DEF NoneIn
<1>4. FirstFits(r, k, h)
  <2> SUFFICES ASSUME NEW j \in 1 .. n + 1, r[j].key = k, NoneIn(r, 1, j - 1, k)
               PROVE  r[j].asks = Takes(h, r[j])
    BY <1>1 DEF FirstFits
  <2>1. NoneIn(q, 1, j - 1, k)
    BY <1>3
  <2>2. CASE j \in 1 .. n
    BY <1>1, <1>2, <2>1, <2>2 DEF FirstFits
  <2>3. CASE j = n + 1
    <3>1. h = told
      BY <1>2, <2>1, <2>3 DEF NoneTells
    <3> QED
      BY <1>1, <2>3, <3>1
  <2> QED
    BY <2>2, <2>3
<1>5. NextFits(r, k)
  <2> SUFFICES ASSUME NEW i \in 1 .. n + 1, NEW j \in 1 .. n + 1, i < j,
                      r[i].key = k, r[j].key = k, NoneIn(r, i + 1, j - 1, k)
               PROVE  r[j].asks = Takes(Effect(r[i]), r[j])
    BY <1>1 DEF NextFits
  <2>1. i \in 1 .. n /\ r[i] = q[i]
    BY <1>1
  <2>2. NoneIn(q, i + 1, j - 1, k)
    BY <1>3
  <2>3. CASE j \in 1 .. n
    BY <1>1, <1>2, <2>1, <2>2, <2>3 DEF NextFits
  <2>4. CASE j = n + 1
    <3>1. Effect(q[i]) = told
      BY <1>2, <2>1, <2>2, <2>4 DEF LastTells
    <3> QED
      BY <1>1, <2>1, <2>4, <3>1
  <2> QED
    BY <2>3, <2>4
<1>6. LastTells(r, k, new)
  <2> SUFFICES ASSUME NEW j \in 1 .. n + 1, r[j].key = k, NoneIn(r, j + 1, n + 1, k)
               PROVE  Effect(r[j]) = new
    BY <1>1 DEF LastTells
  <2>1. CASE j = n + 1
    BY <1>1, <2>1
  <2>2. CASE j \in 1 .. n
    <3>1. r[n + 1].key # k /\ NoneIn(r, j + 1, n, k)
      BY <2>2 DEF NoneIn
    <3>2. NoneIn(q, j + 1, n, k)
      BY <1>3, <2>2, <3>1
    <3> QED
      BY <1>1, <1>2, <2>2, <3>1, <3>2 DEF LastTells
  <2> QED
    BY <2>1, <2>2
<1>7. NoneTells(r, k, h, new)
  <2> SUFFICES ASSUME NoneIn(r, 1, n + 1, k) PROVE h = new
    BY <1>1 DEF NoneTells
  <2>1. r[n + 1].key # k /\ NoneIn(r, 1, n, k)
    BY DEF NoneIn
  <2>2. NoneIn(q, 1, n, k)
    BY <1>3, <2>1
  <2> QED
    BY <1>1, <1>2, <2>1, <2>2 DEF NoneTells
<1> QED
  BY <1>4, <1>5, <1>6, <1>7 DEF Fits

(* The supervisor handles the first event.                                 *)
LEMMA FitsHandled ==
  ASSUME NEW q \in Seq(Edge), q # <<>>, NEW k, NEW h, NEW told, NEW g,
         Fits(q, k, h, told),
         IF q[1].key = k THEN g = Effect(q[1]) ELSE g = h
  PROVE  /\ Fits(Tail(q), k, g, told)
         /\ q[1].key = k => q[1].asks = Takes(h, q[1])
<1> PICK n \in Nat : n = Len(q) - 1
  OBVIOUS
<1> PICK r : r = Tail(q)
  OBVIOUS
<1>1. Len(q) = n + 1 /\ Len(r) = n /\ \A i \in 1 .. n : r[i] = q[i + 1]
  OBVIOUS
<1>2. FirstFits(q, k, h) /\ NextFits(q, k) /\ LastTells(q, k, told) /\ NoneTells(q, k, h, told)
  BY DEF Fits
<1>3. ASSUME NEW a \in Nat \ {0}, NEW b \in Nat, b <= n
      PROVE  NoneIn(r, a, b, k) => NoneIn(q, a + 1, b + 1, k)
  <2> SUFFICES ASSUME NoneIn(r, a, b, k), NEW i \in a + 1 .. b + 1 PROVE q[i].key # k
    BY DEF NoneIn
  <2>1. i - 1 \in a .. b /\ i - 1 \in 1 .. n /\ i - 1 + 1 = i
    BY <1>3
  <2> QED
    BY <1>1, <2>1 DEF NoneIn
<1>4. ASSUME NEW b \in Nat, b <= n, NoneIn(r, 1, b, k)
      PROVE  NoneIn(q, 2, b + 1, k) /\ (q[1].key # k => NoneIn(q, 1, b + 1, k))
  <2>1. NoneIn(q, 2, b + 1, k)
    BY <1>3, <1>4
  <2> QED
    BY <2>1 DEF NoneIn
<1>5. FirstFits(r, k, g)
  <2> SUFFICES ASSUME NEW j \in 1 .. n, r[j].key = k, NoneIn(r, 1, j - 1, k)
               PROVE  r[j].asks = Takes(g, r[j])
    BY <1>1 DEF FirstFits
  <2>1. r[j] = q[j + 1] /\ j + 1 \in 1 .. n + 1 /\ 1 \in 1 .. n + 1 /\ 1 < j + 1
    BY <1>1
  <2>2. NoneIn(q, 2, j, k) /\ (q[1].key # k => NoneIn(q, 1, j, k))
    BY <1>4
  <2>3. CASE q[1].key = k
    BY <1>1, <1>2, <2>1, <2>2, <2>3 DEF NextFits
  <2>4. CASE q[1].key # k
    BY <1>1, <1>2, <2>1, <2>2, <2>4 DEF FirstFits
  <2> QED
    BY <2>3, <2>4
<1>6. NextFits(r, k)
  <2> SUFFICES ASSUME NEW i \in 1 .. n, NEW j \in 1 .. n, i < j,
                      r[i].key = k, r[j].key = k, NoneIn(r, i + 1, j - 1, k)
               PROVE  r[j].asks = Takes(Effect(r[i]), r[j])
    BY <1>1 DEF NextFits
  <2>1. /\ r[i] = q[i + 1] /\ r[j] = q[j + 1]
        /\ i + 1 \in 1 .. n + 1 /\ j + 1 \in 1 .. n + 1 /\ i + 1 < j + 1
    BY <1>1
  <2>2. NoneIn(q, i + 1 + 1, j + 1 - 1, k)
    BY <1>3
  <2> QED
    BY <1>1, <1>2, <2>1, <2>2 DEF NextFits
<1>7. LastTells(r, k, told)
  <2> SUFFICES ASSUME NEW j \in 1 .. n, r[j].key = k, NoneIn(r, j + 1, n, k)
               PROVE  Effect(r[j]) = told
    BY <1>1 DEF LastTells
  <2>1. r[j] = q[j + 1] /\ j + 1 \in 1 .. n + 1
    BY <1>1
  <2>2. NoneIn(q, j + 1 + 1, n + 1, k)
    BY <1>3
  <2> QED
    BY <1>1, <1>2, <2>1, <2>2 DEF LastTells
<1>8. NoneTells(r, k, g, told)
  <2> SUFFICES ASSUME NoneIn(r, 1, n, k) PROVE g = told
    BY <1>1 DEF NoneTells
  <2>1. NoneIn(q, 2, n + 1, k) /\ (q[1].key # k => NoneIn(q, 1, n + 1, k))
    BY <1>4
  <2>2. CASE q[1].key = k
    <3>1. 1 \in 1 .. n + 1 /\ 1 + 1 = 2
      OBVIOUS
    <3> QED
      BY <1>1, <1>2, <2>1, <2>2, <3>1 DEF LastTells
  <2>3. CASE q[1].key # k
    BY <1>1, <1>2, <2>1, <2>3 DEF NoneTells
  <2> QED
    BY <2>2, <2>3
<1>9. q[1].key = k => q[1].asks = Takes(h, q[1])
  <2>1. 1 \in 1 .. n + 1 /\ NoneIn(q, 1, 1 - 1, k)
    BY DEF NoneIn
  <2> QED
    BY <1>1, <1>2, <2>1 DEF FirstFits
<1> QED
  BY <1>5, <1>6, <1>7, <1>8, <1>9 DEF Fits

----------------------------------------------------------------------------
(* The steps that post nothing and handle nothing.                         *)
LEMMA PressStays ==
  ASSUME PressInv, PressTypeOK', UNCHANGED <<events, held, wrong, dropped>>,
         slipped => slipped',
         ~slipped' /\ missed = {} => missed' = {},
         \A k \in Key : ~slipped' /\ missed = {} /\ PressIsNew => Told(k)' = Told(k),
         ~slipped' /\ missed = {} /\ PressIsNew => PressIsNew'
  PROVE  PressInv'
<1> SUFFICES ASSUME ~dropped, ~slipped'
             PROVE  missed' = {} /\ EventsFit' /\ PressIsNew' /\ ~wrong'
  BY DEF PressInv
<1>1. missed = {} /\ EventsFit /\ PressIsNew /\ ~wrong
  BY DEF PressInv
<1>2. ASSUME NEW k \in Key PROVE Fits(events, k, held[k], Told(k)')
  BY <1>1, <1>2 DEF EventsFit
<1>3. ASSUME NEW k \in Key PROVE Fits(events', k, held'[k], Told(k)')
  BY <1>2, <1>3
<1>4. EventsFit'
  BY ONLY <1>3 DEF EventsFit, Fits, FirstFits, NextFits, LastTells, NoneTells, NoneIn, Takes,
                   Effect, NotHeld
<1> QED
  BY <1>1, <1>4

(* An event is posted, or dropped.                                         *)
LEMMA PressPosted ==
  ASSUME PressInv, PressTypeOK', NEW e \in Edge, Post(e), UNCHANGED <<held, wrong, slipped>>,
         ~slipped /\ missed = {} /\ PressIsNew =>
           /\ missed' = {} /\ PressIsNew'
           /\ \A k \in Key : IF e.key = k
                             THEN e.asks = Takes(Told(k), e) /\ Told(k)' = Effect(e)
                             ELSE Told(k)' = Told(k)
  PROVE  PressInv'
<1> SUFFICES ASSUME ~dropped', ~slipped
             PROVE  missed' = {} /\ EventsFit' /\ PressIsNew' /\ ~wrong'
  BY DEF PressInv
<1>1. events' = Append(events, e) /\ ~dropped
  BY DEF Post
<1>2. missed = {} /\ EventsFit /\ PressIsNew /\ ~wrong
  BY <1>1 DEF PressInv
<1>3. ASSUME NEW k \in Key PROVE Fits(Append(events, e), k, held[k], Told(k)')
  <2>1. ASSUME NEW told, NEW new, Fits(events, k, held[k], told),
               IF e.key = k THEN e.asks = Takes(told, e) /\ new = Effect(e) ELSE new = told
        PROVE  Fits(Append(events, e), k, held[k], new)
    BY <2>1, FitsPosted DEF PressInv, PressTypeOK
  <2>2. Fits(events, k, held[k], Told(k))
    BY <1>2 DEF EventsFit
  <2> QED
    BY <1>2, <2>1, <2>2
<1>4. ASSUME NEW k \in Key PROVE Fits(events', k, held'[k], Told(k)')
  BY <1>1, <1>3, <1>4
<1>5. EventsFit'
  BY ONLY <1>4 DEF EventsFit, Fits, FirstFits, NextFits, LastTells, NoneTells, NoneIn, Takes,
                   Effect, NotHeld
<1> QED
  BY <1>2, <1>5

LEMMA PressTypeStep ==
  ASSUME KeyInv, PressInv, KeyNext
  PROVE  PressTypeOK'
<1> USE KeyAssumption
<1>1. PressTypeOK /\ KeyTypeOK /\ clock \in Nat
  BY DEF PressInv, KeyInv, KeyTypeOK
<1>2. ASSUME NEW e \in Edge, Post(e) PROVE events' \in Seq(Edge)
  BY <1>1, <1>2 DEF Post, PressTypeOK
<1>3. ASSUME NEW k \in Key, Flip(k) PROVE PressTypeOK'
  <2>1. finger' \in [Key -> [pushed : BOOLEAN, at : Nat]]
    BY <1>1, <1>3 DEF Flip, Finger, PressTypeOK
  <2> QED
    BY <1>1, <1>3, <2>1 DEF Flip, busVars, PressTypeOK, Edge, State
<1>4. ASSUME NEW k \in Key, Sample(k) PROVE PressTypeOK'
  <2>1. [key |-> k, down |-> pin[k], at |-> clock,
         asks |-> IF pin[k] THEN "none" ELSE Asked(k)] \in Edge
    BY <1>1 DEF KeyTypeOK, Edge, Asked
  <2>2. events' \in Seq(Edge)
    BY <1>1, <1>2, <1>4, <2>1 DEF Sample, Report, Quiet, busVars, PressTypeOK
  <2>3. finger' \in [Key -> [pushed : BOOLEAN, at : Nat]]
    BY <1>1, <1>4 DEF Sample, PressTypeOK, NotPushed
  <2> QED
    BY <1>1, <1>4, <2>2, <2>3 DEF Sample, Debounced, PressTypeOK, Edge, State
<1>5. CASE Supervise
  <2>1. events' \in Seq(Edge) /\ Head(events) \in Edge
    BY <1>1, <1>5 DEF Supervise, Wait, PressTypeOK
  <2>2. held' \in [Key -> State]
    <3>1. CASE Head(events).key = NoKey
      BY <1>1, <1>5, <3>1 DEF Supervise, PressTypeOK
    <3>2. CASE Head(events).key # NoKey
      <4> PICK e \in Edge : e = Head(events)
        BY <2>1
      <4>1. e.key \in Key /\ Effect(e) \in State
        BY <3>2 DEF Edge, State, Effect, NotHeld
      <4>2. held' = [held EXCEPT ![e.key] = Effect(e)]
        BY <1>5, <3>2 DEF Supervise, Handle, Effect
      <4> QED
        BY <1>1, <4>1, <4>2 DEF PressTypeOK
    <3> QED
      BY <3>1, <3>2
  <2> QED
    BY <1>1, <1>5, <2>1, <2>2 DEF Supervise, truthVars, PressTypeOK, Edge, State
<1>6. CASE OtherPost
  <2>1. [key |-> NoKey, down |-> FALSE, at |-> 0, asks |-> "none"] \in Edge
    BY DEF Edge
  <2>2. events' \in Seq(Edge)
    BY <1>2, <1>6, <2>1 DEF OtherPost
  <2> QED
    BY <1>1, <1>6, <2>2 DEF OtherPost, truthVars, PressTypeOK, Edge, State
<1> QED
  BY <1>1, <1>3, <1>4, <1>5, <1>6, KeyStepCases
  DEF TakeKey, SampleFails, Debounced, Enable, Tick, busVars, driverVars, truthVars,
      PressTypeOK, Edge, State

----------------------------------------------------------------------------
(* A key whose interrupt is off while its press is new to the device will  *)
(* be looked at, unless the interrupt came too early.                      *)
LEMMA PendingAfterFlip ==
  ASSUME KeyInv, NEW k \in Key, Flip(k), ~slipped'
  PROVE  Pending(k)' /\ \A j \in Key : Pending(j) => Pending(j)'
<1> USE KeyAssumption DEF KeyInv
<1>1. keyTask' = keyTask
  BY DEF Flip
<1>2. CASE k \in armed
  <2>1. Interrupt(k)
    BY <1>2 DEF Flip
  <2>2. Queued(k)' /\ \A j \in Key : Queued(j) => Queued(j)'
    BY <1>2, <2>1, InterruptQueues DEF Queued
  <2> QED
    BY <1>1, <2>2 DEF Pending
<1>3. CASE k \notin armed
  <2>1. keyQueue' = keyQueue /\ keyTask # [pc |-> "enable", key |-> k]
    BY <1>3 DEF Flip
  <2>2. Queued(k) \/ keyTask.key = k
    BY <1>3 DEF NoKeyGoesDeaf
  <2>3. keyTask.key = k => keyTask = [pc |-> "debounce", key |-> k]
    BY <2>1 DEF KeyTypeOK, Waiting
  <2> QED
    BY <1>1, <2>1, <2>2, <2>3 DEF Pending, Queued
<1> QED
  BY <1>2, <1>3

LEMMA PressFlip ==
  ASSUME KeyInv, PressInv, PressTypeOK', NEW k \in Key, Flip(k)
  PROVE  PressInv'
<1>1. /\ UNCHANGED <<events, held, wrong, dropped>> /\ seen' = seen /\ clock' = clock
      /\ Finger(k) /\ pin' = [pin EXCEPT ![k] = ~@]
  BY DEF Flip, busVars
<1>2. slipped => slipped'
  BY DEF Flip
<1>3. ~slipped' /\ missed = {} => missed' = {}
  BY DEF Flip
<1>4. PressTypeOK /\ KeyTypeOK
  BY DEF PressInv, KeyInv
<1>5. \A j \in Key \ {k} : finger'[j] = finger[j] /\ pin'[j] = pin[j]
  BY <1>1, <1>4 DEF Finger, KeyTypeOK, PressTypeOK
<1>6. missed = {} /\ (pin[k] \/ seen[k]) => finger'[k] = finger[k]
  BY <1>1 DEF Finger
<1>7. missed = {} /\ ~pin[k] /\ ~seen[k] => finger'[k] = [pushed |-> TRUE, at |-> clock]
  BY <1>1, <1>4 DEF Finger, PressTypeOK
<1>8. pin'[k] = ~pin[k]
  BY <1>1, <1>4 DEF KeyTypeOK
<1>9. ASSUME NEW j \in Key, missed = {} PROVE Told(j)' = Told(j)
  <2>1. CASE ~seen[j]
    BY <1>1, <2>1 DEF Told, NotHeld
  <2>2. CASE seen[j]
    BY <1>1, <1>5, <1>6, <1>9, <2>2 DEF Told, NotHeld
  <2> QED
    BY <2>1, <2>2
<1>10. ASSUME ~slipped', missed = {}, PressIsNew PROVE PressIsNew'
  <2> SUFFICES ASSUME NEW j \in Key, ~seen[j]
               PROVE  /\ pin'[j] => finger'[j].pushed
                      /\ finger'[j].pushed => finger'[j].at = clock /\ Pending(j)'
    BY <1>1 DEF PressIsNew
  <2>1. /\ pin[j] => finger[j].pushed
        /\ finger[j].pushed => finger[j].at = clock /\ Pending(j)
    BY <1>10 DEF PressIsNew
  <2>2. Pending(k)' /\ (Pending(j) => Pending(j)')
    BY <1>10, PendingAfterFlip
  <2>3. CASE j # k
    BY <1>5, <2>1, <2>2, <2>3
  <2>4. CASE j = k /\ pin[k]
    BY <1>6, <1>8, <1>10, <2>1, <2>2, <2>4
  <2>5. CASE j = k /\ ~pin[k]
    BY <1>7, <1>10, <2>2, <2>5
  <2> QED
    BY <2>3, <2>4, <2>5
<1> QED
  BY <1>1, <1>2, <1>3, <1>9, <1>10, PressStays

(* The debounce task takes a key: it is still about to be looked at.       *)
LEMMA PressTake ==
  ASSUME KeyInv, PressInv, PressTypeOK', TakeKey
  PROVE  PressInv'
<1>1. /\ UNCHANGED <<events, held, wrong, dropped>>
      /\ UNCHANGED <<seen, pin, finger, clock, missed, slipped>>
  BY DEF TakeKey, busVars, truthVars
<1>2. \A j \in Key : Told(j)' = Told(j)
  BY <1>1 DEF Told, NotHeld
<1>3. keyQueue \in Seq(Key) /\ keyQueue # <<>> /\ keyTask.pc = "wait"
  BY DEF KeyInv, KeyTypeOK, TakeKey
<1>4. keyTask' = [pc |-> "debounce", key |-> keyQueue[1]] /\ keyQueue' = Tail(keyQueue)
  BY <1>3 DEF TakeKey
<1>5. ASSUME NEW j \in Key, Pending(j) PROVE Pending(j)'
  <2>1. PICK i \in 1 .. Len(keyQueue) : keyQueue[i] = j
    BY <1>3, <1>5 DEF Pending, Queued
  <2>2. CASE i = 1
    BY <1>4, <2>1, <2>2 DEF Pending
  <2>3. CASE i # 1
    <3>1. i - 1 \in DOMAIN keyQueue' /\ keyQueue'[i - 1] = j
      BY <1>3, <1>4, <2>1, <2>3
    <3> QED
      BY <3>1 DEF Pending, Queued
  <2> QED
    BY <2>2, <2>3
<1>6. PressIsNew => PressIsNew'
  BY <1>1, <1>5 DEF PressIsNew
<1> QED
  BY <1>1, <1>2, <1>6, PressStays

(* The pin has been read.                                                  *)
LEMMA ToldWhenSampled ==
  ASSUME KeyInv, PressInv, NEW k \in Key, Sample(k), missed = {}, PressIsNew
  PROVE  /\ missed' = {} /\ PressIsNew'
         /\ \A j \in Key \ {k} : Told(j)' = Told(j)
         /\ Told(k)' = IF pin[k] /\ finger[k].pushed
                       THEN [down |-> TRUE, at |-> finger[k].at] ELSE NotHeld
<1>1. PressTypeOK /\ KeyTypeOK
  BY DEF PressInv, KeyInv
<1>2. /\ seen' = [seen EXCEPT ![k] = pin[k]]
      /\ finger' = IF pin[k] THEN finger ELSE [finger EXCEPT ![k] = NotPushed]
      /\ missed' = {} /\ pin' = pin /\ clock' = clock /\ keyQueue' = keyQueue
  BY DEF Sample, Debounced
<1>3. \A j \in Key \ {k} : seen'[j] = seen[j] /\ finger'[j] = finger[j]
  BY <1>1, <1>2 DEF KeyTypeOK, PressTypeOK
<1>4. seen'[k] = pin[k] /\ finger'[k] = IF pin[k] THEN finger[k] ELSE NotPushed
  BY <1>1, <1>2 DEF KeyTypeOK, PressTypeOK
<1>5. ASSUME NEW j \in Key \ {k} PROVE Told(j)' = Told(j)
  BY <1>3 DEF Told, NotHeld
<1>6. Told(k)' = IF pin[k] /\ finger[k].pushed
                 THEN [down |-> TRUE, at |-> finger[k].at] ELSE NotHeld
  BY <1>4 DEF Told, NotHeld
<1>7. PressIsNew'
  <2> SUFFICES ASSUME NEW j \in Key, ~seen'[j]
               PROVE  /\ pin[j] => finger'[j].pushed
                      /\ finger'[j].pushed => finger'[j].at = clock /\ Pending(j)'
    BY <1>2 DEF PressIsNew
  <2>1. CASE j = k
    BY <1>4, <2>1 DEF NotPushed
  <2>2. CASE j # k
    <3>1. keyTask # [pc |-> "debounce", key |-> j]
      <4>1. keyTask.key = k
        BY DEF Sample, Debounced
      <4> QED
        BY <2>2, <4>1
    <3>2. Pending(j) => Pending(j)'
      BY <1>2, <3>1 DEF Pending, Queued
    <3> QED
      BY <1>3, <2>2, <3>2 DEF PressIsNew
  <2> QED
    BY <2>1, <2>2
<1> QED
  BY <1>2, <1>5, <1>6, <1>7

LEMMA PressSample ==
  ASSUME KeyInv, PressInv, PressTypeOK', NEW k \in Key, Sample(k)
  PROVE  PressInv'
<1>1. PressTypeOK /\ KeyTypeOK /\ clock \in Nat
  BY KeyAssumption DEF PressInv, KeyInv, KeyTypeOK
<1>2. UNCHANGED <<held, wrong, slipped>>
  BY DEF Sample, Debounced
<1>3. CASE seen[k] = pin[k]
  <2>1. UNCHANGED <<events, dropped>>
    BY <1>3 DEF Sample, Quiet, busVars
  <2>2. ASSUME missed = {}, PressIsNew, NEW j \in Key PROVE Told(j)' = Told(j)
    <3>1. Told(k) = IF pin[k] /\ finger[k].pushed
                    THEN [down |-> TRUE, at |-> finger[k].at] ELSE NotHeld
      BY <1>3 DEF Told
    <3> QED
      BY <2>2, <3>1, ToldWhenSampled
  <2>3. missed = {} /\ PressIsNew => missed' = {} /\ PressIsNew'
    BY ToldWhenSampled
  <2>4. missed = {} /\ ~slipped' => missed' = {}
    BY DEF Sample
  <2> QED
    BY <1>2, <2>1, <2>2, <2>3, <2>4, PressStays
<1>4. CASE seen[k] # pin[k]
  <2> DEFINE e == [key |-> k, down |-> pin[k], at |-> clock,
                   asks |-> IF pin[k] THEN "none" ELSE Asked(k)]
  <2>1. e \in Edge /\ e.key = k
    BY <1>1 DEF KeyTypeOK, Edge, Asked
  <2>2. Post(e)
    BY <1>4 DEF Sample, Report
  <2>3. ASSUME missed = {}, PressIsNew
        PROVE  e.asks = Takes(Told(k), e) /\ Told(k)' = Effect(e)
    <3>1. Told(k)' = IF pin[k] /\ finger[k].pushed
                     THEN [down |-> TRUE, at |-> finger[k].at] ELSE NotHeld
      BY <2>3, ToldWhenSampled
    <3>2. CASE pin[k]
      <4>1. ~seen[k]
        BY <1>1, <1>4, <3>2 DEF KeyTypeOK
      <4>2. finger[k].pushed /\ finger[k].at = clock
        BY <2>3, <3>2, <4>1 DEF PressIsNew
      <4> QED
        BY <3>1, <3>2, <4>2 DEF Takes, Effect
    <3>3. CASE ~pin[k]
      <4>1. seen[k]
        BY <1>1, <1>4, <3>3 DEF KeyTypeOK
      <4>2. Told(k)' = Effect(e)
        BY <3>1, <3>3 DEF Effect
      <4>3. e.asks = Takes(Told(k), e)
        BY <3>3, <4>1 DEF Takes, Told, NotHeld, Asked
      <4> QED
        BY <4>2, <4>3
    <3> QED
      BY <3>2, <3>3
  <2>4. ASSUME missed = {}, PressIsNew
        PROVE  missed' = {} /\ PressIsNew' /\ \A j \in Key \ {k} : Told(j)' = Told(j)
    BY <2>4, ToldWhenSampled
  <2> HIDE DEF e
  <2>5. missed = {} /\ PressIsNew =>
          /\ missed' = {} /\ PressIsNew'
          /\ \A j \in Key : IF e.key = j THEN e.asks = Takes(Told(j), e) /\ Told(j)' = Effect(e)
                                         ELSE Told(j)' = Told(j)
    BY <2>1, <2>3, <2>4
  <2> QED
    BY <1>2, <2>1, <2>2, <2>5, PressPosted
<1> QED
  BY <1>3, <1>4

(* Nothing waits to be looked at when the clock moves.                     *)
LEMMA PressTick ==
  ASSUME KeyInv, PressInv, PressTypeOK', Tick
  PROVE  PressInv'
<1>1. /\ UNCHANGED <<events, held, wrong, dropped>>
      /\ UNCHANGED <<seen, pin, finger, missed, slipped>>
  BY DEF Tick, busVars, driverVars, truthVars
<1>2. \A j \in Key : Told(j)' = Told(j)
  BY <1>1 DEF Told, NotHeld
<1>3. \A j \in Key : ~Pending(j)
  BY DEF Tick, Pending, Queued, Waiting
<1>4. PressIsNew => PressIsNew'
  BY <1>1, <1>3 DEF PressIsNew
<1> QED
  BY <1>1, <1>2, <1>4, PressStays

LEMMA PressOther ==
  ASSUME KeyInv, PressInv, PressTypeOK', OtherPost
  PROVE  PressInv'
<1> DEFINE e == [key |-> NoKey, down |-> FALSE, at |-> 0, asks |-> "none"]
<1>1. UNCHANGED <<seen, pin, finger, clock, missed, slipped, keyQueue, keyTask, held, wrong>>
  BY DEF OtherPost, driverVars, truthVars
<1>2. Post(e)
  BY DEF OtherPost
<1>3. e \in Edge /\ \A k \in Key : e.key # k
  BY KeyAssumption DEF Edge
<1> HIDE DEF e
<1>4. \A k \in Key : Told(k)' = Told(k)
  BY <1>1 DEF Told, NotHeld
<1>5. PressIsNew => PressIsNew'
  BY <1>1 DEF PressIsNew, Pending, Queued
<1>6. UNCHANGED <<held, wrong, slipped>> /\ missed' = missed
  BY <1>1
<1> QED
  BY <1>2, <1>3, <1>4, <1>5, <1>6, PressPosted

(* An event is handled: the action taken is the one it asks for.           *)
LEMMA PressSupervise ==
  ASSUME KeyInv, PressInv, PressTypeOK', Supervise
  PROVE  PressInv'
<1> USE KeyAssumption
<1>1. UNCHANGED <<seen, pin, finger, clock, missed, slipped, keyQueue, keyTask, dropped>>
  BY DEF Supervise, Wait, driverVars, truthVars
<1> SUFFICES ASSUME ~dropped, ~slipped
             PROVE  missed' = {} /\ EventsFit' /\ PressIsNew' /\ ~wrong'
  BY <1>1 DEF PressInv
<1>2. missed = {} /\ EventsFit /\ PressIsNew /\ ~wrong /\ PressTypeOK
  BY DEF PressInv
<1>3. events \in Seq(Edge) /\ events # <<>> /\ events' = Tail(events)
  BY <1>2 DEF Supervise, Wait, PressTypeOK
<1> PICK e \in Edge : e = Head(events) /\ e = events[1]
  BY <1>3
<1>4. ASSUME NEW k \in Key
      PROVE  held'[k] = IF e.key = k THEN Effect(e) ELSE held[k]
  <2>1. CASE e.key = NoKey
    BY <2>1, <1>4 DEF Supervise
  <2>2. CASE e.key # NoKey
    <3>1. held' = [held EXCEPT ![e.key] = Effect(e)] /\ e.key \in Key
      BY <2>2 DEF Supervise, Handle, Effect, Edge
    <3> QED
      BY <1>2, <1>4, <3>1 DEF PressTypeOK
  <2> QED
    BY <2>1, <2>2
<1>5. ASSUME NEW k \in Key
      PROVE  /\ Fits(events', k, held'[k], Told(k))
             /\ e.key = k => e.asks = Takes(held[k], e)
  <2>1. Fits(events, k, held[k], Told(k))
    BY <1>2 DEF EventsFit
  <2>2. \A h, told, g : Fits(events, k, h, told) /\ (IF e.key = k THEN g = Effect(e) ELSE g = h)
          => Fits(Tail(events), k, g, told) /\ (e.key = k => e.asks = Takes(h, e))
    BY <1>3, FitsHandled
  <2> QED
    BY <1>3, <1>4, <2>1, <2>2
<1>6. ASSUME NEW k \in Key PROVE Fits(events', k, held'[k], Told(k)')
  <2>1. Told(k)' = Told(k)
    BY <1>1 DEF Told, NotHeld
  <2> QED
    BY <1>5, <2>1
<1>7. EventsFit'
  BY ONLY <1>6 DEF EventsFit, Fits, FirstFits, NextFits, LastTells, NoneTells, NoneIn, Takes,
                   Effect, NotHeld
<1>8. PressIsNew'
  BY <1>1, <1>2 DEF PressIsNew, Pending, Queued
<1>9. ~wrong'
  <2>1. CASE e.key = NoKey
    BY <1>2, <2>1 DEF Supervise
  <2>2. CASE e.key # NoKey
    <3>1. wrong' = (wrong \/ Taken(e) # e.asks) /\ e.key \in Key
      BY <2>2 DEF Supervise, Handle, Edge
    <3>2. Taken(e) = Takes(held[e.key], e)
      BY DEF Taken, Takes
    <3> QED
      BY <1>2, <1>5, <3>1, <3>2
  <2> QED
    BY <2>1, <2>2
<1> QED
  BY <1>1, <1>2, <1>7, <1>8, <1>9

LEMMA PressStepInv ==
  ASSUME KeyInv, PressInv, KeyNext
  PROVE  PressInv'
<1> USE KeyAssumption
<1>1. PressTypeOK'
  BY PressTypeStep
<1>2. ASSUME NEW k \in Key, SampleFails(k) PROVE PressInv'
  <2>1. UNCHANGED <<events, held, wrong, dropped>> /\ slipped'
    BY <1>2 DEF SampleFails, Debounced, busVars
  <2> QED
    BY <1>1, <2>1, PressStays
<1>3. CASE Enable
  <2>1. /\ UNCHANGED <<events, held, wrong, dropped>>
        /\ UNCHANGED <<seen, pin, finger, clock, missed, slipped, keyQueue>>
    BY <1>3 DEF Enable, busVars, truthVars
  <2>2. \A j \in Key : Told(j)' = Told(j)
    BY <2>1 DEF Told, NotHeld
  <2>3. keyTask.pc = "enable"
    BY <1>3 DEF Enable
  <2>4. \A j \in Key : Pending(j) => Pending(j)'
    BY <2>1, <2>3 DEF Pending, Queued
  <2>5. PressIsNew => PressIsNew'
    BY <2>1, <2>4 DEF PressIsNew
  <2> QED
    BY <1>1, <2>1, <2>2, <2>5, PressStays
<1> QED
  BY <1>1, <1>2, <1>3, KeyStepCases, PressFlip, PressTake, PressSample, PressSupervise,
     PressOther, PressTick

(* A press leads to one action, the one that fits the time the key was     *)
(* down, however late the supervisor gets to it and whatever bounces, as   *)
(* long as the event queue dropped nothing and no edge was missed.         *)
THEOREM RightAction == KeySpec => []ActionFitsPress
<1>1. KeyInv /\ PressInv /\ [KeyNext]_keyVars => PressInv'
  <2> SUFFICES ASSUME KeyInv, PressInv, [KeyNext]_keyVars PROVE PressInv'
    OBVIOUS
  <2>1. CASE UNCHANGED keyVars
    <3>1. /\ UNCHANGED <<events, held, wrong, dropped>>
          /\ UNCHANGED <<seen, pin, finger, clock, missed, slipped, keyQueue, keyTask>>
      BY <2>1 DEF keyVars
    <3>2. PressTypeOK'
      BY <3>1 DEF PressInv, PressTypeOK, Edge, State
    <3>3. \A j \in Key : Told(j)' = Told(j)
      BY <3>1 DEF Told, NotHeld
    <3>4. PressIsNew => PressIsNew'
      BY <3>1 DEF PressIsNew, Pending, Queued
    <3> QED
      BY <3>1, <3>2, <3>3, <3>4, PressStays
  <2> QED
    BY <2>1, PressStepInv
<1>2. PressInv => ActionFitsPress
  BY DEF PressInv, ActionFitsPress
<1>3. KeyInit => PressInv
  BY PressInitInv
<1> QED
  BY <1>1, <1>2, <1>3, KeyInvariant, PTL DEF KeySpec

=============================================================================
