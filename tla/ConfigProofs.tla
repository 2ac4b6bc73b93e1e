---------------------------- MODULE ConfigProofs ----------------------------
(***************************************************************************)
(* ConfigStore for every set of configurations and every bound: on a drive *)
(* whose valid files can be read at the boot, no failing call, no power    *)
(* cut and no decay of the older copy loses a configuration, and commits   *)
(* are atomic.                                                             *)
(***************************************************************************)
EXTENDS ConfigRefinement, TLAPS

(* A boot reads what is valid; every other call may still fail.            *)
DriveKeeps == "read" \notin FsFaults

Other == NextSlot(active)

(* What the slot that is not active holds, unless a commit just filled it: *)
(* nothing, or an older configuration.                                     *)
OlderOrNothing(slot) == Readable(slot) => disk[slot].sequence < sequence

(* The slot that is active holds what RAM holds; sequence 0 is a device    *)
(* whose defaults could not be stored.                                     *)
ActiveStored ==
  IF sequence = 0
  THEN ~Readable(active) /\ config = Default
  ELSE disk[active] = [sequence |-> sequence, payload |-> config]

(* The inductive invariant.  RebootKeepsConfig alone does not say what a   *)
(* save in progress is about to leave on the drive, nor why the slot that  *)
(* a boot takes is the active one.                                         *)
ConfigInv ==
  /\ ConfigTypeOK
  /\ \A s \in SlotFile : Readable(s) => disk[s].sequence # 0
  /\ task \in {"default_save", "commit_save"} <=> Committing
  /\ call.pc \in {"remove_final", "rename"} => disk[TempFile] = call.data
  /\ task = "boot" => /\ SequenceDecides
                      /\ sequence = 0 /\ active = SlotA
  /\ task # "boot" => ActiveStored \/ task = "default_save"
  /\ task = "ready" => OlderOrNothing(Other)
  /\ task = "default_save" =>
       /\ sequence = 0 /\ active = SlotA /\ config = Default
       /\ call.final = SlotA
       /\ call.data = [sequence |-> 1, payload |-> Default]
       /\ ~Readable(SlotB)
       /\ IF call.pc = "ok" THEN disk[SlotA] = call.data ELSE ~Readable(SlotA)
  /\ task = "commit_save" =>
       /\ call.final = Other
       /\ call.data.sequence = sequence + 1
       /\ IF call.pc = "ok" THEN disk[Other] = call.data ELSE OlderOrNothing(Other)

----------------------------------------------------------------------------
(* The two slots                                                           *)

LEMMA TwoSlots ==
  ASSUME NEW s \in SlotFile
  PROVE  /\ NextSlot(s) \in SlotFile /\ NextSlot(s) # s
         /\ SlotFile = {s, NextSlot(s)}
         /\ s \in CfgFile /\ s # TempFile /\ TempFile \in CfgFile
BY DEF SlotFile, NextSlot, SlotA, SlotB, CfgFile, TempFile

(* Of any valid slots a boot takes one.                                    *)
LEMMA BestIsValid ==
  ASSUME NEW valid \in SUBSET SlotFile, valid # {},
         \A s \in valid : disk[s].sequence \in Nat
  PROVE  Best(valid) \in valid
<1> DEFINE wins(s) == \A t \in valid \ {s} :
             IF s = SlotA THEN disk[s].sequence >= disk[t].sequence
                          ELSE disk[s].sequence > disk[t].sequence
<1>1. \E s \in valid : wins(s)
  <2>1. CASE valid = {SlotA, SlotB}
    <3>1. CASE disk[SlotA].sequence >= disk[SlotB].sequence
      BY <2>1, <3>1
    <3>2. CASE disk[SlotB].sequence > disk[SlotA].sequence
      BY <2>1, <3>2 DEF SlotA, SlotB
    <3> QED BY <2>1, <3>1, <3>2
  <2>2. CASE \E s \in SlotFile : valid = {s}
    BY <2>2
  <2> QED BY <2>1, <2>2 DEF SlotFile
<1> QED BY <1>1 DEF Best

(* It takes the newest one.                                                *)
LEMMA BestIsNewest ==
  ASSUME NEW valid \in SUBSET SlotFile, NEW s \in valid,
         \A t \in valid : disk[t].sequence \in Nat,
         \A t \in valid \ {s} : disk[t].sequence < disk[s].sequence
  PROVE  Best(valid) = s
<1> DEFINE wins(u) == \A t \in valid \ {u} :
             IF u = SlotA THEN disk[u].sequence >= disk[t].sequence
                          ELSE disk[u].sequence > disk[t].sequence
<1>1. wins(s)
  OBVIOUS
<1>2. \A u \in valid : wins(u) => u = s
  OBVIOUS
<1> QED BY <1>1, <1>2 DEF Best

(* What a reboot runs with when slot s is the newest valid one.            *)
LEMMA RebootTakesNewest ==
  ASSUME ConfigTypeOK, NEW s \in SlotFile, Readable(s),
         Readable(NextSlot(s)) => disk[NextSlot(s)].sequence < disk[s].sequence
  PROVE  RebootConfig = disk[s].payload
<1>1. ValidSlots \in SUBSET SlotFile /\ s \in ValidSlots
  BY DEF ValidSlots
<1>2. \A t \in ValidSlots : disk[t].sequence \in Nat
  BY DEF ValidSlots, ConfigTypeOK, Readable, SlotImage, SlotFile, CfgFile
<1>3. \A t \in ValidSlots \ {s} : disk[t].sequence < disk[s].sequence
  BY TwoSlots DEF ValidSlots
<1>4. Best(ValidSlots) = s
  BY <1>1, <1>2, <1>3, BestIsNewest
<1> QED BY <1>1, <1>4 DEF RebootConfig

----------------------------------------------------------------------------
(* One step of a save                                                      *)

(* A step touches its own slot and the temporary file alone; the slot gets *)
(* the new image when the save succeeds and until then loses at most what  *)
(* it held.                                                                *)
LEMMA SaveStepEffect ==
  ASSUME ConfigInv, FsStep
  PROVE  /\ Committing /\ Committing'
         /\ disk' \in [CfgFile -> SlotImage \cup {Absent, Torn}]
         /\ call' \in [pc : Steps, final : SlotFile, temp : {TempFile}, data : SlotImage]
         /\ call'.final = call.final /\ call'.data = call.data
         /\ call.pc # "ok"
         /\ \A s \in SlotFile \ {call.final} : disk'[s] = disk[s]
         /\ IF call'.pc = "ok" THEN disk'[call.final] = call.data
            ELSE disk'[call.final] \in {disk[call.final], Absent}
         /\ call'.pc \in {"remove_final", "rename"} => disk'[TempFile] = call.data
<1>c. /\ Committing
      /\ call \in [pc : Steps, final : SlotFile, temp : {TempFile}, data : SlotImage]
      /\ call.pc # "ok"
  BY DEF ConfigInv, ConfigTypeOK, Committing, FsStep, RemoveTemp, OpenTemp,
         FillTemp, RemoveFinal, Rename, DiscardTemp, At
<1>f. call.final \in SlotFile /\ call.temp = TempFile /\ call.data \in SlotImage
  BY <1>c
<1>n. \A s \in SlotFile : s \in CfgFile /\ s # TempFile
  BY TwoSlots
<1>t. TempFile \in CfgFile
  BY DEF CfgFile
<1>d. disk \in [CfgFile -> SlotImage \cup {Absent, Torn}]
  BY DEF ConfigInv, ConfigTypeOK
<1>g. ASSUME NEW pc \in Steps, Goto(pc)
      PROVE  /\ call' \in [pc : Steps, final : SlotFile, temp : {TempFile}, data : SlotImage]
             /\ call'.pc = pc /\ call'.final = call.final /\ call'.data = call.data
             /\ Committing'
  BY <1>c, <1>g DEF Goto, Committing, Steps
<1>r. ASSUME NEW f \in CfgFile, Remove(f)
      PROVE  /\ disk' \in [CfgFile -> SlotImage \cup {Absent, Torn}]
             /\ disk'[f] \in {disk[f], Absent}
             /\ \A g \in CfgFile \ {f} : disk'[g] = disk[g]
  BY <1>d, <1>r DEF Remove, Put
<1>p. ASSUME NEW v \in SlotImage \cup {Absent, Torn}, Put(TempFile, v)
      PROVE  /\ disk' \in [CfgFile -> SlotImage \cup {Absent, Torn}]
             /\ disk'[TempFile] = v
             /\ \A g \in SlotFile : disk'[g] = disk[g]
  BY <1>d, <1>n, <1>t, <1>p DEF Put
<1>1. CASE RemoveTemp
  BY <1>1, <1>c, <1>f, <1>n, <1>t, <1>g, <1>r DEF RemoveTemp, Steps
<1>2. CASE OpenTemp
  <2>1. CASE Put(call.temp, Torn) /\ Goto("fill_temp")
    BY <2>1, <1>c, <1>f, <1>g, <1>p DEF Steps
  <2>2. CASE Goto("discard_temp") /\ UNCHANGED disk
    BY <2>2, <1>c, <1>f, <1>d, <1>g DEF Steps
  <2> QED BY <1>2, <2>1, <2>2 DEF OpenTemp
<1>3. CASE FillTemp
  <2>1. CASE Put(call.temp, call.data) /\ Goto("remove_final")
    BY <2>1, <1>c, <1>f, <1>g, <1>p DEF Steps
  <2>2. CASE Goto("discard_temp") /\ UNCHANGED disk
    BY <2>2, <1>c, <1>f, <1>d, <1>g DEF Steps
  <2> QED BY <1>3, <2>1, <2>2 DEF FillTemp
<1>4. CASE RemoveFinal
  <2>1. disk[TempFile] = call.data
    BY <1>4 DEF RemoveFinal, At, ConfigInv
  <2> QED BY <1>4, <2>1, <1>c, <1>f, <1>n, <1>t, <1>g, <1>r DEF RemoveFinal, Steps
<1>5. CASE Rename
  <2>1. disk[TempFile] = call.data
    BY <1>5 DEF Rename, At, ConfigInv
  <2>2. CASE /\ disk' = [disk EXCEPT ![call.final] = disk[call.temp],
                                     ![call.temp]  = Absent]
             /\ Goto("ok")
    BY <2>1, <2>2, <1>c, <1>f, <1>n, <1>t, <1>d, <1>g DEF Steps
  <2>3. CASE Goto("discard_temp") /\ UNCHANGED disk
    BY <2>3, <1>c, <1>f, <1>d, <1>g DEF Steps
  <2> QED BY <1>5, <2>2, <2>3 DEF Rename
<1>6. CASE DiscardTemp
  BY <1>6, <1>c, <1>f, <1>n, <1>t, <1>g, <1>r DEF DiscardTemp, Steps
<1> QED BY <1>1, <1>2, <1>3, <1>4, <1>5, <1>6 DEF FsStep

LEMMA SlotStepKeepsInv ==
  ASSUME ConfigInv, SlotStep
  PROVE  ConfigInv'
<1>1. FsStep /\ UNCHANGED <<config, active, sequence, task>>
  BY DEF SlotStep, cfgRam
<1>2. /\ Committing /\ Committing'
      /\ disk' \in [CfgFile -> SlotImage \cup {Absent, Torn}]
      /\ call' \in [pc : Steps, final : SlotFile, temp : {TempFile}, data : SlotImage]
      /\ call'.final = call.final /\ call'.data = call.data
      /\ call.pc # "ok"
      /\ \A s \in SlotFile \ {call.final} : disk'[s] = disk[s]
      /\ IF call'.pc = "ok" THEN disk'[call.final] = call.data
         ELSE disk'[call.final] \in {disk[call.final], Absent}
      /\ call'.pc \in {"remove_final", "rename"} => disk'[TempFile] = call.data
  BY <1>1, SaveStepEffect
<1>3. active \in SlotFile /\ Other \in SlotFile /\ Other # active /\ Other' = Other
  BY <1>1, TwoSlots DEF ConfigInv, ConfigTypeOK, Other
<1>4. ConfigTypeOK'
  BY <1>1, <1>2 DEF ConfigInv, ConfigTypeOK, Committing
<1>5. task \in {"default_save", "commit_save"}
  BY <1>2 DEF ConfigInv
<1>6. CASE task = "default_save"
  <2>1. /\ sequence = 0 /\ active = SlotA /\ config = Default
        /\ call.final = SlotA
        /\ call.data = [sequence |-> 1, payload |-> Default]
        /\ ~Readable(SlotB) /\ ~Readable(SlotA)
    BY <1>2, <1>6 DEF ConfigInv
  <2>2. SlotFile = {SlotA, SlotB} /\ SlotA # SlotB
    BY DEF SlotFile, SlotA, SlotB
  <2>3. ~Readable(SlotB)'
    BY <1>2, <2>1, <2>2 DEF Readable
  <2>4. IF call'.pc = "ok" THEN disk'[SlotA] = call.data ELSE ~Readable(SlotA)'
    BY <1>2, <2>1 DEF Readable
  <2>5. \A s \in SlotFile : Readable(s)' => disk'[s].sequence # 0
    BY <2>1, <2>2, <2>3, <2>4
  <2> QED BY <1>1, <1>2, <1>4, <1>6, <2>1, <2>3, <2>4, <2>5 DEF ConfigInv
<1>7. CASE task = "commit_save"
  <2>1. /\ ActiveStored /\ call.final = Other
        /\ call.data.sequence = sequence + 1
        /\ OlderOrNothing(Other)
    BY <1>2, <1>7 DEF ConfigInv
  <2>2. ActiveStored'
    BY <1>1, <1>2, <1>3, <2>1 DEF ActiveStored, Readable
  <2>3. IF call'.pc = "ok" THEN disk'[Other] = call.data ELSE OlderOrNothing(Other)'
    BY <1>1, <1>2, <1>3, <2>1 DEF OlderOrNothing, Readable
  <2>4. sequence \in Nat /\ call.data.sequence # 0
    BY <2>1 DEF ConfigInv, ConfigTypeOK
  <2>5. \A s \in SlotFile : Readable(s)' => disk'[s].sequence # 0
    BY <1>2, <2>4 DEF ConfigInv, Readable
  <2> QED BY <1>1, <1>2, <1>3, <1>4, <1>7, <2>1, <2>2, <2>3, <2>5 DEF ConfigInv
<1> QED BY <1>5, <1>6, <1>7

----------------------------------------------------------------------------
(* The invariant                                                           *)

LEMMA InitEstablishesConfigInv == ConfigInit => ConfigInv
<1> SUFFICES ASSUME ConfigInit PROVE ConfigInv
  OBVIOUS
<1>1. /\ \A f \in CfgFile : disk[f] = Absent
      /\ SlotFile \subseteq CfgFile /\ SlotA \in SlotFile
  BY DEF ConfigInit, SlotFile, CfgFile
<1>2. \A s \in SlotFile : ~Readable(s)
  BY <1>1 DEF Readable
<1>3. ConfigTypeOK /\ ~Committing
  BY <1>1, ConfigAssumption
  DEF ConfigInit, ConfigTypeOK, Committing, Idle, TaskPhase
<1>4. SequenceDecides
  BY <1>2 DEF SequenceDecides, SlotFile
<1> QED BY <1>2, <1>3, <1>4 DEF ConfigInit, ConfigInv, Idle

(* On a drive that keeps its files a boot reads every valid slot.          *)
LEMMA LoadedIsValid ==
  ASSUME DriveKeeps
  PROVE  Loaded = {ValidSlots}
BY DEF DriveKeeps, Loaded

LEMMA LoadSlotKeepsInv ==
  ASSUME DriveKeeps, ConfigInv, LoadSlot
  PROVE  ConfigInv' /\ config' = RebootConfig
<1>1. /\ ValidSlots # {} /\ active' = Best(ValidSlots)
      /\ sequence' = disk[active'].sequence /\ config' = disk[active'].payload
      /\ task = "boot" /\ task' = "ready" /\ UNCHANGED <<disk, call>>
  BY LoadedIsValid DEF LoadSlot, fsVars
<1>2. /\ ValidSlots \in SUBSET SlotFile
      /\ \A s \in ValidSlots : disk[s] \in SlotImage /\ disk[s].sequence \in Nat
  BY DEF ValidSlots, ConfigInv, ConfigTypeOK, Readable, SlotImage, SlotFile, CfgFile
<1>3. active' \in ValidSlots
  BY <1>1, <1>2, BestIsValid
<1>4. disk[active'] = [sequence |-> sequence', payload |-> config']
      /\ sequence' \in Nat /\ sequence' # 0
  BY <1>1, <1>2, <1>3 DEF SlotImage, ValidSlots, ConfigInv
<1>5. NextSlot(active') \in SlotFile /\ NextSlot(active') # active'
  BY <1>2, <1>3, TwoSlots
<1>6. ASSUME Readable(NextSlot(active'))
      PROVE  disk[NextSlot(active')].sequence < sequence'
  <2> DEFINE o == NextSlot(active')
  <2>1. o \in ValidSlots /\ SlotFile = {active', o} /\ ValidSlots = {active', o}
    BY <1>2, <1>3, <1>5, <1>6, TwoSlots DEF ValidSlots
  <2>2. disk[o].sequence # disk[active'].sequence
    <3>1. Readable(SlotA) /\ Readable(SlotB) /\ {active', o} = {SlotA, SlotB}
      BY <2>1 DEF ValidSlots, SlotFile
    <3>2. disk[SlotA].sequence # disk[SlotB].sequence
      BY <1>1, <3>1 DEF ConfigInv, SequenceDecides
    <3> QED BY <1>5, <3>1, <3>2
  <2>3. CASE disk[o].sequence > disk[active'].sequence
    <3>1. Best(ValidSlots) = o
      BY <1>2, <2>1, <2>3, BestIsNewest
    <3> QED BY <1>1, <1>5, <3>1
  <2> QED BY <1>1, <1>2, <1>3, <2>1, <2>2, <2>3
<1>7. ConfigTypeOK'
  BY <1>1, <1>2, <1>3 DEF ConfigInv, ConfigTypeOK, SlotImage, TaskPhase, Committing
<1>8. ~Committing' /\ call' = Idle
  BY <1>1 DEF ConfigInv, ConfigTypeOK, Committing
<1>9. \A s \in SlotFile : Readable(s)' => disk'[s].sequence # 0
  BY <1>1 DEF ConfigInv, Readable
<1>10. ActiveStored'
  BY <1>1, <1>4 DEF ActiveStored
<1>11. OlderOrNothing(Other)'
  BY <1>1, <1>6 DEF OlderOrNothing, Other, Readable
<1>12. config' = RebootConfig
  BY <1>1 DEF RebootConfig
<1> QED BY <1>1, <1>7, <1>8, <1>9, <1>10, <1>11, <1>12 DEF ConfigInv, Idle

LEMMA LoadDefaultsKeepsInv ==
  ASSUME DriveKeeps, ConfigInv, LoadDefaults
  PROVE  ConfigInv'
<1> DEFINE image == [sequence |-> 1, payload |-> Default]
<1>1. /\ ValidSlots = {} /\ config' = Default /\ active' = SlotA
      /\ task = "boot" /\ task' = "default_save"
      /\ UNCHANGED <<disk, sequence>> /\ sequence = 0
      /\ call' \in {Call("remove_temp", SlotA, TempFile, image),
                    Call("error", SlotA, TempFile, image)}
  BY LoadedIsValid DEF LoadDefaults, WriteSlot, BeginWrite, ConfigInv
<1>2. image \in SlotImage /\ SlotA \in SlotFile /\ SlotB \in SlotFile
  BY ConfigAssumption DEF SlotImage, SlotFile
<1>3. \A s \in SlotFile : ~Readable(s)'
  BY <1>1 DEF ValidSlots, Readable
<1>4. /\ call'.pc \in {"remove_temp", "error"} /\ call'.final = SlotA
      /\ call'.data = image /\ Committing'
      /\ call' \in [pc : Steps, final : SlotFile, temp : {TempFile}, data : SlotImage]
  BY <1>1, <1>2 DEF Call, Steps, Committing
<1>5. ConfigTypeOK'
  BY <1>1, <1>2, <1>4, ConfigAssumption DEF ConfigInv, ConfigTypeOK, TaskPhase, Committing
<1> QED BY <1>1, <1>2, <1>3, <1>4, <1>5 DEF ConfigInv

LEMMA DefaultsDoneKeepsInv ==
  ASSUME ConfigInv, DefaultsDone
  PROVE  ConfigInv'
<1>1. /\ task = "default_save" /\ task' = "ready"
      /\ UNCHANGED <<disk, config, active>>
      /\ sequence' = IF call.pc = "ok" THEN 1 ELSE 0
      /\ call' = Idle
  BY DEF DefaultsDone, EndWrite, At
<1>2. /\ active = SlotA /\ config = Default
      /\ call.data = [sequence |-> 1, payload |-> Default]
      /\ ~Readable(SlotB)
      /\ IF call.pc = "ok" THEN disk[SlotA] = call.data ELSE ~Readable(SlotA)
  BY <1>1 DEF ConfigInv
<1>3. ConfigTypeOK' /\ ~Committing'
  BY <1>1, ConfigAssumption
  DEF ConfigInv, ConfigTypeOK, TaskPhase, Committing, Idle
<1>4. ActiveStored'
  BY <1>1, <1>2 DEF ActiveStored, Readable
<1>5. OlderOrNothing(Other)'
  <2>1. Other' = SlotB
    BY <1>1, <1>2 DEF Other, NextSlot
  <2> QED BY <1>1, <1>2, <2>1 DEF OlderOrNothing, Readable
<1>6. \A s \in SlotFile : Readable(s)' => disk'[s].sequence # 0
  BY <1>1 DEF ConfigInv, Readable
<1> QED BY <1>1, <1>3, <1>4, <1>5, <1>6 DEF ConfigInv, Idle

LEMMA CommitKeepsInv ==
  ASSUME ConfigInv, NEW c \in Config, Commit(c)
  PROVE  ConfigInv' /\ call'.data.payload = c /\ call'.pc # "ok"
<1> DEFINE image == [sequence |-> sequence + 1, payload |-> c]
<1>1. /\ task = "ready" /\ task' = "commit_save"
      /\ UNCHANGED <<disk, config, active, sequence>>
      /\ sequence < MaxSeq
      /\ call' \in {Call("remove_temp", Other, TempFile, image),
                    Call("error", Other, TempFile, image)}
  BY DEF Commit, WriteSlot, BeginWrite, Other
<1>2. image \in SlotImage /\ Other \in SlotFile /\ Other' = Other
  BY <1>1, TwoSlots, ConfigAssumption DEF SlotImage, ConfigInv, ConfigTypeOK, Other
<1>3. /\ call'.pc \in {"remove_temp", "error"} /\ call'.final = Other
      /\ call'.data = image /\ Committing'
      /\ call' \in [pc : Steps, final : SlotFile, temp : {TempFile}, data : SlotImage]
  BY <1>1, <1>2 DEF Call, Steps, Committing
<1>4. ConfigTypeOK'
  BY <1>1, <1>3 DEF ConfigInv, ConfigTypeOK, TaskPhase, Committing
<1>5. ActiveStored' /\ OlderOrNothing(Other)'
  BY <1>1, <1>2 DEF ConfigInv, ActiveStored, OlderOrNothing, Readable
<1>6. \A s \in SlotFile : Readable(s)' => disk'[s].sequence # 0
  BY <1>1 DEF ConfigInv, Readable
<1> QED BY <1>1, <1>2, <1>3, <1>4, <1>5, <1>6 DEF ConfigInv

LEMMA CommitDoneKeepsInv ==
  ASSUME ConfigInv, CommitDone
  PROVE  ConfigInv'
<1>1. /\ task = "commit_save" /\ task' = "ready"
      /\ UNCHANGED disk /\ call' = Idle
  BY DEF CommitDone, EndWrite
<1>2. /\ call.final = Other /\ call.data.sequence = sequence + 1
      /\ IF call.pc = "ok" THEN disk[Other] = call.data ELSE OlderOrNothing(Other)
      /\ ActiveStored
      /\ call.data \in SlotImage
  BY <1>1 DEF ConfigInv, ConfigTypeOK, Committing
<1>3. /\ active \in SlotFile /\ Other \in SlotFile /\ NextSlot(Other) = active
      /\ sequence \in Nat
  BY TwoSlots DEF ConfigInv, ConfigTypeOK, Other, NextSlot, SlotFile
<1>4. \A s \in SlotFile : Readable(s)' => disk'[s].sequence # 0
  BY <1>1 DEF ConfigInv, Readable
<1>5. CASE call.pc = "ok"
  <2>1. /\ config' = call.data.payload /\ active' = Other
        /\ sequence' = sequence + 1
    BY <1>2, <1>5 DEF CommitDone, At
  <2>2. ConfigTypeOK' /\ ~Committing'
    BY <1>1, <1>2, <1>3, <2>1
    DEF ConfigInv, ConfigTypeOK, TaskPhase, Committing, Idle, SlotImage
  <2>3. ActiveStored'
    BY <1>1, <1>2, <1>3, <1>5, <2>1 DEF ActiveStored, SlotImage
  <2>4. OlderOrNothing(Other)'
    <3>1. Other' = active
      BY <1>3, <2>1 DEF Other
    <3>2. Readable(active) => disk[active].sequence = sequence
      BY <1>2, <1>3 DEF ActiveStored
    <3> QED BY <1>1, <1>3, <2>1, <3>1, <3>2 DEF OlderOrNothing, Readable
  <2> QED BY <1>1, <1>4, <2>2, <2>3, <2>4 DEF ConfigInv, Idle
<1>6. CASE call.pc # "ok"
  <2>1. UNCHANGED <<config, active, sequence>>
    BY <1>6 DEF CommitDone, At
  <2>2. ConfigTypeOK' /\ ~Committing'
    BY <1>1, <2>1
    DEF ConfigInv, ConfigTypeOK, TaskPhase, Committing, Idle
  <2>3. ActiveStored' /\ OlderOrNothing(Other)'
    BY <1>1, <1>2, <1>6, <2>1 DEF ActiveStored, OlderOrNothing, Other, Readable
  <2> QED BY <1>1, <1>4, <2>2, <2>3 DEF ConfigInv, Idle
<1> QED BY <1>5, <1>6

(* No two valid slots share a sequence number, with a save in progress too. *)
LEMMA InvDecides ==
  ASSUME ConfigInv
  PROVE  SequenceDecides
<1>1. SUFFICES ASSUME Readable(SlotA), Readable(SlotB)
               PROVE  disk[SlotA].sequence # disk[SlotB].sequence
  BY DEF SequenceDecides
<1>2. task \in TaskPhase /\ sequence \in Nat /\ active \in SlotFile
      /\ disk[SlotA] \in SlotImage /\ disk[SlotB] \in SlotImage
  BY <1>1 DEF ConfigInv, ConfigTypeOK, Readable, CfgFile
<1>3. task # "default_save"
  BY <1>1 DEF ConfigInv
<1>4. CASE task = "boot"
  BY <1>1, <1>4 DEF ConfigInv, SequenceDecides
<1>5. CASE task \in {"ready", "commit_save"}
  <2>1. {SlotA, SlotB} = {active, Other} /\ active # Other
    BY <1>2, TwoSlots DEF SlotFile, Other
  <2>2. ActiveStored /\ Readable(active) /\ Readable(Other)
    BY <1>1, <1>5, <2>1 DEF ConfigInv
  <2>3. disk[active].sequence = sequence
    BY <2>2 DEF ActiveStored
  <2>4. disk[Other].sequence # sequence
    BY <1>2, <1>5, <2>1, <2>2 DEF ConfigInv, OlderOrNothing, SlotImage
  <2> QED BY <2>1, <2>3, <2>4
<1> QED BY <1>2, <1>3, <1>4, <1>5 DEF TaskPhase

(* What a reboot would run with, once the device is up.                    *)
LEMMA RebootIs ==
  ASSUME ConfigInv, task # "boot"
  PROVE  RebootConfig = IF task = "commit_save" /\ call.pc = "ok"
                        THEN call.data.payload ELSE config
<1>1. /\ task \in TaskPhase /\ sequence \in Nat /\ ConfigTypeOK
      /\ active \in SlotFile /\ Other \in SlotFile /\ Other # active
      /\ NextSlot(Other) = active /\ SlotFile = {active, Other}
  BY TwoSlots DEF ConfigInv, ConfigTypeOK, Other, NextSlot, SlotFile
<1>n. \A s \in SlotFile : Readable(s) => disk[s] \in SlotImage
  BY DEF ConfigInv, ConfigTypeOK, Readable, SlotFile, CfgFile
<1>2. CASE task = "commit_save" /\ call.pc = "ok"
  <2>1. /\ disk[Other] = call.data /\ call.data \in SlotImage /\ Readable(Other)
        /\ call.data.sequence = sequence + 1
    BY <1>2, ConfigAssumption DEF ConfigInv, ConfigTypeOK, Committing, Readable
  <2>2. Readable(active) => disk[active].sequence = sequence
    BY <1>2 DEF ConfigInv, ActiveStored
  <2>3. RebootConfig = disk[Other].payload
    BY <1>1, <2>1, <2>2, RebootTakesNewest
  <2> QED BY <1>2, <2>1, <2>3
<1>3. CASE task = "default_save"
  <2>1. CASE call.pc = "ok"
    <3>1. /\ disk[SlotA] = call.data /\ call.data \in SlotImage /\ ~Readable(SlotB)
          /\ call.data.payload = config /\ Readable(SlotA)
      BY <1>3, <2>1, ConfigAssumption
      DEF ConfigInv, ConfigTypeOK, Committing, Readable
    <3>2. SlotA \in SlotFile /\ NextSlot(SlotA) = SlotB
      BY DEF SlotFile, NextSlot
    <3>3. RebootConfig = disk[SlotA].payload
      BY <1>1, <3>1, <3>2, RebootTakesNewest
    <3> QED BY <1>3, <3>1, <3>3
  <2>2. CASE call.pc # "ok"
    <3>1. ValidSlots = {} /\ config = Default
      BY <1>3, <2>2 DEF ConfigInv, ValidSlots, SlotFile
    <3> QED BY <1>3, <3>1 DEF RebootConfig
  <2> QED BY <2>1, <2>2
<1>4. CASE task = "ready" \/ (task = "commit_save" /\ call.pc # "ok")
  <2>1. ActiveStored /\ OlderOrNothing(Other)
    BY <1>4 DEF ConfigInv
  <2>2. CASE sequence = 0
    <3>1. ~Readable(active) /\ config = Default
      BY <2>1, <2>2 DEF ActiveStored
    <3>2. ~Readable(Other)
      BY <1>1, <1>n, <2>1, <2>2 DEF OlderOrNothing, SlotImage
    <3>3. ValidSlots = {}
      BY <1>1, <3>1, <3>2 DEF ValidSlots
    <3> QED BY <1>4, <3>1, <3>3 DEF RebootConfig
  <2>3. CASE sequence # 0
    <3>1. /\ disk[active] = [sequence |-> sequence, payload |-> config]
          /\ config \in Config /\ sequence \in 0 .. MaxSeq
      BY <2>1, <2>3, <1>1 DEF ActiveStored, ConfigTypeOK
    <3>2. Readable(active)
      BY <3>1, ConfigAssumption DEF Readable, SlotImage
    <3>3. RebootConfig = disk[active].payload
      BY <1>1, <2>1, <3>1, <3>2, RebootTakesNewest DEF OlderOrNothing, Other
    <3> QED BY <1>4, <3>1, <3>3
  <2> QED BY <2>2, <2>3
<1> QED BY <1>1, <1>2, <1>3, <1>4 DEF TaskPhase

(* The same of the state after a step.                                     *)
LEMMA RebootIsAfter ==
  (ConfigInv /\ task # "boot" =>
     RebootConfig = IF task = "commit_save" /\ call.pc = "ok"
                    THEN call.data.payload ELSE config)'
<1>1. ConfigInv /\ task # "boot" =>
        RebootConfig = IF task = "commit_save" /\ call.pc = "ok"
                       THEN call.data.payload ELSE config
  BY RebootIs
<1> QED BY <1>1, PTL

LEMMA PowerCutKeepsInv ==
  ASSUME ConfigInv, PowerCut
  PROVE  ConfigInv'
<1>1. /\ config' = Default /\ active' = SlotA /\ sequence' = 0
      /\ task' = "boot" /\ call' = Idle /\ UNCHANGED disk
  BY DEF PowerCut, FsCrash
<1>2. SequenceDecides'
  BY <1>1, InvDecides DEF SequenceDecides, Readable
<1>3. ConfigTypeOK' /\ ~Committing'
  BY <1>1, ConfigAssumption
  DEF ConfigInv, ConfigTypeOK, TaskPhase, Committing, Idle, SlotFile
<1>4. \A s \in SlotFile : Readable(s)' => disk'[s].sequence # 0
  BY <1>1 DEF ConfigInv, Readable
<1> QED BY <1>1, <1>2, <1>3, <1>4 DEF ConfigInv, Idle

(* The decay of the older copy changes nothing that is in use.             *)
LEMMA SlotRotEffect ==
  ASSUME ConfigInv, SlotRot
  PROVE  /\ RebootConfig' = RebootConfig
         /\ task \in {"boot", "ready"} /\ UNCHANGED <<call, cfgRam>>
         /\ \E s \in SlotFile :
              /\ Readable(s) /\ Readable(NextSlot(s))
              /\ disk' = [disk EXCEPT ![s] = Torn]
              /\ disk[s].sequence < disk[NextSlot(s)].sequence
<1>1. PICK s \in ValidSlots : s # Best(ValidSlots) /\ Decay(s)
  BY DEF SlotRot
<1> DEFINE t == NextSlot(s)
<1>2. /\ s \in SlotFile /\ t \in SlotFile /\ t # s /\ NextSlot(t) = s
      /\ SlotFile = {s, t} /\ s \in CfgFile /\ t \in CfgFile
  BY TwoSlots DEF ValidSlots, NextSlot, SlotFile
<1>3. /\ task \in {"boot", "ready"} /\ UNCHANGED <<call, cfgRam>>
      /\ disk' = [disk EXCEPT ![s] = Torn]
  BY <1>1 DEF SlotRot, Decay, Put
<1>4. /\ ConfigTypeOK /\ ValidSlots \in SUBSET SlotFile
      /\ \A u \in ValidSlots : disk[u].sequence \in Nat
  BY DEF ValidSlots, ConfigInv, ConfigTypeOK, Readable, SlotImage, SlotFile, CfgFile
<1>5. Best(ValidSlots) = t /\ t \in ValidSlots
  BY <1>1, <1>2, <1>4, BestIsValid
<1>6. Readable(s) /\ Readable(t) /\ ValidSlots = {s, t}
  BY <1>1, <1>2, <1>5 DEF ValidSlots
<1>7. disk[s].sequence # disk[t].sequence
  BY <1>2, <1>6, InvDecides DEF SequenceDecides, SlotFile
<1>8. disk[s].sequence < disk[t].sequence
  <2>1. ASSUME disk[t].sequence < disk[s].sequence PROVE FALSE
    <3>1. \A u \in ValidSlots \ {s} : disk[u].sequence < disk[s].sequence
      BY <1>6, <2>1
    <3>2. Best(ValidSlots) = s
      BY <1>1, <1>4, <3>1, BestIsNewest
    <3> QED BY <1>1, <3>2
  <2> QED BY <1>4, <1>6, <1>7, <2>1
<1>9. RebootConfig = disk[t].payload
  BY <1>5, <1>6 DEF RebootConfig
<1>10. RebootConfig' = disk[t].payload
  <2>1. disk \in [CfgFile -> SlotImage \cup {Absent, Torn}]
    BY <1>4 DEF ConfigTypeOK
  <2>2. disk'[t] = disk[t] /\ disk'[s] = Torn
    BY <1>2, <1>3, <2>1
  <2>3. ValidSlots' = {t}
    BY <1>2, <1>6, <2>2 DEF ValidSlots, Readable
  <2>4. Best(ValidSlots)' = t
    BY <2>3 DEF Best
  <2> QED BY <2>2, <2>3, <2>4 DEF RebootConfig
<1> QED BY <1>2, <1>3, <1>6, <1>8, <1>9, <1>10

LEMMA SlotRotKeepsInv ==
  ASSUME ConfigInv, SlotRot
  PROVE  ConfigInv'
<1>1. PICK s \in SlotFile :
        /\ Readable(s) /\ Readable(NextSlot(s))
        /\ disk' = [disk EXCEPT ![s] = Torn]
        /\ disk[s].sequence < disk[NextSlot(s)].sequence
  BY SlotRotEffect
<1>2. task \in {"boot", "ready"} /\ UNCHANGED <<call, config, active, sequence, task>>
  BY SlotRotEffect DEF cfgRam
<1>3. /\ disk \in [CfgFile -> SlotImage \cup {Absent, Torn}]
      /\ s \in CfgFile /\ s # TempFile /\ active \in SlotFile /\ sequence \in Nat
  BY TwoSlots DEF ConfigInv, ConfigTypeOK
<1>4. \A f \in CfgFile : disk'[f] = IF f = s THEN Torn ELSE disk[f]
  BY <1>1, <1>3
<1>5. ConfigTypeOK'
  BY <1>1, <1>2, <1>3 DEF ConfigInv, ConfigTypeOK, Committing
<1>6. \A f \in SlotFile : Readable(f)' => f # s /\ Readable(f) /\ disk'[f] = disk[f]
  BY <1>4 DEF Readable, SlotFile, CfgFile
<1>7. disk'[TempFile] = disk[TempFile]
  BY <1>3, <1>4, TwoSlots
<1>8. ~Committing /\ ~Committing' /\ call.pc = "idle"
  BY <1>2 DEF ConfigInv, Committing
<1>9. \A f \in SlotFile : Readable(f)' => disk'[f].sequence # 0
  BY <1>6 DEF ConfigInv
<1>10. CASE task = "boot"
  <2>1. SequenceDecides'
    BY <1>6, <1>10, InvDecides DEF SequenceDecides, SlotFile
  <2> QED BY <1>2, <1>5, <1>8, <1>9, <1>10, <2>1 DEF ConfigInv
<1>11. CASE task = "ready"
  <2>1. ActiveStored /\ OlderOrNothing(Other)
    BY <1>11 DEF ConfigInv
  <2>2. s # active
    <3>1. disk[s] \in SlotImage /\ disk[NextSlot(s)] \in SlotImage
      BY <1>1, <1>3, TwoSlots DEF Readable
    <3>2. CASE s = active
      <4>1. disk[s].sequence = sequence
        BY <1>1, <2>1, <3>2 DEF ActiveStored
      <4>2. disk[NextSlot(s)].sequence < sequence
        BY <1>1, <2>1, <3>2 DEF OlderOrNothing, Other
      <4> QED BY <1>1, <3>1, <4>1, <4>2 DEF SlotImage
    <3> QED BY <3>2
  <2>3. disk'[active] = disk[active] /\ (Readable(active)' <=> Readable(active))
    BY <1>2, <1>3, <1>4, <2>2 DEF Readable, SlotFile, CfgFile
  <2>4. ActiveStored'
    BY <1>2, <2>1, <2>3 DEF ActiveStored, Readable
  <2>5. OlderOrNothing(Other)'
    BY <1>2, <1>3, <1>6, <2>1, TwoSlots DEF OlderOrNothing, Other
  <2> QED BY <1>2, <1>5, <1>8, <1>9, <1>11, <2>4, <2>5 DEF ConfigInv
<1> QED BY <1>2, <1>10, <1>11

LEMMA ConfigStepKeepsInv ==
  ASSUME DriveKeeps, ConfigInv, [ConfigNext]_cfgVars
  PROVE  ConfigInv'
<1>1. CASE LoadSlot
  BY <1>1, LoadSlotKeepsInv
<1>2. CASE LoadDefaults
  BY <1>2, LoadDefaultsKeepsInv
<1>3. CASE DefaultsDone
  BY <1>3, DefaultsDoneKeepsInv
<1>4. ASSUME NEW c \in Config, Commit(c)
      PROVE  ConfigInv'
  BY <1>4, CommitKeepsInv
<1>5. CASE CommitDone
  BY <1>5, CommitDoneKeepsInv
<1>6. CASE SlotStep
  BY <1>6, SlotStepKeepsInv
<1>7. CASE PowerCut
  BY <1>7, PowerCutKeepsInv
<1>8. CASE SlotRot
  BY <1>8, SlotRotKeepsInv
<1>9. CASE UNCHANGED cfgVars
  BY <1>9
  DEF cfgVars, ConfigInv, ConfigTypeOK, Committing, Readable, SequenceDecides,
      ActiveStored, OlderOrNothing, Other
<1> QED BY <1>1, <1>2, <1>3, <1>4, <1>5, <1>6, <1>7, <1>8, <1>9 DEF ConfigNext

(* The invariant holds throughout.                                         *)
THEOREM ConfigInvariant ==
  ASSUME DriveKeeps
  PROVE  ConfigSpec => []ConfigInv
<1>1. ConfigInv /\ [ConfigNext]_cfgVars => ConfigInv'
  BY ConfigStepKeepsInv
<1> QED BY <1>1, InitEstablishesConfigInv, PTL DEF ConfigSpec

(* Type correctness of the configuration, its slots and a save.            *)
THEOREM ConfigTypes ==
  ASSUME DriveKeeps
  PROVE  ConfigSpec => []ConfigTypeOK
<1>1. ConfigInv => ConfigTypeOK
  BY DEF ConfigInv
<1> QED BY <1>1, ConfigInvariant, PTL

(* Whatever call fails and whenever the power is cut, a reboot runs with   *)
(* the configuration in RAM or with the one being committed.               *)
THEOREM ConfigSurvives ==
  ASSUME DriveKeeps
  PROVE  ConfigSpec => []RebootKeepsConfig
<1>1. ConfigInv => RebootKeepsConfig
  BY RebootIs DEF RebootKeepsConfig
<1> QED BY <1>1, ConfigInvariant, PTL

(* The tie rule of sb_config_select_active() never has to decide.          *)
THEOREM SequenceNumbersDiffer ==
  ASSUME DriveKeeps
  PROVE  ConfigSpec => []SequenceDecides
<1>1. ConfigInv => SequenceDecides
  BY InvDecides
<1> QED BY <1>1, ConfigInvariant, PTL

----------------------------------------------------------------------------
(* Atomicity                                                               *)

(* Every step of the store is a step of the cell or leaves it as it is.    *)
LEMMA StepImplementsCell ==
  ASSUME DriveKeeps, ConfigInv, ConfigInv', [ConfigNext]_cfgVars
  PROVE  [Cell!Next]_(Cell!cellVars)
<1> DEFINE request == IF task = "commit_save" THEN call.data.payload ELSE None
<1> USE DEF Cell!Next, Cell!cellVars, Cell!Request, Cell!TakeEffect, Cell!Succeed,
            Cell!Fail, Cell!Restart
<1>s. UNCHANGED disk => RebootConfig' = RebootConfig
  BY DEF RebootConfig, ValidSlots, Readable, Best
<1>c. task = "commit_save" => call.data.payload \in Config /\ request # None
  BY NoneAssumption DEF ConfigInv, ConfigTypeOK, Committing, SlotImage
<1>1. CASE LoadSlot
  BY <1>1, <1>s, LoadSlotKeepsInv DEF LoadSlot, fsVars
<1>2. CASE LoadDefaults
  <2>1. RebootConfig = Default
    BY <1>2, LoadedIsValid DEF LoadDefaults, RebootConfig
  <2> QED BY <1>2, <1>s, <2>1 DEF LoadDefaults, WriteSlot, BeginWrite
<1>3. CASE DefaultsDone
  BY <1>3, <1>s DEF DefaultsDone, EndWrite
<1>4. ASSUME NEW c \in Config, Commit(c)
      PROVE  Cell!Request(c)
  <2>1. /\ task = "ready" /\ task' = "commit_save" /\ UNCHANGED <<disk, config>>
        /\ call'.data.payload = c
    BY <1>4, CommitKeepsInv DEF Commit, WriteSlot, BeginWrite
  <2> QED BY <1>s, <2>1
<1>5. CASE CommitDone
  <2>1. task = "commit_save" /\ task' = "ready" /\ UNCHANGED disk
    BY <1>5 DEF CommitDone, EndWrite
  <2>2. CASE call.pc = "ok"
    <3>1. RebootConfig = call.data.payload /\ config' = call.data.payload
      BY <1>5, <2>1, <2>2, RebootIs DEF CommitDone, At
    <3>2. Cell!Succeed
      BY <1>c, <1>s, <2>1, <3>1
    <3> QED BY <3>2
  <2>3. CASE call.pc # "ok"
    <3>1. RebootConfig = config /\ config' = config
      BY <1>5, <2>1, <2>3, RebootIs DEF CommitDone, At
    <3>2. Cell!Fail
      BY <1>c, <1>s, <2>1, <3>1
    <3> QED BY <3>2
  <2> QED BY <2>2, <2>3
<1>6. CASE SlotStep
  <2>1. /\ UNCHANGED <<config, task>> /\ call'.data = call.data /\ call.pc # "ok"
        /\ task \in {"default_save", "commit_save"}
    BY <1>6, SaveStepEffect DEF SlotStep, cfgRam, ConfigInv
  <2>2. RebootConfig = config
    BY <2>1, RebootIs
  <2>3. RebootConfig' = IF task = "commit_save" /\ call'.pc = "ok"
                        THEN call.data.payload ELSE config
    <3>1. (task # "boot")'
      BY <2>1
    <3> QED BY <2>1, <3>1, RebootIsAfter
  <2>4. CASE task = "commit_save" /\ call'.pc = "ok"
    <3>1. Cell!TakeEffect
      BY <1>c, <2>1, <2>3, <2>4
    <3> QED BY <3>1
  <2>5. CASE ~(task = "commit_save" /\ call'.pc = "ok")
    BY <2>1, <2>2, <2>3, <2>5
  <2> QED BY <2>4, <2>5
<1>7. CASE PowerCut
  <2>1. task' = "boot" /\ UNCHANGED disk
    BY <1>7 DEF PowerCut, FsCrash
  <2>2. Cell!Restart
    BY <1>s, <2>1
  <2> QED BY <2>2
<1>8. CASE SlotRot
  BY <1>8, SlotRotEffect DEF cfgRam
<1>9. CASE UNCHANGED cfgVars
  BY <1>9, <1>s DEF cfgVars
<1> QED BY <1>1, <1>2, <1>3, <1>4, <1>5, <1>6, <1>7, <1>8, <1>9 DEF ConfigNext

(* A commit, cut into its file-system calls and interrupted anywhere, takes *)
(* effect at one instant - the rename - or not at all.                     *)
THEOREM AtomicCommits ==
  ASSUME DriveKeeps
  PROVE  ConfigSpec => CommitsAreAtomic
<1>1. ConfigInit => Cell!Init
  <2> SUFFICES ASSUME ConfigInit PROVE Cell!Init
    OBVIOUS
  <2>1. ValidSlots = {}
    BY DEF ConfigInit, ValidSlots, Readable, SlotFile, CfgFile
  <2> QED BY <2>1 DEF ConfigInit, RebootConfig, Cell!Init
<1>2. ConfigInv /\ ConfigInv' /\ [ConfigNext]_cfgVars => [Cell!Next]_(Cell!cellVars)
  BY StepImplementsCell
<1> QED BY <1>1, <1>2, ConfigInvariant, PTL DEF ConfigSpec, CommitsAreAtomic, Cell!Spec

=============================================================================
