---------------------------- MODULE ConfigStore ----------------------------
(***************************************************************************)
(* sb_config.c: the configuration in RAM and its two slot files.  A commit *)
(* writes the slot that is not active, with the next sequence number; a    *)
(* boot takes the valid slot with the higher number.  The configuration    *)
(* mutex is held for the whole of init and commit.                         *)
(*                                                                         *)
(* A configuration is an element of Config: the fields sb_config_sanitize  *)
(* clamps are already within their limits.  Magic, version, slot id, sizes *)
(* and the two CRCs only decide whether a slot is valid: Readable().       *)
(***************************************************************************)
EXTENDS StorageFs, Naturals

CONSTANTS
  Config,     (* sanitized configurations                                  *)
  Default,    (* sb_config_make_defaults()                                 *)
  MaxSeq      (* bound on the sequence number, 2^32 - 1 in the code        *)

SlotA    == "U:/config/a"
SlotB    == "U:/config/b"
TempFile == "U:/config/tmp"
SlotFile == {SlotA, SlotB}
CfgFile  == {SlotA, SlotB, TempFile}

SlotImage == [sequence : 0 .. MaxSeq, payload : Config]

ASSUME ConfigAssumption == /\ Default \in Config
                           /\ MaxSeq \in Nat \ {0}
                           /\ Absent \notin SlotImage /\ Torn \notin SlotImage

VARIABLES
  config,     (* s_config                                                  *)
  active,     (* s_state.active_slot                                       *)
  sequence,   (* s_state.active_sequence                                   *)
  task        (* s_config_ready and the call that holds the mutex          *)

cfgRam  == <<config, active, sequence, task>>
cfgVars == <<disk, call, config, active, sequence, task>>

TaskPhase == {"boot", "default_save", "ready", "commit_save"}

----------------------------------------------------------------------------

ValidSlots == {s \in SlotFile : Readable(s)}

(* The slots a boot manages to read.                                       *)
Loaded == {ValidSlots} \cup IF "read" \in FsFaults THEN SUBSET ValidSlots ELSE {}

(* sb_config_select_active(): slot A on equal sequence numbers.            *)
Best(valid) ==
  CHOOSE s \in valid : \A t \in valid \ {s} :
    IF s = SlotA THEN disk[s].sequence >= disk[t].sequence
                 ELSE disk[s].sequence > disk[t].sequence

NextSlot(slot) == IF slot = SlotA THEN SlotB ELSE SlotA

WriteSlot(slot, payload, seq) ==
  BeginWrite(slot, TempFile, [sequence |-> seq, payload |-> payload])

ConfigInit == /\ disk = [f \in CfgFile |-> Absent]
              /\ call = Idle
              /\ config = Default
              /\ active = SlotA /\ sequence = 0
              /\ task = "boot"

LoadSlot == /\ task = "boot"
            /\ \E valid \in Loaded \ {{}} :
                 /\ active' = Best(valid)
                 /\ sequence' = disk[active'].sequence
                 /\ config' = disk[active'].payload
            /\ task' = "ready"
            /\ UNCHANGED fsVars

LoadDefaults == /\ task = "boot"
                /\ {} \in Loaded
                /\ config' = Default
                /\ active' = SlotA
                /\ WriteSlot(SlotA, Default, 1)
                /\ task' = "default_save"
                /\ UNCHANGED sequence

(* The device runs with the defaults whether or not they were stored.      *)
DefaultsDone == /\ task = "default_save"
                /\ sequence' = IF At("ok") THEN 1 ELSE 0
                /\ task' = "ready"
                /\ EndWrite
                /\ UNCHANGED <<config, active>>

(* Variant: the sequence number is not advanced.                           *)
CommitSameSequence(c) ==
  /\ task = "ready"
  /\ sequence < MaxSeq
  /\ WriteSlot(NextSlot(active), c, sequence)
  /\ task' = "commit_save"
  /\ UNCHANGED <<config, active, sequence>>

Commit(c) == /\ task = "ready"
             /\ sequence < MaxSeq
             /\ WriteSlot(NextSlot(active), c, sequence + 1)
             /\ task' = "commit_save"
             /\ UNCHANGED <<config, active, sequence>>

(* Variant: RAM takes the new configuration whether or not it was stored.  *)
CommitDoneAlways ==
  /\ task = "commit_save"
  /\ config' = call.data.payload
  /\ active' = call.final
  /\ sequence' = call.data.sequence
  /\ task' = "ready"
  /\ EndWrite

CommitDone == /\ task = "commit_save"
              /\ IF At("ok")
                 THEN /\ config' = call.data.payload
                      /\ active' = call.final
                      /\ sequence' = call.data.sequence
                 ELSE UNCHANGED <<config, active, sequence>>
              /\ task' = "ready"
              /\ EndWrite

SlotStep == FsStep /\ UNCHANGED cfgRam

PowerCut == /\ config' = Default
            /\ active' = SlotA /\ sequence' = 0
            /\ task' = "boot"
            /\ FsCrash

(* The older of two copies decays.  That a decayed newest copy, or one a   *)
(* boot cannot read, costs its configuration is what two copies are for.   *)
(* Bound: not in the middle of a save.                                     *)
SlotRot == /\ task \in {"boot", "ready"}
           /\ \E s \in ValidSlots : s # Best(ValidSlots) /\ Decay(s)
           /\ UNCHANGED cfgRam

ConfigNext == \/ LoadSlot
              \/ LoadDefaults
              \/ DefaultsDone
              \/ \E c \in Config : Commit(c)
              \/ CommitDone
              \/ SlotStep
              \/ PowerCut
              \/ SlotRot

ConfigSpec == ConfigInit /\ [][ConfigNext]_cfgVars

----------------------------------------------------------------------------
(* Properties *)

Committing == call.pc # "idle"

ConfigTypeOK ==
  /\ config \in Config
  /\ active \in SlotFile
  /\ sequence \in 0 .. MaxSeq
  /\ task \in TaskPhase
  /\ disk \in [CfgFile -> SlotImage \cup {Absent, Torn}]
  /\ Committing => call \in [pc : Steps, final : SlotFile,
                             temp : {TempFile}, data : SlotImage]
  /\ ~Committing => call = Idle

(* The configuration a reboot at this very moment would run with.          *)
RebootConfig ==
  IF ValidSlots = {} THEN Default ELSE disk[Best(ValidSlots)].payload

(* A power cut at any step of a commit, or a commit that fails anywhere,   *)
(* costs nothing: a reboot runs with the configuration in RAM or with the  *)
(* one being committed - never with an older one, never with the defaults  *)
(* once something was committed (the A/B slots of sb_config.c).            *)
RebootKeepsConfig ==
  task # "boot" =>
    \/ RebootConfig = config
    \/ task = "commit_save" /\ RebootConfig = call.data.payload

(* Two valid slots never carry the same sequence number, so the rule that  *)
(* equal numbers mean slot A never has to decide between two commits.      *)
SequenceDecides ==
  Readable(SlotA) /\ Readable(SlotB) =>
    disk[SlotA].sequence # disk[SlotB].sequence

=============================================================================
