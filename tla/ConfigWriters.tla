---------------------------- MODULE ConfigWriters ----------------------------
(***************************************************************************)
(* Everybody who changes the configuration or the mode of the device:      *)
(*   - the volume keys (sb_business_service.c), which commit the copy that *)
(*     sb_business_service_init() took at boot, with a new volume in it;   *)
(*   - set_config on the serial line and, where SMS recovery is on, in a   *)
(*     text message (sb_factory_diag.c), which get the configuration,      *)
(*     change it and commit it;                                            *)
(*   - set_mode on the serial line (sb_mode_service.c);                    *)
(*   - file uploads on the serial line (sb_factory_diag.c): the build      *)
(*     defines SB_SERIAL_FILE_PROVISIONING_ENABLED, which takes them in    *)
(*     every mode, and the files of both slots are in U:/config/, where    *)
(*     an upload may go.                                                   *)
(* The configuration is the cell that ConfigStore implements; its mutex is *)
(* held for one get or one commit, not from the get to the commit.         *)
(*                                                                         *)
(* Of the fields, the volume stands for itself and the profile for all the *)
(* others; the modes factory and debug are one, they allow the same.  Left *)
(* out are the command set_volume, which the build rejects unless          *)
(* SB_ENABLE_INSECURE_CRC32_COMMAND_AUTH is defined, and what              *)
(* SB_ENABLE_INSECURE_SMS_RECOVERY_PROVISIONING opens: the model is of the *)
(* build as the Makefile makes it, with neither.                           *)
(***************************************************************************)
EXTENDS Naturals

CONSTANTS
  MaxVolume,     (* 100                                                    *)
  VolumeStep,    (* SB_BUSINESS_VOLUME_STEP_PERCENT                        *)
  Profile,
  SmsProfile,    (* the profiles with sms_recovery_enabled                 *)
  Expand,        (* sb_demo_expand_config_runtime(): Profile -> Profile    *)
  Default,       (* sb_config_make_defaults()                              *)
  None

Volume == 0 .. MaxVolume
Config == [volume : Volume, profile : Profile]
Mode   == {"production", "factory"}

(* Filling in the device's own number a second time changes nothing.       *)
ASSUME WritersAssumption ==
  /\ MaxVolume \in Nat /\ VolumeStep \in Nat \ {0}
  /\ SmsProfile \subseteq Profile /\ Default \in Config
  /\ None \notin Config \cup Profile \cup Volume \cup Mode
  /\ Expand \in [Profile -> Profile]
  /\ \A p \in Profile : Expand[Expand[p]] = Expand[p]

Channel == {"serial", "sms"}

VARIABLES
  stored, running, request,  (* the configuration, see ConfigCell          *)
  replaced,   (* an upload replaced a slot's file since the boot           *)
  copy,       (* s_business_config                                         *)
  pressing,   (* the supervisor is committing the copy                     *)
  provision,  (* Channel -> its set_config command                         *)
  audio,      (* the volume the audio task was last told                   *)
  mode,       (* s_mode                                                    *)
  modeFile,   (* the mode in U:/sb_mode.bin, None without a valid one      *)
  saving,     (* the mode being saved by set_mode, or None                 *)
  smsOn,      (* s_sms_started                                             *)
  saved,      (* history: the profile of the last "config_saved", or None  *)
  lost,       (* history: a writer may have undone it since                *)
  mixed,      (* history: two writers were at work at once                 *)
  rift,       (* history: the volumes may differ until the next boot       *)
  sealed      (* history: "production" was the reply to set_mode           *)

cellVars == <<stored, running, request, replaced>>
modeVars == <<mode, modeFile, saving, sealed>>
history  == <<saved, lost, mixed>>
writersVars == <<stored, running, request, replaced, copy, pressing, provision,
                 audio, mode, modeFile, saving, smsOn, saved, lost, mixed, rift, sealed>>

Cell == INSTANCE ConfigCell

NoCall == [pc |-> "idle", config |-> Default, volume |-> FALSE]
Call   == [pc : {"idle", "volume", "ready", "commit"}, config : Config,
           volume : BOOLEAN]   (* the command has a volume                  *)

InHand(ch)   == provision[ch].pc # "idle"
Busy         == pressing \/ \E ch \in Channel : InHand(ch)
Same(p, q)   == Expand[p] = Expand[q]

FactoryAccess == mode # "production"

(* The copy was taken before the profile that was saved last.              *)
CopyIsStale == saved # None /\ ~Same(copy.profile, saved)

----------------------------------------------------------------------------

WritersInit ==
  /\ Cell!Init /\ replaced = FALSE
  /\ copy = [Default EXCEPT !.profile = Expand[@]]
  /\ pressing = FALSE /\ provision = [ch \in Channel |-> NoCall]
  /\ audio = Default.volume
  /\ modeFile \in Mode /\ mode = modeFile /\ saving = None
  /\ smsOn = (Default.profile \in SmsProfile)
  /\ saved = None /\ lost = FALSE /\ mixed = FALSE /\ rift = FALSE
  /\ sealed = FALSE

(* The commits of the writers: the cell's, as long as nobody has uploaded  *)
(* a file over a slot.  From then on the sequence numbers in the slots are *)
(* any, so that a boot may take either slot, whatever a commit returned.   *)
Request(c) == Cell!Request(c) /\ UNCHANGED replaced

TakeEffect == /\ \/ Cell!TakeEffect
                 \/ /\ replaced /\ request # None
                    /\ stored' \in Config /\ UNCHANGED <<running, request>>
              /\ UNCHANGED replaced

Succeed == /\ \/ Cell!Succeed
              \/ /\ replaced /\ request # None
                 /\ running' = request /\ request' = None /\ UNCHANGED stored
           /\ UNCHANGED replaced

Fail == /\ \/ Cell!Fail
           \/ /\ replaced /\ request # None
              /\ request' = None /\ UNCHANGED <<stored, running>>
        /\ UNCHANGED replaced

(* A writer begins its work; it is alone unless another is at work too.    *)
Begin == /\ mixed' = Busy
         /\ rift' = (rift \/ Busy)

Stepped(up, v) ==
  IF up THEN IF v + VolumeStep > MaxVolume THEN MaxVolume ELSE v + VolumeStep
        ELSE IF v < VolumeStep THEN 0 ELSE v - VolumeStep

(* Posting a volume to the audio task, whose queue may be full.            *)
TellAudio(v) == \/ audio' = v /\ UNCHANGED rift
                \/ rift' = TRUE /\ UNCHANGED audio

(* Variant: the profile is that of the defaults.                           *)
VolumeKeyOfDefaults(up) ==
  /\ ~pressing /\ Stepped(up, copy.volume) # copy.volume
  /\ copy' = [volume |-> Stepped(up, copy.volume), profile |-> Default.profile]
  /\ Request(copy')
  /\ pressing' = TRUE
  /\ Begin
  /\ lost' = (lost \/ Busy \/ CopyIsStale)
  /\ UNCHANGED <<provision, audio, modeVars, smsOn, saved>>

(* sb_business_handle_volume() up to the call of sb_config_commit().  Only *)
(* the supervisor's task handles keys.                                     *)
VolumeKey(up) ==
  /\ ~pressing /\ Stepped(up, copy.volume) # copy.volume
  /\ copy' = [copy EXCEPT !.volume = Stepped(up, @)]
  /\ Request(copy')
  /\ pressing' = TRUE
  /\ Begin
  /\ lost' = (lost \/ Busy \/ CopyIsStale)
  /\ UNCHANGED <<provision, audio, modeVars, smsOn, saved>>

(* Variant: the audio task is told although the commit failed.             *)
VolumeDoneAnyway ==
  /\ pressing
  /\ Succeed \/ Fail
  /\ TellAudio(copy.volume)
  /\ pressing' = FALSE
  /\ UNCHANGED <<copy, provision, modeVars, smsOn, history>>

(* The commit returns; the audio task is told after a success.  The copy   *)
(* keeps the new volume after a failure as well.                           *)
VolumeDone ==
  /\ pressing
  /\ \/ Succeed /\ TellAudio(copy.volume)
     \/ Fail /\ UNCHANGED <<audio, rift>>
  /\ pressing' = FALSE
  /\ UNCHANGED <<copy, provision, modeVars, smsOn, history>>

----------------------------------------------------------------------------

(* Variant: a command is carried out in every mode.                        *)
GetConfigAnyMode(ch, p, v) ==
  /\ ~InHand(ch) /\ (ch = "sms" => smsOn)
  /\ request = None /\ saving = None
  /\ provision' = [provision EXCEPT ![ch] =
       [pc |-> IF v = None THEN "ready" ELSE "volume",
        config |-> [volume |-> IF v = None THEN running.volume ELSE v, profile |-> p],
        volume |-> v # None]]
  /\ Begin
  /\ lost' = (lost \/ Busy)
  /\ UNCHANGED <<cellVars, copy, pressing, audio, modeVars, smsOn, saved>>

(* sb_factory_commit_config_from_json() up to the changed configuration: a *)
(* set_config with profile p and, unless v is None, a volume.  A command   *)
(* in production mode is refused and changes nothing.  The configuration   *)
(* is read before the mode, here at the same time; both mutexes are free.  *)
GetConfig(ch, p, v) ==
  /\ ~InHand(ch) /\ (ch = "sms" => smsOn)
  /\ FactoryAccess
  /\ request = None /\ saving = None
  /\ provision' = [provision EXCEPT ![ch] =
       [pc |-> IF v = None THEN "ready" ELSE "volume",
        config |-> [volume |-> IF v = None THEN running.volume ELSE v, profile |-> p],
        volume |-> v # None]]
  /\ Begin
  /\ lost' = (lost \/ Busy)
  /\ UNCHANGED <<cellVars, copy, pressing, audio, modeVars, smsOn, saved>>

(* The new volume is in force before the configuration is committed.       *)
TellVolume(ch) ==
  /\ provision[ch].pc = "volume"
  /\ provision' = [provision EXCEPT ![ch].pc = "ready"]
  /\ TellAudio(provision[ch].config.volume)
  /\ UNCHANGED <<cellVars, copy, pressing, modeVars, smsOn, history>>

CommitConfig(ch) ==
  /\ provision[ch].pc = "ready"
  /\ Request(provision[ch].config)
  /\ provision' = [provision EXCEPT ![ch].pc = "commit"]
  /\ UNCHANGED <<copy, pressing, audio, modeVars, smsOn, history, rift>>

(* The reply "config_saved".                                               *)
ConfigSaved(ch) ==
  /\ provision[ch].pc = "commit"
  /\ Succeed
  /\ saved' = provision[ch].config.profile /\ lost' = (mixed \/ replaced)
  /\ provision' = [provision EXCEPT ![ch] = NoCall]
  /\ UNCHANGED <<copy, pressing, audio, modeVars, smsOn, mixed, rift>>

(* The reply "commit": a volume in the command stays in force.             *)
ConfigNotSaved(ch) ==
  /\ provision[ch].pc = "commit"
  /\ Fail
  /\ rift' = (rift \/ provision[ch].volume)
  /\ provision' = [provision EXCEPT ![ch] = NoCall]
  /\ UNCHANGED <<copy, pressing, audio, modeVars, smsOn, history>>

SetConfig(ch) == \/ \E p \in Profile, v \in Volume \cup {None} : GetConfig(ch, p, v)
                 \/ TellVolume(ch)
                 \/ CommitConfig(ch)
                 \/ ConfigSaved(ch)
                 \/ ConfigNotSaved(ch)

(* The write of a slot takes effect, for whoever committed it.             *)
SlotWritten == /\ TakeEffect
               /\ UNCHANGED <<copy, pressing, provision, audio, modeVars, smsOn,
                              history, rift>>

(* A file_begin or file_chunk for a slot's file: the file is removed, and  *)
(* written piece by piece, in any mode.  What a boot would then take is    *)
(* the upload, the other slot or the defaults; the device runs on with     *)
(* what it has.  The task on the serial line has no other command then.    *)
FileOverSlot == /\ ~InHand("serial") /\ saving = None
                /\ stored' \in Config
                /\ replaced' = TRUE /\ lost' = TRUE /\ rift' = TRUE
                /\ UNCHANGED <<running, request, copy, pressing, provision, audio,
                               modeVars, smsOn, saved, mixed>>

----------------------------------------------------------------------------

(* sb_mode_set(): the mode is in force before it is saved.                 *)
SetMode(m) ==
  /\ ~InHand("serial") /\ saving = None /\ FactoryAccess
  /\ mode' = m /\ saving' = m
  /\ UNCHANGED <<cellVars, copy, pressing, provision, audio, modeFile, sealed,
                 smsOn, history, rift>>

(* Variant: a save that failed is reported as the mode that is in force.   *)
ModeNotSavedSilent ==
  /\ saving # None
  /\ modeFile' \in {modeFile, None}
  /\ sealed' = (saving = "production")
  /\ saving' = None
  /\ UNCHANGED <<cellVars, copy, pressing, provision, audio, mode, smsOn, history, rift>>

(* The reply is the mode, or "mode_save" with the old file still there or  *)
(* removed already.                                                        *)
ModeSaved ==
  /\ saving # None
  /\ modeFile' = saving /\ sealed' = (saving = "production")
  /\ saving' = None
  /\ UNCHANGED <<cellVars, copy, pressing, provision, audio, mode, smsOn, history, rift>>

ModeNotSaved ==
  /\ saving # None
  /\ modeFile' \in {modeFile, None}
  /\ saving' = None
  /\ UNCHANGED <<cellVars, copy, pressing, provision, audio, mode, sealed, smsOn,
                 history, rift>>

----------------------------------------------------------------------------

(* sb_mode_service_init() with the file as the power cut left it.  Without *)
(* a valid one it starts in production mode and tries to save that.        *)
BootMode == \E f \in {modeFile} \cup IF saving = None THEN {} ELSE {saving, None} :
              /\ mode' = IF f = None THEN "production" ELSE f
              /\ modeFile' \in {f, mode'}

(* Power is cut at any moment.  Every service starts from the stored       *)
(* configuration, the business service from a copy with the device's       *)
(* number filled in.                                                       *)
Restart == /\ Cell!Restart /\ replaced' = FALSE
           /\ BootMode
           /\ copy' = [stored EXCEPT !.profile = Expand[@]]
           /\ pressing' = FALSE /\ provision' = [ch \in Channel |-> NoCall]
           /\ audio' = stored.volume
           /\ saving' = None
           /\ smsOn' = (stored.profile \in SmsProfile)
           /\ saved' = IF lost \/ \E ch \in Channel : InHand(ch) THEN None ELSE saved
           /\ lost' = FALSE /\ mixed' = FALSE /\ rift' = FALSE
           /\ UNCHANGED sealed

WritersNext == \/ \E up \in BOOLEAN : VolumeKey(up)
               \/ VolumeDone
               \/ SlotWritten
               \/ FileOverSlot
               \/ \E ch \in Channel : SetConfig(ch)
               \/ \E m \in Mode : SetMode(m)
               \/ ModeSaved
               \/ ModeNotSaved
               \/ Restart

WritersSpec == WritersInit /\ [][WritersNext]_writersVars

----------------------------------------------------------------------------
(* Properties *)

WritersTypeOK ==
  /\ stored \in Config /\ running \in Config /\ request \in Config \cup {None}
  /\ replaced \in BOOLEAN
  /\ copy \in Config /\ pressing \in BOOLEAN
  /\ provision \in [Channel -> Call]
  /\ audio \in Volume
  /\ mode \in Mode /\ modeFile \in Mode \cup {None} /\ saving \in Mode \cup {None}
  /\ smsOn \in BOOLEAN
  /\ saved \in Profile \cup {None}
  /\ lost \in BOOLEAN /\ mixed \in BOOLEAN /\ rift \in BOOLEAN /\ sealed \in BOOLEAN

(* The shop hears the volume it set, now and after the next boot: once no  *)
(* writer is at work the audio task was told the volume that is stored.    *)
(* The exceptions are the four the code has, each over with the next boot: *)
(* two writers were at work at once, the audio task's queue was full, a    *)
(* set_config with a volume failed after its volume was set, or a file was *)
(* uploaded over a slot of the configuration.                              *)
VolumesAgree == ~Busy /\ ~rift => audio = running.volume /\ running = stored

(* What was answered with "config_saved" stays stored, whatever volume     *)
(* keys, failed commands and power cuts follow, unless a key was pressed   *)
(* before the device was started again (its copy is older than what was    *)
(* saved), two writers were at work at once, or a file was uploaded over a *)
(* slot.                                                                   *)
SavedIsKept ==
  saved # None /\ ~lost =>
    Same(stored.profile, saved) \/ \E ch \in Channel : InHand(ch)

(* A device that answered set_mode with "production" never leaves that     *)
(* mode again, by no command and with no power cut.                        *)
LockIsFinal == sealed => mode = "production" /\ modeFile = "production"

(* The configuration of a locked device: with no command left over from    *)
(* before, and a copy that is not older than what the device runs with, no *)
(* command, key or power cut changes more of what is stored than the       *)
(* volume and the device's own number, and that stays so in every boot.    *)
(* An upload over a slot, which a locked device takes as well, is the one  *)
(* exception, and it reaches what the device runs with at a boot only.     *)
Settled == /\ sealed
           /\ \A ch \in Channel : ~InHand(ch)
           /\ Same(copy.profile, running.profile)
           /\ replaced \/ Same(running.profile, stored.profile)

LockedIsFixed ==
  [][Settled => /\ Settled'
                /\ replaced' \/ Same(stored.profile, stored'.profile)
                /\ \/ Same(running.profile, running'.profile)
                   \/ replaced /\ ~replaced']_writersVars

=============================================================================
