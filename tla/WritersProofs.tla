---------------------------- MODULE WritersProofs ----------------------------
(***************************************************************************)
(* Proofs about what is written to the device: the configuration by its    *)
(* writers, and a file by the tool on the serial line.                     *)
(*                                                                         *)
(* The writers, for every volume range and step, every set of profiles and *)
(* every way to fill in the device's number: the inductive invariant says  *)
(* who owns the commit in progress, and how far a single writer at work    *)
(* has come.                                                               *)
(*                                                                         *)
(* The file, for every number of chunks and depth of the line: the         *)
(* inductive invariant says that a run has one command or reply on its     *)
(* way, and that the device has what the host sent as long as nothing has  *)
(* gone wrong.                                                             *)
(***************************************************************************)
EXTENDS ConfigWriters, Upload, TLAPS

(* The commit in progress belongs to one writer and is what it asked for.  *)
Committing(ch) == provision[ch].pc = "commit"

OneCommit ==
  /\ pressing => request = copy
  /\ \A ch \in Channel : Committing(ch) => request = provision[ch].config /\ ~pressing
  /\ Committing("serial") => ~Committing("sms")
  /\ request # None => pressing \/ \E ch \in Channel : Committing(ch)
  /\ replaced \/ stored = running \/ (request # None /\ stored = request)

(* At most one writer is at work.                                          *)
Alone == /\ pressing => \A ch \in Channel : ~InHand(ch)
         /\ InHand("serial") => ~InHand("sms")

(* How far a set_config has come with its volume.                          *)
VolumeOf(ch) ==
  LET c == provision[ch] IN
  /\ c.pc = "volume" => c.volume
  /\ c.pc \in {"idle", "volume"} => audio = running.volume
  /\ c.pc \in {"ready", "commit"} =>
       /\ c.volume => audio = c.config.volume
       /\ ~c.volume => audio = running.volume /\ c.config.volume = running.volume

Volumes ==
  ~rift => /\ Alone
           /\ ~Busy => audio = running.volume
           /\ pressing => audio = running.volume
           /\ \A ch \in Channel : InHand(ch) => VolumeOf(ch)

SavedProfile ==
  /\ ~mixed => Alone
  /\ saved # None /\ ~lost => /\ Same(running.profile, saved)
                              /\ pressing => Same(copy.profile, saved)

(* Nothing is promised of a slot that an upload has replaced, until the    *)
(* next boot.                                                              *)
Uploads == replaced => lost /\ rift

Locked == /\ LockIsFinal
          /\ sealed => saving = None
          /\ saving # None => mode = saving

WritersInv == /\ WritersTypeOK
              /\ OneCommit
              /\ Volumes
              /\ SavedProfile
              /\ Uploads
              /\ Locked

----------------------------------------------------------------------------

LEMMA SteppedInRange ==
  ASSUME NEW up \in BOOLEAN, NEW v \in Volume
  PROVE  Stepped(up, v) \in Volume
BY WritersAssumption DEF Stepped, Volume

LEMMA InitInv == WritersInit => WritersInv
<1> USE WritersAssumption
<1> SUFFICES ASSUME WritersInit PROVE WritersInv
  OBVIOUS
<1>1. WritersTypeOK
  <2>1. copy \in Config
    BY DEF WritersInit, Config
  <2>2. provision \in [Channel -> Call]
    BY DEF WritersInit, NoCall, Call
  <2>3. audio \in Volume
    BY DEF WritersInit, Config
  <2>4. stored \in Config /\ running \in Config /\ request = None
    BY DEF WritersInit, Cell!Init
  <2>5. smsOn \in BOOLEAN
    BY DEF WritersInit
  <2>6. mode \in Mode /\ modeFile \in Mode /\ saving = None /\ saved = None
    BY DEF WritersInit
  <2>7. /\ pressing \in BOOLEAN /\ lost \in BOOLEAN /\ mixed \in BOOLEAN
        /\ rift \in BOOLEAN /\ sealed \in BOOLEAN /\ replaced \in BOOLEAN
    BY DEF WritersInit
  <2> QED
    BY <2>1, <2>2, <2>3, <2>4, <2>5, <2>6, <2>7 DEF WritersTypeOK
<1>2. \A ch \in Channel : ~InHand(ch) /\ ~Committing(ch)
  BY DEF WritersInit, NoCall, InHand, Committing
<1>3. OneCommit
  BY <1>2 DEF OneCommit, WritersInit, Cell!Init, Channel
<1>4. Volumes
  BY <1>2 DEF Volumes, Alone, Busy, WritersInit, Cell!Init, Channel
<1>5. SavedProfile
  BY <1>2 DEF SavedProfile, Alone, WritersInit, Channel
<1>6. Locked
  BY DEF Locked, LockIsFinal, WritersInit
<1>7. Uploads
  BY DEF Uploads, WritersInit
<1> QED
  BY <1>1, <1>3, <1>4, <1>5, <1>6, <1>7 DEF WritersInv

(* The cases of a step, for the lemmas below.                              *)
LEMMA StepCases ==
  ASSUME WritersNext
  PROVE  \/ \E up \in BOOLEAN : VolumeKey(up)
         \/ VolumeDone \/ SlotWritten \/ FileOverSlot
         \/ \E ch \in Channel :
              \/ \E p \in Profile, v \in Volume \cup {None} : GetConfig(ch, p, v)
              \/ TellVolume(ch) \/ CommitConfig(ch)
              \/ ConfigSaved(ch) \/ ConfigNotSaved(ch)
         \/ \E m \in Mode : SetMode(m)
         \/ ModeSaved \/ ModeNotSaved \/ Restart
BY DEF WritersNext, SetConfig

LEMMA CellTypes ==
  ASSUME WritersTypeOK, WritersNext
  PROVE  stored' \in Config /\ running' \in Config /\ request' \in Config \cup {None}
<1>1. CASE \E up \in BOOLEAN : VolumeKey(up)
  <2> PICK up \in BOOLEAN : VolumeKey(up)
    BY <1>1
  <2> copy.volume \in Volume
    BY DEF WritersTypeOK, Config
  <2> Stepped(up, copy.volume) \in Volume
    BY SteppedInRange
  <2> copy' \in Config
    BY DEF VolumeKey, WritersTypeOK, Config
  <2> QED
    BY DEF VolumeKey, Request, Cell!Request, WritersTypeOK
<1>2. CASE VolumeDone
  BY <1>2 DEF VolumeDone, Succeed, Cell!Succeed, Fail, Cell!Fail, WritersTypeOK
<1>3. CASE SlotWritten
  BY <1>3 DEF SlotWritten, TakeEffect, Cell!TakeEffect, WritersTypeOK
<1>4. ASSUME NEW ch \in Channel, CommitConfig(ch)
      PROVE  stored' \in Config /\ running' \in Config /\ request' \in Config \cup {None}
  <2> provision[ch].config \in Config
    BY DEF WritersTypeOK, Call
  <2> QED
    BY <1>4 DEF CommitConfig, Request, Cell!Request, WritersTypeOK
<1>5. ASSUME NEW ch \in Channel, ConfigSaved(ch) \/ ConfigNotSaved(ch)
      PROVE  stored' \in Config /\ running' \in Config /\ request' \in Config \cup {None}
  BY <1>5 DEF ConfigSaved, ConfigNotSaved, Succeed, Cell!Succeed, Fail, Cell!Fail,
              WritersTypeOK
<1>6. CASE Restart
  BY <1>6 DEF Restart, Cell!Restart, WritersTypeOK
<1>7. CASE FileOverSlot
  BY <1>7 DEF FileOverSlot, WritersTypeOK
<1> QED
  BY <1>1, <1>2, <1>3, <1>4, <1>5, <1>6, <1>7, StepCases
  DEF GetConfig, TellVolume, SetMode, ModeSaved, ModeNotSaved, cellVars, WritersTypeOK

(* The set_config commands stay well formed.                               *)
LEMMA CallTypes ==
  ASSUME WritersTypeOK, WritersNext
  PROVE  provision' \in [Channel -> Call]
<1>1. ASSUME NEW ch \in Channel, NEW p \in Profile, NEW v \in Volume \cup {None},
             GetConfig(ch, p, v)
      PROVE  provision' \in [Channel -> Call]
  <2> DEFINE c == [pc |-> IF v = None THEN "ready" ELSE "volume",
                   config |-> [volume |-> IF v = None THEN running.volume ELSE v,
                               profile |-> p],
                   volume |-> v # None]
  <2>1. running.volume \in Volume
    BY DEF WritersTypeOK, Config
  <2>2. c.config \in Config
    BY <2>1 DEF Config
  <2>3. (v # None) \in BOOLEAN
    OBVIOUS
  <2>4. c \in Call
    BY <2>2, <2>3 DEF Call
  <2>5. provision' = [provision EXCEPT ![ch] = c]
    BY <1>1 DEF GetConfig
  <2> HIDE DEF c
  <2> QED
    BY <2>4, <2>5 DEF WritersTypeOK
<1>2. ASSUME NEW ch \in Channel, TellVolume(ch) \/ CommitConfig(ch)
      PROVE  provision' \in [Channel -> Call]
  <2> PICK pc \in {"ready", "commit"} : provision' = [provision EXCEPT ![ch].pc = pc]
    BY <1>2 DEF TellVolume, CommitConfig
  <2> [provision[ch] EXCEPT !.pc = pc] \in Call
    BY DEF WritersTypeOK, Call
  <2> QED
    BY DEF WritersTypeOK
<1>3. NoCall \in Call
  BY WritersAssumption DEF NoCall, Call
<1>4. ASSUME NEW ch \in Channel, ConfigSaved(ch) \/ ConfigNotSaved(ch)
      PROVE  provision' \in [Channel -> Call]
  BY <1>3, <1>4 DEF ConfigSaved, ConfigNotSaved, WritersTypeOK
<1>5. CASE Restart
  BY <1>3, <1>5 DEF Restart
<1> QED
  BY <1>1, <1>2, <1>4, <1>5, StepCases
  DEF VolumeKey, VolumeDone, SlotWritten, FileOverSlot, SetMode, ModeSaved,
      ModeNotSaved, WritersTypeOK

LEMMA TypeStep ==
  ASSUME WritersTypeOK, WritersNext
  PROVE  WritersTypeOK'
<1>1. copy' \in Config
  <2>1. ASSUME NEW up \in BOOLEAN, VolumeKey(up) PROVE copy' \in Config
    <3> copy.volume \in Volume
      BY DEF WritersTypeOK, Config
    <3> Stepped(up, copy.volume) \in Volume
      BY SteppedInRange
    <3> QED
      BY <2>1 DEF VolumeKey, WritersTypeOK, Config
  <2>2. CASE Restart
    BY <2>2, WritersAssumption DEF Restart, WritersTypeOK, Config
  <2> QED
    BY <2>1, <2>2, StepCases
    DEF VolumeDone, SlotWritten, FileOverSlot, GetConfig, TellVolume, CommitConfig,
        ConfigSaved,
        ConfigNotSaved, SetMode, ModeSaved, ModeNotSaved, WritersTypeOK
<1>2. audio' \in Volume
  <2>1. copy.volume \in Volume /\ stored.volume \in Volume
    BY DEF WritersTypeOK, Config
  <2>2. \A ch \in Channel : provision[ch].config.volume \in Volume
    BY DEF WritersTypeOK, Call, Config
  <2> QED
    BY <2>1, <2>2, StepCases
    DEF VolumeKey, VolumeDone, SlotWritten, FileOverSlot, GetConfig, TellVolume,
        TellAudio,
        CommitConfig, ConfigSaved, ConfigNotSaved, SetMode, ModeSaved, ModeNotSaved,
        Restart, WritersTypeOK
<1>3. mode' \in Mode /\ modeFile' \in Mode \cup {None} /\ saving' \in Mode \cup {None}
  <2>1. CASE Restart
    BY <2>1 DEF Restart, BootMode, Mode, WritersTypeOK
  <2>2. ASSUME NEW m \in Mode, SetMode(m)
        PROVE  mode' \in Mode /\ modeFile' \in Mode \cup {None} /\ saving' \in Mode \cup {None}
    BY <2>2 DEF SetMode, WritersTypeOK
  <2>3. CASE ModeSaved \/ ModeNotSaved
    BY <2>3 DEF ModeSaved, ModeNotSaved, WritersTypeOK
  <2> QED
    BY <2>1, <2>2, <2>3, StepCases
    DEF VolumeKey, VolumeDone, SlotWritten, FileOverSlot, GetConfig, TellVolume,
        CommitConfig,
        ConfigSaved, ConfigNotSaved, modeVars, WritersTypeOK
<1>4. saved' \in Profile \cup {None}
  <2> \A ch \in Channel : provision[ch].config.profile \in Profile
    BY DEF WritersTypeOK, Call, Config
  <2> QED
    BY StepCases
    DEF VolumeKey, VolumeDone, SlotWritten, FileOverSlot, GetConfig, TellVolume,
        CommitConfig,
        ConfigSaved, ConfigNotSaved, SetMode, ModeSaved, ModeNotSaved, Restart,
        history, WritersTypeOK
<1>5. pressing' \in BOOLEAN
  BY StepCases
  DEF VolumeKey, VolumeDone, SlotWritten, FileOverSlot, GetConfig, TellVolume,
      CommitConfig,
      ConfigSaved, ConfigNotSaved, SetMode, ModeSaved, ModeNotSaved, Restart,
      WritersTypeOK
<1>6. lost' \in BOOLEAN
  BY StepCases
  DEF VolumeKey, VolumeDone, SlotWritten, FileOverSlot, GetConfig, TellVolume,
      CommitConfig,
      ConfigSaved, ConfigNotSaved, SetMode, ModeSaved, ModeNotSaved, Restart, history,
      WritersTypeOK
<1>7. mixed' \in BOOLEAN
  <2>1. Begin => mixed' \in BOOLEAN
    BY DEF Begin, Busy
  <2> QED
    BY <2>1, StepCases
    DEF VolumeKey, VolumeDone, SlotWritten, FileOverSlot, GetConfig, TellVolume,
        CommitConfig,
        ConfigSaved, ConfigNotSaved, SetMode, ModeSaved, ModeNotSaved, Restart, history,
        WritersTypeOK
<1>8. rift' \in BOOLEAN
  BY StepCases
  DEF VolumeKey, VolumeDone, SlotWritten, FileOverSlot, GetConfig, TellVolume,
      CommitConfig,
      ConfigSaved, ConfigNotSaved, SetMode, ModeSaved, ModeNotSaved, Restart, Begin,
      TellAudio,
      WritersTypeOK
<1>9. sealed' \in BOOLEAN
  <2>1. ModeSaved => sealed' \in BOOLEAN
    BY DEF ModeSaved
  <2> QED
    BY <2>1, StepCases
    DEF VolumeKey, VolumeDone, SlotWritten, FileOverSlot, GetConfig, TellVolume,
        CommitConfig,
        ConfigSaved, ConfigNotSaved, SetMode, ModeNotSaved, Restart, modeVars,
        WritersTypeOK
<1>10. smsOn' \in BOOLEAN
  <2>1. Restart => smsOn' \in BOOLEAN
    BY DEF Restart
  <2> QED
    BY <2>1, StepCases
    DEF VolumeKey, VolumeDone, SlotWritten, FileOverSlot, GetConfig, TellVolume,
        CommitConfig,
        ConfigSaved, ConfigNotSaved, SetMode, ModeSaved, ModeNotSaved, WritersTypeOK
<1>11. replaced' \in BOOLEAN
  BY StepCases
  DEF VolumeKey, VolumeDone, SlotWritten, FileOverSlot, GetConfig, TellVolume,
      CommitConfig,
      ConfigSaved, ConfigNotSaved, SetMode, ModeSaved, ModeNotSaved, Restart, Request,
      TakeEffect, Succeed, Fail, cellVars, WritersTypeOK
<1> QED
  BY <1>1, <1>2, <1>3, <1>4, <1>5, <1>6, <1>7, <1>8, <1>9, <1>10, <1>11,
     CellTypes, CallTypes DEF WritersTypeOK

(* The command a set_config begins with.                                   *)
LEMMA GetConfigMoves ==
  ASSUME WritersTypeOK, NEW ch \in Channel,
         NEW p \in Profile, NEW v \in Volume \cup {None}, GetConfig(ch, p, v)
  PROVE  /\ provision'[ch].pc = IF v = None THEN "ready" ELSE "volume"
         /\ provision'[ch].config =
              [volume |-> IF v = None THEN running.volume ELSE v, profile |-> p]
         /\ provision'[ch].volume <=> v # None
         /\ \A d \in Channel \ {ch} : provision'[d] = provision[d]
<1> DEFINE c == [pc |-> IF v = None THEN "ready" ELSE "volume",
                 config |-> [volume |-> IF v = None THEN running.volume ELSE v,
                             profile |-> p],
                 volume |-> v # None]
<1>1. provision' = [provision EXCEPT ![ch] = c]
  BY DEF GetConfig
<1>2. c.volume <=> v # None
  OBVIOUS
<1>3. /\ c.pc = IF v = None THEN "ready" ELSE "volume"
      /\ c.config = [volume |-> IF v = None THEN running.volume ELSE v, profile |-> p]
  OBVIOUS
<1> HIDE DEF c
<1>4. provision'[ch] = c /\ \A d \in Channel \ {ch} : provision'[d] = provision[d]
  BY <1>1 DEF WritersTypeOK
<1> QED
  BY <1>2, <1>3, <1>4

LEMMA CommitStep ==
  ASSUME WritersTypeOK, OneCommit, WritersNext
  PROVE  OneCommit'
<1> USE WritersAssumption
<1>1. ASSUME NEW up \in BOOLEAN, VolumeKey(up)
      PROVE  OneCommit'
  <2>1. request = None /\ \A ch \in Channel : ~Committing(ch)
    BY <1>1 DEF VolumeKey, Request, Cell!Request, OneCommit, WritersTypeOK, Call
  <2> QED
    BY <1>1, <2>1 DEF VolumeKey, Request, Cell!Request, OneCommit, Committing, Channel
<1>2. CASE VolumeDone
  BY <1>2 DEF VolumeDone, Succeed, Cell!Succeed, Fail, Cell!Fail, OneCommit,
              Committing, Channel
<1>3. CASE SlotWritten
  BY <1>3 DEF SlotWritten, TakeEffect, Cell!TakeEffect, OneCommit, Committing, Channel
<1>4. ASSUME NEW ch \in Channel, NEW p \in Profile, NEW v \in Volume \cup {None},
             GetConfig(ch, p, v)
      PROVE  OneCommit'
  BY <1>4, GetConfigMoves DEF GetConfig, cellVars, OneCommit, Committing, Channel
<1>5. ASSUME NEW ch \in Channel, TellVolume(ch)
      PROVE  OneCommit'
  BY <1>5 DEF TellVolume, cellVars, OneCommit, Committing, Channel, WritersTypeOK
<1>6. ASSUME NEW ch \in Channel, CommitConfig(ch)
      PROVE  OneCommit'
  BY <1>6 DEF CommitConfig, Request, Cell!Request, OneCommit, Committing, Channel,
              WritersTypeOK, Call
<1>7. ASSUME NEW ch \in Channel, ConfigSaved(ch) \/ ConfigNotSaved(ch)
      PROVE  OneCommit'
  BY <1>7 DEF ConfigSaved, ConfigNotSaved, Succeed, Cell!Succeed, Fail, Cell!Fail,
              NoCall, OneCommit,
              Committing, Channel, WritersTypeOK
<1>8. CASE Restart
  BY <1>8 DEF Restart, Cell!Restart, NoCall, OneCommit, Committing, Channel
<1>9. CASE FileOverSlot
  BY <1>9 DEF FileOverSlot, OneCommit, Committing
<1> QED
  BY <1>1, <1>2, <1>3, <1>4, <1>5, <1>6, <1>7, <1>8, <1>9, StepCases
  DEF SetMode, ModeSaved, ModeNotSaved, cellVars, OneCommit, Committing

LEMMA LockStep ==
  ASSUME WritersTypeOK, Locked, WritersNext
  PROVE  Locked'
<1> USE WritersAssumption DEF Locked, LockIsFinal
<1>1. ASSUME NEW m \in Mode, SetMode(m)
      PROVE  Locked'
  BY <1>1 DEF SetMode, FactoryAccess
<1>2. CASE ModeSaved
  BY <1>2 DEF ModeSaved
<1>3. CASE ModeNotSaved
  BY <1>3 DEF ModeNotSaved
<1>4. CASE Restart
  BY <1>4 DEF Restart, BootMode, Mode
<1>5. (UNCHANGED modeVars) => Locked'
  BY DEF modeVars
<1> QED
  BY <1>1, <1>2, <1>3, <1>4, <1>5, StepCases
  DEF VolumeKey, VolumeDone, SlotWritten, FileOverSlot, GetConfig, TellVolume,
      CommitConfig,
      ConfigSaved, ConfigNotSaved

(* A writer that begins makes two of them, or is alone.                    *)
LEMMA GetConfigAlone ==
  ASSUME WritersTypeOK, NEW ch \in Channel,
         NEW p \in Profile, NEW v \in Volume \cup {None}, GetConfig(ch, p, v)
  PROVE  (mixed' /\ rift') \/ Alone'
<1>1. CASE Busy
  BY <1>1 DEF GetConfig, Begin
<1>2. CASE ~Busy
  <2>1. ~pressing' /\ \A d \in Channel : ~InHand(d)
    BY <1>2 DEF GetConfig, Busy
  <2>2. \A d \in Channel \ {ch} : ~InHand(d)'
    BY <2>1, GetConfigMoves DEF InHand
  <2> QED
    BY <2>1, <2>2 DEF Alone, Channel
<1> QED
  BY <1>1, <1>2

LEMMA AloneStep ==
  ASSUME WritersTypeOK, WritersNext
  PROVE  (Alone => Alone') \/ (mixed' /\ rift')
<1>1. ASSUME NEW up \in BOOLEAN, VolumeKey(up)
      PROVE  (Alone => Alone') \/ (mixed' /\ rift')
  BY <1>1 DEF VolumeKey, Begin, Busy, Alone, InHand, Channel
<1>2. CASE VolumeDone
  BY <1>2 DEF VolumeDone, Alone, InHand, Channel
<1>3. CASE SlotWritten \/ FileOverSlot
  BY <1>3 DEF SlotWritten, FileOverSlot, Alone, InHand
<1>4. ASSUME NEW ch \in Channel, NEW p \in Profile, NEW v \in Volume \cup {None},
             GetConfig(ch, p, v)
      PROVE  (Alone => Alone') \/ (mixed' /\ rift')
  BY <1>4, GetConfigAlone
<1>5. ASSUME NEW ch \in Channel, TellVolume(ch) \/ CommitConfig(ch)
      PROVE  Alone => Alone'
  BY <1>5 DEF TellVolume, CommitConfig, Alone, InHand, Channel, WritersTypeOK
<1>6. ASSUME NEW ch \in Channel, ConfigSaved(ch) \/ ConfigNotSaved(ch)
      PROVE  Alone => Alone'
  BY <1>6 DEF ConfigSaved, ConfigNotSaved, NoCall, Alone, InHand, Channel, WritersTypeOK
<1>7. CASE Restart
  BY <1>7 DEF Restart, NoCall, Alone, InHand, Channel
<1> QED
  BY <1>1, <1>2, <1>3, <1>4, <1>5, <1>6, <1>7, StepCases
  DEF SetMode, ModeSaved, ModeNotSaved, Alone, InHand

(* An upload is remembered until the next boot.                            *)
LEMMA UploadsStep ==
  ASSUME Uploads, WritersNext
  PROVE  Uploads'
<1>1. ASSUME NEW ch \in Channel, ConfigSaved(ch) PROVE Uploads'
  BY <1>1 DEF ConfigSaved, Succeed, Uploads
<1>2. CASE Restart
  BY <1>2 DEF Restart, Uploads
<1>3. CASE FileOverSlot
  BY <1>3 DEF FileOverSlot, Uploads
<1> QED
  BY <1>1, <1>2, <1>3, StepCases
  DEF VolumeKey, VolumeDone, SlotWritten, GetConfig, TellVolume, CommitConfig,
      ConfigNotSaved, SetMode, ModeSaved, ModeNotSaved, Begin, TellAudio, Request,
      TakeEffect, Succeed, Fail, cellVars, history, Uploads

LEMMA SavedStep ==
  ASSUME WritersTypeOK, OneCommit, Uploads, SavedProfile, WritersNext
  PROVE  SavedProfile'
<1> USE WritersAssumption
<1> DEFINE SavedAgrees == saved # None /\ ~lost => /\ Same(running.profile, saved)
                                                   /\ pressing => Same(copy.profile, saved)
<1>1. ~mixed' => Alone'
  <2>1. ASSUME UNCHANGED mixed PROVE ~mixed' => Alone'
    BY <2>1, AloneStep DEF SavedProfile
  <2>2. ASSUME NEW up \in BOOLEAN, VolumeKey(up) PROVE ~mixed' => Alone'
    BY <2>2 DEF VolumeKey, Begin, Busy, Alone, InHand, Channel
  <2>3. ASSUME NEW ch \in Channel, NEW p \in Profile, NEW v \in Volume \cup {None},
               GetConfig(ch, p, v)
        PROVE  ~mixed' => Alone'
    BY <2>3, GetConfigAlone
  <2>4. CASE Restart
    BY <2>4 DEF Restart, NoCall, Alone, InHand, Channel
  <2> QED
    BY <2>1, <2>2, <2>3, <2>4, StepCases
    DEF VolumeDone, SlotWritten, FileOverSlot, TellVolume, CommitConfig, ConfigSaved,
        ConfigNotSaved,
        SetMode, ModeSaved, ModeNotSaved, history
<1>2. SavedAgrees'
  <2>1. ASSUME NEW up \in BOOLEAN, VolumeKey(up) PROVE SavedAgrees'
    <3>1. copy'.profile = copy.profile
      BY <2>1 DEF VolumeKey, WritersTypeOK, Config
    <3> QED
      BY <2>1, <3>1 DEF VolumeKey, Request, Cell!Request, CopyIsStale, SavedProfile,
                        Same
  <2>2. CASE VolumeDone
    BY <2>2 DEF VolumeDone, Succeed, Cell!Succeed, Fail, Cell!Fail, history,
                OneCommit, SavedProfile, Same
  <2>3. CASE SlotWritten
    BY <2>3 DEF SlotWritten, TakeEffect, Cell!TakeEffect, history, SavedProfile, Same
  <2>4. ASSUME NEW ch \in Channel, NEW p \in Profile, NEW v \in Volume \cup {None},
               GetConfig(ch, p, v)
        PROVE  SavedAgrees'
    BY <2>4 DEF GetConfig, cellVars, SavedProfile, Same
  <2>5. ASSUME NEW ch \in Channel, TellVolume(ch) PROVE SavedAgrees'
    BY <2>5 DEF TellVolume, cellVars, history, SavedProfile, Same
  <2>6. ASSUME NEW ch \in Channel, CommitConfig(ch) PROVE SavedAgrees'
    BY <2>6 DEF CommitConfig, Request, Cell!Request, history, SavedProfile, Same
  <2>7. ASSUME NEW ch \in Channel, ConfigSaved(ch) PROVE SavedAgrees'
    <3>1. lost' \/ ~pressing
      BY <2>7 DEF ConfigSaved, SavedProfile, Alone, InHand
    <3> QED
      BY <2>7, <3>1 DEF ConfigSaved, Succeed, Cell!Succeed, OneCommit, Committing, Same
  <2>8. ASSUME NEW ch \in Channel, ConfigNotSaved(ch) PROVE SavedAgrees'
    BY <2>8 DEF ConfigNotSaved, Fail, Cell!Fail, history, SavedProfile, Same
  <2>9. CASE Restart
    <3>1. saved' # None => /\ saved' = saved /\ ~lost
                           /\ \A ch \in Channel : ~InHand(ch)
      BY <2>9 DEF Restart
    <3>2. saved' # None => Same(stored.profile, saved)
      BY <3>1 DEF OneCommit, Committing, InHand, SavedProfile, Uploads
    <3> QED
      BY <2>9, <3>1, <3>2 DEF Restart, Cell!Restart, Same
  <2>10. CASE FileOverSlot
    BY <2>10 DEF FileOverSlot
  <2> QED
    BY <2>1, <2>2, <2>3, <2>4, <2>5, <2>6, <2>7, <2>8, <2>9, <2>10, StepCases
    DEF SetMode, ModeSaved, ModeNotSaved, cellVars, history, SavedProfile, Same
<1> QED
  BY <1>1, <1>2 DEF SavedProfile

LEMMA VolumesStep ==
  ASSUME WritersTypeOK, OneCommit, Volumes, WritersNext
  PROVE  Volumes'
<1> USE WritersAssumption
<1> SUFFICES ASSUME ~rift' PROVE Volumes'
  BY DEF Volumes
<1>1. ASSUME NEW up \in BOOLEAN, VolumeKey(up) PROVE Volumes'
  <2>1. ~Busy /\ ~rift
    BY <1>1 DEF VolumeKey, Begin
  <2>2. audio = running.volume
    BY <2>1 DEF Volumes
  <2>3. \A ch \in Channel : ~InHand(ch)'
    BY <1>1, <2>1 DEF VolumeKey, Busy, InHand
  <2>4. audio' = running'.volume /\ pressing'
    BY <1>1, <2>2 DEF VolumeKey, Request, Cell!Request
  <2> QED
    BY <2>3, <2>4 DEF Volumes, Alone, Busy, Channel
<1>2. CASE VolumeDone
  <2>1. ~rift /\ \A ch \in Channel : ~InHand(ch) /\ ~InHand(ch)'
    BY <1>2 DEF VolumeDone, TellAudio, Volumes, Alone, InHand
  <2>2. audio = running.volume /\ request = copy
    BY <1>2, <2>1 DEF VolumeDone, Volumes, OneCommit
  <2>3. audio' = running'.volume /\ ~pressing'
    BY <1>2, <2>2 DEF VolumeDone, Succeed, Cell!Succeed, Fail, Cell!Fail, TellAudio
  <2> QED
    BY <2>1, <2>3 DEF Volumes, Alone, Busy, Channel
<1>3. CASE SlotWritten
  BY <1>3 DEF SlotWritten, TakeEffect, Cell!TakeEffect, history, Volumes, Alone, Busy,
              InHand, VolumeOf
<1>4. ASSUME NEW ch \in Channel, NEW p \in Profile, NEW v \in Volume \cup {None},
             GetConfig(ch, p, v)
      PROVE  Volumes'
  <2>0. provision'[ch].volume <=> v # None
    BY <1>4, GetConfigMoves
  <2>1. ~Busy /\ ~rift
    BY <1>4 DEF GetConfig, Begin
  <2>2. audio' = running'.volume /\ running' = running /\ ~pressing'
    BY <1>4, <2>1 DEF GetConfig, cellVars, Volumes, Busy
  <2>3. VolumeOf(ch)' /\ InHand(ch)'
    <3>1. CASE v = None
      <4>1. ~provision'[ch].volume
        BY <3>1, <2>0
      <4>2. provision'[ch].pc = "ready"
        BY <3>1, <1>4, GetConfigMoves
      <4>3. provision'[ch].config = [volume |-> running.volume, profile |-> p]
        BY <3>1, <1>4, GetConfigMoves
      <4>4. provision'[ch].config.volume = running'.volume
        BY <4>3, <2>2
      <4> QED
        BY <4>1, <4>2, <4>4, <2>2 DEF VolumeOf, InHand
    <3>2. CASE v # None
      <4>1. provision'[ch].volume
        BY <3>2, <2>0
      <4>2. provision'[ch].pc = "volume"
        BY <3>2, <1>4, GetConfigMoves
      <4> QED
        BY <4>1, <4>2, <2>2 DEF VolumeOf, InHand
    <3> QED
      BY <3>1, <3>2
  <2>4. \A d \in Channel \ {ch} : ~InHand(d)'
    BY <2>1, GetConfigMoves, <1>4 DEF Busy, InHand
  <2> QED
    BY <2>2, <2>3, <2>4 DEF Volumes, Alone, Busy, Channel
<1>5. ASSUME NEW ch \in Channel, TellVolume(ch) PROVE Volumes'
  <2>1. ~rift /\ InHand(ch) /\ provision[ch].volume
    BY <1>5 DEF TellVolume, TellAudio, Volumes, InHand, VolumeOf
  <2>2. ~pressing /\ \A d \in Channel \ {ch} : ~InHand(d)
    BY <2>1 DEF Volumes, Alone, Channel
  <2>3. /\ provision'[ch].pc = "ready" /\ provision'[ch].volume
        /\ audio' = provision'[ch].config.volume
        /\ \A d \in Channel \ {ch} : provision'[d] = provision[d]
    BY <1>5, <2>1 DEF TellVolume, TellAudio, WritersTypeOK, Call
  <2> QED
    BY <1>5, <2>2, <2>3 DEF TellVolume, Volumes, Alone, Busy, InHand, VolumeOf, Channel
<1>6. ASSUME NEW ch \in Channel, CommitConfig(ch) PROVE Volumes'
  <2>1. ~rift /\ InHand(ch) /\ VolumeOf(ch) /\ provision[ch].pc = "ready"
    BY <1>6 DEF CommitConfig, Volumes, InHand
  <2>2. ~pressing /\ \A d \in Channel \ {ch} : ~InHand(d)
    BY <2>1 DEF Volumes, Alone, Channel
  <2>3. /\ provision'[ch].pc = "commit"
        /\ provision'[ch].volume = provision[ch].volume
        /\ provision'[ch].config = provision[ch].config
        /\ \A d \in Channel \ {ch} : provision'[d] = provision[d]
    BY <1>6 DEF CommitConfig, WritersTypeOK, Call
  <2> QED
    BY <1>6, <2>1, <2>2, <2>3
    DEF CommitConfig, Request, Cell!Request, Volumes, Alone, Busy, InHand, VolumeOf,
        Channel
<1>7. ASSUME NEW ch \in Channel, ConfigSaved(ch) \/ ConfigNotSaved(ch) PROVE Volumes'
  <2>0. ~rift /\ (ConfigSaved(ch) \/ ~provision[ch].volume)
    <3>1. ConfigSaved(ch) => ~rift
      BY DEF ConfigSaved
    <3>2. ConfigNotSaved(ch) => ~rift /\ ~provision[ch].volume
      BY DEF ConfigNotSaved
    <3> QED
      BY <1>7, <3>1, <3>2
  <2>1. InHand(ch) /\ VolumeOf(ch) /\ provision[ch].pc = "commit"
    BY <1>7, <2>0 DEF ConfigSaved, ConfigNotSaved, Volumes, InHand
  <2>2. ~pressing /\ \A d \in Channel \ {ch} : ~InHand(d)
    BY <2>0, <2>1 DEF Volumes, Alone, Channel
  <2>3. \A d \in Channel : ~InHand(d)'
    BY <1>7, <2>2 DEF ConfigSaved, ConfigNotSaved, NoCall, InHand, WritersTypeOK
  <2>4. request = provision[ch].config
    BY <2>1 DEF OneCommit, Committing
  <2>5. CASE ConfigSaved(ch)
    <3>1. audio = provision[ch].config.volume
      BY <2>1 DEF VolumeOf
    <3> QED
      BY <2>5, <2>2, <2>3, <2>4, <3>1
      DEF ConfigSaved, Succeed, Cell!Succeed, Volumes, Alone, Busy, Channel
  <2>6. CASE ConfigNotSaved(ch)
    <3>1. audio = running.volume
      BY <2>0, <2>1, <2>6 DEF VolumeOf, ConfigNotSaved, ConfigSaved, Succeed,
                              Cell!Succeed, Fail, Cell!Fail
    <3> QED
      BY <2>6, <2>2, <2>3, <3>1
      DEF ConfigNotSaved, Fail, Cell!Fail, Volumes, Alone, Busy, Channel
  <2> QED
    BY <1>7, <2>5, <2>6
<1>8. CASE Restart
  BY <1>8 DEF Restart, Cell!Restart, NoCall, Volumes, Alone, Busy, InHand, Channel
<1>9. CASE FileOverSlot
  BY <1>9 DEF FileOverSlot
<1> QED
  BY <1>1, <1>2, <1>3, <1>4, <1>5, <1>6, <1>7, <1>8, <1>9, StepCases
  DEF SetMode, ModeSaved, ModeNotSaved, cellVars, Volumes, Alone, Busy, InHand, VolumeOf

----------------------------------------------------------------------------

THEOREM WritersInvariant == WritersSpec => []WritersInv
<1>1. WritersInv /\ [WritersNext]_writersVars => WritersInv'
  <2> SUFFICES ASSUME WritersInv, [WritersNext]_writersVars PROVE WritersInv'
    OBVIOUS
  <2>1. CASE WritersNext
    BY <2>1, TypeStep, CommitStep, VolumesStep, SavedStep, UploadsStep,
    LockStep DEF WritersInv
  <2>2. CASE UNCHANGED writersVars
    BY <2>2
    DEF writersVars, WritersInv, WritersTypeOK, OneCommit, Committing, Volumes,
        VolumeOf,
        SavedProfile, Alone, Busy, InHand, Same, Uploads, Locked, LockIsFinal
  <2> QED
    BY <2>1, <2>2
<1> QED
  BY InitInv, <1>1, PTL DEF WritersSpec

(* The volume heard is the volume stored, but for the exceptions named.    *)
THEOREM OneVolume == WritersSpec => []VolumesAgree
<1>1. WritersInv => VolumesAgree
  BY DEF WritersInv, Volumes, OneCommit, Uploads, Busy, InHand, Committing, VolumesAgree
<1> QED
  BY <1>1, WritersInvariant, PTL

(* What was reported as saved stays stored.                                *)
THEOREM SavedStays == WritersSpec => []SavedIsKept
<1>1. WritersInv => SavedIsKept
  BY DEF WritersInv, SavedProfile, OneCommit, Uploads, InHand, Committing, Same,
         SavedIsKept
<1> QED
  BY <1>1, WritersInvariant, PTL

(* A locked device stays locked.                                           *)
THEOREM LockStays == WritersSpec => []LockIsFinal
<1>1. WritersInv => LockIsFinal
  BY DEF WritersInv, Locked
<1> QED
  BY <1>1, WritersInvariant, PTL

(* Nothing but an upload over a slot changes the configuration of a locked *)
(* device, and that from the next boot only.                               *)
THEOREM LockedStaysFixed == WritersSpec => LockedIsFixed
<1> USE WritersAssumption
<1> DEFINE Fixed == /\ Settled'
                    /\ replaced' \/ Same(stored.profile, stored'.profile)
                    /\ \/ Same(running.profile, running'.profile)
                       \/ replaced /\ ~replaced'
<1>1. WritersInv /\ WritersInv' /\ [WritersNext]_writersVars => [Settled => Fixed]_writersVars
  <2> SUFFICES ASSUME WritersInv, WritersInv', WritersNext, Settled
               PROVE  Fixed
    OBVIOUS
  <2>1. sealed /\ mode = "production" /\ saving = None
    BY DEF WritersInv, Locked, LockIsFinal, Settled
  <2>2. /\ request = None \/ (pressing /\ request = copy)
        /\ replaced \/ stored = running \/ stored = request
    BY DEF WritersInv, OneCommit, Committing, InHand, Settled
  <2>3. ASSUME NEW up \in BOOLEAN, VolumeKey(up)
        PROVE  Fixed
    <3> copy'.profile = copy.profile
      BY <2>3 DEF VolumeKey, WritersInv, WritersTypeOK, Config
    <3> QED
      BY <2>3 DEF VolumeKey, Request, Cell!Request, modeVars, Settled, InHand, Same
  <2>4. CASE VolumeDone
    BY <2>2, <2>4
    DEF VolumeDone, Succeed, Cell!Succeed, Fail, Cell!Fail, modeVars, Settled, InHand,
        Same
  <2>5. CASE SlotWritten
    BY <2>2, <2>5
    DEF SlotWritten, TakeEffect, Cell!TakeEffect, modeVars, Settled, InHand, Same
  <2>6. CASE FileOverSlot
    BY <2>6 DEF FileOverSlot, modeVars, Settled, InHand, Same
  <2>7. CASE Restart
    BY <2>7 DEF Restart, Cell!Restart, NoCall, Settled, InHand, Same, WritersInv,
                WritersTypeOK, Config
  <2> QED
    BY <2>1, <2>3, <2>4, <2>5, <2>6, <2>7, StepCases
    DEF GetConfig, TellVolume, CommitConfig, ConfigSaved, ConfigNotSaved, SetMode,
        ModeSaved, ModeNotSaved, FactoryAccess, Settled, InHand
<1> QED
  BY <1>1, WritersInvariant, PTL DEF WritersSpec, LockedIsFixed

----------------------------------------------------------------------------
(* The upload of a file *)

(* A line that the device has not handled.                                 *)
Command == [step : 0 .. End, state : {"whole", "changed", "garbled"}]

(* What is known of the open file.                                         *)
UploadState == [active : BOOLEAN, received : 0 .. Chunks, size : 0 .. Chunks,
                crc : {"sent", "other", "none"}]

UploadTypeOK ==
  /\ host \in [pc : {"idle", "wait", "done", "failed"}, step : 0 .. End]
  /\ line \in Seq(Command) /\ replies \in Seq(BOOLEAN)
  /\ upload \in UploadState
  /\ disk \in {Absent, Carried} \cup Seq(BOOLEAN)
  /\ durable \in Nat
  /\ confirmed \in {"no", "yes", "sized", "undone"}
  /\ crcZero \in BOOLEAN /\ shifted \in BOOLEAN /\ trouble \in BOOLEAN

(* An open file has the chunks that are counted; what a power cut cannot   *)
(* take is there.                                                          *)
FileIsCounted ==
  /\ disk \in Seq(BOOLEAN) => durable <= Len(disk)
  /\ upload.active => disk \in Seq(BOOLEAN) /\ Len(disk) = upload.received

(* A run that found the line empty has one command on its way, or what was *)
(* replied to it; an "ok" to file_end is one to a confirmed file.          *)
OneAtATime ==
  ~shifted =>
    /\ host.pc = "wait" =>
         \/ /\ Len(line) = 1 /\ Head(line).step = host.step /\ replies = <<>>
         \/ /\ line = <<>> /\ Len(replies) <= 1
            /\ host.step = End /\ replies = <<TRUE>> => confirmed # "no"
    /\ host.pc = "done" => line = <<>> /\ confirmed # "no"

(* The device has an open file of the first n chunks.                      *)
HasWhole(n) == /\ upload.active /\ upload.received = n
               /\ upload.size = Chunks /\ upload.crc = SentCrc
               /\ disk = [i \in 1 .. n |-> TRUE]

(* As long as nothing goes wrong the device has what the host has sent.    *)
InStep ==
  ~trouble =>
    /\ ~shifted
    /\ host.pc = "wait" =>
         \/ /\ Len(line) = 1 /\ replies = <<>>
            /\ Head(line) = [step |-> host.step, state |-> "whole"]
            /\ host.step > 0 => HasWhole(host.step - 1)
         \/ /\ line = <<>> /\ replies = <<TRUE>>
            /\ host.step < End => HasWhole(host.step)

UploadInv == /\ UploadTypeOK /\ FileIsCounted /\ ConfirmedIsKept
             /\ OneAtATime /\ InStep /\ FailureHasReason

----------------------------------------------------------------------------

LEMMA OnlyElement ==
  ASSUME NEW S, NEW s \in Seq(S), s # <<>>, Len(s) <= 1
  PROVE  Len(s) = 1 /\ s = <<Head(s)>> /\ Head(s) \in S /\ Tail(s) = <<>>
<1>1. Len(s) = 1 /\ Head(s) = s[1] /\ s[1] \in S
  OBVIOUS
<1>2. Tail(s) \in Seq(S) /\ Len(Tail(s)) = 0
  BY <1>1
<1>3. s = <<s[1]>>
  BY <1>1
<1>4. Tail(s) = <<>>
  BY <1>2
<1> QED
  BY <1>1, <1>3, <1>4

LEMMA TailType ==
  ASSUME NEW S, NEW s \in Seq(S), s # <<>>
  PROVE  Tail(s) \in Seq(S)
OBVIOUS

LEMMA FirstElement ==
  ASSUME NEW S, NEW c \in S
  PROVE  /\ Append(<<>>, c) = <<c>> /\ Append(<<>>, c) # <<>>
         /\ Len(Append(<<>>, c)) = 1 /\ Head(Append(<<>>, c)) = c
OBVIOUS

LEMMA ArrivesKeepsType ==
  ASSUME UploadTypeOK, NEW step \in 0 .. End, NEW spoilt \in BOOLEAN,
         Arrives(step, spoilt)
  PROVE  /\ line' \in Seq(Command) /\ trouble' \in BOOLEAN
         /\ ~trouble' => /\ ~spoilt
                         /\ line' = Append(line, [step |-> step, state |-> "whole"])
         /\ line' = line
              \/ \E c \in Command : c.step = step /\ line' = Append(line, c)
<1>1. CASE UNCHANGED line /\ trouble' = TRUE
  BY <1>1 DEF UploadTypeOK
<1>2. ASSUME NEW s \in {"whole", "changed", "garbled"},
             line' = Append(line, [step |-> step, state |-> s]),
             trouble' = (spoilt \/ s # "whole")
      PROVE  /\ line' \in Seq(Command) /\ trouble' \in BOOLEAN
             /\ ~trouble' => /\ ~spoilt
                             /\ line' = Append(line, [step |-> step, state |-> "whole"])
             /\ line' = line
                  \/ \E c \in Command : c.step = step /\ line' = Append(line, c)
  <2> DEFINE c == [step |-> step, state |-> s]
  <2>1. c \in Command /\ c.step = step
    BY DEF Command
  <2>2. line' = Append(line, c) /\ line \in Seq(Command)
    BY <1>2 DEF UploadTypeOK
  <2>3. line' \in Seq(Command)
    BY <2>1, <2>2
  <2>4. trouble' \in BOOLEAN
    BY <1>2
  <2>5. ~trouble' => ~spoilt /\ s = "whole"
    BY <1>2
  <2> QED
    BY <1>2, <2>1, <2>2, <2>3, <2>4, <2>5
<1> QED
  BY <1>1, <1>2 DEF Arrives

(* The reply to a command when none is waiting.                            *)
LEMMA ReplyKeepsType ==
  ASSUME UploadTypeOK, NEW ok \in BOOLEAN, NEW fault \in BOOLEAN, Reply(ok, fault)
  PROVE  /\ replies' \in Seq(BOOLEAN) /\ trouble' \in BOOLEAN
         /\ ~trouble' => ~trouble /\ ~fault
         /\ replies = <<>> => /\ Len(replies') <= 1
                              /\ replies' = <<TRUE>> => ok
                              /\ ~trouble' => replies' = <<ok>>
<1> PICK r \in {<<ok>>, <<FALSE>>, <<>>} :
           replies' = replies \o r /\ trouble' = (trouble \/ fault \/ r # <<ok>>)
  BY DEF Reply
<1>1. r \in Seq(BOOLEAN) /\ Len(r) <= 1
  <2>1. CASE r = <<ok>>
    BY <2>1
  <2>2. CASE r = <<FALSE>>
    BY <2>2
  <2>3. CASE r = <<>>
    BY <2>3
  <2> QED
    BY <2>1, <2>2, <2>3
<1>2. replies \in Seq(BOOLEAN) /\ trouble \in BOOLEAN
  BY DEF UploadTypeOK
<1>3. replies' \in Seq(BOOLEAN)
  BY <1>1, <1>2
<1>4. replies = <<>> => replies' = r
  BY <1>1, <1>2
<1>5. r = <<TRUE>> => ok
  <2>1. ASSUME NEW b \in BOOLEAN, <<b>> = <<TRUE>> PROVE b
    <3>1. <<b>>[1] = <<TRUE>>[1]
      BY <2>1
    <3> QED
      BY <3>1
  <2>2. <<>> # <<TRUE>>
    OBVIOUS
  <2> QED
    BY <2>1, <2>2
<1>6. trouble' \in BOOLEAN /\ (~trouble' => ~trouble /\ ~fault /\ r = <<ok>>)
  BY <1>2
<1> QED
  BY <1>1, <1>3, <1>4, <1>5, <1>6

LEMMA TakesKeepsType ==
  ASSUME UploadTypeOK, NEW step, Takes(step)
  PROVE  /\ line' \in Seq(Command) /\ Head(line) \in Command
         /\ Head(line).step = step /\ line # <<>>
         /\ Len(line) = 1 => line' = <<>>
BY DEF UploadTypeOK, Takes

----------------------------------------------------------------------------

LEMMA UploadInitInv == Init => UploadInv
<1> SUFFICES ASSUME Init PROVE UploadInv
  OBVIOUS
<1> USE UploadAssumption
<1>1. UploadTypeOK
  <2>1. host \in [pc : {"idle", "wait", "done", "failed"}, step : 0 .. End]
    BY DEF Init, End
  <2>2. upload \in UploadState
    BY DEF Init, Closed, UploadState
  <2>3. line \in Seq(Command) /\ replies \in Seq(BOOLEAN)
    BY DEF Init
  <2>4. /\ disk \in {Absent, Carried} \cup Seq(BOOLEAN) /\ durable \in Nat
        /\ confirmed \in {"no", "yes", "sized", "undone"}
    BY DEF Init
  <2> QED
    BY <2>1, <2>2, <2>3, <2>4 DEF Init, UploadTypeOK
<1>2. FileIsCounted /\ ConfirmedIsKept /\ OneAtATime /\ InStep /\ FailureHasReason
  BY DEF Init, FileIsCounted, ConfirmedIsKept, OneAtATime, InStep, FailureHasReason,
         Closed
<1> QED
  BY <1>1, <1>2 DEF UploadInv

(* The host's steps leave the file alone.                                  *)
LEMMA FileStays ==
  ASSUME FileIsCounted, ConfirmedIsKept, UNCHANGED <<upload, fileVars, crcZero>>
  PROVE  FileIsCounted' /\ ConfirmedIsKept'
BY DEF FileIsCounted, ConfirmedIsKept, Confirmed, Exact, fileVars

LEMMA StartKeepsInv == UploadInv /\ Start => UploadInv'
<1> SUFFICES ASSUME UploadInv, Start PROVE UploadInv'
  OBVIOUS
<1> USE UploadAssumption
<1>1. UploadTypeOK /\ FileIsCounted /\ ConfirmedIsKept
  BY DEF UploadInv
<1>2. /\ host' = [pc |-> "wait", step |-> 0] /\ shifted' = (line # <<>>) /\ replies' = <<>>
      /\ Arrives(0, line # <<>>) /\ UNCHANGED <<upload, fileVars, crcZero>>
  BY DEF Start
<1>3. 0 \in 0 .. End /\ (line # <<>>) \in BOOLEAN
  BY DEF End
<1>4. /\ line' \in Seq(Command) /\ trouble' \in BOOLEAN
      /\ ~trouble' => /\ line = <<>>
                      /\ line' = Append(line, [step |-> 0, state |-> "whole"])
      /\ line' = line \/ \E c \in Command : c.step = 0 /\ line' = Append(line, c)
  BY <1>1, <1>2, <1>3, ArrivesKeepsType
<1>5. UploadTypeOK'
  BY <1>1, <1>2, <1>3, <1>4 DEF UploadTypeOK, fileVars
<1>6. FileIsCounted' /\ ConfirmedIsKept'
  BY <1>1, <1>2, FileStays
<1>7. OneAtATime'
  <2> SUFFICES ASSUME ~shifted'
               PROVE \/ Len(line') = 1 /\ Head(line').step = 0
                     \/ line' = <<>>
    BY <1>2 DEF OneAtATime, End
  <2>1. line = <<>>
    BY <1>2
  <2>2. ASSUME NEW c \in Command, c.step = 0, line' = Append(line, c)
        PROVE Len(line') = 1 /\ Head(line').step = 0
    BY <2>1, <2>2, FirstElement
  <2> QED
    BY <1>4, <2>1, <2>2
<1>8. InStep'
  <2> SUFFICES ASSUME ~trouble'
               PROVE  /\ ~shifted' /\ Len(line') = 1
                      /\ Head(line') = [step |-> 0, state |-> "whole"]
    BY <1>2 DEF InStep
  <2> QED
    BY <1>2, <1>4
<1>9. FailureHasReason'
  BY <1>2 DEF FailureHasReason
<1> QED
  BY <1>5, <1>6, <1>7, <1>8, <1>9 DEF UploadInv

LEMMA GoOnKeepsInv == UploadInv /\ GoOn => UploadInv'
<1> SUFFICES ASSUME UploadInv, GoOn PROVE UploadInv'
  OBVIOUS
<1> USE UploadAssumption
<1>1. /\ UploadTypeOK /\ FileIsCounted /\ ConfirmedIsKept
      /\ OneAtATime /\ InStep /\ FailureHasReason
  BY DEF UploadInv
<1>2. /\ host.pc = "wait" /\ replies # <<>> /\ Head(replies) /\ replies' = Tail(replies)
      /\ UNCHANGED <<shifted, upload, fileVars, crcZero>>
  BY DEF GoOn
<1>t. /\ host \in [pc : {"idle", "wait", "done", "failed"}, step : 0 .. End]
      /\ replies \in Seq(BOOLEAN) /\ End \in Nat
  BY <1>1 DEF UploadTypeOK, End
<1>3. FileIsCounted' /\ ConfirmedIsKept'
  BY <1>1, <1>2, FileStays
<1>4. ~shifted => line = <<>> /\ Len(replies) <= 1
                  /\ (host.step = End => confirmed # "no")
  <2>1. Len(replies) <= 1 => replies = <<TRUE>>
    BY <1>2, <1>t, OnlyElement
  <2> QED
    BY <1>1, <1>2, <2>1 DEF OneAtATime
<1>5. ~shifted => replies' = <<>>
  BY <1>2, <1>4, <1>t, OnlyElement
<1>6. ~trouble => ~shifted /\ line = <<>> /\ (host.step < End => HasWhole(host.step))
  BY <1>1, <1>2 DEF InStep
<1>7. CASE host.step = End
  <2>1. host' = [host EXCEPT !.pc = "done"] /\ UNCHANGED <<line, trouble>>
    BY <1>7 DEF GoOn
  <2>2. UploadTypeOK'
    <3>1. host' \in [pc : {"idle", "wait", "done", "failed"}, step : 0 .. End]
      BY <1>2, <1>t, <2>1
    <3>2. replies' \in Seq(BOOLEAN)
      BY <1>2, <1>t, TailType
    <3> QED
      BY <1>1, <1>2, <3>2, <2>1, <3>1 DEF UploadTypeOK, fileVars, End
  <2>3. OneAtATime'
    BY <1>2, <1>4, <1>7, <1>t, <2>1 DEF OneAtATime, fileVars
  <2>4. InStep' /\ FailureHasReason'
    BY <1>2, <1>6, <1>t, <2>1 DEF InStep, FailureHasReason
  <2> QED
    BY <1>3, <2>2, <2>3, <2>4 DEF UploadInv
<1>8. CASE host.step # End
  <2>1. host' = [host EXCEPT !.step = @ + 1] /\ Arrives(host.step + 1, trouble)
    BY <1>8 DEF GoOn
  <2>2. host.step + 1 \in 0 .. End /\ host.step + 1 - 1 = host.step /\ host.step < End
    BY <1>8, <1>t
  <2>3. /\ line' \in Seq(Command) /\ trouble' \in BOOLEAN
        /\ ~trouble' => /\ ~trouble
             /\ line' = Append(line, [step |-> host.step + 1, state |-> "whole"])
        /\ line' = line
             \/ \E c \in Command : c.step = host.step + 1 /\ line' = Append(line, c)
    BY <1>1, <2>1, <2>2, ArrivesKeepsType DEF UploadTypeOK
  <2>h. host'.pc = "wait" /\ host'.step = host.step + 1
    BY <1>2, <1>t, <2>1
  <2>4. UploadTypeOK'
    <3>1. host' \in [pc : {"idle", "wait", "done", "failed"}, step : 0 .. End]
      BY <1>2, <1>t, <2>1, <2>2
    <3>2. replies' \in Seq(BOOLEAN)
      BY <1>2, <1>t, TailType
    <3> QED
      BY <1>1, <1>2, <3>2, <2>3, <3>1 DEF UploadTypeOK, fileVars, End
  <2>5. OneAtATime'
    <3> SUFFICES ASSUME ~shifted'
                 PROVE /\ replies' = <<>>
                       /\ \/ Len(line') = 1 /\ Head(line').step = host'.step
                          \/ line' = <<>>
      <4>1. Len(<<>>) <= 1 /\ <<>> # <<TRUE>>
        OBVIOUS
      <4> QED
        BY <2>h, <4>1 DEF OneAtATime, End
    <3>1. line = <<>> /\ replies' = <<>>
      BY <1>2, <1>4, <1>5
    <3>2. ASSUME NEW c \in Command, c.step = host.step + 1, line' = Append(line, c)
          PROVE Len(line') = 1 /\ Head(line').step = host'.step
      BY <2>h, <3>1, <3>2, FirstElement
    <3> QED
      BY <2>3, <3>1, <3>2
  <2>6. InStep'
    <3> SUFFICES ASSUME ~trouble'
                 PROVE  /\ ~shifted' /\ Len(line') = 1 /\ replies' = <<>>
                        /\ Head(line') = [step |-> host'.step, state |-> "whole"]
                        /\ HasWhole(host.step - 1)'
      BY <2>h DEF InStep, End
    <3>1. ~trouble /\ ~shifted /\ line = <<>> /\ HasWhole(host.step)
      BY <1>6, <2>2, <2>3
    <3>2. HasWhole(host.step - 1)'
      <4>1. host'.step - 1 = host.step
        BY <1>t, <2>h
      <4>2. upload' = upload /\ disk' = disk /\ SentCrc' = SentCrc
        BY <1>2 DEF fileVars, SentCrc
      <4> QED
        BY <3>1, <4>1, <4>2 DEF HasWhole
    <3> QED
      <4>1. [step |-> host.step + 1, state |-> "whole"] \in Command
        BY <2>2 DEF Command
      <4>2. line' = Append(<<>>, [step |-> host.step + 1, state |-> "whole"])
        BY <2>3, <3>1
      <4> QED
        BY <1>2, <1>5, <2>h, <3>1, <3>2, <4>1, <4>2, FirstElement
  <2> QED
    BY <1>3, <2>4, <2>5, <2>6, <2>h DEF UploadInv, FailureHasReason
<1> QED
  BY <1>7, <1>8

LEMMA RejectedKeepsInv == UploadInv /\ Rejected => UploadInv'
<1> SUFFICES ASSUME UploadInv, Rejected PROVE UploadInv'
  OBVIOUS
<1> USE UploadAssumption
<1>1. /\ UploadTypeOK /\ FileIsCounted /\ ConfirmedIsKept
      /\ OneAtATime /\ InStep /\ FailureHasReason
  BY DEF UploadInv
<1>2. /\ host.pc = "wait" /\ replies # <<>> /\ ~Head(replies) /\ replies' = Tail(replies)
      /\ host' = [host EXCEPT !.pc = "failed"]
      /\ UNCHANGED <<shifted, line, upload, fileVars, crcZero, trouble>>
  BY DEF Rejected
<1>3. FileIsCounted' /\ ConfirmedIsKept'
  BY <1>1, <1>2, FileStays
<1>4. host' \in [pc : {"idle", "wait", "done", "failed"}, step : 0 .. End]
      /\ host'.pc = "failed"
  BY <1>1, <1>2 DEF UploadTypeOK
<1>5. replies' \in Seq(BOOLEAN)
  BY <1>1, <1>2, TailType DEF UploadTypeOK
<1>6. UploadTypeOK'
  BY <1>1, <1>2, <1>4, <1>5 DEF UploadTypeOK, fileVars, End
<1>7. replies # <<TRUE>>
  <2>1. TRUE \in BOOLEAN
    OBVIOUS
  <2>2. Append(<<>>, TRUE) = <<TRUE>> /\ Head(Append(<<>>, TRUE)) = TRUE
    BY <2>1, FirstElement
  <2> QED
    BY <1>2, <2>2
<1>8. trouble
  BY <1>1, <1>2, <1>7 DEF InStep
<1> QED
  BY <1>2, <1>3, <1>4, <1>6, <1>8 DEF UploadInv, OneAtATime, InStep, FailureHasReason

LEMMA NoReplyKeepsInv == UploadInv /\ NoReply => UploadInv'
<1> SUFFICES ASSUME UploadInv, NoReply PROVE UploadInv'
  OBVIOUS
<1>1. UploadTypeOK /\ FileIsCounted /\ ConfirmedIsKept
  BY DEF UploadInv
<1>2. /\ host' = [host EXCEPT !.pc = "failed"] /\ trouble' = TRUE
      /\ UNCHANGED <<shifted, line, replies, upload, fileVars, crcZero>>
  BY DEF NoReply
<1>3. FileIsCounted' /\ ConfirmedIsKept'
  BY <1>1, <1>2, FileStays
<1>4. host' \in [pc : {"idle", "wait", "done", "failed"}, step : 0 .. End]
      /\ host'.pc = "failed"
  BY <1>1, <1>2 DEF UploadTypeOK
<1>5. UploadTypeOK'
  BY <1>1, <1>2, <1>4 DEF UploadTypeOK, fileVars, End
<1> QED
  BY <1>2, <1>3, <1>4, <1>5 DEF UploadInv, OneAtATime, InStep, FailureHasReason

----------------------------------------------------------------------------
(* A command handled leaves the run in step if, given what the host meant, *)
(* it does that and answers "ok"; and the "ok" to file_end needs a         *)
(* confirmed file.                                                         *)
LEMMA HandledKeepsRun ==
  ASSUME UploadInv, line # <<>>, line' = Tail(line), UNCHANGED hostVars,
         NEW ok \in BOOLEAN, NEW fault \in BOOLEAN, Reply(ok, fault),
         ok /\ Head(line).step = End => confirmed' # "no",
         ASSUME NEW n \in 0 .. End, ~fault, n > 0 => HasWhole(n - 1),
                Head(line) = [step |-> n, state |-> "whole"]
         PROVE  ok /\ (n < End => HasWhole(n)')
  PROVE  /\ line' \in Seq(Command) /\ replies' \in Seq(BOOLEAN) /\ trouble' \in BOOLEAN
         /\ OneAtATime' /\ InStep' /\ FailureHasReason'
<1> USE UploadAssumption
<1>1. /\ UploadTypeOK /\ OneAtATime /\ InStep /\ FailureHasReason
      /\ host' = host /\ shifted' = shifted
  BY DEF UploadInv, hostVars
<1>2. /\ replies' \in Seq(BOOLEAN) /\ trouble' \in BOOLEAN
      /\ ~trouble' => ~trouble /\ ~fault
      /\ replies = <<>> => /\ Len(replies') <= 1
                           /\ replies' = <<TRUE>> => ok
                           /\ ~trouble' => replies' = <<ok>>
  BY <1>1, ReplyKeepsType
<1>3. line' \in Seq(Command)
  BY <1>1, TailType DEF UploadTypeOK
<1>4. Len(line) = 1 => line' = <<>>
  BY <1>1, OnlyElement DEF UploadTypeOK
<1>5. OneAtATime'
  <2>1. SUFFICES ASSUME ~shifted, host.pc = "wait"
                 PROVE  /\ line' = <<>> /\ Len(replies') <= 1
                        /\ host.step = End /\ replies' = <<TRUE>> => confirmed' # "no"
    BY <1>1 DEF OneAtATime, End
  <2>2. Len(line) = 1 /\ Head(line).step = host.step /\ replies = <<>>
    BY <1>1, <2>1 DEF OneAtATime
  <2> QED
    BY <1>2, <1>4, <2>2
<1>6. InStep'
  <2>1. SUFFICES ASSUME ~trouble', host.pc = "wait"
                 PROVE  /\ line' = <<>> /\ replies' = <<TRUE>>
                        /\ host.step < End => HasWhole(host.step)'
    BY <1>1, <1>2 DEF InStep, End
  <2>2. /\ Len(line) = 1 /\ replies = <<>>
        /\ Head(line) = [step |-> host.step, state |-> "whole"]
        /\ host.step > 0 => HasWhole(host.step - 1)
    BY <1>1, <1>2, <2>1 DEF InStep
  <2> PICK n \in 0 .. End : n = host.step
    BY <1>1 DEF UploadTypeOK
  <2>3. ok /\ (n < End => HasWhole(n)')
    BY <1>2, <2>1, <2>2
  <2>4. n < End => HasWhole(host.step)'
    BY <1>1, <2>3 DEF HasWhole
  <2> QED
    BY <1>2, <1>4, <2>1, <2>2, <2>3, <2>4
<1> QED
  BY <1>1, <1>2, <1>3, <1>5, <1>6 DEF FailureHasReason

LEMMA RefuseKeepsInv == UploadInv /\ Refuse => UploadInv'
<1> SUFFICES ASSUME UploadInv, Refuse PROVE UploadInv'
  OBVIOUS
<1>1. /\ line # <<>> /\ Head(line).state = "garbled" /\ line' = Tail(line)
      /\ Reply(FALSE, FALSE) /\ UNCHANGED <<hostVars, upload, fileVars, crcZero>>
  BY DEF Refuse
<1>2. UploadTypeOK /\ FileIsCounted /\ ConfirmedIsKept
  BY DEF UploadInv
<1>3. FileIsCounted' /\ ConfirmedIsKept'
  BY <1>1, <1>2, FileStays
<1>4. ASSUME NEW n, Head(line) = [step |-> n, state |-> "whole"] PROVE FALSE
  BY <1>1, <1>4
<1>5. /\ line' \in Seq(Command) /\ replies' \in Seq(BOOLEAN) /\ trouble' \in BOOLEAN
      /\ OneAtATime' /\ InStep' /\ FailureHasReason'
  BY <1>1, <1>4, HandledKeepsRun
<1>6. UploadTypeOK'
  BY <1>1, <1>2, <1>5 DEF UploadTypeOK, hostVars, fileVars, End
<1> QED
  BY <1>3, <1>5, <1>6 DEF UploadInv

LEMMA FileBeginKeepsInv == UploadInv /\ FileBegin => UploadInv'
<1> SUFFICES ASSUME UploadInv, FileBegin PROVE UploadInv'
  OBVIOUS
<1> USE UploadAssumption
<1>1. /\ line # <<>> /\ Head(line).step = 0 /\ line' = Tail(line)
      /\ confirmed' = "no" /\ durable' = 0 /\ UNCHANGED <<hostVars, crcZero>>
  BY DEF FileBegin, Takes
<1>2. UploadTypeOK
  BY DEF UploadInv
<1>3. ASSUME NEW ok \in BOOLEAN, NEW fault \in BOOLEAN, ok \/ fault,
             Reply(ok, fault),
             upload' \in UploadState,
             disk' \in {Absent, Carried} \cup Seq(BOOLEAN),
             upload'.active => disk' = <<>> /\ upload'.received = 0,
             ~fault /\ Head(line).state = "whole" => HasWhole(0)'
      PROVE  UploadInv'
  <2>1. 0 # End /\ 0 < End
    BY DEF End
  <2>2. ASSUME NEW n \in 0 .. End, ~fault, n > 0 => HasWhole(n - 1),
               Head(line) = [step |-> n, state |-> "whole"]
        PROVE  ok /\ (n < End => HasWhole(n)')
    <3>1. n = 0 /\ Head(line).state = "whole"
      BY <1>1, <2>2
    <3> QED
      BY <1>3, <2>2, <3>1
  <2>3. /\ line' \in Seq(Command) /\ replies' \in Seq(BOOLEAN) /\ trouble' \in BOOLEAN
        /\ OneAtATime' /\ InStep' /\ FailureHasReason'
    <3>1. ok /\ Head(line).step = End => confirmed' # "no"
      BY <1>1, <2>1
    <3>2. UNCHANGED hostVars /\ line # <<>> /\ line' = Tail(line)
      BY <1>1
    <3> QED
      BY <1>3, <2>2, <3>1, <3>2, HandledKeepsRun
  <2>4. UploadTypeOK'
    BY <1>1, <1>2, <1>3, <2>3 DEF UploadTypeOK, hostVars, End
  <2>5. FileIsCounted'
    <3>1. disk' \in Seq(BOOLEAN) => Len(disk') \in Nat
      OBVIOUS
    <3>2. <<>> \in Seq(BOOLEAN) /\ Len(<<>>) = 0
      OBVIOUS
    <3>3. disk' \in Seq(BOOLEAN) => durable' <= Len(disk')
      BY <1>1, <3>1
    <3>4. upload'.active => disk' \in Seq(BOOLEAN) /\ Len(disk') = upload'.received
      BY <1>3, <3>2
    <3> QED
      BY <3>3, <3>4 DEF FileIsCounted
  <2>6. ConfirmedIsKept'
    BY <1>1 DEF ConfirmedIsKept, Confirmed
  <2> QED
    BY <2>3, <2>4, <2>5, <2>6 DEF UploadInv
<1>4. ASSUME NEW a \in Asked(Head(line).state), disk' = <<>>, Reply(TRUE, FALSE),
             upload' = [active |-> TRUE, received |-> 0, size |-> a.size, crc |-> a.crc]
      PROVE  UploadInv'
  <2>1. /\ a.size \in 0 .. Chunks /\ a.crc \in {"sent", "other", "none"}
        /\ Head(line).state = "whole" => a.size = Chunks /\ a.crc = SentCrc
    <3>1. Chunks \in 0 .. Chunks /\ SentCrc \in {"sent", "other", "none"}
      BY DEF SentCrc
    <3>2. CASE Head(line).state = "whole"
      BY <1>4, <3>1, <3>2 DEF Asked
    <3>3. CASE Head(line).state # "whole"
      BY <1>4, <3>1, <3>3 DEF Asked
    <3> QED
      BY <3>2, <3>3
  <2>2. /\ upload'.active /\ upload'.received = 0 /\ upload'.size = a.size
        /\ upload'.crc = a.crc
    BY <1>4
  <2>3. upload' \in UploadState
    BY <1>4, <2>1 DEF UploadState
  <2>4. disk' \in {Absent, Carried} \cup Seq(BOOLEAN)
    BY <1>4
  <2>5. Head(line).state = "whole" => HasWhole(0)'
    <3>1. <<>> = [i \in 1 .. 0 |-> TRUE]
      OBVIOUS
    <3>2. SentCrc' = SentCrc
      BY <1>1 DEF SentCrc
    <3> QED
      BY <1>4, <2>1, <2>2, <3>1, <3>2 DEF HasWhole
  <2> QED
    BY <1>3, <1>4, <2>2, <2>3, <2>4, <2>5
<1>5. CASE disk' = Absent /\ upload' = Closed /\ Reply(FALSE, TRUE)
  <2>1. /\ upload' \in UploadState
        /\ ~upload'.active
    BY <1>5 DEF Closed, UploadState
  <2> QED
    BY <1>3, <1>5, <2>1
<1> QED
  BY <1>4, <1>5 DEF FileBegin

LEMMA FileChunkKeepsInv ==
  ASSUME UploadInv, NEW i \in 1 .. Chunks, FileChunk(i) PROVE UploadInv'
<1> USE UploadAssumption
<1>1. /\ line # <<>> /\ Head(line).step = i /\ line' = Tail(line)
      /\ UNCHANGED <<hostVars, confirmed, crcZero>>
  BY DEF FileChunk, Takes
<1>2. UploadTypeOK /\ FileIsCounted /\ ConfirmedIsKept
  BY DEF UploadInv
<1>3. i # End /\ i < End /\ i > 0 /\ i \in 0 .. End
  BY DEF End
<1>4. ASSUME NEW ok \in BOOLEAN, NEW fault \in BOOLEAN, Reply(ok, fault),
             upload' \in UploadState,
             disk' \in {Absent, Carried} \cup Seq(BOOLEAN), durable' \in Nat,
             FileIsCounted', ConfirmedIsKept',
             ~fault /\ Head(line).state = "whole" /\ HasWhole(i - 1) => ok /\ HasWhole(i)'
      PROVE  UploadInv'
  <2>1. ASSUME NEW n \in 0 .. End, ~fault, n > 0 => HasWhole(n - 1),
               Head(line) = [step |-> n, state |-> "whole"]
        PROVE  ok /\ (n < End => HasWhole(n)')
    <3>1. n = i /\ Head(line).state = "whole"
      BY <1>1, <2>1
    <3> QED
      BY <1>3, <1>4, <2>1, <3>1
  <2>2. /\ line' \in Seq(Command) /\ replies' \in Seq(BOOLEAN) /\ trouble' \in BOOLEAN
        /\ OneAtATime' /\ InStep' /\ FailureHasReason'
    <3>1. ok /\ Head(line).step = End => confirmed' # "no"
      BY <1>1, <1>3
    <3>2. UNCHANGED hostVars /\ line # <<>> /\ line' = Tail(line)
      BY <1>1
    <3> QED
      BY <1>4, <2>1, <3>1, <3>2, HandledKeepsRun
  <2>3. UploadTypeOK'
    BY <1>1, <1>2, <1>4, <2>2 DEF UploadTypeOK, hostVars, End
  <2> QED
    BY <1>4, <2>2, <2>3 DEF UploadInv
<1>5. CASE /\ ~upload.active \/ upload.received # i - 1 \/ upload.size < i
           /\ Reply(FALSE, FALSE) /\ UNCHANGED <<upload, disk, durable>>
  <2>1. FileIsCounted' /\ ConfirmedIsKept'
    BY <1>1, <1>2, <1>5, FileStays DEF fileVars
  <2>2. ~HasWhole(i - 1)
    <3>1. ~(Chunks < i)
      OBVIOUS
    <3> QED
      BY <1>5, <3>1 DEF HasWhole
  <2> QED
    BY <1>2, <1>4, <1>5, <2>1, <2>2 DEF UploadTypeOK
<1>6. ASSUME upload.active, upload.received = i - 1
      PROVE  /\ ~Confirmed'
             /\ disk \in Seq(BOOLEAN) /\ Len(disk) = i - 1 /\ durable <= Len(disk)
  BY <1>1, <1>2, <1>6 DEF FileIsCounted, ConfirmedIsKept, Confirmed
<1>7. ASSUME NEW n \in {upload.size} \cup IF Head(line).state = "whole" THEN {} ELSE {0},
             upload.active, upload.received = i - 1,
             disk' = Append(disk, Head(line).state = "whole"),
             upload' = [upload EXCEPT !.received = i, !.size = n],
             Reply(TRUE, FALSE), UNCHANGED durable
      PROVE  UploadInv'
  <2>1. /\ upload' \in UploadState /\ upload'.active /\ upload'.received = i
        /\ upload'.crc = upload.crc
        /\ Head(line).state = "whole" => upload'.size = upload.size
    <3>1. upload \in UploadState /\ i \in 0 .. Chunks /\ n \in 0 .. Chunks
          /\ (Head(line).state = "whole" => n = upload.size)
      BY <1>2 DEF UploadTypeOK, UploadState
    <3> QED
      BY <1>7, <3>1 DEF UploadState
  <2>2. disk' \in Seq(BOOLEAN) /\ Len(disk') = i
    BY <1>6, <1>7
  <2>3. FileIsCounted' /\ ConfirmedIsKept'
    <3>1. durable' = durable /\ durable \in Nat /\ durable <= i - 1 /\ i - 1 <= i
      BY <1>2, <1>6, <1>7 DEF UploadTypeOK
    <3>2. FileIsCounted'
      BY <2>1, <2>2, <3>1 DEF FileIsCounted
    <3> QED
      BY <1>6, <1>7, <3>2 DEF ConfirmedIsKept, Confirmed
  <2>4. Head(line).state = "whole" /\ HasWhole(i - 1) => HasWhole(i)'
    <3> SUFFICES ASSUME Head(line).state = "whole", HasWhole(i - 1) PROVE HasWhole(i)'
      OBVIOUS
    <3>1. disk = [j \in 1 .. i - 1 |-> TRUE] /\ disk' = Append(disk, TRUE)
      BY <1>7 DEF HasWhole
    <3>2. disk' = [j \in 1 .. i |-> TRUE]
      <4>1. i \in Nat /\ disk \in Seq(BOOLEAN) /\ Len(disk) = i - 1
        BY <1>6, <1>7
      <4>2. disk' \in Seq(BOOLEAN) /\ Len(disk') = i
        BY <2>2
      <4>3. ASSUME NEW j \in 1 .. i PROVE disk'[j] = TRUE
        BY <3>1, <4>1
      <4>4. disk' = [j \in 1 .. i |-> disk'[j]]
        BY <4>1, <4>2
      <4> QED
        BY <4>3, <4>4
    <3> QED
      <4> SentCrc' = SentCrc
        BY <1>1 DEF SentCrc
      <4> QED
        BY <2>1, <3>2 DEF HasWhole
  <2> QED
    BY <1>2, <1>4, <1>7, <2>1, <2>2, <2>3, <2>4 DEF UploadTypeOK
<1>8. CASE /\ upload.active /\ upload.received = i - 1
           /\ \E file \in {disk, Append(disk, FALSE)} : Close(file)
           /\ Reply(FALSE, TRUE)
  <2> PICK file \in {disk, Append(disk, FALSE)} : Close(file)
    BY <1>8
  <2>1. file \in Seq(BOOLEAN) /\ Len(disk) <= Len(file)
    <3>1. /\ Append(disk, FALSE) \in Seq(BOOLEAN) /\ Len(disk) \in Nat
          /\ Len(Append(disk, FALSE)) = Len(disk) + 1
      BY <1>6, <1>8
    <3>2. CASE file = disk
      BY <1>6, <1>8, <3>1, <3>2
    <3>3. CASE file = Append(disk, FALSE)
      BY <3>1, <3>3
    <3> QED
      BY <3>2, <3>3
  <2>2. /\ upload' \in UploadState
        /\ ~upload'.active
    BY DEF Close, Closed, UploadState
  <2>3. disk' = file /\ durable' \in Nat /\ durable' <= Len(file)
    BY <1>2, <1>6, <1>8, <2>1 DEF Close, UploadTypeOK
  <2>4. FileIsCounted' /\ ConfirmedIsKept'
    BY <1>6, <1>8, <2>1, <2>2, <2>3 DEF FileIsCounted, ConfirmedIsKept, Confirmed
  <2> QED
    BY <1>4, <1>8, <2>1, <2>2, <2>3, <2>4
<1> QED
  BY <1>5, <1>7, <1>8 DEF FileChunk

LEMMA FileEndKeepsInv == UploadInv /\ FileEnd => UploadInv'
<1> SUFFICES ASSUME UploadInv, FileEnd PROVE UploadInv'
  OBVIOUS
<1> USE UploadAssumption
<1>1. /\ line # <<>> /\ Head(line).step = End /\ line' = Tail(line)
      /\ UNCHANGED <<hostVars, crcZero>>
  BY DEF FileEnd, Takes
<1>2. UploadTypeOK /\ FileIsCounted /\ ConfirmedIsKept
  BY DEF UploadInv
<1>3. End > 0 /\ End - 1 = Chunks
  BY DEF End
<1>4. ASSUME NEW ok \in BOOLEAN, Reply(ok, FALSE),
             upload' \in UploadState,
             disk' = disk, durable' \in Nat, confirmed' \in {"no", "yes", "sized", "undone"},
             FileIsCounted', ConfirmedIsKept',
             ok => confirmed' # "no", HasWhole(Chunks) => ok
      PROVE  UploadInv'
  <2>1. ASSUME NEW n \in 0 .. End, ~FALSE, n > 0 => HasWhole(n - 1),
               Head(line) = [step |-> n, state |-> "whole"]
        PROVE  ok /\ (n < End => HasWhole(n)')
    <3>1. n = End
      BY <1>1, <2>1
    <3>2. ~(n < End) /\ HasWhole(Chunks)
      BY <1>3, <2>1, <3>1
    <3> QED
      BY <1>4, <3>2
  <2>2. /\ line' \in Seq(Command) /\ replies' \in Seq(BOOLEAN) /\ trouble' \in BOOLEAN
        /\ OneAtATime' /\ InStep' /\ FailureHasReason'
    <3>1. UNCHANGED hostVars /\ line # <<>> /\ line' = Tail(line) /\ FALSE \in BOOLEAN
      BY <1>1
    <3> QED
      BY <1>4, <2>1, <3>1, HandledKeepsRun
  <2>3. UploadTypeOK'
    BY <1>1, <1>2, <1>4, <2>2 DEF UploadTypeOK, hostVars, End
  <2> QED
    BY <1>4, <2>2, <2>3 DEF UploadInv
<1>5. CASE ~upload.active
  <2>1. Reply(FALSE, FALSE) /\ UNCHANGED <<upload, fileVars>>
    BY <1>5 DEF FileEnd
  <2>2. FileIsCounted' /\ ConfirmedIsKept'
    BY <1>1, <1>2, <2>1, FileStays
  <2>3. ~HasWhole(Chunks)
    BY <1>5 DEF HasWhole
  <2> QED
    BY <1>2, <1>4, <2>1, <2>2, <2>3 DEF UploadTypeOK, fileVars
<1>6. CASE upload.active
  <2>1. /\ Close(disk)
        /\ \/ Verified /\ confirmed' = Confirmation /\ Reply(TRUE, FALSE)
           \/ ~Verified /\ confirmed' = confirmed /\ Reply(FALSE, FALSE)
    BY <1>6 DEF FileEnd
  <2>2. /\ ~Confirmed
        /\ disk \in Seq(BOOLEAN) /\ Len(disk) = upload.received /\ durable <= Len(disk)
    BY <1>2, <1>6 DEF FileIsCounted, ConfirmedIsKept
  <2>3. /\ upload' \in UploadState
        /\ ~upload'.active
    BY <2>1 DEF Close, Closed, UploadState
  <2>4. disk' = disk /\ durable' \in Nat /\ durable' <= Len(disk)
    BY <1>2, <2>1, <2>2 DEF Close, UploadTypeOK
  <2>5. FileIsCounted'
    BY <2>3, <2>4 DEF FileIsCounted
  <2>6. Verified => Confirmation \in {"yes", "sized"}
                    /\ (Confirmation = "yes" => disk = Exact)
                    /\ disk # <<>>
    BY <2>2 DEF Verified, Confirmation
  <2>7. ConfirmedIsKept'
    <3>1. disk' \notin {Absent, Carried} /\ Exact' = Exact
      BY <2>2, <2>4 DEF Exact
    <3>2. CASE Verified /\ confirmed' = Confirmation
      BY <2>3, <2>4, <2>6, <3>1, <3>2 DEF ConfirmedIsKept
    <3>3. CASE confirmed' = confirmed
      BY <2>2, <3>3 DEF ConfirmedIsKept, Confirmed
    <3> QED
      BY <2>1, <3>2, <3>3
  <2>8. HasWhole(Chunks) => Verified
    BY DEF HasWhole, Verified, Exact, SentCrc
  <2>9. CASE Verified /\ confirmed' = Confirmation /\ Reply(TRUE, FALSE)
    <3>1. confirmed' \in {"no", "yes", "sized", "undone"} /\ confirmed' # "no"
      BY <2>6, <2>9
    <3> QED
      BY <1>4, <2>3, <2>4, <2>5, <2>7, <2>9, <3>1
  <2>10. CASE ~Verified /\ confirmed' = confirmed /\ Reply(FALSE, FALSE)
    BY <1>2, <1>4, <2>3, <2>4, <2>5, <2>7, <2>8, <2>10 DEF UploadTypeOK
  <2> QED
    BY <2>1, <2>9, <2>10
<1> QED
  BY <1>2, <1>5, <1>6 DEF UploadTypeOK

LEMMA PowerCutKeepsInv == UploadInv /\ PowerCut => UploadInv'
<1> SUFFICES ASSUME UploadInv, PowerCut PROVE UploadInv'
  OBVIOUS
<1> USE UploadAssumption
<1>1. /\ UploadTypeOK /\ FileIsCounted /\ ConfirmedIsKept /\ OneAtATime
  BY DEF UploadInv
<1>2. /\ durable' = IF disk' \in {Absent, Carried} THEN 0 ELSE Len(disk')
      /\ confirmed' = IF Confirmed /\ durable # Len(disk) THEN "undone" ELSE confirmed
      /\ line' = <<>> /\ upload' = Closed /\ trouble' = TRUE
      /\ UNCHANGED <<hostVars, replies, crcZero>>
  BY DEF PowerCut
<1> PICK file \in Kept : disk' \in Boot(file)
  BY DEF PowerCut
<1>3. file \in {Absent, Carried} \cup Seq(BOOLEAN)
      /\ (Confirmed' => file = disk)
  <2>1. CASE disk \in {Absent, Carried}
    BY <2>1 DEF Kept
  <2>2. CASE disk \notin {Absent, Carried}
    <3>1. disk \in Seq(BOOLEAN) /\ durable \in Nat /\ durable <= Len(disk)
      BY <1>1, <2>2 DEF UploadTypeOK, FileIsCounted
    <3>2. \/ \E n \in durable .. Len(disk) : file = SubSeq(disk, 1, n)
          \/ file = Absent /\ durable = 0
      BY <2>2 DEF Kept
    <3>3. Confirmed' => durable = Len(disk) /\ durable # 0
      <4>1. Confirmed' => Confirmed /\ durable = Len(disk)
        BY <1>2 DEF Confirmed
      <4>2. Confirmed => disk # <<>>
        <5>1. Exact # <<>>
          <6>1. Len(Exact) = Chunks /\ Exact \in Seq(BOOLEAN)
            BY DEF Exact
          <6> QED
            BY <6>1
        <5> QED
          BY <1>1, <5>1 DEF ConfirmedIsKept, Confirmed
      <4> QED
        BY <3>1, <4>1, <4>2
    <3>4. ASSUME NEW n \in durable .. Len(disk)
          PROVE  SubSeq(disk, 1, n) \in Seq(BOOLEAN)
      BY <3>1
    <3>5. SubSeq(disk, 1, Len(disk)) = disk
      BY <3>1
    <3>6. Confirmed' => file = disk
      <4> SUFFICES ASSUME Confirmed' PROVE file = disk
        OBVIOUS
      <4>1. ASSUME NEW n \in durable .. Len(disk) PROVE n = Len(disk)
        BY <3>1, <3>3
      <4> QED
        BY <3>2, <3>3, <3>5, <4>1
    <3> QED
      BY <3>2, <3>4, <3>6
  <2> QED
    BY <2>1, <2>2
<1>4. disk' \in {Absent, Carried} \cup Seq(BOOLEAN)
  <2>1. <<>> \in Seq(BOOLEAN)
    OBVIOUS
  <2> QED
    BY <1>3, <2>1 DEF Boot
<1>5. UploadTypeOK'
  <2>1. upload' \in UploadState
    BY <1>2 DEF Closed, UploadState
  <2>2. durable' \in Nat
    BY <1>2, <1>4
  <2>3. line' \in Seq(Command) /\ confirmed' \in {"no", "yes", "sized", "undone"}
    BY <1>1, <1>2 DEF UploadTypeOK
  <2> QED
    BY <1>1, <1>2, <1>4, <2>1, <2>2, <2>3 DEF UploadTypeOK, hostVars, End
<1>6. FileIsCounted'
  <2>1. disk' \in Seq(BOOLEAN) => disk' \notin {Absent, Carried} /\ Len(disk') \in Nat
    OBVIOUS
  <2>2. ~upload'.active
    BY <1>2 DEF Closed
  <2> QED
    BY <1>2, <2>1, <2>2 DEF FileIsCounted
<1>7. ConfirmedIsKept'
  <2> SUFFICES ASSUME Confirmed' PROVE ConfirmedIsKept'
    BY DEF ConfirmedIsKept, Confirmed
  <2>1. file = disk /\ confirmed' = confirmed /\ Confirmed
    BY <1>2, <1>3 DEF Confirmed
  <2>2. disk # Absent
    <3>1. Exact \in Seq(BOOLEAN)
      BY DEF Exact
    <3> QED
      BY <1>1, <2>1, <3>1 DEF ConfirmedIsKept, Confirmed
  <2>3. disk' = disk /\ Exact' = Exact /\ ~upload'.active
    BY <1>2, <2>1, <2>2 DEF Boot, Closed, Exact
  <2> QED
    BY <1>1, <2>1, <2>3 DEF ConfirmedIsKept, Confirmed
<1>8. OneAtATime'
  <2>1. host' = host /\ shifted' = shifted /\ replies' = replies
        /\ (confirmed # "no" => confirmed' # "no")
    BY <1>2 DEF hostVars
  <2>2. Len(<<>>) <= 1 /\ <<>> # <<TRUE>>
    OBVIOUS
  <2>3. SUFFICES ASSUME ~shifted
                 PROVE  /\ host.pc = "wait" =>
                             /\ Len(replies) <= 1
                             /\ host.step = End /\ replies = <<TRUE>> => confirmed # "no"
                        /\ host.pc = "done" => confirmed # "no"
    BY <1>2, <2>1 DEF OneAtATime, End
  <2>4. CASE replies = <<>>
    BY <1>1, <2>2, <2>3, <2>4 DEF OneAtATime
  <2>5. CASE replies # <<>>
    BY <1>1, <2>3, <2>5 DEF OneAtATime
  <2> QED
    BY <2>4, <2>5
<1> QED
  BY <1>2, <1>5, <1>6, <1>7, <1>8 DEF UploadInv, InStep, FailureHasReason

LEMMA UploadStepInv == UploadInv /\ [Next]_uploadVars => UploadInv'
<1>1. CASE UNCHANGED uploadVars
  BY <1>1 DEF UploadInv, UploadTypeOK, FileIsCounted, ConfirmedIsKept, OneAtATime,
              InStep,
              FailureHasReason, HasWhole, SentCrc, Confirmed, Exact, uploadVars,
              hostVars, fileVars, End
<1> QED
  BY <1>1, StartKeepsInv, GoOnKeepsInv, RejectedKeepsInv, NoReplyKeepsInv,
     RefuseKeepsInv, FileBeginKeepsInv, FileChunkKeepsInv, FileEndKeepsInv,
     PowerCutKeepsInv DEF Next

LEMMA UploadInvariant == UploadSpec => []UploadInv
BY UploadInitInv, UploadStepInv, PTL DEF UploadSpec

(* A file confirmed with "ok" stays as the host has it until the next      *)
(* file_begin, for every number of chunks and every depth of the line.     *)
THEOREM ConfirmedFileStays == UploadSpec => []ConfirmedIsKept
<1>1. UploadInv => ConfirmedIsKept
  BY DEF UploadInv
<1> QED
  BY <1>1, UploadInvariant, PTL

(* A run of the tool that ends without an error got its file confirmed.    *)
THEOREM DoneMeansConfirmed == UploadSpec => []SuccessIsReal
<1>1. UploadInv => SuccessIsReal
  BY DEF UploadInv, OneAtATime, SuccessIsReal
<1> QED
  BY <1>1, UploadInvariant, PTL

(* A run that fails met a fault of its own time, none that an earlier run  *)
(* left in the device.                                                     *)
THEOREM FailureIsExplained == UploadSpec => []FailureHasReason
<1>1. UploadInv => FailureHasReason
  BY DEF UploadInv
<1> QED
  BY <1>1, UploadInvariant, PTL

=============================================================================
