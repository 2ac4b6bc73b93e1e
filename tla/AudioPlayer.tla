---------------------------- MODULE AudioPlayer ----------------------------
(***************************************************************************)
(* The audio task (sb_audio_service.c), the HAL it plays with              *)
(* (sb_audio_hal.c) and the one cache file NOR prompts are copied to       *)
(* (sb_audio_asset_store.c), beside the SDK's two MP3 players.             *)
(*                                                                         *)
(* A request is a script of files played one after the other.  The task    *)
(* starts a player and waits on s_mp3_done_sem, which the player's         *)
(* callback releases; the semaphore does not say whose end it reports.     *)
(* The amplifier is left out: the SDK switches it too, through a callback  *)
(* of its own, and nothing in the repository says when.                    *)
(***************************************************************************)
EXTENDS Naturals, Sequences

CONSTANTS
  Root,        (* the common MP3 files on the U: drive                     *)
  Asset,       (* the language prompts on the external NOR                 *)
  Sorry,       (* transaction_error.mp3                                    *)
  NoFile,      (* an absent cache file                                     *)
  Script,      (* the files a request of each kind plays                   *)
  Fallback,    (* sb_audio_prompt_logic_build_transaction_fallback()       *)
  Handle,      (* the playbacks the SDK can run at a time                  *)
  NoDecoder,   (* a handle that is not in use                              *)
  QueueDepth,  (* SB_AUDIO_SERVICE_QUEUE_DEPTH                             *)
  MaxTokens,   (* bound: releases of the semaphore nobody has taken        *)
  Untidy       (* what a player does besides one end per playback, if      *)
               (* anything: nothing in the repository says                 *)

File == Root \cup Asset
Told == {"amount", "prompt", "common"}
Kind == Told \cup {"volume", "unsayable"}

(* "readed": it reports the end of the file and later the end of the       *)
(* playback; "stream": a stream that is stopped reports its end as well.   *)
ASSUME AudioAssumption ==
  /\ Sorry \in Root
  /\ Root \cap Asset = {}
  /\ NoFile \notin File
  /\ Script \in [Told -> Seq(File) \ {<<>>}]
  /\ Fallback \in Seq(File) \ {<<>>}
  /\ NoDecoder \notin [item : File, reading : BOOLEAN]
  /\ QueueDepth \in Nat \ {0}
  /\ MaxTokens \in Nat \ {0}
  /\ Untidy \subseteq {"readed", "stream"}

VARIABLES
  queue,       (* s_audio_queue                                            *)
  hal,         (* s_audio_ready                                            *)
  pc,          (* where the audio task is                                  *)
  job,         (* the request, which of its scripts, and the item          *)
  handle,      (* the playback the task has started                        *)
  stored,      (* the files that are present and not empty                 *)
  cache,       (* what U:/cache/asset_play.mp3 holds                       *)
  sem,         (* s_mp3_done_sem                                           *)
  status,      (* s_mp3_last_status                                        *)
  decoders,    (* the playbacks of ql_play_mp3                             *)
  old,         (* the player of ql_mp3_file_play                           *)
  oldState,    (* s_old_player_last_state                                  *)
  heard,       (* history: files of this script played to their end, while *)
               (* nothing is astray                                        *)
  astray       (* history: an end was reported that the task does not wait *)
               (* for, and since then no request has found the players and *)
               (* the semaphore at rest                                    *)

taskVars    == <<queue, hal, pc, job, handle>>
decoderVars == <<sem, status, decoders, old, oldState, heard, astray>>
audioVars   == <<taskVars, stored, cache, decoderVars>>

NoJob == [kind |-> "none", stage |-> "own", at |-> 1]

(* The script of a job: the request's own, or what replaces it.            *)
ScriptOf(j) == CASE j.stage = "own"      -> Script[j.kind]
                 [] j.stage = "fallback" -> Fallback
                 [] j.stage = "sorry"    -> <<Sorry>>

Items == ScriptOf(job)

Item == Items[job.at]

Running == {h \in Handle : decoders[h] # NoDecoder}

AtRest == Running = {} /\ old = "stopped" /\ sem = 0

----------------------------------------------------------------------------
(* Requests *)

(* The queue and the task of sb_audio_service_init(); the first            *)
(* sb_audio_hal_init() may fail.                                           *)
AudioInit == /\ queue = <<>>
             /\ hal \in {"down", "ready"}
             /\ pc = "idle"
             /\ job = NoJob
             /\ handle = NoDecoder
             /\ stored \in SUBSET File
             /\ cache = NoFile
             /\ sem = 0
             /\ status = "none"
             /\ decoders = [h \in Handle |-> NoDecoder]
             /\ old = "stopped"
             /\ oldState = "error"
             /\ heard = <<>>
             /\ astray = FALSE

(* sb_audio_service_enqueue() with QL_NO_WAIT: a full queue refuses.       *)
Enqueue(kind) == /\ Len(queue) < QueueDepth
                 /\ queue' = Append(queue, kind)
                 /\ UNCHANGED <<hal, pc, job, handle, stored, cache, decoderVars>>

(* The HAL is not ready and its initialisation fails again: the request,   *)
(* whatever it is, is gone.                                                *)
DropRequest == /\ pc = "idle" /\ queue # <<>>
               /\ hal = "down"
               /\ queue' = Tail(queue)
               /\ UNCHANGED <<hal, pc, job, handle, stored, cache, decoderVars>>

(* A volume is set at once, and a request that no script can be built for  *)
(* is over.                                                                *)
TakeRequest == /\ pc = "idle" /\ queue # <<>>
               /\ queue' = Tail(queue)
               /\ hal' = "ready"
               /\ IF Head(queue) \in Told
                  THEN /\ pc' = "script"
                       /\ job' = [kind |-> Head(queue), stage |-> "own", at |-> 1]
                  ELSE UNCHANGED <<pc, job>>
               /\ astray' = (astray /\ ~AtRest)
               /\ UNCHANGED <<handle, stored, cache,
                              sem, status, decoders, old, oldState, heard>>

----------------------------------------------------------------------------
(* Scripts *)

Over == pc' = "idle" /\ job' = NoJob

Turn(stage) == pc' = "script" /\ job' = [job EXCEPT !.stage = stage, !.at = 1]

(* Variant: a payment's fallback is not replaced in its turn.              *)
FileMissingOnce ==
  \/ job.stage = "own" /\ job.kind = "amount" /\ Turn("fallback")
  \/ job.stage = "own" /\ job.kind = "prompt" /\ Turn("sorry")
  \/ job.stage = "sorry" /\ Over
  \/ job.stage = "own" /\ job.kind = "common" /\ Over
  \/ job.stage = "fallback" /\ Over

(* SB_STATUS_NOT_FOUND: a payment falls back to the announcement without   *)
(* its amount, and everything but a common file to the error tune.         *)
FileMissing ==
  \/ job.stage = "own" /\ job.kind = "amount" /\ Turn("fallback")
  \/ job.stage = "own" /\ job.kind = "prompt" /\ Turn("sorry")
  \/ job.stage = "fallback" /\ Turn("sorry")
  \/ job.stage = "own" /\ job.kind = "common" /\ Over
  \/ job.stage = "sorry" /\ Over

(* Any other failure ends the request.                                     *)
Failed == Over

ItemPlayed == IF job.at < Len(Items)
              THEN pc' = "prepare" /\ job' = [job EXCEPT !.at = @ + 1]
              ELSE pc' = "done" /\ UNCHANGED job

(* sb_audio_asset_validate_script().                                       *)
Validate == /\ pc = "script"
            /\ IF \A n \in DOMAIN Items : Items[n] \in stored
               THEN pc' = "prepare" /\ heard' = <<>> /\ UNCHANGED job
               ELSE FileMissing /\ UNCHANGED heard
            /\ UNCHANGED <<queue, hal, handle, stored, cache,
                           sem, status, decoders, old, oldState, astray>>

(* SB_EVENT_AUDIO_PLAY_DONE.                                               *)
ScriptDone == /\ pc = "done"
              /\ Over
              /\ UNCHANGED <<queue, hal, handle, stored, cache, decoderVars>>

(* sb_audio_asset_store_prepare_play_path(): a common file is played where *)
(* it is, a prompt is copied to the cache, over what the cache held, and   *)
(* compared with its CRC.  A failure leaves any of three things there.     *)
Prepare ==
  /\ pc = "prepare"
  /\ \/ /\ Item \notin stored
        /\ FileMissing
        /\ UNCHANGED cache
     \/ /\ Item \in stored \cap Root
        /\ pc' = "play"
        /\ UNCHANGED <<job, cache>>
     \/ /\ Item \in stored \cap Asset
        /\ pc' = "play"
        /\ cache' = Item
        /\ UNCHANGED job
     \/ /\ Item \in stored \cap Asset
        /\ Failed
        /\ cache' \in {cache, Item, NoFile}
  /\ UNCHANGED <<queue, hal, handle, stored, decoderVars>>

----------------------------------------------------------------------------
(* Playing one file: sb_audio_hal_play_mp3_file() *)

(* Can the path of the item be opened?                                     *)
Openable == IF Item \in Root THEN Item \in stored ELSE cache = Item

Release == sem' = IF sem < MaxTokens THEN sem + 1 ELSE sem

(* sb_audio_hal_probe_mp3_file() before the status is reset.               *)
ProbeFails == /\ pc = "play"
              /\ IF Openable THEN Failed ELSE FileMissing
              /\ UNCHANGED <<queue, hal, handle, stored, cache, decoderVars>>

(* ql_play_mp3() starts a playback of the file.                            *)
Start == /\ pc = "play" /\ Openable
         /\ \E h \in Handle :
              /\ decoders[h] = NoDecoder
              /\ decoders' = [decoders EXCEPT ![h] = [item |-> Item, reading |-> TRUE]]
              /\ handle' = h
         /\ status' = "none"
         /\ pc' = "wait"
         /\ UNCHANGED <<queue, hal, job, stored, cache,
                        sem, old, oldState, heard, astray>>

(* ql_play_mp3() fails: the old file API is tried.                         *)
StartFails == /\ pc = "play" /\ Openable
              /\ status' = "none"
              /\ oldState' = "error"
              /\ pc' = "old"
              /\ UNCHANGED <<queue, hal, job, handle, stored, cache,
                             sem, decoders, old, heard, astray>>

(* ql_rtos_semaphore_wait(): a token, or the time-out.                     *)
Wake == /\ pc = "wait"
        /\ sem > 0
        /\ sem' = sem - 1
        /\ pc' = "woken"
        /\ UNCHANGED <<queue, hal, job, handle, stored, cache,
                       status, decoders, old, oldState, heard, astray>>

(* Variant: QL_WAIT_FOREVER.                                               *)
TimeOutNever == /\ pc = "wait"
                /\ sem = 0
                /\ UNCHANGED audioVars

TimeOut == /\ pc = "wait"
           /\ sem = 0
           /\ pc' = "timed_out"
           /\ UNCHANGED <<queue, hal, job, handle, stored, cache, decoderVars>>

(* Variant: whatever ended the wait counts as played.                      *)
JudgeAnyway == /\ pc = "woken"
               /\ ItemPlayed
               /\ handle' = NoDecoder
               /\ UNCHANGED <<queue, hal, stored, cache, decoderVars>>

(* The last status decides.  The playback itself is left as it is.         *)
Judge == /\ pc = "woken"
         /\ IF status \in {"ended", "readed"} THEN ItemPlayed ELSE Failed
         /\ handle' = NoDecoder
         /\ UNCHANGED <<queue, hal, stored, cache, decoderVars>>

(* Variant: the playback that took too long is not stopped.                *)
GiveUpLeavesDecoder ==
  /\ pc = "timed_out"
  /\ Failed
  /\ handle' = NoDecoder
  /\ UNCHANGED <<queue, hal, stored, cache, decoderVars>>

(* ql_stop_mp3_play() after the time-out; nothing takes the token of an    *)
(* end that came in the meantime.                                          *)
GiveUp == /\ pc = "timed_out"
          /\ decoders' = [decoders EXCEPT ![handle] = NoDecoder]
          /\ Failed
          /\ handle' = NoDecoder
          /\ UNCHANGED <<queue, hal, stored, cache,
                         sem, status, old, oldState, heard, astray>>

----------------------------------------------------------------------------
(* The fallbacks: the old file API, then a stream the task feeds itself *)

OldStart == /\ pc = "old"
            /\ old' = "playing"
            /\ pc' = "old_wait"
            /\ UNCHANGED <<queue, hal, job, handle, stored, cache,
                           sem, status, decoders, oldState, heard, astray>>

OldStartFails == /\ pc = "old"
                 /\ pc' = "stream"
                 /\ UNCHANGED <<queue, hal, job, handle, stored, cache, decoderVars>>

OldWake == /\ pc = "old_wait"
           /\ sem > 0
           /\ sem' = sem - 1
           /\ pc' = "old_woken"
           /\ UNCHANGED <<queue, hal, job, handle, stored, cache,
                          status, decoders, old, oldState, heard, astray>>

OldTimeOut == /\ pc = "old_wait"
              /\ sem = 0
              /\ pc' = "old_timed_out"
              /\ UNCHANGED <<queue, hal, job, handle, stored, cache, decoderVars>>

(* Variant: the old player is stopped only when its end was reported.      *)
OldStopIfWoken == /\ pc \in {"old_woken", "old_timed_out"}
                  /\ IF pc = "old_woken" THEN old' = "stopped" ELSE UNCHANGED old
                  /\ IF pc = "old_woken" /\ oldState # "error"
                     THEN ItemPlayed
                     ELSE pc' = "stream" /\ UNCHANGED job
                  /\ UNCHANGED <<queue, hal, handle, stored, cache,
                                 sem, status, decoders, oldState, heard, astray>>

(* ql_mp3_file_stop(), then the verdict: only an error and a time-out go   *)
(* on to the stream.                                                       *)
OldStop == /\ pc \in {"old_woken", "old_timed_out"}
           /\ old' = "stopped"
           /\ IF pc = "old_woken" /\ oldState # "error"
              THEN ItemPlayed
              ELSE pc' = "stream" /\ UNCHANGED job
           /\ UNCHANGED <<queue, hal, handle, stored, cache,
                          sem, status, decoders, oldState, heard, astray>>

(* The file cannot be opened again, or the stream not be started or fed.   *)
StreamFails == /\ pc = "stream"
               /\ \/ ~Openable /\ FileMissing /\ UNCHANGED status
                  \/ Openable /\ Failed /\ status' = "none"
               /\ UNCHANGED <<queue, hal, handle, stored, cache,
                              sem, decoders, old, oldState, heard, astray>>

(* Fed to the end, then left alone for the estimated time and stopped:     *)
(* nobody waits for the end the stream may report.                         *)
StreamDone == /\ pc = "stream" /\ Openable
              /\ ItemPlayed
              /\ \/ status' = "none" /\ UNCHANGED <<sem, astray>>
                 \/ /\ "stream" \in Untidy
                    /\ status' = "ended" /\ Release /\ astray' = TRUE
              /\ heard' = IF astray' THEN <<>> ELSE Append(heard, Item)
              /\ UNCHANGED <<queue, hal, handle, stored, cache,
                             decoders, old, oldState>>

----------------------------------------------------------------------------
(* The SDK's players, and the files *)

(* STARTED, OPENED, PCM_STARTED: no token.                                 *)
DecoderTalks(h) == /\ decoders[h] # NoDecoder
                   /\ status' = "busy"
                   /\ UNCHANGED <<taskVars, stored, cache,
                                  sem, decoders, old, oldState, heard, astray>>

(* sb_audio_hal_mp3_event_cb() with ENDED or TIMEOUT, after which the      *)
(* playback is gone, or with FILE_READED, after which it still runs.       *)
DecoderEnds(h) ==
  /\ decoders[h] # NoDecoder
  /\ \/ /\ status' = "ended"
        /\ astray' = (astray \/ pc # "wait")
        /\ heard' = IF astray' THEN <<>> ELSE Append(heard, decoders[h].item)
        /\ decoders' = [decoders EXCEPT ![h] = NoDecoder]
     \/ /\ status' = "timeout"
        /\ decoders' = [decoders EXCEPT ![h] = NoDecoder]
        /\ astray' = (astray \/ pc # "wait")
        /\ UNCHANGED heard
     \/ /\ "readed" \in Untidy /\ decoders[h].reading
        /\ status' = "readed"
        /\ decoders' = [decoders EXCEPT ![h].reading = FALSE]
        /\ astray' = TRUE
        /\ UNCHANGED heard
  /\ Release
  /\ UNCHANGED <<taskVars, stored, cache, old, oldState>>

(* sb_audio_hal_player_cb().                                               *)
OldPlayerReports ==
  /\ old = "playing"
  /\ \/ oldState' = "playing" /\ UNCHANGED <<sem, old, heard, astray>>
     \/ /\ astray' = (astray \/ pc # "old_wait")
        /\ \/ oldState' = "error" /\ UNCHANGED heard
           \/ /\ oldState' = "finished"
              /\ heard' = IF astray' THEN <<>> ELSE Append(heard, Item)
        /\ old' = "stopped" /\ Release
  /\ UNCHANGED <<taskVars, stored, cache, status, decoders>>

(* The factory tool writes and removes common files at any time; what the  *)
(* NOR holds is read from its manifest at boot.                            *)
Provision == /\ \E f \in Root : stored' \in {stored \cup {f}, stored \ {f}}
             /\ UNCHANGED <<taskVars, cache, decoderVars>>

----------------------------------------------------------------------------

PlayerStep == \/ DropRequest \/ TakeRequest \/ Validate \/ ScriptDone \/ Prepare
              \/ ProbeFails \/ Start \/ StartFails
              \/ Wake \/ TimeOut \/ Judge \/ GiveUp
              \/ OldStart \/ OldStartFails \/ OldWake \/ OldTimeOut \/ OldStop
              \/ StreamFails \/ StreamDone

AudioNext == \/ \E kind \in Kind : Enqueue(kind)
             \/ PlayerStep
             \/ \E h \in Handle : DecoderTalks(h) \/ DecoderEnds(h)
             \/ OldPlayerReports
             \/ Provision

AudioSpec == AudioInit /\ [][AudioNext]_audioVars

(* The task waits for its queue and, with a time-out, for the semaphore:   *)
(* it always goes on.  Nothing is assumed of the players.                  *)
FairAudioSpec == AudioSpec /\ WF_audioVars(PlayerStep)

----------------------------------------------------------------------------
(* Properties *)

Job == [kind : Told \cup {"none"}, stage : {"own", "fallback", "sorry"}, at : Nat \ {0}]

Decoder == [item : File, reading : BOOLEAN]

Where == {"idle", "script", "prepare", "play", "wait", "woken", "timed_out", "old",
          "old_wait", "old_woken", "old_timed_out", "stream", "done"}

(* Types; a request in hand has a script and an item of it.                *)
AudioTypeOK ==
  /\ queue \in Seq(Kind) /\ Len(queue) <= QueueDepth
  /\ hal \in {"down", "ready"}
  /\ pc \in Where
  /\ job \in Job
  /\ pc # "idle" => job.kind \in Told /\ job.at \in DOMAIN Items
  /\ handle \in Handle \cup {NoDecoder}
  /\ stored \subseteq File
  /\ cache \in Asset \cup {NoFile}
  /\ sem \in 0 .. MaxTokens
  /\ status \in {"none", "busy", "ended", "readed", "timeout"}
  /\ decoders \in [Handle -> Decoder \cup {NoDecoder}]
  /\ old \in {"stopped", "playing"}
  /\ oldState \in {"error", "playing", "finished"}
  /\ heard \in Seq(File)
  /\ astray \in BOOLEAN

(* Each playback is over, and its end taken, before the task goes on:      *)
(* no player still runs and no token is left for a later wait, whether it  *)
(* was played, refused, timed out, stopped or handed to a fallback         *)
(* (sb_audio_hal_play_mp3_file and s_mp3_done_sem).  The exception is an   *)
(* end that came when the task did not wait for it: between the time-out   *)
(* of a wait and its stop, or one more from a player that reports two.     *)
(* Nothing takes its token, and only when a later wait has taken it and    *)
(* its own playback was stopped are all at rest again.                     *)
PlaybackIsClosed ==
  pc \in {"idle", "script", "prepare", "play", "done", "old", "stream"} /\ ~astray => AtRest

(* What is reported as done was heard: when the task posts                 *)
(* SB_EVENT_AUDIO_PLAY_DONE, every file of the script, in its order, has   *)
(* been played to the end by one of the three ways to play it, but for     *)
(* the same exception.                                                     *)
DoneMeansHeard == pc = "done" /\ ~astray => heard = Items

(* A request gives up for want of a file only when the error tune is       *)
(* missing too: after the fallbacks of a payment and of a prompt           *)
(* (sb_audio_service_handle_request).                                      *)
SilentOnlyWithoutSorry ==
  [][pc = "script" /\ pc' = "idle" /\ job.kind # "common" => Sorry \notin stored]_audioVars

(* The file a playback is reading is not replaced under it: the cache      *)
(* holds the prompt being played until its end or its stop, but for the    *)
(* same exception (sb_store_copy_nor_to_cache beside ql_play_mp3).         *)
FromCache == {h \in Running : decoders[h].item \in Asset /\ decoders[h].reading}

CacheIsKept == [][FromCache # {} /\ ~astray => cache' = cache]_audioVars

(* The same without the exception, as the repository's account of the      *)
(* cache has it: a prompt is played, and then the cache is used again.     *)
CacheIsReusedAfter == [][FromCache # {} => cache' = cache]_audioVars

(* The audio task never hangs on a player that stays silent: a full        *)
(* request queue gets room again.                                          *)
FullQueueDrains == Len(queue) = QueueDepth ~> Len(queue) < QueueDepth

=============================================================================
