---------------------------- MODULE AudioProofs ----------------------------
(***************************************************************************)
(* AudioPlayer for every set of files, scripts, handles and queue depths:  *)
(* types whatever the SDK's players do, and a task that takes one end for  *)
(* another only after an end came that it did not wait for, and until a    *)
(* request finds the players and the semaphore at rest again.              *)
(***************************************************************************)
EXTENDS AudioPlayer, TLAPS

(* A job has a script: a sequence of files that is not empty.              *)
LEMMA ScriptType ==
  ASSUME NEW j \in Job, j.kind \in Told
  PROVE  /\ ScriptOf(j) \in Seq(File)
         /\ Len(ScriptOf(j)) \in Nat \ {0}
         /\ DOMAIN ScriptOf(j) = 1 .. Len(ScriptOf(j))
<1>s. ScriptOf(j) \in Seq(File) \ {<<>>}
  <2>1. CASE j.stage = "own"
    <3>1. Script[j.kind] \in Seq(File) \ {<<>>}
      BY AudioAssumption
    <3> QED BY <2>1, <3>1 DEF ScriptOf
  <2>2. CASE j.stage = "fallback"
    BY <2>2, AudioAssumption DEF ScriptOf
  <2>3. CASE j.stage = "sorry"
    <3>1. <<Sorry>> \in Seq(File) \ {<<>>}
      BY AudioAssumption DEF File
    <3> QED BY <2>3, <3>1 DEF ScriptOf
  <2>4. j.stage \in {"own", "fallback", "sorry"}
    BY DEF Job
  <2> QED BY <2>1, <2>2, <2>3, <2>4
<1>1. ScriptOf(j) \in Seq(File) /\ ScriptOf(j) # <<>>
  BY <1>s
<1>2. Len(ScriptOf(j)) \in Nat /\ DOMAIN ScriptOf(j) = 1 .. Len(ScriptOf(j))
  BY <1>1
<1>3. Len(ScriptOf(j)) # 0
  BY <1>1
<1> QED BY <1>1, <1>2, <1>3

InHand == job.kind \in Told /\ job.at \in DOMAIN Items

(* The item in hand is a file.                                             *)
LEMMA ItemType ==
  ASSUME job \in Job, InHand
  PROVE  Item \in File
BY ScriptType DEF InHand, Item, Items

(* What the end of an item or of a script does to the job.                 *)
LEMMA OverStep ==
  ASSUME Over
  PROVE  pc' = "idle" /\ job' \in Job /\ pc' \in Where
BY DEF Over, NoJob, Job, Where

LEMMA MissingStep ==
  ASSUME job \in Job, InHand, FileMissing
  PROVE  /\ pc' \in {"idle", "script"}
         /\ job' \in Job
         /\ pc' # "idle" => InHand' /\ job'.at = 1
<1>1. CASE Over
  BY <1>1, OverStep
<1>2. ASSUME NEW stage \in {"own", "fallback", "sorry"}, Turn(stage)
      PROVE  pc' = "script" /\ job' \in Job /\ InHand' /\ job'.at = 1
  <2> DEFINE turned == [job EXCEPT !.stage = stage]
  <2>a. turned \in Job /\ turned.kind = job.kind
    BY <1>2 DEF Job
  <2>b. pc' = "script" /\ job' = [turned EXCEPT !.at = 1]
    BY <1>2 DEF Turn, Job
  <2>1. /\ pc' = "script"
        /\ job' \in Job /\ job'.kind \in Told /\ job'.at = 1
    <3> HIDE DEF turned
    <3> QED BY <2>a, <2>b DEF Job, InHand
  <2>2. 1 \in DOMAIN ScriptOf(job')
    BY <2>1, ScriptType
  <2> QED BY <2>1, <2>2 DEF InHand, Items
<1>3. Over \/ \E stage \in {"own", "fallback", "sorry"} : Turn(stage)
  BY DEF FileMissing
<1> QED BY <1>1, <1>2, <1>3

LEMMA PlayedStep ==
  ASSUME job \in Job, InHand, ItemPlayed
  PROVE  /\ pc' \in {"prepare", "done"}
         /\ job' \in Job
         /\ InHand'
         /\ Items' = Items
         /\ pc' = "prepare" => job'.at = job.at + 1
         /\ pc' = "done" => job.at = Len(Items)
<1>t. /\ Len(Items) \in Nat \ {0}
      /\ DOMAIN Items = 1 .. Len(Items)
      /\ job.at \in 1 .. Len(Items)
  BY ScriptType DEF InHand, Items
<1>1. CASE job.at < Len(Items)
  <2>1. /\ pc' = "prepare"
        /\ job' \in Job /\ job'.kind = job.kind /\ job'.stage = job.stage
        /\ job'.at = job.at + 1
    BY <1>1, <1>t DEF ItemPlayed, Job
  <2>2. Items' = Items
    BY <2>1 DEF Items, ScriptOf
  <2>3. job'.at \in DOMAIN Items
    BY <1>1, <1>t, <2>1
  <2> QED BY <2>1, <2>2, <2>3 DEF InHand
<1>2. CASE ~(job.at < Len(Items))
  <2>1. pc' = "done" /\ job' = job
    BY <1>2 DEF ItemPlayed
  <2>2. Items' = Items /\ InHand'
    BY <2>1 DEF Items, InHand
  <2>3. job.at = Len(Items)
    BY <1>2, <1>t
  <2> QED BY <2>1, <2>2, <2>3
<1> QED BY <1>1, <1>2

----------------------------------------------------------------------------
(* Types *)

JobTypeOK == /\ pc \in Where
             /\ job \in Job
             /\ pc # "idle" => InHand

SdkTypeOK == /\ handle \in Handle \cup {NoDecoder}
             /\ stored \subseteq File
             /\ cache \in Asset \cup {NoFile}
             /\ sem \in 0 .. MaxTokens
             /\ status \in {"none", "busy", "ended", "readed", "timeout"}
             /\ decoders \in [Handle -> Decoder \cup {NoDecoder}]
             /\ old \in {"stopped", "playing"}
             /\ oldState \in {"error", "playing", "finished"}
             /\ heard \in Seq(File)
             /\ astray \in BOOLEAN

LEMMA SameJob ==
  ASSUME UNCHANGED job
  PROVE  Items' = Items /\ Item' = Item /\ (InHand => InHand')
BY DEF Items, Item, InHand

LEMMA JobTypeStep ==
  ASSUME JobTypeOK, [AudioNext]_audioVars
  PROVE  JobTypeOK'
<1> USE DEF JobTypeOK, Where
<1>1. CASE UNCHANGED <<pc, job>>
  BY <1>1, SameJob
<1>2. CASE TakeRequest
  <2>1. CASE Head(queue) \in Told
    <3>1. /\ pc' = "script"
          /\ job' = [kind |-> Head(queue), stage |-> "own", at |-> 1]
      BY <1>2, <2>1 DEF TakeRequest
    <3>2. job' \in Job /\ job'.kind \in Told /\ job'.at = 1
      BY <2>1, <3>1 DEF Job
    <3>3. InHand'
      BY <3>2, ScriptType DEF InHand, Items
    <3> QED BY <3>1, <3>2, <3>3
  <2>2. CASE Head(queue) \notin Told
    BY <1>1, <1>2, <2>2 DEF TakeRequest
  <2> QED BY <2>1, <2>2
<1>3. ASSUME pc # "idle", FileMissing  PROVE JobTypeOK'
  BY <1>3, MissingStep
<1>4. ASSUME Over  PROVE JobTypeOK'
  BY <1>4, OverStep
<1>5. ASSUME pc # "idle", ItemPlayed  PROVE JobTypeOK'
  BY <1>5, PlayedStep
<1>6. ASSUME pc # "idle", pc' \in Where, UNCHANGED job  PROVE JobTypeOK'
  BY <1>6, SameJob
<1>7. CASE Validate
  BY <1>3, <1>6, <1>7 DEF Validate
<1>8. CASE ScriptDone
  BY <1>4, <1>8 DEF ScriptDone
<1>9. CASE Prepare
  BY <1>3, <1>4, <1>6, <1>9 DEF Prepare, Failed
<1>10. CASE ProbeFails
  BY <1>3, <1>4, <1>10 DEF ProbeFails, Failed
<1>11. CASE \/ Start \/ StartFails \/ Wake \/ TimeOut
            \/ OldStart \/ OldStartFails \/ OldWake \/ OldTimeOut
  BY <1>6, <1>11 DEF Start, StartFails, Wake, TimeOut,
                     OldStart, OldStartFails, OldWake, OldTimeOut
<1>12. CASE Judge
  BY <1>4, <1>5, <1>12 DEF Judge, Failed
<1>13. CASE GiveUp
  BY <1>4, <1>13 DEF GiveUp, Failed
<1>14. CASE OldStop
  BY <1>5, <1>6, <1>14 DEF OldStop
<1>15. CASE StreamFails
  BY <1>3, <1>4, <1>15 DEF StreamFails, Failed
<1>16. CASE StreamDone
  BY <1>5, <1>16 DEF StreamDone
<1>17. CASE \/ \E kind \in Kind : Enqueue(kind)
            \/ DropRequest
            \/ \E h \in Handle : DecoderTalks(h) \/ DecoderEnds(h)
            \/ OldPlayerReports
            \/ Provision
            \/ UNCHANGED audioVars
  BY <1>1, <1>17 DEF Enqueue, DropRequest, DecoderTalks, DecoderEnds,
                     OldPlayerReports, Provision, audioVars, taskVars
<1> QED
  BY <1>2, <1>7, <1>8, <1>9, <1>10, <1>11, <1>12, <1>13, <1>14, <1>15, <1>16, <1>17
     DEF AudioNext, PlayerStep

LEMMA QueueTypeStep ==
  ASSUME queue \in Seq(Kind), Len(queue) <= QueueDepth, hal \in {"down", "ready"},
         [AudioNext]_audioVars
  PROVE  (queue \in Seq(Kind) /\ Len(queue) <= QueueDepth /\ hal \in {"down", "ready"})'
<1>1. CASE UNCHANGED <<queue, hal>>
  BY <1>1
<1>2. ASSUME NEW kind \in Kind, Enqueue(kind)
      PROVE  (queue \in Seq(Kind) /\ Len(queue) <= QueueDepth /\ hal \in {"down", "ready"})'
  BY <1>2, AudioAssumption DEF Enqueue
<1>3. CASE DropRequest \/ TakeRequest
  <2>1. /\ queue # <<>> /\ queue' = Tail(queue)
        /\ hal' \in {"down", "ready"}
    BY <1>3 DEF DropRequest, TakeRequest
  <2>2. queue' \in Seq(Kind) /\ Len(queue') <= Len(queue)
    BY <2>1
  <2>3. QueueDepth \in Nat /\ Len(queue) \in Nat /\ Len(queue') \in Nat
    BY <2>2, AudioAssumption
  <2> QED BY <2>1, <2>2, <2>3
<1> QED
  BY <1>1, <1>2, <1>3
     DEF AudioNext, PlayerStep, Validate, ScriptDone, Prepare, ProbeFails, Start,
         StartFails, Wake, TimeOut, Judge, GiveUp, OldStart, OldStartFails, OldWake,
         OldTimeOut, OldStop, StreamFails, StreamDone, DecoderTalks, DecoderEnds,
         OldPlayerReports, Provision, audioVars, taskVars

(* The old player runs only while the task waits for it or is stopping it. *)
OldIsWaitedFor ==
  old = "playing" => pc \in {"old_wait", "old_woken", "old_timed_out"}

LEMMA OldIsWaitedForStep ==
  ASSUME SdkTypeOK, OldIsWaitedFor, [AudioNext]_audioVars
  PROVE  OldIsWaitedFor'
<1> USE DEF OldIsWaitedFor
<1>1. CASE UNCHANGED <<pc, old>>
  BY <1>1
<1>2. CASE old' = "stopped"
  BY <1>2
<1>3. CASE pc \notin {"old_wait", "old_woken", "old_timed_out"} /\ UNCHANGED old
  BY <1>3 DEF SdkTypeOK
<1>4. CASE OldStart \/ OldWake \/ OldTimeOut
  BY <1>4 DEF OldStart, OldWake, OldTimeOut
<1>5. CASE OldStop
  BY <1>2, <1>5 DEF OldStop
<1>6. CASE OldPlayerReports
  BY <1>1, <1>2, <1>6 DEF OldPlayerReports, taskVars
<1>7. CASE \/ \E kind \in Kind : Enqueue(kind)
           \/ \E h \in Handle : DecoderTalks(h) \/ DecoderEnds(h)
           \/ Provision
           \/ UNCHANGED audioVars
  BY <1>1, <1>7 DEF Enqueue, DecoderTalks, DecoderEnds, Provision, audioVars, taskVars,
                    decoderVars
<1>8. CASE \/ DropRequest \/ TakeRequest \/ Validate \/ ScriptDone \/ Prepare
           \/ ProbeFails \/ Start \/ StartFails
           \/ Wake \/ TimeOut \/ Judge \/ GiveUp
           \/ OldStartFails \/ StreamFails \/ StreamDone
  BY <1>3, <1>8
     DEF DropRequest, TakeRequest, Validate, ScriptDone, Prepare, ProbeFails, Start,
         StartFails, Wake, TimeOut, Judge, GiveUp, OldStartFails, StreamFails,
         StreamDone, decoderVars
<1> QED
  BY <1>4, <1>5, <1>6, <1>7, <1>8 DEF AudioNext, PlayerStep

LEMMA SdkTypeStep ==
  ASSUME JobTypeOK, SdkTypeOK, OldIsWaitedFor, [AudioNext]_audioVars
  PROVE  SdkTypeOK'
<1> USE DEF SdkTypeOK
<1>m. MaxTokens \in Nat \ {0}
  BY AudioAssumption
<1>r. ASSUME Release  PROVE sem' \in 0 .. MaxTokens
  BY <1>m, <1>r DEF Release
<1>h. ASSUME NEW f \in File, heard' \in {heard, <<>>, Append(heard, f)}
      PROVE  heard' \in Seq(File)
  <2>1. heard \in Seq(File) /\ <<>> \in Seq(File) /\ Append(heard, f) \in Seq(File)
    OBVIOUS
  <2> QED BY <1>h, <2>1
<1>i. pc # "idle" => Item \in File
  BY ItemType DEF JobTypeOK
<1>1. CASE \/ \E kind \in Kind : Enqueue(kind)
           \/ DropRequest \/ ScriptDone \/ ProbeFails
           \/ TimeOut \/ OldStartFails \/ OldTimeOut
           \/ UNCHANGED audioVars
  BY <1>1 DEF Enqueue, DropRequest, ScriptDone, ProbeFails, TimeOut,
              OldStartFails, OldTimeOut, audioVars, decoderVars, taskVars
<1>1a. CASE TakeRequest
  <2>1. astray' \in BOOLEAN
    BY <1>1a DEF TakeRequest
  <2> QED BY <1>1a, <2>1 DEF TakeRequest
<1>2. CASE Validate
  <2>1. heard' = <<>> \/ heard' = heard
    BY <1>2 DEF Validate
  <2>2. <<>> \in Seq(File) /\ heard \in Seq(File)
    OBVIOUS
  <2>3. heard' \in Seq(File)
    BY <2>1, <2>2 DEF SdkTypeOK
  <2> QED BY <1>2, <2>3 DEF Validate
<1>3. CASE Prepare
  BY <1>3 DEF Prepare, decoderVars
<1>4. CASE Start
  <2>1. PICK h \in Handle :
          /\ decoders' = [decoders EXCEPT ![h] = [item |-> Item, reading |-> TRUE]]
          /\ handle' = h
    BY <1>4 DEF Start
  <2>2. [item |-> Item, reading |-> TRUE] \in Decoder
    BY <1>i, <1>4 DEF Start, Decoder
  <2>3. decoders' \in [Handle -> Decoder \cup {NoDecoder}]
    BY <2>1, <2>2
  <2> QED BY <1>4, <2>1, <2>3 DEF Start
<1>5. CASE StartFails \/ OldStart \/ OldStop \/ StreamFails
  BY <1>5 DEF StartFails, OldStart, OldStop, StreamFails
<1>6. CASE Wake \/ OldWake
  BY <1>6, <1>m DEF Wake, OldWake
<1>7. CASE Judge
  BY <1>7 DEF Judge, decoderVars
<1>8. CASE GiveUp
  <2>1. decoders' \in [Handle -> Decoder \cup {NoDecoder}]
    BY <1>8 DEF GiveUp
  <2> QED BY <1>8, <2>1 DEF GiveUp
<1>9. CASE StreamDone
  <2>1. Item \in File
    BY <1>9, <1>i DEF StreamDone
  <2>2. heard' \in {heard, <<>>, Append(heard, Item)}
    BY <1>9 DEF StreamDone
  <2>3. heard' \in Seq(File)
    BY <1>h, <2>1, <2>2
  <2> QED BY <1>9, <1>r, <2>3 DEF StreamDone
<1>10. CASE \E h \in Handle : DecoderTalks(h)
  BY <1>10 DEF DecoderTalks, taskVars
<1>11. ASSUME NEW h \in Handle, DecoderEnds(h)  PROVE SdkTypeOK'
  <2>1. decoders[h] \in Decoder
    BY <1>11 DEF DecoderEnds
  <2>2. decoders[h].item \in File
    BY <2>1 DEF Decoder
  <2>3. heard' \in Seq(File)
    <3>1. heard' \in {heard, <<>>, Append(heard, decoders[h].item)}
      BY <1>11 DEF DecoderEnds
    <3> QED BY <1>h, <2>2, <3>1
  <2>a. astray' \in BOOLEAN
    BY <1>11 DEF DecoderEnds
  <2>4. [decoders[h] EXCEPT !.reading = FALSE] \in Decoder
    BY <2>1 DEF Decoder
  <2>5. decoders' \in [Handle -> Decoder \cup {NoDecoder}]
    BY <1>11, <2>4 DEF DecoderEnds
  <2> QED BY <1>11, <1>r, <2>3, <2>a, <2>5 DEF DecoderEnds, taskVars
<1>12. CASE OldPlayerReports
  <2>1. Item \in File
    BY <1>12, <1>i DEF OldPlayerReports, OldIsWaitedFor
  <2>2. heard' \in {heard, <<>>, Append(heard, Item)}
    BY <1>12 DEF OldPlayerReports
  <2>3. heard' \in Seq(File)
    BY <1>h, <2>1, <2>2
  <2>4. astray' \in BOOLEAN
    BY <1>12 DEF OldPlayerReports
  <2> QED BY <1>12, <1>r, <2>3, <2>4 DEF OldPlayerReports, taskVars
<1>13. CASE Provision
  BY <1>13 DEF Provision, File, taskVars, decoderVars
<1> QED
  BY <1>1, <1>1a, <1>2, <1>3, <1>4, <1>5, <1>6, <1>7, <1>8, <1>9, <1>10, <1>11, <1>12,
     <1>13
     DEF AudioNext, PlayerStep

AudioTypeInv == AudioTypeOK /\ OldIsWaitedFor

LEMMA AudioTypeSplit ==
  AudioTypeOK <=> /\ queue \in Seq(Kind) /\ Len(queue) <= QueueDepth
                  /\ hal \in {"down", "ready"}
                  /\ JobTypeOK
                  /\ SdkTypeOK
BY DEF AudioTypeOK, JobTypeOK, SdkTypeOK, InHand

LEMMA AudioTypeStep ==
  ASSUME AudioTypeInv, [AudioNext]_audioVars
  PROVE  AudioTypeInv'
<1>1. /\ queue \in Seq(Kind) /\ Len(queue) <= QueueDepth /\ hal \in {"down", "ready"}
      /\ JobTypeOK /\ SdkTypeOK /\ OldIsWaitedFor
  BY AudioTypeSplit DEF AudioTypeInv
<1>2. JobTypeOK' /\ SdkTypeOK' /\ OldIsWaitedFor'
  BY <1>1, JobTypeStep, SdkTypeStep, OldIsWaitedForStep
<1>3. (queue \in Seq(Kind) /\ Len(queue) <= QueueDepth /\ hal \in {"down", "ready"})'
  BY <1>1, QueueTypeStep
<1> QED
  BY <1>2, <1>3 DEF AudioTypeInv, AudioTypeOK, JobTypeOK, SdkTypeOK, InHand

LEMMA AudioTypeStart ==
  ASSUME AudioInit
  PROVE  AudioTypeInv
<1>1. queue \in Seq(Kind) /\ Len(queue) <= QueueDepth /\ hal \in {"down", "ready"}
  BY AudioAssumption DEF AudioInit
<1>2. JobTypeOK
  BY DEF AudioInit, JobTypeOK, NoJob, Job, Where
<1>3. SdkTypeOK
  <2>1. sem \in 0 .. MaxTokens
    BY AudioAssumption DEF AudioInit
  <2>2. /\ decoders \in [Handle -> Decoder \cup {NoDecoder}]
        /\ heard \in Seq(File)
    <3>1. heard = <<>> /\ decoders = [h \in Handle |-> NoDecoder]
      BY DEF AudioInit
    <3> QED BY <3>1
  <2>a. astray \in BOOLEAN
    BY Zenon DEF AudioInit
  <2>3. /\ handle \in Handle \cup {NoDecoder}
        /\ stored \subseteq File
        /\ cache \in Asset \cup {NoFile}
    BY DEF AudioInit
  <2>4. /\ status \in {"none", "busy", "ended", "readed", "timeout"}
        /\ old \in {"stopped", "playing"}
        /\ oldState \in {"error", "playing", "finished"}
    BY DEF AudioInit
  <2> QED BY <2>1, <2>2, <2>a, <2>3, <2>4 DEF SdkTypeOK
<1> QED
  BY <1>1, <1>2, <1>3, AudioTypeSplit DEF AudioTypeInv, OldIsWaitedFor, AudioInit

(* Type correctness, and that a request in hand has an item to play, for   *)
(* every behaviour of the SDK's players.                                   *)
THEOREM AudioTypes == AudioSpec => []AudioTypeOK
<1>1. AudioInit => AudioTypeInv
  BY AudioTypeStart
<1>2. AudioTypeInv /\ [AudioNext]_audioVars => AudioTypeInv'
  BY AudioTypeStep
<1>3. AudioTypeInv => AudioTypeOK
  BY DEF AudioTypeInv
<1> QED BY <1>1, <1>2, <1>3, PTL DEF AudioSpec

----------------------------------------------------------------------------
(* Nothing astray: no playback outlives its turn *)

(* The only way back from an end that went astray is a request that finds  *)
(* everything at rest.                                                     *)
LEMMA AstrayEnds ==
  ASSUME AudioTypeInv, astray, ~astray', [AudioNext]_audioVars
  PROVE  /\ AtRest /\ UNCHANGED <<sem, decoders, old>>
         /\ \/ pc' = "idle"
            \/ pc' = "script" /\ job'.at = 1
<1>1. TakeRequest
  BY DEF AudioNext, PlayerStep, Enqueue, DropRequest, Validate, ScriptDone, Prepare,
         ProbeFails, Start, StartFails, Wake, TimeOut, Judge, GiveUp, OldStart,
         OldStartFails, OldWake, OldTimeOut, OldStop, StreamFails, StreamDone,
         DecoderTalks, DecoderEnds, OldPlayerReports, Provision, audioVars, decoderVars
<1>2. AtRest /\ UNCHANGED <<sem, decoders, old>>
  BY <1>1 DEF TakeRequest
<1>3. \/ pc' = "idle"
      \/ pc' = "script" /\ job' = [kind |-> Head(queue), stage |-> "own", at |-> 1]
  BY <1>1 DEF TakeRequest
<1> QED BY <1>2, <1>3

QuietInv ==
  /\ pc \notin {"wait", "timed_out", "old_wait", "old_timed_out"} => sem = 0
  /\ pc \notin {"wait", "timed_out"} => Running = {}
  /\ pc \notin {"old_wait", "old_timed_out"} => old = "stopped"
  /\ pc \in {"wait", "timed_out"} => handle \in Handle
  /\ pc = "wait" => \/ Running = {handle} /\ sem = 0
                    \/ Running = {} /\ sem = 1
  /\ pc = "timed_out" => Running = {handle} /\ sem = 0
  /\ pc = "old_wait" => \/ old = "playing" /\ sem = 0
                        \/ old = "stopped" /\ sem = 1
  /\ pc = "old_timed_out" => old = "playing" /\ sem = 0

(* Where the task neither waits for a player nor is stopping one.          *)
Elsewhere == {"idle", "script", "prepare", "play", "woken", "old",
              "old_woken", "stream", "done"}

LEMMA QuietStep ==
  ASSUME AudioTypeInv, QuietInv, ~astray', [AudioNext]_audioVars
  PROVE  QuietInv'
<1>t. /\ pc \in Where /\ sem \in Nat /\ MaxTokens \in Nat \ {0}
      /\ decoders \in [Handle -> Decoder \cup {NoDecoder}]
      /\ job \in Job /\ (pc # "idle" => InHand)
  BY AudioAssumption DEF AudioTypeInv, AudioTypeOK, InHand
<1>n. pc # "idle" => [item |-> Item, reading |-> TRUE] # NoDecoder
  <2>1. pc # "idle" => Item \in File
    BY <1>t, ItemType
  <2>2. \A f \in File : [item |-> f, reading |-> TRUE] \in [item : File, reading : BOOLEAN]
    OBVIOUS
  <2> QED BY <2>1, <2>2, AudioAssumption
<1>f. ASSUME pc # "idle", Over \/ FileMissing \/ ItemPlayed
      PROVE  pc' \in {"idle", "script", "prepare", "done"}
  BY <1>f, <1>t, OverStep, MissingStep, PlayedStep
<1>1. CASE UNCHANGED <<pc, handle, decoders, sem, old>>
  BY <1>1 DEF QuietInv, Running
<1>2. CASE /\ pc \in Elsewhere /\ pc' \in Elsewhere
           /\ UNCHANGED <<decoders, sem, old>>
  BY <1>2 DEF QuietInv, Running, Elsewhere
<1>3. CASE \/ DropRequest \/ TakeRequest \/ Validate \/ ScriptDone \/ Prepare
           \/ ProbeFails \/ StartFails \/ OldStartFails \/ StreamFails
           \/ Judge
  <2>1. pc \in Elsewhere /\ UNCHANGED <<decoders, sem, old>>
    BY <1>3 DEF DropRequest, TakeRequest, Validate, ScriptDone, Prepare, ProbeFails,
                StartFails, OldStartFails, StreamFails, Judge, decoderVars, Elsewhere
  <2>2. pc' \in Elsewhere
    BY <1>3, <1>f
       DEF DropRequest, TakeRequest, Validate, ScriptDone, Prepare, ProbeFails,
           StartFails, OldStartFails, StreamFails, Judge, Failed, Elsewhere
  <2> QED BY <1>2, <2>1, <2>2
<1>4. CASE StreamDone
  <2>1. pc = "stream" /\ pc' \in {"idle", "script", "prepare", "done"}
    BY <1>4, <1>f DEF StreamDone
  <2>2. UNCHANGED <<decoders, sem, old>>
    BY <1>4 DEF StreamDone
  <2> QED BY <1>2, <2>1, <2>2 DEF Elsewhere
<1>5. CASE Start
  <2>1. PICK h \in Handle :
          /\ decoders' = [decoders EXCEPT ![h] = [item |-> Item, reading |-> TRUE]]
          /\ handle' = h
    BY <1>5 DEF Start
  <2>2. pc = "play" /\ pc' = "wait" /\ UNCHANGED <<sem, old>>
    BY <1>5 DEF Start
  <2>3. Running = {} /\ sem = 0 /\ old = "stopped"
    BY <2>2 DEF QuietInv
  <2>4. Running' = {h}
    BY <1>n, <1>t, <2>1, <2>2, <2>3 DEF Running
  <2> QED BY <2>1, <2>2, <2>3, <2>4 DEF QuietInv
<1>6. CASE Wake \/ TimeOut
  <2>1. pc = "wait" /\ UNCHANGED <<decoders, handle, old>> /\ Running' = Running
    BY <1>6 DEF Wake, TimeOut, Running, decoderVars
  <2> QED BY <1>6, <1>t, <2>1 DEF Wake, TimeOut, QuietInv, decoderVars
<1>7. CASE GiveUp
  <2>1. /\ pc = "timed_out" /\ pc' = "idle" /\ UNCHANGED <<sem, old>>
        /\ decoders' = [decoders EXCEPT ![handle] = NoDecoder]
    BY <1>7 DEF GiveUp, Failed, Over
  <2>2. Running = {handle} /\ sem = 0 /\ old = "stopped"
    BY <2>1 DEF QuietInv
  <2>3. Running' = {}
    BY <1>t, <2>1, <2>2 DEF Running
  <2> QED BY <2>1, <2>2, <2>3 DEF QuietInv
<1>8. CASE OldStart \/ OldWake \/ OldTimeOut
  <2>1. UNCHANGED decoders /\ Running' = Running
    BY <1>8 DEF OldStart, OldWake, OldTimeOut, Running, decoderVars
  <2> QED BY <1>8, <1>t, <2>1 DEF OldStart, OldWake, OldTimeOut, QuietInv, decoderVars
<1>9. CASE OldStop
  <2>1. /\ pc \in {"old_woken", "old_timed_out"} /\ old' = "stopped"
        /\ UNCHANGED <<sem, decoders>> /\ Running' = Running
    BY <1>9 DEF OldStop, Running
  <2>2. pc' \in {"idle", "script", "prepare", "done", "stream"}
    BY <1>9, <1>f DEF OldStop
  <2> QED BY <2>1, <2>2 DEF QuietInv
<1>10. ASSUME NEW h \in Handle, DecoderEnds(h)  PROVE QuietInv'
  <2>1. /\ pc = "wait"
        /\ h \in Running
        /\ decoders' = [decoders EXCEPT ![h] = NoDecoder]
        /\ UNCHANGED <<pc, handle, old>>
    BY <1>10 DEF DecoderEnds, Running, taskVars
  <2>2. pc = "wait" /\ Running = {handle} /\ sem = 0 /\ h = handle /\ old = "stopped"
    BY <2>1 DEF QuietInv
  <2>3. Running' = {}
    BY <1>t, <2>1, <2>2 DEF Running
  <2>4. sem' = 1
    BY <1>10, <1>t, <2>2 DEF DecoderEnds, Release
  <2> QED BY <2>1, <2>2, <2>3, <2>4 DEF QuietInv
<1>11. CASE OldPlayerReports
  <2>1. /\ old = "playing"
        /\ UNCHANGED <<pc, handle, decoders>> /\ Running' = Running
    BY <1>11 DEF OldPlayerReports, taskVars, Running
  <2>2. CASE UNCHANGED <<sem, old>>
    BY <1>1, <2>1, <2>2
  <2>3. CASE pc = "old_wait" /\ old' = "stopped" /\ Release
    <3>1. sem = 0 /\ Running = {}
      BY <2>1, <2>3 DEF QuietInv
    <3>2. sem' = 1
      BY <1>t, <2>3, <3>1 DEF Release
    <3> QED BY <2>1, <2>3, <3>1, <3>2 DEF QuietInv
  <2> QED BY <1>11, <2>2, <2>3 DEF OldPlayerReports
<1>12. CASE \/ \E kind \in Kind : Enqueue(kind)
            \/ \E h \in Handle : DecoderTalks(h)
            \/ Provision
            \/ UNCHANGED audioVars
  BY <1>1, <1>12 DEF Enqueue, DecoderTalks, Provision, audioVars, taskVars, decoderVars
<1> QED
  BY <1>3, <1>4, <1>5, <1>6, <1>7, <1>8, <1>9, <1>10, <1>11, <1>12
     DEF AudioNext, PlayerStep

LEMMA QuietRestart ==
  ASSUME AudioTypeInv, astray, ~astray', [AudioNext]_audioVars
  PROVE  QuietInv'
<1>1. /\ AtRest /\ UNCHANGED <<sem, decoders, old>> /\ pc' \in {"idle", "script"}
  BY AstrayEnds
<1>2. Running' = {} /\ old' = "stopped" /\ sem' = 0
  BY <1>1 DEF AtRest, Running
<1> QED BY <1>1, <1>2 DEF QuietInv

Quiet == ~astray => QuietInv

LEMMA QuietHolds == AudioSpec => [](AudioTypeInv /\ Quiet)
<1>1. AudioInit => AudioTypeInv /\ Quiet
  <2>1. AudioInit => QuietInv
    BY DEF AudioInit, QuietInv, Running
  <2> QED BY <2>1, AudioTypeStart DEF Quiet
<1>2. AudioTypeInv /\ Quiet /\ [AudioNext]_audioVars => (AudioTypeInv /\ Quiet)'
  <2> SUFFICES ASSUME AudioTypeInv, Quiet, [AudioNext]_audioVars
               PROVE  AudioTypeInv' /\ Quiet'
    OBVIOUS
  <2>1. AudioTypeInv'
    BY AudioTypeStep
  <2>2. ASSUME ~astray'  PROVE QuietInv'
    <3>1. CASE astray
      BY <2>2, <3>1, QuietRestart
    <3>2. CASE ~astray
      BY <2>2, <3>2, QuietStep DEF Quiet
    <3> QED BY <3>1, <3>2
  <2> QED BY <2>1, <2>2 DEF Quiet
<1> QED BY <1>1, <1>2, PTL DEF AudioSpec

(* No playback and no token outlives its turn, for every script, queue and *)
(* set of handles and whatever the players do, but after an end that came  *)
(* when the task did not wait for it and until all are at rest again.      *)
THEOREM NoStalePlayback == AudioSpec => []PlaybackIsClosed
<1>1. Quiet => PlaybackIsClosed
  BY DEF Quiet, QuietInv, PlaybackIsClosed, AtRest
<1> QED BY <1>1, QuietHolds, PTL

(* The cache file is never replaced under a playback that reads it, but    *)
(* for the same exception.                                                 *)
THEOREM CacheUntouched == AudioSpec => CacheIsKept
<1>1. Quiet /\ [AudioNext]_audioVars =>
        [FromCache # {} /\ ~astray => cache' = cache]_audioVars
  <2> SUFFICES ASSUME Quiet, AudioNext, FromCache # {}, ~astray, ~UNCHANGED cache
               PROVE  FALSE
    OBVIOUS
  <2>1. Prepare
    BY DEF AudioNext, PlayerStep, Enqueue, DropRequest, TakeRequest, Validate, ScriptDone,
           ProbeFails, Start, StartFails, Wake, TimeOut, Judge, GiveUp, OldStart,
           OldStartFails, OldWake, OldTimeOut, OldStop, StreamFails, StreamDone,
           DecoderTalks, DecoderEnds, OldPlayerReports, Provision
  <2>2. Running = {}
    BY <2>1 DEF Prepare, Quiet, QuietInv
  <2> QED BY <2>2 DEF FromCache
<1> QED BY <1>1, QuietHolds, PTL DEF AudioSpec, CacheIsKept

----------------------------------------------------------------------------
(* What is reported as done was heard *)

LEMMA Prefixes ==
  ASSUME NEW s \in Seq(File)
  PROVE  /\ SubSeq(s, 1, 0) = <<>>
         /\ SubSeq(s, 1, Len(s)) = s
         /\ \A n \in 1 .. Len(s) : Append(SubSeq(s, 1, n - 1), s[n]) = SubSeq(s, 1, n)
<1>1. SubSeq(s, 1, 0) = <<>> /\ SubSeq(s, 1, Len(s)) = s
  OBVIOUS
<1>2. ASSUME NEW n \in 1 .. Len(s)
      PROVE  Append(SubSeq(s, 1, n - 1), s[n]) = SubSeq(s, 1, n)
  OBVIOUS
<1> QED BY <1>1, <1>2

Upto(n) == heard = SubSeq(Items, 1, n)

(* How much of the script has been heard, for each place of the task.      *)
HeardInv ==
  /\ pc = "script" => job.at = 1
  /\ pc \in {"prepare", "play", "old", "stream", "timed_out", "old_timed_out"} =>
       Upto(job.at - 1)
  /\ pc \in {"wait", "woken"} =>
       IF Running # {} \/ status = "timeout"
       THEN Upto(job.at - 1)
       ELSE status = "ended" /\ Upto(job.at)
  /\ pc \in {"wait", "timed_out"} => \A h \in Running : decoders[h].item = Item
  /\ pc \in {"old_wait", "old_woken"} =>
       IF old = "playing" \/ oldState = "error"
       THEN Upto(job.at - 1)
       ELSE oldState = "finished" /\ Upto(job.at)
  /\ pc = "done" => heard = Items

LEMMA HeardAfterItem ==
  ASSUME job \in Job, InHand, ItemPlayed, heard' = SubSeq(Items, 1, job.at)
  PROVE  HeardInv'
<1>1. /\ pc' \in {"prepare", "done"}
      /\ Items' = Items
      /\ pc' = "prepare" => job'.at = job.at + 1
      /\ pc' = "done" => job.at = Len(Items)
  BY PlayedStep
<1>2. job.at \in Nat /\ SubSeq(Items, 1, Len(Items)) = Items
  BY ScriptType, Prefixes DEF InHand, Items, Job
<1>3. CASE pc' = "prepare"
  <2>1. heard' = SubSeq(Items', 1, job'.at - 1)
    BY <1>1, <1>2, <1>3
  <2> QED BY <1>3, <2>1 DEF HeardInv, Upto
<1>4. CASE pc' = "done"
  <2>1. heard' = Items'
    BY <1>1, <1>2, <1>4
  <2> QED BY <1>4, <2>1 DEF HeardInv
<1> QED BY <1>1, <1>3, <1>4

LEMMA HeardStep ==
  ASSUME AudioTypeInv, QuietInv, HeardInv, ~astray', [AudioNext]_audioVars
  PROVE  HeardInv'
<1>t. pc # "idle" => job \in Job /\ InHand
  BY DEF AudioTypeInv, AudioTypeOK, InHand
<1>d. decoders \in [Handle -> Decoder \cup {NoDecoder}]
  BY DEF AudioTypeInv, AudioTypeOK
<1>p. pc # "idle" =>
        /\ Items \in Seq(File)
        /\ job.at \in 1 .. Len(Items)
        /\ SubSeq(Items, 1, 0) = <<>>
        /\ Append(SubSeq(Items, 1, job.at - 1), Item) = SubSeq(Items, 1, job.at)
  BY <1>t, ScriptType, Prefixes DEF InHand, Items, Item
<1>1. ASSUME pc # "idle", Over \/ FileMissing  PROVE HeardInv'
  <2>1. \/ pc' = "idle"
        \/ pc' = "script" /\ job'.at = 1
    BY <1>1, <1>t, OverStep, MissingStep
  <2> QED BY <2>1 DEF HeardInv
<1>2. ASSUME pc # "idle", ItemPlayed, heard' = SubSeq(Items, 1, job.at)
      PROVE  HeardInv'
  BY <1>2, <1>t, HeardAfterItem
<1>3. ASSUME UNCHANGED <<pc, job, heard, decoders, status, old, oldState>>
      PROVE  HeardInv'
  BY <1>3, SameJob DEF HeardInv, Upto, Running
(* Between places at which as much has been heard.                         *)
<1>4. ASSUME pc \in {"prepare", "play", "old", "stream", "old_timed_out"},
             pc' \in {"prepare", "play", "old", "stream", "old_timed_out"},
             UNCHANGED <<job, heard>>
      PROVE  HeardInv'
  <2>1. Upto(job.at - 1)
    BY <1>4 DEF HeardInv
  <2>2. Upto(job.at - 1)'
    BY <1>4, <2>1, SameJob DEF Upto
  <2> QED BY <1>4, <2>2 DEF HeardInv
<1>5. CASE pc = "idle" /\ (DropRequest \/ TakeRequest)
  <2>1. \/ pc' = "idle"
        \/ pc' = "script" /\ job'.at = 1
    BY <1>5 DEF DropRequest, TakeRequest
  <2> QED BY <2>1 DEF HeardInv
<1>6. CASE Validate
  <2>1. CASE FileMissing
    BY <1>1, <1>6, <2>1 DEF Validate
  <2>2. CASE pc' = "prepare" /\ heard' = <<>> /\ UNCHANGED job
    <3>1. job.at = 1 /\ SubSeq(Items, 1, 0) = <<>>
      BY <1>6, <1>p DEF Validate, HeardInv
    <3>2. Upto(job.at - 1)'
      BY <2>2, <3>1, SameJob DEF Upto
    <3> QED BY <2>2, <3>2 DEF HeardInv
  <2> QED BY <1>6, <2>1, <2>2 DEF Validate
<1>7. CASE ScriptDone
  BY <1>1, <1>7 DEF ScriptDone
<1>8. CASE Prepare
  BY <1>1, <1>4, <1>8 DEF Prepare, Failed, decoderVars
<1>9. CASE ProbeFails
  BY <1>1, <1>9 DEF ProbeFails, Failed
<1>10. CASE Start
  <2>1. PICK h \in Handle :
          decoders' = [decoders EXCEPT ![h] = [item |-> Item, reading |-> TRUE]]
    BY <1>10 DEF Start
  <2>2. pc = "play" /\ pc' = "wait" /\ UNCHANGED <<job, heard>>
    BY <1>10 DEF Start
  <2>3. Running' = {h} /\ decoders'[h].item = Item
    <3>1. Running = {}
      BY <2>2 DEF QuietInv
    <3>2. [item |-> Item, reading |-> TRUE] # NoDecoder
      <4>1. Item \in File
        BY <1>t, <2>2, ItemType
      <4>2. [item |-> Item, reading |-> TRUE] \in [item : File, reading : BOOLEAN]
        BY <4>1
      <4> QED BY <4>2, AudioAssumption
    <3> QED BY <1>d, <2>1, <3>1, <3>2 DEF Running
  <2>4. Upto(job.at - 1)' /\ Item' = Item
    BY <2>2, SameJob DEF HeardInv, Upto
  <2> QED BY <2>2, <2>3, <2>4 DEF HeardInv
<1>11. CASE StartFails
  BY <1>4, <1>11 DEF StartFails
<1>12. CASE Wake
  <2>1. /\ pc = "wait" /\ pc' = "woken"
        /\ UNCHANGED <<job, heard, status>> /\ Running' = Running
    BY <1>12 DEF Wake, Running
  <2> QED BY <2>1, SameJob DEF HeardInv, Upto
<1>13. CASE TimeOut
  <2>1. /\ pc = "wait" /\ pc' = "timed_out" /\ sem = 0
        /\ UNCHANGED <<job, heard, status, decoders>> /\ Running' = Running
    BY <1>13 DEF TimeOut, Running, decoderVars
  <2>2. Running # {}
    BY <2>1 DEF QuietInv
  <2> QED BY <2>1, <2>2, SameJob DEF HeardInv, Upto
<1>14. CASE Judge
  <2>1. CASE status \in {"ended", "readed"}
    <3>1. pc = "woken" /\ ItemPlayed /\ UNCHANGED heard
      BY <1>14, <2>1 DEF Judge, decoderVars
    <3>2. Running = {}
      BY <3>1 DEF QuietInv
    <3>3. Upto(job.at)
      BY <2>1, <3>1, <3>2 DEF HeardInv
    <3> QED BY <1>2, <3>1, <3>3 DEF Upto
  <2>2. CASE status \notin {"ended", "readed"}
    BY <1>1, <1>14, <2>2 DEF Judge, Failed
  <2> QED BY <2>1, <2>2
<1>15. CASE GiveUp
  BY <1>1, <1>15 DEF GiveUp, Failed
<1>16. CASE OldStart
  <2>1. /\ pc = "old" /\ pc' = "old_wait" /\ old' = "playing"
        /\ UNCHANGED <<job, heard>>
    BY <1>16 DEF OldStart
  <2>2. Upto(job.at - 1)'
    BY <2>1, SameJob DEF HeardInv, Upto
  <2> QED BY <2>1, <2>2 DEF HeardInv
<1>17. CASE OldStartFails
  BY <1>4, <1>17 DEF OldStartFails, decoderVars
<1>18. CASE OldWake
  <2>1. /\ pc = "old_wait" /\ pc' = "old_woken"
        /\ UNCHANGED <<job, heard, old, oldState>>
    BY <1>18 DEF OldWake
  <2> QED BY <2>1, SameJob DEF HeardInv, Upto
<1>19. CASE OldTimeOut
  <2>1. /\ pc = "old_wait" /\ pc' = "old_timed_out" /\ sem = 0
        /\ UNCHANGED <<job, heard>>
    BY <1>19 DEF OldTimeOut, decoderVars
  <2>2. old = "playing"
    BY <2>1 DEF QuietInv
  <2>3. Upto(job.at - 1)'
    BY <2>1, <2>2, SameJob DEF HeardInv, Upto
  <2> QED BY <2>1, <2>3 DEF HeardInv
<1>20. CASE OldStop
  <2>1. CASE pc = "old_woken" /\ oldState # "error"
    <3>1. ItemPlayed /\ UNCHANGED heard
      BY <1>20, <2>1 DEF OldStop
    <3>2. old = "stopped"
      BY <2>1 DEF QuietInv
    <3>3. Upto(job.at)
      BY <2>1, <3>2 DEF HeardInv
    <3> QED BY <1>2, <2>1, <3>1, <3>3 DEF Upto
  <2>2. CASE ~(pc = "old_woken" /\ oldState # "error")
    <3>1. /\ pc \in {"old_woken", "old_timed_out"} /\ pc' = "stream"
          /\ UNCHANGED <<job, heard>>
      BY <1>20, <2>2 DEF OldStop
    <3>2. Upto(job.at - 1)
      BY <2>2, <3>1 DEF HeardInv
    <3>3. Upto(job.at - 1)'
      BY <3>1, <3>2, SameJob DEF Upto
    <3> QED BY <3>1, <3>3 DEF HeardInv
  <2> QED BY <2>1, <2>2
<1>21. CASE StreamFails
  BY <1>1, <1>21 DEF StreamFails, Failed
<1>22. CASE StreamDone
  <2>1. pc = "stream" /\ ItemPlayed /\ heard' = Append(heard, Item)
    BY <1>22 DEF StreamDone
  <2>2. Upto(job.at - 1)
    BY <2>1 DEF HeardInv
  <2>3. heard' = SubSeq(Items, 1, job.at)
    BY <1>p, <2>1, <2>2 DEF Upto
  <2> QED BY <1>2, <2>1, <2>3
<1>23. ASSUME NEW h \in Handle, DecoderTalks(h)  PROVE HeardInv'
  <2>1. /\ h \in Running
        /\ status' = "busy"
        /\ UNCHANGED <<pc, job, heard, decoders, old, oldState>>
    BY <1>23 DEF DecoderTalks, Running, taskVars
  <2>2. pc \in {"wait", "timed_out"} /\ Running' = Running /\ Running # {}
    BY <2>1 DEF QuietInv, Running
  <2> QED BY <2>1, <2>2, SameJob DEF HeardInv, Upto
<1>24. ASSUME NEW h \in Handle, DecoderEnds(h)  PROVE HeardInv'
  <2>1. /\ pc = "wait" /\ h \in Running
        /\ decoders' = [decoders EXCEPT ![h] = NoDecoder]
        /\ \/ status' = "ended" /\ heard' = Append(heard, decoders[h].item)
           \/ status' = "timeout" /\ heard' = heard
        /\ UNCHANGED <<pc, job>>
    BY <1>24 DEF DecoderEnds, Running, taskVars
  <2>2. pc = "wait" /\ Running = {h}
    BY <2>1 DEF QuietInv
  <2>3. Running' = {}
    BY <1>d, <2>1, <2>2 DEF Running
  <2>4. Upto(job.at - 1) /\ decoders[h].item = Item
    BY <2>2 DEF HeardInv
  <2>5. \/ status' = "ended" /\ Upto(job.at)'
        \/ status' = "timeout" /\ Upto(job.at - 1)'
    BY <1>p, <2>1, <2>2, <2>4, SameJob DEF Upto
  <2> QED BY <2>1, <2>2, <2>3, <2>5 DEF HeardInv
<1>25. CASE OldPlayerReports
  <2>1. /\ old = "playing"
        /\ UNCHANGED <<pc, job>>
    BY <1>25 DEF OldPlayerReports, taskVars
  <2>2. pc \in {"old_wait", "old_timed_out"} /\ Upto(job.at - 1)
    BY <2>1 DEF QuietInv, HeardInv
  <2>3. CASE UNCHANGED <<heard, old>>
    <3>1. Upto(job.at - 1)'
      BY <2>1, <2>2, <2>3, SameJob DEF Upto
    <3> QED BY <2>1, <2>2, <2>3, <3>1 DEF HeardInv
  <2>4. CASE ~UNCHANGED <<heard, old>>
    <3>1. /\ pc = "old_wait"
          /\ \/ oldState' = "error" /\ heard' = heard
             \/ oldState' = "finished" /\ heard' = Append(heard, Item)
          /\ old' = "stopped"
      BY <1>25, <2>4 DEF OldPlayerReports
    <3>2. \/ oldState' = "error" /\ Upto(job.at - 1)'
          \/ oldState' = "finished" /\ Upto(job.at)'
      BY <1>p, <2>1, <2>2, <3>1, SameJob DEF Upto
    <3> QED BY <2>1, <3>1, <3>2 DEF HeardInv
  <2> QED BY <2>3, <2>4
<1>26. CASE \/ \E kind \in Kind : Enqueue(kind)
            \/ Provision
            \/ UNCHANGED audioVars
  BY <1>3, <1>26 DEF Enqueue, Provision, audioVars, taskVars, decoderVars
<1>27. CASE DropRequest \/ TakeRequest
  BY <1>5, <1>27 DEF DropRequest, TakeRequest
<1> QED
  BY <1>6, <1>7, <1>8, <1>9, <1>10, <1>11, <1>12, <1>13, <1>14, <1>15, <1>16, <1>17,
     <1>18, <1>19, <1>20, <1>21, <1>22, <1>23, <1>24, <1>25, <1>26, <1>27
     DEF AudioNext, PlayerStep

Heard == ~astray => HeardInv

(* An announcement that is reported as done has been played to the end,    *)
(* file after file, by whichever of the three ways of playing took each    *)
(* file, but for the same exception.                                       *)
THEOREM DoneWasHeard == AudioSpec => []DoneMeansHeard
<1>1. AudioInit => Heard
  BY DEF AudioInit, Heard, HeardInv
<1>2. AudioTypeInv /\ Quiet /\ Heard /\ [AudioNext]_audioVars => Heard'
  <2> SUFFICES ASSUME AudioTypeInv, Quiet, Heard, [AudioNext]_audioVars, ~astray'
               PROVE  HeardInv'
    BY DEF Heard
  <2>1. CASE astray
    <3>1. \/ pc' = "idle"
          \/ pc' = "script" /\ job'.at = 1
      BY <2>1, AstrayEnds
    <3> QED BY <3>1 DEF HeardInv
  <2>2. CASE ~astray
    BY <2>2, HeardStep DEF Quiet, Heard
  <2> QED BY <2>1, <2>2
<1>3. Heard => DoneMeansHeard
  BY DEF Heard, HeardInv, DoneMeansHeard
<1> QED BY <1>1, <1>2, <1>3, QuietHolds, PTL DEF AudioSpec

----------------------------------------------------------------------------
(* The error tune                                                          *)

(* A request whose files are missing goes on to the next script, and is    *)
(* given up only when that is the error tune itself: for every script and  *)
(* fallback, whatever the players do.                                      *)
THEOREM ErrorTuneIsTried == AudioSpec => SilentOnlyWithoutSorry
<1>1. [AudioNext]_audioVars =>
        [pc = "script" /\ pc' = "idle" /\ job.kind # "common" => Sorry \notin stored]_audioVars
  <2> SUFFICES ASSUME AudioNext, pc = "script", pc' = "idle", job.kind # "common"
               PROVE  Sorry \notin stored
    OBVIOUS
  <2>1. Validate
    BY DEF AudioNext, PlayerStep, Enqueue, DropRequest, TakeRequest, ScriptDone, Prepare,
           ProbeFails, Start, StartFails, Wake, TimeOut, Judge, GiveUp, OldStart,
           OldStartFails, OldWake, OldTimeOut, OldStop, StreamFails, StreamDone,
           DecoderTalks, DecoderEnds, OldPlayerReports, Provision, taskVars
  <2>2. FileMissing /\ \E n \in DOMAIN Items : Items[n] \notin stored
    BY <2>1 DEF Validate
  <2>3. job.stage = "sorry"
    BY <2>2 DEF FileMissing, Turn
  <2>4. Items = <<Sorry>>
    BY <2>3 DEF Items, ScriptOf
  <2>5. \A n \in DOMAIN Items : Items[n] = Sorry
    BY <2>4
  <2> QED
    BY <2>2, <2>5
<1> QED
  BY <1>1, PTL DEF AudioSpec, SilentOnlyWithoutSorry

=============================================================================
