------------------------------- MODULE Upload -------------------------------
(***************************************************************************)
(* A file pushed to the device over the serial line: the host's tool       *)
(* (tools/soundbox_uart_ufs_push.py), the line with the device's queue     *)
(* (sb_serial_service.c), the commands file_begin, file_chunk and file_end *)
(* (sb_factory_diag.c), and the boot, which writes the firmware's own      *)
(* certificate where there is none (sb_default_certs.c).                   *)
(*                                                                         *)
(* The host sends a command when it has read the reply to the last one; it *)
(* gives up on a reply that is not "ok" or not there in time, and may be   *)
(* started again.  A late reply is then read as one to the new run.        *)
(*                                                                         *)
(* A file is the sequence of the chunks written, TRUE for one that is as   *)
(* the host has it.  A CRC that is compared tells the host's file from     *)
(* every other.  One of 0 is not compared, and 0 is also what is left when *)
(* file_begin carries none that can be read.                               *)
(***************************************************************************)
EXTENDS Naturals, Sequences

CONSTANTS
  Chunks,     (* chunks of the host's file                                 *)
  LineDepth,  (* SB_SERIAL_QUEUE_DEPTH                                     *)
  Absent,     (* no file                                                   *)
  Carried     (* the certificate the firmware carries                      *)

ASSUME UploadAssumption ==
  /\ Chunks \in Nat \ {0} /\ LineDepth \in Nat \ {0}
  /\ Absent # Carried /\ Absent \notin Seq(BOOLEAN) /\ Carried \notin Seq(BOOLEAN)

VARIABLES
  host,       (* the tool: where it is, and the command it is at           *)
  line,       (* commands the device has not handled                       *)
  replies,    (* replies the host has not read: whether they say "ok"      *)
  upload,     (* s_file_upload                                             *)
  disk,       (* the file                                                  *)
  durable,    (* how many of its chunks a power cut cannot take            *)
  crcZero,    (* the CRC of the host's file is 0                           *)
  confirmed,  (* history: file_end was answered with "ok" for this file:   *)
              (* "yes" if its CRC was compared, "sized" if only its size   *)
              (* was; "undone" if ql_fsync had failed and a power cut      *)
              (* followed                                                  *)
  shifted,    (* history: this run started while the device still had a    *)
              (* command of the last                                       *)
  trouble     (* history: something went wrong in this run                 *)

hostVars   == <<host, shifted>>
fileVars   == <<disk, durable, confirmed>>
uploadVars == <<hostVars, line, replies, upload, fileVars, crcZero, trouble>>

(* The commands in their order: 0 begins, 1 .. Chunks carry a chunk each,  *)
(* and Chunks + 1 ends.                                                    *)
End == Chunks + 1

(* active: the file is open; received: its chunks; size: how many the size *)
(* in file_begin makes, 0 if it is no number of chunks that will be met;   *)
(* crc: the CRC in file_begin is the one of the host's file, another one,  *)
(* or 0.                                                                   *)
Closed == [active |-> FALSE, received |-> 0, size |-> 0, crc |-> "none"]

Exact == [i \in 1 .. Chunks |-> TRUE]

Confirmed == confirmed \in {"yes", "sized"}

(* The CRC the host sends.                                                 *)
SentCrc == IF crcZero THEN "none" ELSE "sent"

----------------------------------------------------------------------------
(* The host and the line *)

(* The UART callback cuts the bytes into lines and queues them; a line     *)
(* that finds the queue full, or comes apart, is lost.  One that arrives   *)
(* is whole, or what it carries has changed, or it is refused.             *)
Arrives(step, spoilt) ==
  \/ /\ Len(line) < LineDepth
     /\ \E s \in {"whole", "changed", "garbled"} :
          /\ s = "changed" => step # End
          /\ line' = Append(line, [step |-> step, state |-> s])
          /\ trouble' = (spoilt \/ s # "whole")
  \/ UNCHANGED line /\ trouble' = TRUE

Start ==
  /\ host.pc # "wait"
  /\ host' = [pc |-> "wait", step |-> 0]
  /\ shifted' = (line # <<>>)
  /\ replies' = <<>>
  /\ Arrives(0, line # <<>>)
  /\ UNCHANGED <<upload, fileVars, crcZero>>

(* send_command() returns, and push_file() goes on.                        *)
GoOn ==
  /\ host.pc = "wait" /\ replies # <<>> /\ Head(replies)
  /\ replies' = Tail(replies)
  /\ IF host.step = End
     THEN host' = [host EXCEPT !.pc = "done"] /\ UNCHANGED <<line, trouble>>
     ELSE /\ host' = [host EXCEPT !.step = @ + 1]
          /\ Arrives(host.step + 1, trouble)
  /\ UNCHANGED <<shifted, upload, fileVars, crcZero>>

Rejected ==
  /\ host.pc = "wait" /\ replies # <<>> /\ ~Head(replies)
  /\ replies' = Tail(replies)
  /\ host' = [host EXCEPT !.pc = "failed"]
  /\ UNCHANGED <<shifted, line, upload, fileVars, crcZero, trouble>>

(* readline() returns after its five seconds, without a line.              *)
NoReply ==
  /\ host.pc = "wait" /\ replies = <<>>
  /\ host' = [host EXCEPT !.pc = "failed"]
  /\ trouble' = TRUE
  /\ UNCHANGED <<shifted, line, replies, upload, fileVars, crcZero>>

----------------------------------------------------------------------------
(* The device *)

(* sb_serial_task() takes a line and writes the reply, which may be lost   *)
(* or spoilt on its way.                                                   *)
Takes(step) ==
  /\ line # <<>> /\ Head(line).step = step /\ Head(line).state # "garbled"
  /\ line' = Tail(line)

Reply(ok, fault) ==
  \E r \in {<<ok>>, <<FALSE>>, <<>>} :
    /\ replies' = replies \o r
    /\ trouble' = (trouble \/ fault \/ r # <<ok>>)

Refuse ==
  /\ line # <<>> /\ Head(line).state = "garbled"
  /\ line' = Tail(line)
  /\ Reply(FALSE, FALSE)
  /\ UNCHANGED <<hostVars, upload, fileVars, crcZero>>

(* sb_factory_file_close_upload(): the result of ql_fsync is not used.     *)
Close(file) ==
  /\ disk' = file
  /\ durable' \in {durable, Len(file)}
  /\ upload' = Closed

(* What file_begin asks for.  Of a changed one the size may be any, and so *)
(* may the CRC: whether it could be read is not looked at.                 *)
Asked(state) ==
  IF state = "whole" THEN {[size |-> Chunks, crc |-> SentCrc]}
  ELSE [size : 0 .. Chunks, crc : {SentCrc, "other", "none"}]

(* Variant: received_size is not set to 0.                                 *)
FileBeginGoesOn ==
  /\ Takes(0)
  /\ confirmed' = "no" /\ durable' = 0
  /\ \/ /\ disk' = <<>>
        /\ \E a \in Asked(Head(line).state) :
             upload' = [active |-> TRUE, received |-> upload.received,
                        size |-> a.size, crc |-> a.crc]
        /\ Reply(TRUE, FALSE)
     \/ /\ disk' = Absent
        /\ upload' = Closed
        /\ Reply(FALSE, TRUE)
  /\ UNCHANGED <<hostVars, crcZero>>

(* The file is removed first, so that one that cannot be opened is gone.   *)
FileBegin ==
  /\ Takes(0)
  /\ confirmed' = "no" /\ durable' = 0
  /\ \/ /\ disk' = <<>>
        /\ \E a \in Asked(Head(line).state) :
             upload' = [active |-> TRUE, received |-> 0,
                        size |-> a.size, crc |-> a.crc]
        /\ Reply(TRUE, FALSE)
     \/ /\ disk' = Absent
        /\ upload' = Closed
        /\ Reply(FALSE, TRUE)
  /\ UNCHANGED <<hostVars, crcZero>>

(* A chunk out of its turn is refused, and one beyond the size; a short    *)
(* write ends the upload.  A changed chunk may have become shorter, and    *)
(* then the size is met no more.                                           *)
FileChunk(i) ==
  /\ Takes(i)
  /\ \/ /\ ~upload.active \/ upload.received # i - 1 \/ upload.size < i
        /\ Reply(FALSE, FALSE)
        /\ UNCHANGED <<upload, disk, durable>>
     \/ /\ upload.active /\ upload.received = i - 1
        /\ upload.size = 0 \/ i <= upload.size
        /\ disk' = Append(disk, Head(line).state = "whole")
        /\ \E n \in {upload.size} \cup IF Head(line).state = "whole" THEN {} ELSE {0} :
             upload' = [upload EXCEPT !.received = i, !.size = n]
        /\ Reply(TRUE, FALSE)
        /\ UNCHANGED durable
     \/ /\ upload.active /\ upload.received = i - 1
        /\ \E file \in {disk, Append(disk, FALSE)} : Close(file)
        /\ Reply(FALSE, TRUE)
  /\ UNCHANGED <<hostVars, confirmed, crcZero>>

(* Variant: the CRC is not compared at all.                                *)
VerifiedBySize == upload.received = upload.size /\ upload.size # 0

(* An expected CRC of 0 is not compared.                                   *)
Verified ==
  /\ upload.received = upload.size /\ upload.size # 0
  /\ upload.crc = "none" \/ (upload.crc = "sent" /\ disk = Exact)

(* How far a file that passes has been compared.                           *)
Confirmation == IF upload.crc = "none" THEN "sized" ELSE "yes"

(* Variant: an end without an upload is answered with "ok".                *)
FileEndAnyTime ==
  /\ Takes(End)
  /\ IF upload.active
     THEN /\ Close(disk)
          /\ IF Verified
             THEN confirmed' = Confirmation /\ Reply(TRUE, FALSE)
             ELSE UNCHANGED confirmed /\ Reply(FALSE, FALSE)
     ELSE Reply(TRUE, FALSE) /\ UNCHANGED <<upload, fileVars>>
  /\ UNCHANGED <<hostVars, crcZero>>

FileEnd ==
  /\ Takes(End)
  /\ IF upload.active
     THEN /\ Close(disk)
          /\ IF Verified
             THEN confirmed' = Confirmation /\ Reply(TRUE, FALSE)
             ELSE UNCHANGED confirmed /\ Reply(FALSE, FALSE)
     ELSE Reply(FALSE, FALSE) /\ UNCHANGED <<upload, fileVars>>
  /\ UNCHANGED <<hostVars, crcZero>>

(* sb_default_certs_ensure_mqtt_files() writes where there is no file (and *)
(* only for a certificate); a boot that fails in it leaves an empty one.   *)
Boot(file) == IF file = Absent THEN {Absent, Carried, <<>>} ELSE {file}

(* What was not on the medium is lost from some point on.                  *)
Kept ==
  IF disk \in {Absent, Carried} THEN {disk}
  ELSE {SubSeq(disk, 1, n) : n \in durable .. Len(disk)}
         \cup {f \in {Absent} : durable = 0}

PowerCut ==
  /\ \E file \in Kept : disk' \in Boot(file)
  /\ durable' = IF disk' \in {Absent, Carried} THEN 0 ELSE Len(disk')
  /\ confirmed' = IF Confirmed /\ durable # Len(disk) THEN "undone" ELSE confirmed
  /\ line' = <<>> /\ upload' = Closed
  /\ trouble' = TRUE
  /\ UNCHANGED <<hostVars, replies, crcZero>>

----------------------------------------------------------------------------
Init ==
  /\ host = [pc |-> "idle", step |-> 0]
  /\ line = <<>> /\ replies = <<>>
  /\ upload = Closed
  /\ disk \in {Absent, Carried} /\ durable = 0
  /\ crcZero \in BOOLEAN
  /\ confirmed = "no" /\ shifted = FALSE /\ trouble = FALSE

Next ==
  \/ Start \/ GoOn \/ Rejected \/ NoReply
  \/ Refuse \/ FileBegin \/ FileEnd
  \/ \E i \in 1 .. Chunks : FileChunk(i)
  \/ PowerCut

UploadSpec == Init /\ [][Next]_uploadVars

----------------------------------------------------------------------------
(* Once file_end has been answered with "ok", the file stays as the host   *)
(* has it until the next file_begin: whatever chunks and ends of given-up  *)
(* runs arrive afterwards, whatever the power does, whatever the boots     *)
(* write.  Excepted is a failed ql_fsync, which the code does not notice.  *)
(* Where the CRC was 0 (the file's own, or that of a file_begin whose CRC  *)
(* could not be read) only the size was compared, and the file may not be  *)
(* the host's; but then too nothing is added to it or put in its place.    *)
ConfirmedIsKept ==
  /\ confirmed = "yes" => disk = Exact
  /\ confirmed = "sized" => disk \notin {Absent, Carried} /\ disk # <<>>
  /\ Confirmed => ~upload.active

(* A run of the tool that ends without an error has got file_end accepted: *)
(* none of its replies was one to another command, and no power cut in the *)
(* middle went unnoticed.  Excepted is a run started while a command of    *)
(* the run before was still to be handled, whose reply it would read.      *)
SuccessIsReal == host.pc = "done" /\ ~shifted => confirmed # "no"

(* A run that fails has a cause of its own: a loss on the line, a failing  *)
(* call, a power cut, a time-out, or a command left of the run before.     *)
(* What an earlier run left behind in the device, an open file, a count, a *)
(* half-written file, is none.                                             *)
FailureHasReason == host.pc = "failed" => trouble
=============================================================================
