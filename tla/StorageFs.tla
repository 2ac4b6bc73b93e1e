----------------------------- MODULE StorageFs -----------------------------
(***************************************************************************)
(* The durable side of sb_storage_fs.c: what is on the U: drive, and one   *)
(* sb_storage_fs_write_file_atomic() call in progress, a step for every    *)
(* file-system call it makes.  Clients (the ledger, the configuration      *)
(* slots) hold their own mutex over the whole call, so each client         *)
(* module has exactly one call at a time and EXTENDS this module.          *)
(*                                                                         *)
(* A file-system call that fails is a choice of the environment, enabled   *)
(* by naming the call in FsFaults.  A step is durable when the call that   *)
(* makes it returns; only the file being filled can be cut in the middle,  *)
(* and it is then Torn.                                                    *)
(***************************************************************************)
CONSTANTS
  Absent,    (* the path does not exist                                    *)
  Torn,      (* the file exists and its length or CRC is wrong             *)
  FsFaults   (* the calls that may fail: a subset of FaultKinds            *)

FaultKinds == {"mkdir", "open", "write", "remove", "rename", "read", "rot"}

ASSUME FsAssumption == /\ FsFaults \subseteq FaultKinds
                       /\ Absent # Torn

VARIABLES
  disk,      (* path -> what the file holds                                *)
  call       (* the write_file_atomic call in progress                     *)

fsVars == <<disk, call>>

Steps == {"remove_temp", "open_temp", "fill_temp", "remove_final", "rename",
          "discard_temp", "ok", "error"}

Idle == [pc |-> "idle", final |-> Absent, temp |-> Absent, data |-> Absent]

Call(pc, final, temp, data) ==
  [pc |-> pc, final |-> final, temp |-> temp, data |-> data]

(* A file whose full length can be read back.                              *)
Readable(path) == disk[path] \notin {Absent, Torn}

Put(path, content) == disk' = [disk EXCEPT ![path] = content]

At(pc)    == call.pc = pc
Goto(pc)  == call' = [call EXCEPT !.pc = pc]

(* ql_remove(): every caller ignores the result, so a failure only leaves  *)
(* the file where it was.                                                  *)
Remove(path) == \/ Put(path, Absent)
                \/ "remove" \in FsFaults /\ UNCHANGED disk

----------------------------------------------------------------------------

(* Entry: the parent directory is made first.                              *)
BeginWrite(final, temp, data) ==
  /\ At("idle")
  /\ \/ call' = Call("remove_temp", final, temp, data)
     \/ "mkdir" \in FsFaults /\ call' = Call("error", final, temp, data)
  /\ UNCHANGED disk

RemoveTemp == /\ At("remove_temp")
              /\ Remove(call.temp)
              /\ Goto("open_temp")

OpenTemp == /\ At("open_temp")
            /\ \/ Put(call.temp, Torn) /\ Goto("fill_temp")
               \/ /\ "open" \in FsFaults
                  /\ Goto("discard_temp")
                  /\ UNCHANGED disk

(* ql_fwrite, ql_fsync and ql_fclose: all of them, or an error.            *)
FillTemp == /\ At("fill_temp")
            /\ \/ Put(call.temp, call.data) /\ Goto("remove_final")
               \/ /\ "write" \in FsFaults
                  /\ Goto("discard_temp")
                  /\ UNCHANGED disk

RemoveFinal == /\ At("remove_final")
               /\ Remove(call.final)
               /\ Goto("rename")

Rename == /\ At("rename")
          /\ \/ /\ disk' = [disk EXCEPT ![call.final] = disk[call.temp],
                                        ![call.temp]  = Absent]
                /\ Goto("ok")
             \/ /\ "rename" \in FsFaults
                /\ Goto("discard_temp")
                /\ UNCHANGED disk

DiscardTemp == /\ At("discard_temp")
               /\ Remove(call.temp)
               /\ Goto("error")

FsStep == \/ RemoveTemp
          \/ OpenTemp
          \/ FillTemp
          \/ RemoveFinal
          \/ Rename
          \/ DiscardTemp

(* The call returns to its client.                                         *)
Returned == call.pc \in {"ok", "error"}
EndWrite == /\ Returned
            /\ call' = Idle
            /\ UNCHANGED disk

(* Power is cut: the call vanishes, the drive keeps every finished step.   *)
FsCrash == /\ call' = Idle
           /\ UNCHANGED disk

(* A stored file decays: it stays there and no longer passes its CRC.      *)
Decay(path) == /\ "rot" \in FsFaults
               /\ Readable(path)
               /\ Put(path, Torn)
               /\ UNCHANGED call

=============================================================================
