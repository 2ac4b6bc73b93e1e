------------------------------- MODULE Ledger -------------------------------
(***************************************************************************)
(* sb_transaction_ledger.c: the ring of the last payments, the daily       *)
(* totals, and their file.  s_ledger_mutex is held from the first read to  *)
(* the end of the save, so one API call is in progress at a time and the   *)
(* file-system steps of its save are the only things that interleave with  *)
(* a power cut.                                                            *)
(*                                                                         *)
(* The image carries a CRC, a magic and a version; all three only decide   *)
(* whether a stored image is accepted, which is Readable() here.           *)
(***************************************************************************)
EXTENDS StorageFs, Naturals

CONSTANTS
  TxId,        (* transaction identifiers                                  *)
  Amount,      (* amounts in paise                                         *)
  Date,        (* calendar dates; NoDate is an unreadable RTC              *)
  MaxRecords,  (* SB_LEDGER_MAX_RECORDS                                    *)
  DailyBound,  (* bound: payments counted in one day                       *)
  NoRecord     (* a zeroed slot                                            *)

ASSUME LedgerAssumption ==
  /\ MaxRecords \in Nat \ {0}
  /\ DailyBound \in Nat
  /\ Amount \subseteq Nat
  /\ Date \subseteq Nat \ {0}

NoDate == 0

Record == [tx_id : TxId, date : Date \cup {NoDate}, amount : Amount]
Day    == [date : Date \cup {NoDate}, count : Nat, total : Nat]
Slot   == 0 .. MaxRecords - 1

Image == [write_index : Slot,
          count       : 0 .. MaxRecords,
          daily       : Day,
          records     : [Slot -> Record \cup {NoRecord}]]

LedgerFile == "U:/sb_ledger.bin"
LedgerTemp == "U:/sb_ledger.tmp"
File       == {LedgerFile, LedgerTemp}

VARIABLES
  ledger,      (* s_ledger                                                 *)
  svc,         (* s_ledger_ready and the API call that holds the mutex     *)
  unsaved      (* history: the last save failed, or its file decayed since *)

ledgerVars == <<disk, call, ledger, svc, unsaved>>

(* "failed" is a boot whose first save failed: s_ledger_ready stays 0.     *)
Phase == {"boot", "init_save", "failed", "ready", "add_save", "reset_save"}
Up    == svc \in {"ready", "add_save", "reset_save"}

----------------------------------------------------------------------------

EmptyDay(date) == [date |-> date, count |-> 0, total |-> 0]

DefaultLedger == [write_index |-> 0,
                  count       |-> 0,
                  daily       |-> EmptyDay(NoDate),
                  records     |-> [s \in Slot |-> NoRecord]]

Used(l) == {s \in Slot : s < l.count}

(* Variant: only the slots below the write index are searched.             *)
KnownBelowIndex(l, id) ==
  \E s \in Used(l) : s < l.write_index /\ l.records[s].tx_id = id

Known(l, id) == \E s \in Used(l) : l.records[s].tx_id = id

NextSlot(s) == (s + 1) % MaxRecords

(* Variant: a new day keeps the old day's total.                           *)
DayForKeepsTotal(daily, date) ==
  IF date # NoDate /\ daily.date # date
  THEN [daily EXCEPT !.date = date, !.count = 0] ELSE daily

(* The daily totals a payment of this date is added to: another date, in   *)
(* either direction, starts a new day.                                     *)
DayFor(daily, date) ==
  IF date # NoDate /\ daily.date # date THEN EmptyDay(date) ELSE daily

Counted(day, amount) ==
  [day EXCEPT !.count = @ + 1, !.total = @ + amount]

Recorded(l, rec) ==
  [write_index |-> NextSlot(l.write_index),
   count       |-> IF l.count < MaxRecords THEN l.count + 1 ELSE l.count,
   daily       |-> Counted(DayFor(l.daily, rec.date), rec.amount),
   records     |-> [l.records EXCEPT ![l.write_index] = rec]]

----------------------------------------------------------------------------

LedgerInit == /\ disk = [f \in File |-> Absent]
              /\ call = Idle
              /\ ledger = DefaultLedger
              /\ svc = "boot"
              /\ unsaved = FALSE

Save(l) == BeginWrite(LedgerFile, LedgerTemp, l)

LoadStored == /\ svc = "boot"
              /\ Readable(LedgerFile)
              /\ ledger' = disk[LedgerFile]
              /\ svc' = "ready"
              /\ unsaved' = FALSE
              /\ UNCHANGED fsVars

(* No file, a short file, a bad CRC, or a read that failed: the ledger     *)
(* starts empty and the empty image is saved over whatever was there.      *)
LoadDefaults == /\ svc = "boot"
                /\ ~Readable(LedgerFile) \/ "read" \in FsFaults
                /\ ledger' = DefaultLedger
                /\ svc' = "init_save"
                /\ Save(DefaultLedger)
                /\ UNCHANGED unsaved

(* The call in progress ends: has it stored the ledger?                    *)
SaveEnds == /\ unsaved' = (~At("ok") \/ ~Readable(LedgerFile))
            /\ EndWrite

InitDone == /\ svc = "init_save"
            /\ svc' = IF At("ok") THEN "ready" ELSE "failed"
            /\ SaveEnds
            /\ UNCHANGED ledger

(* Variant: the image is serialised before the payment is entered.         *)
AddSavesOldImage(rec) ==
  /\ svc = "ready"
  /\ ledger.daily.count < DailyBound
  /\ ~Known(ledger, rec.tx_id)
  /\ ledger' = Recorded(ledger, rec)
  /\ svc' = "add_save"
  /\ Save(ledger)
  /\ UNCHANGED unsaved

(* sb_transaction_ledger_add() of a payment that is not a duplicate; a     *)
(* duplicate returns with nothing changed.                                 *)
Add(rec) == /\ svc = "ready"
            /\ ledger.daily.count < DailyBound
            /\ ~Known(ledger, rec.tx_id)
            /\ ledger' = Recorded(ledger, rec)
            /\ svc' = "add_save"
            /\ Save(ledger')
            /\ UNCHANGED unsaved

(* Variant: the new day is not saved.                                      *)
ResetDailyUnsaved(date) ==
  /\ svc = "ready"
  /\ ledger.daily.date # date
  /\ ledger' = [ledger EXCEPT !.daily = EmptyDay(date)]
  /\ UNCHANGED <<disk, call, svc, unsaved>>

(* sb_transaction_ledger_reset_daily_if_needed().                          *)
ResetDaily(date) == /\ svc = "ready"
                    /\ ledger.daily.date # date
                    /\ ledger' = [ledger EXCEPT !.daily = EmptyDay(date)]
                    /\ svc' = "reset_save"
                    /\ Save(ledger')
                    /\ UNCHANGED unsaved

(* Both callers ignore the result of the save.                             *)
UpdateDone == /\ svc \in {"add_save", "reset_save"}
              /\ svc' = "ready"
              /\ SaveEnds
              /\ UNCHANGED ledger

SaveStep == FsStep /\ UNCHANGED <<ledger, svc, unsaved>>

Crash == /\ svc' = "boot"
         /\ ledger' = DefaultLedger
         /\ unsaved' = FALSE
         /\ FsCrash

Rot == /\ Decay(LedgerFile)
       /\ unsaved' = TRUE
       /\ UNCHANGED <<ledger, svc>>

LedgerNext == \/ LoadStored
              \/ LoadDefaults
              \/ InitDone
              \/ \E rec \in Record : Add(rec)
              \/ \E date \in Date : ResetDaily(date)
              \/ UpdateDone
              \/ SaveStep
              \/ Crash
              \/ Rot

LedgerSpec == LedgerInit /\ [][LedgerNext]_ledgerVars

----------------------------------------------------------------------------
(* Properties *)

(* Types: RAM, every stored image and the image being saved are ledgers.   *)
Saving == call.pc # "idle"

LedgerTypeOK ==
  /\ ledger \in Image
  /\ svc \in Phase
  /\ disk \in [File -> Image \cup {Absent, Torn}]
  /\ Saving => call \in [pc : Steps, final : {LedgerFile},
                         temp : {LedgerTemp}, data : Image]
  /\ ~Saving => call = Idle

(* A ring as the code's index arithmetic expects it: the slots below count *)
(* hold payments, and until the ring is full the next slot is the count.   *)
WellFormed(l) ==
  /\ \A s \in Used(l) : l.records[s] \in Record
  /\ l.count < MaxRecords => l.write_index = l.count

NoTwin(l) == \A s, t \in Used(l) :
               l.records[s].tx_id = l.records[t].tx_id => s = t

Images == {ledger} \cup ({disk[f] : f \in File} \ {Absent, Torn})

(* Duplicate detection: whatever the sequence of payments, wrap-arounds,   *)
(* failed saves, power cuts and reloads, no transaction is in the ring     *)
(* twice, in RAM or in any file a reboot could load                        *)
(* (sb_ledger_is_duplicate, sb_transaction_ledger_add, sb_ledger_load).    *)
NoDuplicatePayment == \A l \in Images : WellFormed(l) /\ NoTwin(l)

(* The n-th newest payment of a ring, and the sum of the n newest.         *)
Newest(l, n) == l.records[(l.write_index + MaxRecords - n) % MaxRecords]

SumOfNewest(l, n) ==
  LET sum[i \in 0 .. n] == IF i = 0 THEN 0 ELSE sum[i - 1] + Newest(l, i).amount
  IN  sum[n]

(* The daily totals the shop hears: while the ring still holds all of the  *)
(* day's payments, they are exactly the newest daily.count records, all of *)
(* that day (or undated), and their amounts add up to the announced total. *)
(* Rollover, reset, eviction and reload all have to keep the two in step.  *)
DailyMatchesRing ==
  LET today == ledger.daily
  IN  today.count <= ledger.count =>
        /\ today.total = SumOfNewest(ledger, today.count)
        /\ \A n \in 1 .. today.count :
             Newest(ledger, n).date \in {today.date, NoDate}

(* Persistence: with no ledger call in progress, what a reboot would load  *)
(* is exactly the ledger in RAM, so a power cut at such a moment forgets   *)
(* no accepted payment - unless the last save failed, which no caller      *)
(* notices, or the stored file has decayed since.  Failures before that    *)
(* one are made up for.                                                    *)
RebootKeepsLedger == svc = "ready" /\ ~unsaved => disk[LedgerFile] = ledger

=============================================================================
