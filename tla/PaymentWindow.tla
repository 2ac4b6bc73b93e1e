--------------------------- MODULE PaymentWindow ---------------------------
(***************************************************************************)
(* What the transaction ledger promises to the payment processor: a window *)
(* of the last payments, oldest first, that never takes the same           *)
(* transaction twice; the totals of the current day; and a stored copy     *)
(* that a restart returns to.  No slots, no indices, no files.             *)
(***************************************************************************)
EXTENDS Naturals, Sequences

CONSTANTS TxId, Amount, Date, MaxRecords

Payment == [tx_id : TxId, date : Date \cup {0}, amount : Amount]

VARIABLES
  up,        (* the ledger answers                                         *)
  window,    (* payments, oldest first                                     *)
  daily,     (* the running day                                            *)
  stored     (* what a restart returns to                                  *)

windowVars == <<up, window, daily, stored>>

ZeroDay(date) == [date |-> date, count |-> 0, total |-> 0]
Blank == [window |-> <<>>, daily |-> ZeroDay(0)]

Init == /\ up = FALSE
        /\ window = <<>> /\ daily = ZeroDay(0)
        /\ stored = Blank

Trim(w) == IF Len(w) > MaxRecords THEN Tail(w) ELSE w

Accept(p) ==
  /\ up
  /\ \A i \in DOMAIN window : window[i].tx_id # p.tx_id
  /\ window' = Trim(Append(window, p))
  /\ LET day == IF p.date \in {0, daily.date} THEN daily ELSE ZeroDay(p.date)
     IN  daily' = [day EXCEPT !.count = @ + 1, !.total = @ + p.amount]
  /\ UNCHANGED <<up, stored>>

NewDay(date) == /\ up /\ date # daily.date
                /\ daily' = ZeroDay(date)
                /\ UNCHANGED <<up, window, stored>>

(* The stored copy catches up with the window, or is lost.                 *)
Persist == /\ stored' = [window |-> window, daily |-> daily]
           /\ UNCHANGED <<up, window, daily>>
Lose    == /\ stored' = Blank
           /\ UNCHANGED <<up, window, daily>>

PowerCut == /\ up' = FALSE
            /\ window' = <<>> /\ daily' = ZeroDay(0)
            /\ UNCHANGED stored

(* A restart takes the stored copy, or starts blank when it cannot read it. *)
Restart == /\ ~up /\ up' = TRUE
           /\ \/ window' = stored.window /\ daily' = stored.daily
              \/ window' = <<>> /\ daily' = ZeroDay(0)
           /\ UNCHANGED stored

Next == \/ \E p \in Payment : Accept(p)
        \/ \E date \in Date : NewDay(date)
        \/ Persist
        \/ Lose
        \/ PowerCut
        \/ Restart

Spec == Init /\ [][Next]_windowVars

=============================================================================
