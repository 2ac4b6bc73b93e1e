------------------------- MODULE LedgerRefinement -------------------------
(***************************************************************************)
(* The ring of Ledger seen as the window of PaymentWindow: slot order      *)
(* becomes age order, and the stored image is what a reboot would load.    *)
(***************************************************************************)
EXTENDS Ledger, Sequences

Window(l) == [i \in 1 .. l.count |-> Newest(l, l.count + 1 - i)]

Snapshot(l) == [window |-> Window(l), daily |-> l.daily]

Recoverable ==
  IF Readable(LedgerFile) THEN disk[LedgerFile] ELSE DefaultLedger

Abstract == INSTANCE PaymentWindow WITH
              up     <- Up,
              window <- Window(ledger),
              daily  <- ledger.daily,
              stored <- Snapshot(Recoverable)

(* The ring, its index arithmetic and its step-by-step save implement the  *)
(* payment window: a save never stores anything but the current window, a  *)
(* restart returns to a window that was once current or to a blank one.    *)
ImplementsPaymentWindow == Abstract!Spec

=============================================================================
