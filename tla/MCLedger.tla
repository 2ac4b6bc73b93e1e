------------------------------ MODULE MCLedger ------------------------------
(* Ledger and its refinement on small instances.                           *)
EXTENDS LedgerRefinement, TLC

TxSymmetry == Permutations(TxId)

=============================================================================
