CONSTANTS
  Absent = Absent
  Torn = Torn
  NoRecord = NoRecord
  TxId = {t1, t2, t3}
  Amount = {5}
  Date = {1, 2}
  MaxRecords = 2
  DailyBound = 2
  FsFaults = {"write", "rename", "read", "rot"}
SPECIFICATION LedgerSpec
INVARIANTS
  NoDuplicatePayment
  DailyMatchesRing
  RebootKeepsLedger
SYMMETRY TxSymmetry
PROPERTY ImplementsPaymentWindow
