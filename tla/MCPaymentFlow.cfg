CONSTANTS
  Json = {"p1", "p2"}
  Compat = {"c1"}
  Bad = {"bad"}
  RxDepth = 2
  AckDepth = 1
  AudioDepth = 1
  MaxRecords = 1
  Date = {1}
  MaxArrivals = 3
  MaxCuts = 2
SPECIFICATION FairFlowSpec
INVARIANTS
  AnnouncedOnce
  AcceptedAckIsKept
PROPERTIES
  QueuedIsEntered
  QueuedIsHeard
