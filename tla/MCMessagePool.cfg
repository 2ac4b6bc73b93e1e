CONSTANTS
  None = None
  Sender = {s1, s2}
  Message = {m1, m2}
  Depth = 3
SPECIFICATION FairPoolSpec
INVARIANTS
  SlotHasOneOwner
  RoomForAllocated
PROPERTIES
  ImplementsChannel
  AllocatedIsReceived
