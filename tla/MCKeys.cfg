CONSTANTS
  Key = {k1, k2}
  NoKey = NoKey
  KeyDepth = 2
  EventDepth = 1
  LongPress = 2
  MaxClock = 2
SPECIFICATION FairKeySpec
INVARIANTS
  NoKeyGoesDeaf
  ListenerAgrees
  ActionFitsPress
PROPERTY ChangeIsSeen
