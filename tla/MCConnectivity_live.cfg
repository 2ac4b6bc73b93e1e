CONSTANTS
  EventDepth = 2
  Disturbance = {"auto_connect"}
  LongSleeps = TRUE
  FailLimit = 2
  Boots = {{"network", "mqtt"}}
SPECIFICATION FairConSpec
INVARIANT ConnectedIsShown
PROPERTIES
  OfflineIsShown
  Reconnects
