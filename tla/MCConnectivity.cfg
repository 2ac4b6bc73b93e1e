CONSTANTS
  EventDepth = 1
  Disturbance = {"auto_connect", "query", "rx_full"}
  LongSleeps = FALSE
  FailLimit = 2
  Boots = {{"network", "mqtt"}, {"network", "others"}}
SPECIFICATION ConSpec
INVARIANTS
  NothingLeftOpen
  BreakerIsExact
  AckGivesWay
  AlertsAlternate
