CONSTANTS
  Prefix = Prefix
  Number = Number
  Sorry = Sorry
  NoFile = NoFile
  NoDecoder = NoDecoder
  Root = {Sorry}
  Asset = {Prefix, Number}
  Script <- MCScript
  Fallback <- MCFallback
  Handle = {1, 2}
  QueueDepth = 1
  MaxTokens = 2
  Untidy = {"stream"}
SPECIFICATION FairAudioSpec
INVARIANTS
  PlaybackIsClosed
  DoneMeansHeard
PROPERTIES
  SilentOnlyWithoutSorry
  CacheIsKept
  FullQueueDrains
