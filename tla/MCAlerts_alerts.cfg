CONSTANTS
  Keys <- mcKeys
  Stat <- mcStat
  NoStat = NoStat
  MinSampleSize = 2
  MinHistory = 2
  Window = 3
  ZThreshold = 1
  FeedSize = 2
  Hours = 1
  MaxPasses = 3
  MaxUpdates = 2
  MaxFaults = 1
SPECIFICATION mcSpec
INVARIANTS AlertIsRare TagsAgree FeedFront
PROPERTY FeedGetsAll
CHECK_DEADLOCK FALSE
