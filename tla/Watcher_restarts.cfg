SPECIFICATION ShapedSpec
CONSTANTS
  j1 = j1
  j2 = j2
  w1 = w1
  RssJobs = {j1, j2}
  WsJobs = {}
  Reward <- MCReward
  Configs <- TwoRanges
  Credentials = FALSE
  ChanCap = 1
  LruCap = 1
  MaxStarts = 2
  MaxUpdates = 1
  MaxTrouble = 1
INVARIANTS NoOrphanWatcher PublishedOnce RecordedIsAnnounced TotalExact
PROPERTIES ConfigRespected
CHECK_DEADLOCK FALSE
