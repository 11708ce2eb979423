SPECIFICATION FairSpec
CONSTANTS
  j1 = j1
  j2 = j2
  w1 = w1
  RssJobs = {j1}
  WsJobs = {w1}
  Reward <- MCReward
  Configs <- OneRange
  Credentials = TRUE
  ChanCap = 1
  LruCap = 1
  MaxStarts = 1
  MaxUpdates = 0
  MaxTrouble = 0
INVARIANTS TypeOK
PROPERTIES MatchAnnounced StoppedEnds
CHECK_DEADLOCK FALSE
