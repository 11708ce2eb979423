SPECIFICATION Spec
CONSTANTS
  j1 = j1
  j2 = j2
  w1 = w1
  RssJobs = {j1}
  WsJobs = {}
  Reward <- MCReward
  Configs <- OneRange
  Credentials = FALSE
  ChanCap = 1
  LruCap = 1
  MaxStarts = 1
  MaxUpdates = 0
  MaxTrouble = 1
INVARIANTS RunningIsMonitored
CHECK_DEADLOCK FALSE
