SPECIFICATION FairSpec
CONSTANTS
  Jobs = {j1, j2}
  Workers = {w1, w2}
  Clients = {}
  None = None
  HasWorkflow = FALSE
  MaxConcurrent = 1
  MaxDelay = 1
  MaxClock = 1
  MaxCalls = 0
  MaxTrouble = 1
CHECK_DEADLOCK FALSE
PROPERTIES
  EveryJobTaken
  EveryJobSettled
