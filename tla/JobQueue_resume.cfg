SPECIFICATION FairSpec
CONSTANTS
  Jobs = {j1}
  Workers = {w1, w2}
  Clients = {c1}
  None = None
  HasWorkflow = TRUE
  MaxConcurrent = 1
  MaxDelay = 0
  MaxClock = 0
  MaxCalls = 1
  MaxTrouble = 1
CHECK_DEADLOCK FALSE
PROPERTIES CrashedJobResumed
