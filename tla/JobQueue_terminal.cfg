SPECIFICATION Spec
CONSTANTS
  Jobs = {j1}
  Workers = {w1}
  Clients = {c1}
  None = None
  HasWorkflow = TRUE
  MaxConcurrent = 1
  MaxDelay = 0
  MaxClock = 0
  MaxCalls = 1
  MaxTrouble = 0
CHECK_DEADLOCK FALSE
PROPERTIES TerminalStatesFinal
