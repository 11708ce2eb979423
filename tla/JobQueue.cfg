SPECIFICATION ShapedSpec
CONSTANTS
  j1 = j1
  j2 = j2
  w1 = w1
  w2 = w2
  Jobs = {j1, j2}
  Workers = {w1, w2}
  Clients = {c1, c2}
  None = None
  HasWorkflow = TRUE
  MaxConcurrent = 1
  MaxDelay = 0
  MaxClock = 1
  MaxCalls = 2
  MaxTrouble = 1
CHECK_DEADLOCK FALSE
SYMMETRY Symmetry
INVARIANTS
  TypeOK
  OneWorkerPerJob
  ActiveStateNamesWorker
  RecordsIntact
  NothingLeftBehind
PROPERTIES
  StateMovesForward
  ImplementsHandout
