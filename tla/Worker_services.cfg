SPECIFICATION ServicesSpec
CONSTANTS
  Files = {f1}
  Checks = 2
  MaxStarts = 2
  MaxWrites = 2
  MaxScans = 1
  CacheClients = {c1, c2}
  Requests <- SomeRequests
  Setups <- SomeSetups
  Sizes = {1, 2}
  Ttl = 1
  MaxClock = 2
  MaxCalls = 2
  PluginFiles = {p1, p2}
  PluginNames = {"a", "b"}
  Contents <- SomeContents
  Extensions = {"pdf", "doc"}
  MaxInfos = 4
  MaxInstances = 2
  PoolIds = {"q1", "q2"}
  KindOf <- SomeKinds
  PerProvider = 1
  CoolAfter = 2
  MaxRetries = 2
  ProviderTries = 2
  TextCount = 3
  ChunkSize = 2
  MaxObjects = 2
  MaxCools = 1
INVARIANTS
  ServicesTypeOK HandedOncePerArrival BatchSound
PROPERTIES
  QuietFileHanded AnswersRight LookupsRight BatchEnds
CHECK_DEADLOCK FALSE
