SPECIFICATION FairSpec
CONSTANTS
  n1 = n1
  n2 = n2
  n3 = n3
  d1 = d1
  d2 = d2
  Reqs <- LongReqs
  Deterministic = {}
  Abortable = {}
  InputLen <- LongInputLen
  RequestedNew <- LongRequestedNew
  PoolSize = 12
  ReservedSlots = 3
  MaxRunning = 3
  ReqRows = 3
  MaxPrefillTokens = 5
  ClipMaxNew = 6
  MaxQueued = 3
  WindowSize = 2
PROPERTY EveryRequestServed
