SPECIFICATION FairSpec
CONSTANTS
  n1 = n1
  n2 = n2
  n3 = n3
  d1 = d1
  d2 = d2
  Reqs <- MCReqs
  Deterministic <- MCDeterministic
  Abortable <- MCAbortable
  InputLen <- MCInputLen
  RequestedNew <- MCRequestedNew
  PoolSize = 12
  ReservedSlots = 3
  MaxRunning = 3
  ReqRows = 2
  MaxPrefillTokens = 4
  ClipMaxNew = 1
  MaxQueued = 3
  WindowSize = 2
INVARIANTS
  TypeOK
  PrefillFits
  DeterministicAlone
  OvertakenOnlyForIsolation
  LastRequestDecodes
  FullBatchShrinks
PROPERTIES
  EveryRequestServed
