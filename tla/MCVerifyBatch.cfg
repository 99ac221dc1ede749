SPECIFICATION Spec
CONSTANTS
  MaxBatch = 3
  Batches <- MCBatches
  WindowSize = 3
  FixedSize = 2
INVARIANTS
  TakesVerifySet
  FixedShape
  CachesIntact
  ContextsAreOwn
  GainsVerifierTokens
  LogprobsFollowOutput
  RaisesOnOverrun
CHECK_DEADLOCK FALSE
