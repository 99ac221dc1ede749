SPECIFICATION ClientSpec
CONSTANTS
  r1 = r1
  r2 = r2
  a = a
  b = b
  c = c
  eos = eos
  stp = stp
  Reqs <- MCReqs
  Streaming <- MCReqs
  Token <- MCToken
  Eos <- MCEos
  StopStr <- MCStopStr
  Ref <- MCRef
  AltRef <- MCRef
  Partial <- MCPartial
  Blank <- MCBlank
  WindowSize = 2
  VerifyBatchSize = 2
  FixedPool = TRUE
  Mode = 3
  MaxNewTokens = 4
  StreamInterval = 1
  MaxRetractions = 0
INVARIANTS
  TextMatchesTokens
CHECK_DEADLOCK FALSE
