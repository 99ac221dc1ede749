SPECIFICATION Spec
CONSTANTS
  r1 = r1
  r2 = r2
  a = a
  b = b
  eos = eos
  stp = stp
  Reqs <- MCReqs
  Streaming <- MCStreaming
  Token <- MCToken
  Eos <- MCEos
  StopStr <- MCStopStr
  Ref <- MCRef
  AltRef <- MCAltRef
  WindowSize = 2
  VerifyBatchSize = 2
  FixedPool = TRUE
  Mode = 3
  MaxNewTokens = 4
  StreamInterval = 1
  MaxRetractions = 0
PROPERTIES
  AbortIsFinal
CHECK_DEADLOCK FALSE
