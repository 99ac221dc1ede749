SPECIFICATION ClientSpec
CONSTANTS
  r1 = r1
  r2 = r2
  a = a
  b = b
  c = c
  eos = eos
  stp = stp
  Reqs <- MCReqs
  Streaming <- MCStreaming
  Token <- LiveToken
  Eos <- MCEos
  StopStr <- MCStopStr
  Ref <- LiveRef
  AltRef <- LiveAltRef
  Partial <- MCPartial
  Blank <- MCBlank
  WindowSize = 3
  VerifyBatchSize = 2
  FixedPool = TRUE
  Mode = 3
  MaxNewTokens = 4
  StreamInterval = 2
  MaxRetractions = 0
INVARIANTS
  StreamIsReference
  CompleteAnswer
  ContextIsVerified
  ClientReadsText
PROPERTIES
  EveryRequestAnswered
CHECK_DEADLOCK FALSE
