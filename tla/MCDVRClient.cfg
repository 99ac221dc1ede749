SPECIFICATION ClientSpec
CONSTANTS
  r1 = r1
  r2 = r2
  a = a
  b = b
  c = c
  eos = eos
  stp = stp
  Reqs <- MCReqs
  Streaming <- MCStreaming
  Token <- MCToken
  Eos <- MCEos
  StopStr <- MCStopStr
  Ref <- MCRef
  AltRef <- MCAltRef
  Partial <- MCPartial
  Blank <- MCBlank
  WindowSize = 2
  VerifyBatchSize = 2
  FixedPool = TRUE
  Mode = 1
  MaxNewTokens = 4
  StreamInterval = 1
  MaxRetractions = 1
INVARIANTS
  TypeOK
  StreamIsReference
  CompleteAnswer
  KVMatchesOutput
  ContextIsVerified
  BacklogBound
  ReleasedIsAnswered
  ClientReadsText
PROPERTIES
  VerifiedIsStable
  
CHECK_DEADLOCK FALSE
