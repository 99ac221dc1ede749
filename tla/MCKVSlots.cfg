SPECIFICATION Spec
CONSTANTS
  r1 = r1
  r2 = r2
  r3 = r3
  Reqs = {r1, r2, r3}
  Deterministic = {r1, r2}
  Prompt <- MCPrompt
  MaxNewTokens <- MCMaxNewTokens
  ClipMaxNew = 1
  Size = 11
  NumRows = 4
  MaxLen = 6
  WindowSize = 2
  FixedSize = 2
  LowestFirst = TRUE
INVARIANTS
  TypeOK
  SlotsPartitioned
  RowsPartitioned
  NoDoubleFree
  LengthsAgree
PROPERTY VerifiedSlotsStay
CHECK_DEADLOCK FALSE
