SPECIFICATION Spec
CONSTANTS
  MaxCalls = 3
  Prompt = TRUE
INVARIANTS
  TypeOK
  AckIsForThisRequest
PROPERTIES
  NoResetUnderChain
  ResetReturns
