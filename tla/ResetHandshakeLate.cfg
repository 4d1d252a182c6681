SPECIFICATION Spec
CONSTANTS
  MaxCalls = 3
  Prompt = FALSE
INVARIANT
  AckIsForThisRequest
