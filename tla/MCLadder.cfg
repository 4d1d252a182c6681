SPECIFICATION Spec
CONSTANTS
  Pool <- MCPool
  HalfWeight = 4
  KMax = 6
  Hold = 8000
  Budget = 60
  ResetCost = 8
  Scores = {0, 3959, 7297, 9231}
  Durations = {6, 12}
  MaxDraws = 4
INVARIANTS
  ValueIsOptimal
  AbortsLowerTheBar
  HorizonIsTheGovernors
  HorizonAgreesWithLookahead

  
CHECK_DEADLOCK FALSE
