\* A spine that may stay where it is.
SPECIFICATION Spec
CONSTANTS
  Tries = 1
  YawTries = 1
  Errs = {10, 40, 100}
  GraspTries = 2
  Approach = 1
  Cycles = 1
  Legs = 1
  SpineTarget = 5
  SpineStarts = {0, 5}
  PlaceSpines = {2}
  SpineStep = 2
  SpineObeys = FALSE
PROPERTY ChainEnds
