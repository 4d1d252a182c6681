\* Every scene, slips at any stage, on a spine that goes where it is told.
SPECIFICATION Spec
CONSTANTS
  Tries = 3
  YawTries = 2
  Errs = {10, 40, 100}
  GraspTries = 3
  Approach = 1
  Cycles = 2
  Legs = 2
  SpineTarget = 5
  SpineStarts = {0, 5}
  PlaceSpines = {2}
  SpineStep = 2
  SpineObeys = TRUE
INVARIANTS TypeOK LossIsCaught MovedArmIsParked SpineIsParked SolvesOnRenewedFrame LoadedTranslationIsShort
PROPERTY ChainEnds
