\* Every mode; the release timeout is longer than the left arm's, as in the
\* configurations that ship a press release (120 s and 90 s).
SPECIFICATION Spec
CONSTANTS
  WaypointTimeout = 3
  ReleaseTimeout = 5
  VerifyTimeout = 1
  ReleaseDwell = 2
  CloseDwell = 2
  PushSettle = 2
  StallDwell = 1
  StallLimit = 2
  PinTimeout = 2
  ServoIters = 1
  SettleTimeout = 1
  MaxRegrasps = 2
  MaxReshakes = 1
  MaxPushes = 2
  MaxDwells = 1
  WalkLens = {1, 2}
  StrokeLens = {3}
INVARIANTS TypeOK StrokeWaitsForLift CarryIsChecked JawsKeepTheSheet
PROPERTIES ComesToVerify CountedPushIsDriven
