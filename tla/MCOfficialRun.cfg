SPECIFICATION Spec
CONSTANTS
  Pool <- MCPool
  HalfWeight = 4
  KMax = 3
  Hold = 8
  Budget = 50
  ResetCost = 8
  MaxAttempts = 3
  StopIou <- NoStop
  RequireStrict = TRUE
  LiveEval = TRUE
  Scores = {0, 4, 9}
  StartupTimes = {0, 60}
  CaptureTimes = {1}
  ChainTimes = {6, 14}
  VerdictTimes = {2}
  HandshakeWaits = {0}
  AckWaits = {3}
  AckTimeout = 18
  Settle = 5
  AcksLost = TRUE
INVARIANTS
  TypeOK
  SelfZeroOnlyBySlowReset
  OverrunBound
PROPERTIES
  Termination
  KeepsPromise
