\* The budget can run out in any phase and in the retreat after a success.
SPECIFICATION Spec
CONSTANTS
  WpTimeout = 2
  VerifyTimeout = 2
  ReleaseSettle = 2
  ChunkSize = 2
  MaxEpisode = 9
  PhotoRetreat = 3
  Gaps = {0, 1, 3}
  Horizon = 24
INVARIANTS TypeOK EndsInTime
PROPERTIES FailureLeavesGripperOpen NoDropInTransport VerifiedAfterRelease ReleasedOrOutOfTime HoldKeepsGripper EpisodeEnds
