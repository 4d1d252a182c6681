\* Every order of poses, id maps, timeouts and ticks in one short episode.
SPECIFICATION Spec
CONSTANTS
  Ids = {a, b}
  ConfigIds = a
  K = 2
  Samples = 2
  StillTime = 1
  Grace = 2
  MaxEpisode = 3
  LatestStart = 2
  Horizon = 5
INVARIANT TypeOK
PROPERTIES GuessYieldsToPose CalibratedEpisodeEnds
