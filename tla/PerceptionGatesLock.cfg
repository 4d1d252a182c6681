\* What a comment says of the locks of the id map before.
SPECIFICATION Spec
CONSTANTS
  Ids = {a, b}
  ConfigIds = a
  K = 2
  Samples = 2
  StillTime = 1
  Grace = 2
  MaxEpisode = 3
  LatestStart = 2
  Horizon = 5
PROPERTY LockIsOfUsedIds
