\* What the node promises of its episode budget.
SPECIFICATION Spec
CONSTANTS
  Ids = {a, b}
  ConfigIds = a
  K = 2
  Samples = 2
  StillTime = 1
  Grace = 2
  MaxEpisode = 3
  LatestStart = 2
  Horizon = 5
PROPERTY BudgetOpensGripper
