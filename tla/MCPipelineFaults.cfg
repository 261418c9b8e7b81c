SPECIFICATION FairSpec
CONSTANTS
  a = a
  b = b
  c = c
  Nodes = {a, b}
  Depends <- Chain
  Syncs = 2
  StageWorkers = 1
  MaxSplits = 1
  MaxLag = 1
  MaxRuns = 2
  MaxTroubles = 1
PROPERTIES
  JobSettles
CHECK_DEADLOCK FALSE
