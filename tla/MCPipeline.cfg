SPECIFICATION Spec
CONSTANTS
  a = a
  b = b
  c = c
  Nodes = {a, b, c}
  Depends <- Join
  Syncs = 2
  StageWorkers = 1
  MaxSplits = 1
  MaxLag = 1
  MaxRuns = 2
  MaxTroubles = 0
SYMMETRY ParentSymmetry
INVARIANTS DependenciesSucceeded JobSuccessIsEarned RunOnce SplitOnce
CHECK_DEADLOCK FALSE
