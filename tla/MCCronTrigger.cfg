SPECIFICATION FairSpec
CONSTANTS
  None = None
  Params <- MCParams
  Times <- MCTimes
  Horizon = 2
  MaxTroubles = 1
  MaxLag = 1
INVARIANTS
  TriggeredOnce
  
PROPERTIES
  TimeIsTriggered
CHECK_DEADLOCK FALSE
