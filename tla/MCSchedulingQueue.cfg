SPECIFICATION FairSpec
CONSTANTS
  s1 = s1
  s2 = s2
  Stages = {s1, s2}
  NoStage = NoStage
  Priority <- MCPriority
  InitialBackoff = 1
  MaxBackoff = 3
  MaxInUnschedulable = 3
  MaxAttempts = 3
  MaxCycle = 4
INVARIANTS
  SingleLocation
  PopSleepsOnlyWhenEmpty
PROPERTIES
  
  StagesAreNotLost
  FailedStageIsRetried
CHECK_DEADLOCK FALSE
