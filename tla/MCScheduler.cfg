SPECIFICATION FairSpec
CONSTANTS
  s1 = s1
  w1 = w1
  w2 = w2
  Stages = {s1}
  Workers = {w1, w2}
  NoStage = NoStage
  NoWorker = NoWorker
  Runtime <- MCRuntime
  Runtimes <- MCRuntimes
  Score <- MCScore
  Registry <- MCRegistry
  Profile <- MCProfile
  MaxTotalScore = 1000
  MaxWrites = 2
  MaxLag = 2
  MaxTroubles = 1
INVARIANTS ReadyStageIsSomewhere  CacheSettles
PROPERTIES BoundStaysBound ReadyIsBound
CHECK_DEADLOCK FALSE
