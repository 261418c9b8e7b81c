SPECIFICATION FairSpec
CONSTANTS
  Items = {a, b, c}
  Workers = {w1, w2}
  Drainers = {d1}
  Stoppers = {s1}
  NoItem = NoItem
INVARIANTS
  QueueConsistent
  WorkMeansAwakeWorker
PROPERTIES
  EveryKeyIsTaken
  
  AbstractSpec
CHECK_DEADLOCK FALSE
