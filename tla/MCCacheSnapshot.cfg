SPECIFICATION Spec
CONSTANTS
  u1 = u1
  u2 = u2
  n1 = n1
  n2 = n2
  Stages = {s1}
  NoStage = NoStage
  Workers = {u1, u2}
  NoWorker = NoWorker
  NameOf <- AgentName
  MaxGeneration = 4
  MaxBindings = 1
PROPERTIES
  TreeIsInSnapshot
CHECK_DEADLOCK FALSE
