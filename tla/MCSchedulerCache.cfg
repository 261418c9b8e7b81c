SPECIFICATION Spec
CONSTANTS
  u1 = u1
  u2 = u2
  n1 = n1
  n2 = n2
  Stages = {s1, s2}
  NoStage = NoStage
  Workers = {u1, u2}
  NoWorker = NoWorker
  NameOf <- SameName
  MaxGeneration = 6
  MaxBindings = 2
SYMMETRY StageSymmetry
INVARIANTS
  
  WorkersMatchStages
  ListIsByGeneration

  
CHECK_DEADLOCK FALSE
