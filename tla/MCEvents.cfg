SPECIFICATION FairSpec
CONSTANTS
  m1 = m1
  m2 = m2
  Combined = Combined
  NoBody = NoBody
  Messages = {m1, m2}
  MaxRetries = 1
  MaxLate = 1
  MaxEvents = 2
  Burst = 1
  QueueLength = 1
  MaxTries = 2
  MaxOccurs = 3
  MaxRemovals = 1
INVARIANTS  WriteIsNotRepeated
PROPERTIES RecordingGoesOn
CHECK_DEADLOCK FALSE
