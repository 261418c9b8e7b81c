SPECIFICATION FairSpec
CONSTANTS
  w1 = w1
  w2 = w2
  None = None
  Keys = {w1, w2}
  Vals = {0, 1}
  Stored <- Workers
  Filter = {1}
  MaxWrites = 3
  Buffer = 1
  MaxFaults = 1
  MaxPending = 0
INVARIANTS HandlerMissesNothing IndexMatchesStore SyncedMeansListed
PROPERTIES NeverOlder HandlerCatchesUp
