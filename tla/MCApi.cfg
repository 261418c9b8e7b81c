SPECIFICATION ApiSpec
CONSTANTS
  Uids <- MCUids
  Names <- MCNames
  MaxCreates = 1
  MaxEdits = 3
INVARIANTS CallsAreServed DagIsLastWritten
