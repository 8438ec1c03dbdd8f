SPECIFICATION FairSpec
CONSTANTS
  Callers = {c1, c2}
  Workers = {w1, w2}
  Interval = 2
  StartMayFail = TRUE
  MaxTime = 2
  MaxVersions = 2
INVARIANTS
  TypeOK
  OneCheckAtATime
  SuccessesAreSpaced
PROPERTIES
  ReportsSeenAdvance
  ImplementsSlot
  FlagIsReleased
CHECK_DEADLOCK FALSE
