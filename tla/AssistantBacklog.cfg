SPECIFICATION FairSpec
CONSTANTS
  Manual = TRUE
  Outcomes = {"advice", "refusal", "error", "fatal"}
  BacklogLimit = 1
  MaxVersions = 2
  MaxQueue = 3
INVARIANT TypeOK
PROPERTY StopEnds
CHECK_DEADLOCK FALSE
