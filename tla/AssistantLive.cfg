SPECIFICATION FairSpec
CONSTANTS
  Manual = TRUE
  Outcomes = {"advice", "refusal", "error", "fatal"}
  BacklogLimit = 10
  MaxVersions = 2
  MaxQueue = 3
INVARIANTS
  DrawnIsNewest
  ActionOutlivesOnlyFailures
PROPERTIES
  ShownNeverGoesBack
  TableReachesWindow
CHECK_DEADLOCK FALSE
