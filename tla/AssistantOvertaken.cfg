SPECIFICATION Spec
CONSTANTS
  Manual = FALSE
  Outcomes = {"refusal"}
  BacklogLimit = 10
  MaxVersions = 2
  MaxQueue = 12
PROPERTY ShownNeverGoesBack
CHECK_DEADLOCK FALSE
