SPECIFICATION HSpec
CONSTANTS
  Positions <- MCPositions
  NoPosition = "none"
  Configured = "none"
  Ttl = 2
  MaxTime = 9
INVARIANTS
  AnswersAreSpaced
  OldSeatsHaveAnExcuse
PROPERTY SeatDoesNotFlap
CHECK_DEADLOCK FALSE
