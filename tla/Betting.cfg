SPECIFICATION BSpec
CONSTANTS
  Games = {"multi", "preflop", "postflop"}
  Streets = 2
  MaxLength = 20
  One = 2
  Weights = {0, 1}
  Scale = 64
INVARIANTS
  SettlesInChips
  BetsAreMatched
  EverybodyActs
  ResponseIsBest
PROPERTIES
  EveryLineEnds
CHECK_DEADLOCK FALSE
