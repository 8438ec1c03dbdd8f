SPECIFICATION BSpec
CONSTANTS
  Games = {"multi"}
  Streets = 1
  MaxLength = 20
  One = 2
  Weights = {0, 1, 2}
  Scale = 8
INVARIANT
  DeviatingNeverCosts
CHECK_DEADLOCK FALSE
