SPECIFICATION Spec
CONSTANTS
  Deals <- MCDeals
  Streets = {0, 3}
  Ranks = {"A", "K", "7", "3", "2"}
  Suits = {"h", "c"}
  Doubtful <- MCDoubtful
  Unreadable = "?"
  Seats = {s1, s2}
  NoSeat = NoSeat
  NoAnswer = NoAnswer
  SkipLimit = 1
  MaxReads = 3
SYMMETRY Symmetry
INVARIANTS
  VotesAreOfOneHand
  MajorityIsReported
  PositionOfFirstSighting
CHECK_DEADLOCK FALSE
