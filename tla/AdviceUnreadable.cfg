SPECIFICATION Spec
CONSTANTS
  none = none
  Deck <- MCDeck
  Raws <- MCRawsUnreadable
  Readings <- MCReadings
  Ranks <- MCRanks
  NoCards = {}
  Cards <- MCCards
  Boards <- MCBoards
  Views <- MCViews
  Marks <- MCMarks
  None = none
  Equities = {20, 50, 75, 90}
  StableFrames = 1
  MaxFrames = 3
INVARIANT UnreadableIsNotAdvised
CHECK_DEADLOCK FALSE
