SPECIFICATION Spec
CONSTANTS
  none = none
  Deck <- MCDeck
  Raws <- MCRaws
  Readings <- MCReadings
  Ranks <- MCRanks
  NoCards = {}
  Cards <- MCCards
  Boards <- MCBoards
  Views <- MCViews
  Marks <- MCMarks
  None = none
  Equities = {20, 50, 75, 90}
  StableFrames = 1
  MaxFrames = 4
INVARIANTS
  AdviceIsSound
  AdviceFitsTheReading
  AdviceHasCleanWitness
  ActionAnswersTheTable
  RaiseBeatsTheCall
  BetFitsTheStack
CHECK_DEADLOCK FALSE
