SPECIFICATION SSpec
CONSTANTS
  none = none
  Deck <- MCDeck
  Raws <- MCRaws
  Readings <- MCReadings
  Ranks <- MCRanks
  NoCards = {}
  Cards <- MCCards
  Boards <- MCBoards
  Views <- MCViews
  Marks <- MCMarks
  None = none
  StableFrames = 1
  MaxFrames = 5
  WindowSize = 3
  Required = 2
  MinSamples = 2
  NoNumber <- Missing
  NoPosition = "none"
INVARIANTS
  TypeOK
  StableBoardsGrow
  HandIdCountsRankChanges
  ConfirmedIsCurrent
  AdvisedCardsShareAFrame
  AdvisedAmountsWereRead
  AgreementIsReported
CHECK_DEADLOCK FALSE
