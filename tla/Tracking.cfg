SPECIFICATION TSpec
CONSTANTS
  r1 = r1
  r2 = r2
  nocards = nocards
  none = none
  v1 = v1
  m1 = m1
  c1 = c1
  c2 = c2
  c3 = c3
  c4 = c4
  Ranks <- MCRanks
  NoCards = nocards
  Cards <- MCCards
  Boards <- MCBoards
  Views <- MCViews
  Marks <- MCMarks
  Readings <- MCReadings
  None = none
  StableFrames = 2
  MaxFrames = 5
  Disturbances = {"lost", "unsure", "short board", "wrong ranks", "long board"}
  RepeatRanks = FALSE
  MaxHands = 3
INVARIANTS
  TracksTheTable
  HandIdFollowsTable
  QuorumBehindStable
  ChangedMarksNews
CHECK_DEADLOCK FALSE
