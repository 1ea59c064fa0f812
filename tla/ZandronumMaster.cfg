SPECIFICATION FairSpec
CONSTANTS
  NumPackets = 3
  Width = 4
  ShiftWraps = TRUE
  Answers = {"OTHER", "WAIT", "BANNED"}
  MaxRounds = 3
  MaxStrays = 1
  Crashes = TRUE
INVARIANTS
  WholeList
  OfOneRound
PROPERTIES
  RoundEnds
  ServiceSpec
CHECK_DEADLOCK FALSE
