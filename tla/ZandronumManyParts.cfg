SPECIFICATION Spec
CONSTANTS
  NumPackets = 33
  Width = 32
  ShiftWraps = TRUE
  Answers = {}
  MaxRounds = 1
  MaxStrays = 0
  Crashes = FALSE
INVARIANTS
  WholeList
CHECK_DEADLOCK FALSE
