CONSTANTS
  Calls = {c1, c2, c3}
  Bounded = TRUE
  Serial = FALSE
  MaxFailures = 2
  MaxMoves = 1
SPECIFICATION HelpersSpec
SYMMETRY Symmetry
INVARIANTS
  OneTask
  SuccessIsEarned
  HelperTypeOK
  BudgetHolds
  PublicationIsAccounted
PROPERTIES
  OneTaskAtATime
  AskedOnce
  NoPushLost
  VerdictIsEarned
