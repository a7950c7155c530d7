SPECIFICATION FairSpec
CONSTANTS
  Callers = {c1, c2}
  Bounded = TRUE
  NumStages = 2
  Conflict = 1
  Ci = 2
  Watched = {2}
  Installed = {1, 2}
  Native = FALSE
  Heads = {"h1", "h2"}
  Older <- MCOlder
  Bases = {"b1"}
  Checks = {"k1"}
  MaxMoves = 0
  MaxWaits = 1
CHECK_DEADLOCK FALSE
INVARIANT TypeOK
INVARIANT ConflictCompletesOnce
PROPERTY SecondSweepIffChanged
PROPERTY StagesRunInTurn
PROPERTY RunEnds
