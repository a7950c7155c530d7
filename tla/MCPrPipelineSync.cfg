SPECIFICATION Spec
CONSTANTS
  Callers = {c1}
  Bounded = FALSE
  NumStages = 3
  Conflict = 1
  Ci = 2
  Watched = {2, 3}
  Installed = {1, 2, 3}
  Native = TRUE
  Heads = {"h1", "h2"}
  Older <- MCOlder
  Bases = {"b1", "b2"}
  Checks = {"k1", "k2"}
  MaxMoves = 1
  MaxWaits = 0
CHECK_DEADLOCK FALSE
INVARIANT CompleteIsClear
PROPERTY NoTipLost
