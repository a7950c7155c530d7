CONSTANTS
  Calls = {c1}
  Bounded = FALSE
  Serial = TRUE
  MaxFailures = 2
  MaxMoves = 1
SPECIFICATION Spec
INVARIANTS
  NotStartedIsTrue
