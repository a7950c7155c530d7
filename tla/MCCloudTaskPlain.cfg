CONSTANTS
  Calls = {c1}
  Bounded = FALSE
  Serial = TRUE
  MaxFailures = 3
  MaxMoves = 2
SPECIFICATION FairSpec
INVARIANTS
  SuccessIsEarned
PROPERTIES
  PlainCallsEnd
