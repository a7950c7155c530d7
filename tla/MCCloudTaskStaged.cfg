CONSTANTS
  Calls = {c1, c2, c3}
  Bounded = TRUE
  Serial = TRUE
  MaxFailures = 2
  MaxMoves = 0

SPECIFICATION FairSpec

INVARIANTS
  TypeOK
  PendingCanBeObserved

PROPERTIES
  AbandonedStaysSo
  BoundedCallsEnd
