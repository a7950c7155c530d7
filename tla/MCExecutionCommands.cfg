CONSTANTS
  root = root
  stage = stage
  worker = worker
  command = command
  Free = Free
  Canceller = Canceller
  Root = root
  Node <- WideNodes
  Parent <- WideParent
  Anc <- WideAnc
  Controllers = {root, stage}
  Dispatchers = {}
  IsWindows = FALSE
  MaxCrashes = 2

SPECIFICATION FairSpec

PROPERTIES
  CancelEndsRoot
  OrphansEnd
