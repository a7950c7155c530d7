CONSTANTS
  root = root
  stage = stage
  worker = worker
  command = command
  Free = Free
  Canceller = Canceller
  Root = root
  Node <- WideNodes
  Parent <- WideParent
  Anc <- WideAnc
  Controllers = {root, stage}
  Dispatchers = {root}
  IsWindows = TRUE
  MaxCrashes = 2
SPECIFICATION Spec
INVARIANTS
  SuccessMeansWholeTree
PROPERTIES
  ForegroundPromise
