CONSTANTS
  root = root
  command = command
  Free = Free
  Canceller = Canceller
  Root = root
  Node <- SmallNodes
  Parent <- SmallParent
  Anc <- SmallAnc
  Controllers = {root}
  Dispatchers = {}
  IsWindows = FALSE
  MaxCrashes = 2
SPECIFICATION ControlSpec
INVARIANT SealedRootIsFound
