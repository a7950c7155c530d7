CONSTANTS
  root = root
  command = command
  Free = Free
  Canceller = Canceller
  Root = root
  Node <- SmallNodes
  Parent <- SmallParent
  Anc <- SmallAnc
  Controllers = {root}
  Dispatchers = {}
  IsWindows = FALSE
  MaxCrashes = 2
  NumMembers = 2
  Clicked = 1
  Phases <- OnlyCi
  MaxPushes = 1
SPECIFICATION StacksSpec
CHECK_DEADLOCK FALSE
INVARIANT ReportedOutcomeIsSealed
INVARIANT StackTypeOK
INVARIANT CompleteIsOneStack
INVARIANT PushesAreCarried
PROPERTY OneWorkerPerMember
PROPERTY BottomUp
PROPERTY WorktreeInUseIsKept
PROPERTY OtherStacksHold
