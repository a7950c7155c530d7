CONSTANTS
  root = root
  stage = stage
  worker = worker
  command = command
  Free = Free
  Canceller = Canceller
  Root = root
  Node <- TallNodes
  Parent <- TallParent
  Anc <- TallAnc
  Controllers = {root, stage, worker}
  Dispatchers = {worker}
  IsWindows = FALSE
  MaxCrashes = 2
SPECIFICATION Spec
INVARIANTS
  TypeOK
  CancelledNeverFinished
  DrainedMeansStopped
  RemoteHonesty
PROPERTIES
  CancelFence
  NoFinishAfterCancel
