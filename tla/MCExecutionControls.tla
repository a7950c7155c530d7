------------------------ MODULE MCExecutionControls ------------------------
(* A root with one plain command, observed by execution-status.            *)
EXTENDS ExecutionControls, TLC

CONSTANTS root, command

SmallNodes == {root, command}
SmallParent == command :> root
SmallAnc == root :> {} @@ command :> {root}
=============================================================================
