---------------------------- MODULE MCExecution ----------------------------
(***************************************************************************)
(* Small trees for TLC.  "Tall" is the shape of a pipeline: the root runs  *)
(* a stage helper, which runs the hosted-task worker, all controllers, and *)
(* the worker creates a task.  "Wide" has a root that creates a task of    *)
(* its own, a stage below it and a plain command (git, gh) below that.     *)
(***************************************************************************)
EXTENDS Execution, TLC

CONSTANTS root, stage, worker, command

TallNodes == {root, stage, worker}
TallParent == stage :> root @@ worker :> stage
TallAnc == root :> {} @@ stage :> {root} @@ worker :> {stage, root}

WideNodes == {root, stage, command}
WideParent == stage :> root @@ command :> stage
WideAnc == root :> {} @@ stage :> {root} @@ command :> {stage, root}

FullNodes == {root, stage, worker, command}
FullParent == stage :> root @@ worker :> stage @@ command :> root
FullAnc == root :> {} @@ stage :> {root} @@ worker :> {stage, root} @@ command :> {root}
=============================================================================
