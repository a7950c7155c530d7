---------------------------- MODULE MCStacks ----------------------------
(***************************************************************************)
(* A stack of two members repaired by ci, beside the instance of           *)
(* ExecutionControls, and three other stacks in variables of their own:    *)
(* conflict before ci, a wave of parallel workers, and the upper member of *)
(* two through all phases.  scheduler says which of the five moves: they   *)
(* share nothing, so that the state spaces add up.                         *)
(***************************************************************************)
EXTENDS MCExecutionControls, StackPipeline

VARIABLES scheduler, live2, marks2, native2, workers2, trees2, pushed2, saved2, sched2, outcome2, budget2

otherVars == <<live2, marks2, native2, workers2, trees2, pushed2, saved2, sched2, outcome2, budget2>>

OnlyCi == <<"ci">>

Repair == INSTANCE StackPipeline WITH live <- live2, marks <- marks2, native <- native2, workers <- workers2,
                                      trees <- trees2, pushed <- pushed2, saved <- saved2, sched <- sched2,
                                      outcome <- outcome2, budget <- budget2, Phases <- <<"conflict", "ci">>
Waves == INSTANCE StackPipeline WITH live <- live2, marks <- marks2, native <- native2, workers <- workers2,
                                     trees <- trees2, pushed <- pushed2, saved <- saved2, sched <- sched2,
                                     outcome <- outcome2, budget <- budget2, Phases <- <<"description">>
Suffix == INSTANCE StackPipeline WITH live <- live2, marks <- marks2, native <- native2, workers <- workers2,
                                      trees <- trees2, pushed <- pushed2, saved <- saved2, sched <- sched2,
                                      outcome <- outcome2, budget <- budget2, Clicked <- 2,
                                      Phases <- <<"conflict", "review", "ci", "description">>

ASSUME StacksAssumption ==
  /\ StackPipelineAssumption
  /\ Repair!StackPipelineAssumption
  /\ Waves!StackPipelineAssumption
  /\ Suffix!StackPipelineAssumption

StacksInit ==
  /\ ControlInit /\ StackInit
  /\ \/ scheduler \in {"none", "ci", "suffix"} /\ Suffix!StackInit
     \/ scheduler = "repair" /\ Repair!StackInit
     \/ scheduler = "waves" /\ Waves!StackInit

StacksNext ==
  \/ scheduler = "none" /\ ControlNext /\ UNCHANGED <<scheduler, stackVars, otherVars>>
  \/ scheduler = "ci" /\ StackNext /\ UNCHANGED <<scheduler, controlVars, otherVars>>
  \/ scheduler = "repair" /\ Repair!StackNext /\ UNCHANGED <<scheduler, controlVars, stackVars>>
  \/ scheduler = "waves" /\ Waves!StackNext /\ UNCHANGED <<scheduler, controlVars, stackVars>>
  \/ scheduler = "suffix" /\ Suffix!StackNext /\ UNCHANGED <<scheduler, controlVars, stackVars>>

StacksSpec == StacksInit /\ [][StacksNext]_<<scheduler, controlVars, stackVars, otherVars>>

-----------------------------------------------------------------------------
\* The same of a stack whose conflicts are resolved before ci, of workers at
\* once, and of workers above a member that is not selected: none is joined by a
\* second one on its pull request (a second start, execute), none whose start was
\* recorded loses its worktree (cleanup), CI starts on what it cleared below
\* (ci_gate), and complete is one stack (final_snapshot).
OtherStacksHold ==
  [][/\ scheduler = "repair" => Repair!AloneOnMember /\ Repair!NotInUse /\ Repair!OnGreen /\ Repair!CompleteIsOneStack'
     /\ scheduler = "waves" => Waves!AloneOnMember /\ Waves!NotInUse /\ Waves!CompleteIsOneStack'
     /\ scheduler = "suffix" => Suffix!AloneOnMember /\ Suffix!NotInUse /\ Suffix!StackTypeOK']_otherVars
=============================================================================
