--------------------------- MODULE ForegroundRun ---------------------------
(***************************************************************************)
(* What one foreground execution promises to the session that started it,  *)
(* without saying how: a run is started, may be asked to cancel, and ends  *)
(* once, with an outcome sealed by its owner or abandoned by it.           *)
(*                                                                         *)
(*   - after a cancellation request the owned tree grows no further;       *)
(*   - a run that was asked to cancel never ends "finished";               *)
(*   - a run that ends "finished" or "cancelled_local" leaves no owned     *)
(*     process behind, and none appears later;                             *)
(*   - an ended run keeps its outcome.                                     *)
(*                                                                         *)
(* Only "failed" and "abandoned" runs may leave a process: that is what    *)
(* the two outcomes tell the session.                                      *)
(***************************************************************************)

VARIABLES
  run,     (* "idle", "running", "cancelling", or one of Outcomes           *)
  live     (* TRUE while a process the run started is still running         *)

vars == <<run, live>>

(* "quiet" outcomes promise that nothing of the run is left.               *)
QuietOutcomes == {"finished", "cancelled_local"}
LooseOutcomes == {"failed", "abandoned"}
Outcomes == QuietOutcomes \cup LooseOutcomes
Active == {"running", "cancelling"}

TypeOK == run \in {"idle"} \cup Active \cup Outcomes /\ live \in BOOLEAN

Init == run = "idle" /\ live = FALSE

Start == run = "idle" /\ run' = "running" /\ UNCHANGED live

(* The tree grows: never once a cancellation was requested.                *)
Grow == run \in {"running"} \cup LooseOutcomes /\ live' = TRUE /\ UNCHANGED run

Shrink == live /\ live' = FALSE /\ UNCHANGED run

RequestCancel == run = "running" /\ run' = "cancelling" /\ UNCHANGED live

Finish == run = "running" /\ ~live /\ run' = "finished" /\ UNCHANGED live

CancelLocally == run \in Active /\ ~live /\ run' = "cancelled_local" /\ UNCHANGED live

(* A failing or dying owner may take its tree with it or leave it.         *)
Fail == run \in Active /\ run' \in LooseOutcomes /\ (live' => live)

Next ==
  \/ Start
  \/ Grow
  \/ Shrink
  \/ RequestCancel
  \/ Finish
  \/ CancelLocally
  \/ Fail

Spec == Init /\ [][Next]_vars
=============================================================================
