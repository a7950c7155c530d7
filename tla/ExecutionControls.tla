------------------------- MODULE ExecutionControls -------------------------
(***************************************************************************)
(* The read-only control beside a run: execution-status, in a process of   *)
(* its own, reads the root's files and its process generation one after    *)
(* the other, without the guard that orders the writers.                   *)
(***************************************************************************)
EXTENDS Execution

VARIABLE view   (* the control process: where it is, what it read, its answer *)

controlVars == <<vars, view>>

NoView == [at |-> "idle", seen |-> "none", answer |-> "none"]

ControlInit == Init /\ view = NoView

(* status: load_handle of the root.                                        *)
ReadHandle ==
  /\ view.at = "idle" /\ handle[Root] # "none"
  /\ view' = [at |-> "result", seen |-> handle[Root], answer |-> "none"]

(* Mutant of ReadResult: the digest in the handle is not required.         *)
ReadResultUnsealed ==
  /\ view.at = "result"
  /\ view' =
       IF result[Root] = NoResult THEN [view EXCEPT !.at = "owner"]
       ELSE [view EXCEPT !.at = "idle", !.answer = result[Root].status]

(* status: result.json exists; without a digest in the handle that was     *)
(* read it is no terminal result.                                          *)
ReadResult ==
  /\ view.at = "result"
  /\ view' =
       IF result[Root] = NoResult THEN [view EXCEPT !.at = "owner"]
       ELSE IF view.seen \in TerminalStatus
            THEN [view EXCEPT !.at = "idle", !.answer = result[Root].status]
            ELSE [view EXCEPT !.at = "listed", !.seen = "terminal_unsealed"]

(* status: the generation of the owner, and the cancellation request.      *)
ReadOwner ==
  /\ view.at = "owner"
  /\ view' = [view EXCEPT !.at = "listed",
                          !.seen = IF ~Alive(Root) THEN "abandoned"
                                   ELSE IF cancel THEN "cancel_requested" ELSE @]

(* _owned_roots: a root that is not terminal counts only while its owner   *)
(* still runs; without one _owned_control raises "no live or terminal      *)
(* execution belongs to the current session and helper".                   *)
Select ==
  /\ view.at = "listed"
  /\ view' = [view EXCEPT !.at = "idle",
                          !.answer = IF Alive(Root) THEN view.seen ELSE "no_execution"]

Control == ReadHandle \/ ReadResult \/ ReadOwner \/ Select

ControlNext ==
  \/ Next /\ UNCHANGED view
  \/ Control /\ UNCHANGED vars

ControlSpec == ControlInit /\ [][ControlNext]_controlVars

-----------------------------------------------------------------------------
(* Properties                                                              *)

(* An outcome that execution-status reports is the one the root sealed,    *)
(* whatever the owner does, or dies of, while the files are being read.    *)
ReportedOutcomeIsSealed ==
  view.answer \in TerminalStatus => Sealed(Root) /\ handle[Root] = view.answer

(* "execution-status reads the sole live root, or the latest unambiguous   *)
(* terminal root" (plugins/pr-pipeline/README.md): it does not deny a root *)
(* that has sealed its result.                                             *)
SealedRootIsFound == view.answer = "no_execution" => ~Sealed(Root)
=============================================================================
