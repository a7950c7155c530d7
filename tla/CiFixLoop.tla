----------------------------- MODULE CiFixLoop -----------------------------
(***************************************************************************)
(* ci_fix_loop.py, hosted mode: wait until the checks of a pull request    *)
(* rest in one state, let a hosted task repair or diagnose the failure,    *)
(* import and push what it made, or ask GitHub to run the checks again.    *)
(* "loop" does all of it in one process; the bounded pipeline (Bounded)    *)
(* does one step per call and keeps everything in the state file between   *)
(* the calls.  The process may die at any point and be started again;      *)
(* others push, rewrite, move the base and rerun checks at any time.       *)
(***************************************************************************)
EXTENDS Integers, Sequences, SequencesExt, FiniteSets

CONSTANTS Bounded,         \* one step per call (pipeline --bounded-step), or the loop
          MaxIterations,   \* max_iterations: hosted repairs of a run or sweep
          StabilityPolls,  \* equal readings before a snapshot counts
          MaxSweeps,       \* bound: sweeps of a bounded run
          MaxMoves         \* bound: changes by others

CiFixLoopAssumption ==
  /\ Bounded \in BOOLEAN
  /\ {MaxIterations, StabilityPolls, MaxSweeps} \subseteq Nat \ {0} /\ MaxMoves \in Nat

VARIABLES github,  \* the pull request: head, base, and the run of its checks
          local,   \* the head of the local checkout
          hosted,  \* hosted tasks that still run, the answer file, and what was ever asked
          state,   \* the state file
          proc,    \* the memory of the process
          budget   \* the changes by others that are left

vars == <<github, local, hosted, state, proc, budget>>

\* A head is the sequence of its commits: 1 at first, 0 for a repair of ours.
Repaired(head) == Append(head, 0)
NewRun == [class |-> "running", attempt |-> 1, lag |-> FALSE]

NoSnapshot == [head |-> <<>>, base |-> 0, class |-> "none", attempt |-> 0]
View == [head |-> github.head, base |-> github.base, class |-> github.run.class, attempt |-> github.run.attempt]
NoGate == [snap |-> NoSnapshot, polls |-> 0]

Answers == {"fix", "rerun", "warning", "unfixable", "no_change", "failed"}
Results == {"green", "escalate", "max_iterations_reached", "snapshot_already_processed", "ci_changed",
            "source_changed", "published", "rerun", "warning", "unfixable", "nothing_to_publish"}
Working == {"observe", "confirm", "task", "clear", "dispatch", "launch", "wait", "resume", "verify", "admit",
            "import", "push", "confirm_push", "finish", "conclude", "advance", "retry", "post", "posted"}

\* Mutant of Supersedable: a failed attempt may be followed by another.
SupersedableFailed == {"none", "completed", "superseded", "failed"}

\* fresh_invocation_may_supersede_task
Supersedable == {"none", "completed", "superseded"}

Statuses == Supersedable \cup
  {"preparing", "running", "bounded_pending", "validated_pending_import", "validated", "published",
   "published_pending_verification", "failed", "failed_after_import", "failed_after_publication"}

Snapshot == [head : Seq(Nat), base : Nat, class : {"none", "running", "failed", "passed", "stuck"}, attempt : Nat]

TypeOK ==
  /\ github.head \in Seq(Nat) /\ github.base \in Nat
  /\ github.run \in [class : {"running", "failed", "passed", "stuck"}, attempt : Nat, lag : BOOLEAN]
  /\ local \in Seq(Nat)
  /\ hosted.active \in Nat /\ hosted.file \in Answers \cup {"none"}
  /\ hosted.asked \subseteq [sweep : 1..MaxSweeps, snap : Snapshot] /\ hosted.reruns \subseteq Seq(Nat)
  /\ state.task \in [status : Statuses, snap : Snapshot] /\ state.sweep \in 1..MaxSweeps
  /\ state.spent \in 0..MaxIterations /\ state.charged \in Snapshot /\ state.processed \subseteq Snapshot
  /\ state.retries \subseteq [head : Seq(Nat), source : Nat,
                              status : {"requesting", "requested", "request_failed", "retry_observed", "completed"}]
  /\ state.outcome \in {"none", "green", "warning", "escalated"} /\ state.pending \in {"none", "open", "done"}
  /\ state.terminal \in Results \cup {"none"} /\ state.gate.polls \in 0..StabilityPolls
  /\ proc.pc \in Working \cup {"idle"} /\ proc.snap \in Snapshot /\ proc.result \in Results \cup {"none"}
  /\ proc.gate.polls \in 0..StabilityPolls /\ {proc.asked, proc.advanced, proc.lost} \subseteq BOOLEAN
  /\ budget \in 0..MaxMoves

Resting == [pc |-> "idle", snap |-> NoSnapshot, gate |-> NoGate, result |-> "none", asked |-> FALSE,
            advanced |-> FALSE, lost |-> FALSE]

Init ==
  /\ github = [head |-> <<1>>, base |-> 1, run |-> NewRun]
  /\ local = <<1>>
  /\ hosted = [active |-> 0, file |-> "none", asked |-> {}, reruns |-> {}]
  /\ state = [task |-> [status |-> "none", snap |-> NoSnapshot], sweep |-> 1, spent |-> 0,
              charged |-> NoSnapshot, processed |-> {}, retries |-> {}, outcome |-> "none",
              pending |-> "none", terminal |-> "none", gate |-> NoGate]
  /\ proc = Resting
  /\ budget = MaxMoves

-----------------------------------------------------------------------------
(* How a process goes on and ends. *)

Goto(pc) == proc' = [proc EXCEPT !.pc = pc]
Concluded(p, result, asked) == [p EXCEPT !.pc = "advance", !.result = result, !.asked = asked]
With(s, status) == [s EXCEPT !.task.status = status]
Observing == [Resting EXCEPT !.pc = "observe"]
\* The call ends (bounded), or the loop observes again.
Again == IF Bounded THEN Resting ELSE Observing

\* An error ends the call; the loop records it (record_coordinator_failure).
Fail(s) ==
  /\ state' = IF Bounded THEN s ELSE [s EXCEPT !.outcome = "escalated"]
  /\ proc' = Resting

\* command_agent_task, except BaseException: what is left of the attempt.
FailTask ==
  Fail(With(state, CASE state.task.status \in {"published_pending_verification", "published"} -> "failed_after_publication"
                     [] OTHER -> IF local = state.task.snap.head THEN "failed" ELSE "failed_after_import"))

\* The checks changed under a verified result that nothing was made of yet.
DiscardTask ==
  /\ state' = [With(state, "completed") EXCEPT !.outcome = "none"]
  /\ proc' = Concluded(proc, "ci_changed", TRUE)

\* require_live_check_snapshot: the same head, checks and attempts; the base
\* is not compared.
LiveMatches(snap) ==
  github.head = snap.head /\ github.run.class = snap.class /\ github.run.attempt = snap.attempt

\* begin_bounded_ci_sweep: a later sweep takes over what the last one finished.
NewSweep ==
  /\ Bounded /\ proc.pc = "idle" /\ state.terminal # "none" /\ state.sweep < MaxSweeps
  /\ state.pending = "none" /\ state.task.status \in Supersedable
  /\ state' = [state EXCEPT !.sweep = @ + 1, !.spent = 0, !.charged = NoSnapshot, !.processed = {},
                            !.gate = NoGate, !.terminal = "none"]
  /\ proc' = Observing
  /\ UNCHANGED <<github, local, hosted, budget>>

\* command_loop, command_bounded_pipeline.  A sweep that ended only repeats
\* its result.
Begin ==
  /\ proc.pc = "idle"
  /\ proc' = IF ~Bounded THEN Observing
             ELSE IF state.terminal # "none" THEN proc
             ELSE IF state.task.status = "bounded_pending"
             THEN [Resting EXCEPT !.pc = "resume", !.snap = state.task.snap]
             ELSE IF state.pending # "none"
             THEN [Resting EXCEPT !.pc = "retry", !.snap = state.task.snap]
             ELSE Observing
  /\ UNCHANGED <<github, local, hosted, state, budget>>

-----------------------------------------------------------------------------
(* Waiting for a snapshot that rests. *)

Gate == IF Bounded THEN state.gate ELSE proc.gate
KeepGate(gate, next) ==
  IF Bounded
  THEN /\ state' = [state EXCEPT !.gate = gate]
       /\ proc' = IF next = "observe" THEN Resting ELSE [proc EXCEPT !.pc = next]
  ELSE proc' = [proc EXCEPT !.gate = gate, !.pc = next] /\ UNCHANGED state

\* CIStabilityGate.observe: a failure is taken up once, a bounded sweep takes
\* up nothing that it has processed.
Eligible(snap) ==
  /\ snap.class \in {"failed", "passed", "stuck"}
  /\ snap \in state.processed => ~Bounded /\ snap.class # "failed"

\* agent_task_preflight and observe_once.  A torn reading is rejected by the
\* code, so that a reading is one step; a checkout that diverged may be refused.
Observe ==
  /\ proc.pc = "observe"
  /\ \/ /\ state.task.status \in Supersedable
        /\ local' = github.head
        /\ LET polls == IF Gate.snap = View THEN Gate.polls + 1 ELSE 1
               gate == [snap |-> View, polls |-> IF polls > StabilityPolls THEN StabilityPolls ELSE polls] IN
           IF Eligible(View)
           THEN KeepGate(gate, IF gate.polls = StabilityPolls THEN "confirm" ELSE "observe")
           ELSE KeepGate(IF Bounded THEN gate ELSE NoGate, "observe")
     \/ /\ \/ state.task.status \notin Supersedable
           \/ ~IsPrefix(local, github.head)
           \/ ~Bounded   \* wait_timeout
        /\ Fail(state) /\ UNCHANGED local
  /\ UNCHANGED <<github, hosted, budget>>

\* confirm_once: the second, complete preflight must say the same.
Confirm ==
  /\ proc.pc = "confirm"
  /\ local' = github.head
  /\ IF Gate.snap = View
     THEN proc' = [Resting EXCEPT !.pc = "task", !.snap = View] /\ UNCHANGED state
     ELSE KeepGate(NoGate, "observe")
  /\ UNCHANGED <<github, hosted, budget>>

-----------------------------------------------------------------------------
(* One iteration (command_agent_task). *)

\* Mutant of Exhausted: the attempt that reaches the limit is not counted.
ExhaustedLate == state.spent > MaxIterations
Exhausted == state.spent >= MaxIterations

\* Mutant of Charged: every launch is charged and starts a task.
ChargedNever(snap) == snap = NoSnapshot
\* charge_iteration: the snapshot charged last is not charged again.
Charged(snap) == state.charged = snap

\* HostedRepairAttempt.prepare: the attempt is charged and owns the state file.
Prepare ==
  /\ state' = [state EXCEPT !.task = [status |-> "preparing", snap |-> proc.snap], !.outcome = "none",
                            !.spent = @ + 1, !.charged = proc.snap]
  /\ hosted' = [hosted EXCEPT !.file = "none"]   \* a run id of its own
  /\ Goto("dispatch")

Decide ==
  CASE proc.snap.class = "passed" -> Goto("clear") /\ UNCHANGED <<state, hosted>>
    [] proc.snap.class = "stuck" \/ (proc.snap.class = "failed" /\ Exhausted) ->
         /\ state' = [state EXCEPT !.outcome = "escalated"]
         /\ proc' = Concluded(proc, IF proc.snap.class = "stuck" THEN "escalate" ELSE "max_iterations_reached", FALSE)
         /\ UNCHANGED hosted
    [] OTHER ->
         IF Charged(proc.snap)
         THEN proc' = Concluded(proc, "snapshot_already_processed", FALSE) /\ UNCHANGED <<state, hosted>>
         ELSE Prepare

\* The snapshot that was confirmed must still be the live one.
Task ==
  /\ proc.pc = "task"
  /\ IF LiveMatches(proc.snap) THEN Decide
     ELSE proc' = Concluded(proc, "ci_changed", FALSE) /\ UNCHANGED <<state, hosted>>
  /\ UNCHANGED <<github, local, budget>>

\* A green snapshot is read again before it is recorded (require_green_decision).
Clear ==
  /\ proc.pc = "clear"
  /\ IF github.head = proc.snap.head /\ github.base = proc.snap.base /\ github.run.class = "passed"
     THEN state' = [state EXCEPT !.outcome = "green"] /\ proc' = Concluded(proc, "green", FALSE)
     ELSE Fail(state)
  /\ UNCHANGED <<github, local, hosted, budget>>

\* HostedRepairAttempt.dispatch, phase controller_evidence.
Dispatch ==
  /\ proc.pc = "dispatch"
  /\ IF LiveMatches(proc.snap)
     THEN /\ state' = With(state, IF Bounded THEN "bounded_pending" ELSE "running")
          /\ Goto("launch")
     ELSE Fail(With(state, "failed"))
  /\ UNCHANGED <<github, local, hosted, budget>>

\* run_hosted_helper, run_bounded_cloud_helper: the helper starts the task and
\* says so, or breaks before or after it did.
Launch ==
  /\ proc.pc = "launch"
  /\ \E started \in BOOLEAN, told \in BOOLEAN :
       /\ hosted' = IF started
                    THEN [hosted EXCEPT !.active = @ + 1, !.asked = @ \cup {[sweep |-> state.sweep, snap |-> proc.snap]}]
                    ELSE hosted
       /\ IF started /\ told
          THEN proc' = (IF Bounded THEN Resting ELSE [proc EXCEPT !.pc = "wait"]) /\ UNCHANGED state
          ELSE Fail(With(state, "failed"))
  /\ UNCHANGED <<github, local, budget>>

\* The helper of the loop returns with the result file, or without one.
Wait ==
  /\ proc.pc = "wait"
  /\ \/ hosted.file # "none" /\ Goto("verify") /\ UNCHANGED state
     \/ Fail(With(state, "failed"))   \* hosted_timeout, or the helper breaks
  /\ UNCHANGED <<github, local, hosted, budget>>

\* A bounded call observes the task that an earlier one started.
Resume ==
  /\ proc.pc = "resume"
  /\ \/ hosted.file # "none" /\ Goto("verify") /\ UNCHANGED state
     \/ hosted.file = "none" /\ hosted.active > 0 /\ proc' = Resting /\ UNCHANGED state
     \/ hosted.file = "none" /\ Fail(With(state, "failed"))
  /\ UNCHANGED <<github, local, hosted, budget>>

-----------------------------------------------------------------------------
(* What the hosted task made. *)

Verify ==
  /\ proc.pc = "verify"
  /\ IF hosted.file = "failed" THEN FailTask ELSE Goto("admit") /\ UNCHANGED state
  /\ UNCHANGED <<github, local, hosted, budget>>

\* admit_ci_fix_candidate
Admit ==
  /\ proc.pc = "admit"
  /\ LET snap == state.task.snap
         base_advanced == github.base # snap.base IN
     IF local # snap.head THEN FailTask
     ELSE IF github.head # snap.head
     THEN IF IsPrefix(snap.head, github.head) /\ ~base_advanced
          THEN /\ state' = [With(state, "superseded") EXCEPT !.outcome = "none"]
               /\ proc' = Concluded(proc, "source_changed", TRUE)
          ELSE FailTask
     ELSE IF ~base_advanced /\ ~LiveMatches(snap) THEN DiscardTask
     ELSE /\ state' = With(state, "validated_pending_import")
          /\ proc' = [proc EXCEPT !.pc = "import", !.advanced = base_advanced]
  /\ UNCHANGED <<github, local, hosted, budget>>

\* apply_verified_candidate_import, for a repair under the publication lock.
Import ==
  /\ proc.pc = "import"
  /\ LET snap == state.task.snap
         advanced == proc.advanced \/ github.base # snap.base IN
     IF github.head # snap.head \/ local # snap.head THEN FailTask /\ UNCHANGED local
     ELSE IF hosted.file = "fix"
     THEN IF ~proc.advanced /\ ~LiveMatches(snap) THEN DiscardTask /\ UNCHANGED local
          ELSE /\ local' = Repaired(snap.head)
               /\ state' = With(state, "validated") /\ Goto("push")
     ELSE /\ state' = With(state, "validated") /\ UNCHANGED local
          /\ proc' = [proc EXCEPT !.pc = "conclude", !.advanced = advanced]
  /\ UNCHANGED <<github, hosted, budget>>

\* Mutant of Push: no lease.
PushForced ==
  /\ proc.pc = "push"
  /\ IF local # Repaired(state.task.snap.head)
     THEN FailTask /\ UNCHANGED github
     ELSE /\ github' = [github EXCEPT !.head = Repaired(state.task.snap.head), !.run = NewRun]
          /\ Goto("confirm_push") /\ UNCHANGED state
  /\ UNCHANGED <<local, hosted, budget>>

\* git push --force-with-lease on the pinned head.  A push that reports an
\* error counts if the remote has the commit afterwards.
Push ==
  /\ proc.pc = "push"
  /\ \/ /\ local = Repaired(state.task.snap.head) /\ github.head = state.task.snap.head
        /\ github' = [github EXCEPT !.head = local, !.run = NewRun]
        /\ Goto("confirm_push") /\ UNCHANGED state
     \/ FailTask /\ UNCHANGED github
  /\ UNCHANGED <<local, hosted, budget>>

ConfirmPush ==
  /\ proc.pc = "confirm_push"
  /\ IF github.head = local
     THEN state' = With(state, "published_pending_verification") /\ Goto("finish")
     ELSE FailTask
  /\ UNCHANGED <<github, local, hosted, budget>>

\* wait_for_live_pr_snapshot, then the publication is recorded.
FinishPublication ==
  /\ proc.pc = "finish"
  /\ IF github.head = local
     THEN state' = With(state, "published") /\ Goto("conclude")
     ELSE FailTask
  /\ UNCHANGED <<github, local, hosted, budget>>

Conclude ==
  /\ proc.pc = "conclude"
  /\ IF hosted.file = "warning" /\ ~proc.advanced /\ ~LiveMatches(state.task.snap)
     THEN DiscardTask
     ELSE /\ state' = [With(state, "completed") EXCEPT
                         !.outcome = CASE hosted.file = "warning" -> "warning"
                                       [] hosted.file = "unfixable" -> "escalated"
                                       [] OTHER -> @]
          /\ proc' = Concluded(proc, CASE hosted.file = "fix" -> "published"
                                       [] hosted.file = "no_change" -> "nothing_to_publish"
                                       [] OTHER -> hosted.file, TRUE)
  /\ UNCHANGED <<github, local, hosted, budget>>

-----------------------------------------------------------------------------
(* What follows from an iteration (advance_ci_iteration). *)

\* record_processed_ci_snapshot
Processed(s) == [s EXCEPT !.processed = @ \cup {proc.snap}, !.pending = "none"]

Advance ==
  /\ proc.pc = "advance"
  /\ LET done == IF proc.asked THEN Processed(state) ELSE state IN
     CASE proc.result = "rerun" ->
            /\ state' = IF Bounded THEN [state EXCEPT !.pending = "open"] ELSE done
            /\ Goto("retry")
       [] proc.result \in {"source_changed", "ci_changed", "published", "snapshot_already_processed"} ->
            state' = done /\ proc' = Again
       [] OTHER ->
            /\ state' = IF Bounded THEN [done EXCEPT !.terminal = proc.result] ELSE done
            /\ proc' = Resting
  /\ UNCHANGED <<github, local, hosted, budget>>

\* A retry was asked for, or is under way without us.
Retried(s) == state' = (IF Bounded THEN [s EXCEPT !.pending = "done"] ELSE s) /\ proc' = Again

\* Mutant of Noted: the record is written only when the answer is known.
NotedLate(s, source, status) ==
  IF status = "requesting" THEN s
  ELSE [s EXCEPT !.retries = {r \in @ : r.head # proc.snap.head} \cup
                             {[head |-> proc.snap.head, source |-> source, status |-> status]}]

Noted(s, source, status) ==
  [s EXCEPT !.retries = {r \in @ : r.head # proc.snap.head} \cup
                        {[head |-> proc.snap.head, source |-> source, status |-> status]}]

\* retry_diagnosed_ci up to the request, and advance_ci_rerun after the last.
Retry ==
  /\ proc.pc = "retry"
  /\ LET run == github.run
         previous == {r \in state.retries : r.head = proc.snap.head} IN
     IF state.pending = "done" THEN state' = Processed(state) /\ proc' = Again
     ELSE IF github.head # proc.snap.head \/ github.base # proc.snap.base THEN Fail(state)
     ELSE IF run.class # "failed" \/ run.attempt > proc.snap.attempt THEN Retried(state)
     ELSE IF \E r \in previous : run.attempt > r.source THEN Fail(Noted(state, run.attempt, "completed"))
     ELSE IF \E r \in previous : r.status \in {"requesting", "requested"} THEN Retried(state)
     ELSE IF previous # {} \/ run.attempt > 1 THEN Fail(state)   \* MAX_RERUNS_PER_CHECK
     ELSE state' = Noted(state, run.attempt, "requesting") /\ Goto("post")
  /\ UNCHANGED <<github, local, hosted, budget>>

\* The request; its effect on the attempt shows later, its answer may be lost.
Post ==
  /\ proc.pc = "post"
  /\ \/ /\ github.head = proc.snap.head /\ github.run.class = "failed" /\ ~github.run.lag
        /\ github' = [github EXCEPT !.run.lag = TRUE]
        /\ hosted' = [hosted EXCEPT !.reruns = @ \cup {proc.snap.head}]
        /\ \E lost \in BOOLEAN : proc' = [proc EXCEPT !.pc = "posted", !.lost = lost]
     \/ proc' = [proc EXCEPT !.pc = "posted", !.lost = TRUE] /\ UNCHANGED <<github, hosted>>
  /\ UNCHANGED <<local, state, budget>>

Posted ==
  /\ proc.pc = "posted"
  /\ IF ~proc.lost THEN Retried(Noted(state, proc.snap.attempt, "requested"))
     ELSE IF github.head = proc.snap.head /\ (github.run.attempt > proc.snap.attempt \/ github.run.class = "running")
     THEN Retried(Noted(state, proc.snap.attempt, "retry_observed"))
     ELSE Fail(Noted(state, proc.snap.attempt, "request_failed"))
  /\ UNCHANGED <<github, local, hosted, budget>>

-----------------------------------------------------------------------------
(* The process dies; the hosted task, GitHub and others go on. *)

Crash ==
  /\ proc.pc # "idle" /\ proc' = Resting
  /\ UNCHANGED <<github, local, hosted, state, budget>>

HostedEnds ==
  /\ hosted.active > 0
  /\ \E answer \in Answers : hosted' = [hosted EXCEPT !.active = @ - 1, !.file = answer]
  /\ UNCHANGED <<github, local, state, proc, budget>>

\* The checks end, or a requested rerun starts.
ChecksMove ==
  /\ \/ github.run.class = "running" /\ \E class \in {"failed", "passed", "stuck"} : github' = [github EXCEPT !.run.class = class]
     \/ github.run.lag /\ github' = [github EXCEPT !.run = [NewRun EXCEPT !.attempt = github.run.attempt + 1]]
  /\ UNCHANGED <<local, hosted, state, proc, budget>>

OthersMove ==
  /\ budget > 0 /\ budget' = budget - 1
  /\ LET mark == MaxMoves - budget + 2 IN
     \/ github' = [github EXCEPT !.head = Append(@, mark), !.run = NewRun]
     \/ github' = [github EXCEPT !.head = <<mark>>, !.run = NewRun]
     \/ github' = [github EXCEPT !.base = @ + 1]
     \/ github.run.class = "failed" /\ github' = [github EXCEPT !.run = [NewRun EXCEPT !.attempt = github.run.attempt + 1]]
  /\ UNCHANGED <<local, hosted, state, proc>>

Next ==
  \/ NewSweep \/ Begin \/ Observe \/ Confirm \/ Task \/ Clear \/ Dispatch \/ Launch \/ Wait \/ Resume
  \/ Verify \/ Admit \/ Import \/ Push \/ ConfirmPush \/ FinishPublication \/ Conclude \/ Advance
  \/ Retry \/ Post \/ Posted \/ Crash \/ HostedEnds \/ ChecksMove \/ OthersMove

Spec == Init /\ [][Next]_vars

-----------------------------------------------------------------------------
(* Properties *)

Asks == hosted'.active > hosted.active

\* A hosted task is only started when none of ours may still be running
\* (fresh_invocation_may_supersede_task), and a snapshot is given to one task
\* in a sweep, crashes and relaunches included (charge_iteration).
Alone == Asks => hosted.active = 0
OncePerSnapshot == Asks => [sweep |-> state.sweep, snap |-> proc.snap] \notin hosted.asked

\* A sweep pays for every task it starts, and never for more than the limit.
BudgetHolds == \A sweep \in 1..MaxSweeps : Cardinality({a \in hosted.asked : a.sweep = sweep}) <= MaxIterations

\* We ask GitHub at most once to run the checks of a head again, although the
\* process may die between the request and its record (retry_diagnosed_ci).
RequestedOnce == proc.pc = "post" /\ github'.run.lag /\ ~github.run.lag => github.head \notin hosted.reruns

\* Our push only ever extends the branch.
Extends == proc.pc = "push" /\ proc'.pc = "confirm_push" => IsPrefix(github.head, github'.head)

\* A recorded clearance means that no hosted task runs and no rerun is owed.
ClearedIsQuiet == state.outcome \in {"green", "warning"} => hosted.active = 0 /\ state.pending = "none"
=============================================================================
