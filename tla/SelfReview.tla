------------------------------ MODULE SelfReview ------------------------------
(***************************************************************************)
(* self_review_loop.py: a pass has a hosted task review the head and maybe *)
(* commit to it, imports the commits, pushes them and records the outcome; *)
(* passes follow each other until one is clean or the budget is spent.     *)
(* Standalone all of them are one process with a new file, and the clean   *)
(* head is published in a state repository that others write too.  Bounded *)
(* the pipeline makes a call per step and nothing is published there.  Any *)
(* call may raise or die at any step.  Left out: the base branch, the      *)
(* shape of the candidate, the artifacts.                                  *)
(***************************************************************************)
EXTENDS Integers, Sequences, SequencesExt

CONSTANTS Bounded,        \* pipeline --bounded-step, and with it source-only
          MaxIterations,  \* max_iterations
          MaxSweeps,      \* pipeline_max_iterations
          MaxAttempts,    \* SHARED_STATE_MAX_ATTEMPTS
          MaxMoves        \* bound: moves of others, further standalone calls

SelfReviewAssumption ==
  /\ Bounded \in BOOLEAN
  /\ {MaxIterations, MaxSweeps, MaxAttempts} \subseteq Nat \ {0} /\ MaxMoves \in Nat

VARIABLES github,  \* the head, the title and body, and the record in the state repository
          local,   \* the head of the checkout
          hosted,  \* the hosted task, how many were asked, the heads that were found clean
          state,   \* the state file
          proc,    \* the running process and the exit of the last one
          budget   \* the moves of others that are left

vars == <<github, local, hosted, state, proc, budget>>

NoHead == <<>>
Heads == Seq(Nat)
NoSnapshot == [head |-> NoHead, text |-> 0]
NoTask == [status |-> "none", run |-> 0, snapshot |-> NoSnapshot, commits |-> FALSE, outcome |-> "none", confirmed |-> FALSE, published |-> FALSE]
NoFile == [exists |-> FALSE, scope |-> 0, base |-> 0, iterations |-> 0, task |-> NoTask, review |-> "none", clean |-> NoHead]
NoHosted == [status |-> "none", snapshot |-> NoSnapshot, commits |-> FALSE, outcome |-> "none", asked |-> 0, clean |-> {}]
NoShared == [clean |-> NoHead, at |-> 0]
NoPost == [clean |-> NoHead, at |-> 0, seen |-> NoShared, attempts |-> 0, next |-> "none"]
Resting(exit) == [pc |-> "idle", exit |-> exit, sweep |-> 0, post |-> NoPost]

Pcs == {"idle", "preflight", "read_shared", "write_shared", "dispatch", "send", "observe", "accept", "import", "record",
        "push", "send_push", "pushed", "confirm", "live", "finalize", "complete", "end"}
TaskStates == {"none", "preparing", "running", "result_ready", "validated", "imported", "published_pending", "published",
               "completed", "superseded", "failed", "failed_after_import", "failed_after_publication"}
Outcomes == {"none", "cleared", "continue", "incomplete", "max_iterations_reached"}

TypeOK ==
  /\ github.head \in Heads /\ github.text \in Nat /\ github.shared \in [clean : Heads, at : Nat] /\ github.now \in Nat
  /\ local \in Heads /\ proc.pc \in Pcs /\ proc.sweep \in 0..MaxSweeps /\ proc.post.attempts \in 0..MaxAttempts
  /\ proc.exit \in {"none", "error", "waiting", "cleared", "exhausted", "source_changed"}
  /\ hosted.status \in {"none", "running", "success", "failure"} /\ hosted.clean \subseteq Heads
  /\ state.task.status \in TaskStates /\ {state.task.outcome, hosted.outcome} \subseteq Outcomes
  /\ state.review \in {"none", "active", "clean", "continue", "exhausted", "budget_exhausted", "source_changed"}
  /\ state.clean \in Heads /\ {state.iterations, state.base} \subseteq Nat /\ state.scope \in 0..MaxSweeps
  /\ budget \in 0..MaxMoves

Init ==
  /\ github = [head |-> <<1>>, text |-> 0, shared |-> NoShared, now |-> 0]
  /\ local = <<1>> /\ hosted = NoHosted /\ state = NoFile /\ proc = Resting("none") /\ budget = MaxMoves

Goto(pc) == proc' = [proc EXCEPT !.pc = pc]
Exit(exit) == proc' = Resting(exit)
Save(s) == state' = s /\ UNCHANGED <<github, local, hosted, budget>>

Source == state.task.snapshot.head
Final == IF state.task.commits THEN Append(Source, 0) ELSE Source

\* require_live_pr_snapshot
LiveAt(head) == github.head = head /\ github.text = state.task.snapshot.text

\* same_ref_forward_head_drift
MovedOn == github.head # Source /\ IsPrefix(Source, github.head) /\ github.text = state.task.snapshot.text

\* An error says how far the task came.  One before the task is on record leaves
\* the file alone.
Failed(s) ==
  [s EXCEPT !.task.status =
     IF s.task.published \/ s.task.confirmed THEN "failed_after_publication"
     ELSE IF local # s.task.snapshot.head THEN "failed_after_import" ELSE "failed"]

Raise ==
  /\ Exit("error")
  /\ Save(IF proc.pc \in {"preflight", "read_shared", "write_shared"} THEN state ELSE Failed(state))

-----------------------------------------------------------------------------
(* Launch and budget *)

\* A standalone call has a file of its own; it may be the last.
LaunchAlone ==
  /\ ~Bounded /\ proc.pc = "idle" /\ (state.exists => budget > 0)
  /\ budget' = IF state.exists THEN budget - 1 ELSE budget
  /\ state' = NoFile /\ hosted' = [hosted EXCEPT !.asked = 0]
  /\ proc' = [Resting("none") EXCEPT !.pc = "preflight", !.sweep = 1]
  /\ UNCHANGED <<github, local>>

Rest == ~Bounded /\ proc.pc = "idle" /\ UNCHANGED vars

Resumable == {"running", "result_ready", "published_pending"}

\* The checkpoint of this run, that only the worker writes, is there.
Checkpointed == hosted.asked = state.task.run

Done == {"completed", "superseded"}

\* Mutant of MayEnter: a failed task does not stand in the way.
MayEnterFailed(sweep) == state.exists => state.scope < sweep \/ state.task.status \notin Resumable

\* A pass begins where the last one is over: in a later sweep, or in the same one
\* after a pass that is to be continued.
MayEnter(sweep) ==
  state.exists =>
    /\ state.task.status \in Done
    /\ state.scope < sweep \/ (state.scope = sweep /\ state.task.status = "completed" /\ state.review = "continue")

LaunchBounded ==
  /\ Bounded /\ proc.pc = "idle"
  /\ \E sweep \in {state.scope, state.scope + 1} \cap (1..MaxSweeps) :
       IF state.task.status \in Resumable /\ sweep = state.scope
       THEN IF ~Checkpointed THEN Exit("error")
            ELSE proc' = [Resting("none") EXCEPT !.sweep = sweep,
                            !.pc = IF state.task.status = "running" THEN "observe" ELSE "accept"]
       ELSE IF MayEnter(sweep) THEN proc' = [Resting("none") EXCEPT !.pc = "preflight", !.sweep = sweep]
       ELSE Exit("error")
  /\ UNCHANGED <<github, local, hosted, state, budget>>

\* pipeline_scope: a later sweep counts from what was spent before it.
Scoped(s) ==
  IF proc.sweep > s.scope THEN [s EXCEPT !.scope = proc.sweep, !.base = s.iterations] ELSE s

\* budget_spent and absolute_iteration_cap
Exhausted(s) ==
  s.iterations - s.base >= MaxIterations \/ (Bounded /\ s.iterations >= MaxIterations * MaxSweeps)

Charged(s) == [s EXCEPT !.iterations = @ + 1]

-----------------------------------------------------------------------------
(* publish_shared_state: failing is not an error *)

\* The entry carries the time of the save that it is about.
Post(clean, next) == [clean |-> clean, at |-> github.now, seen |-> NoShared, attempts |-> 0, next |-> next]

ReadShared ==
  /\ proc.pc = "read_shared"
  /\ proc' = [proc EXCEPT !.pc = "write_shared", !.post.seen = github.shared, !.post.attempts = @ + 1]
  /\ UNCHANGED <<github, local, hosted, state, budget>>

\* Mutant of Merged: the last one to write wins.
MergedLast(post) == [clean |-> post.clean, at |-> post.at]

\* merge_shared_state: an entry that is not older stays.
Merged(post) == IF post.seen.at >= post.at THEN post.seen ELSE [clean |-> post.clean, at |-> post.at]

\* Mutant of Unwritten: the file is replaced whatever it is by now.
UnwrittenAny(post) == TRUE

\* The write names the version that was read.
Unwritten(post) == github.shared = post.seen

WriteShared ==
  /\ proc.pc = "write_shared"
  /\ LET post == proc.post
         leave == [proc EXCEPT !.pc = post.next, !.post = NoPost] IN
     \/ Merged(post) = post.seen /\ proc' = leave /\ UNCHANGED github
     \/ /\ Merged(post) # post.seen /\ Unwritten(post)
        /\ github' = [github EXCEPT !.shared = Merged(post)] /\ proc' = leave
     \/ /\ Merged(post) # post.seen /\ ~Unwritten(post)
        /\ IF post.attempts < MaxAttempts THEN Goto("read_shared") ELSE proc' = leave
        /\ UNCHANGED github
     \/ proc' = leave /\ UNCHANGED github
  /\ UNCHANGED <<local, hosted, state, budget>>

-----------------------------------------------------------------------------
(* A pass, to the import of its candidate *)

\* The first pass withdraws the clean head that an earlier run may have published.
Preflight ==
  /\ proc.pc = "preflight"
  /\ LET s == [Scoped(state) EXCEPT !.exists = TRUE, !.clean = NoHead,
                 !.task = IF @.status = "superseded" THEN NoTask ELSE @]
         task == [NoTask EXCEPT !.status = "preparing", !.run = hosted.asked + 1, !.snapshot = [head |-> github.head, text |-> github.text]]
         withdraw == ~Bounded /\ ~state.exists IN
     IF local # github.head THEN Raise
     ELSE IF Exhausted(s)
     THEN /\ state' = [s EXCEPT !.review = "budget_exhausted"] /\ Exit("exhausted")
          /\ UNCHANGED <<github, local, hosted, budget>>
     ELSE /\ state' = [s EXCEPT !.review = "active", !.task = task]
          /\ IF withdraw
             THEN /\ github' = [github EXCEPT !.now = @ + 1]
                  /\ proc' = [proc EXCEPT !.pc = "read_shared", !.post = [Post(NoHead, "dispatch") EXCEPT !.at = @ + 1]]
             ELSE Goto("dispatch") /\ UNCHANGED github
          /\ UNCHANGED <<local, hosted, budget>>

Dispatch ==
  /\ proc.pc = "dispatch"
  /\ Save([state EXCEPT !.task.status = "running"]) /\ Goto("send")

\* The worker asks for the task; a bounded call does not wait for it.
Send ==
  /\ proc.pc = "send"
  /\ hosted' = [hosted EXCEPT !.status = "running", !.snapshot = state.task.snapshot, !.asked = @ + 1]
  /\ IF Bounded THEN Exit("waiting") ELSE Goto("observe")
  /\ UNCHANGED <<github, local, state, budget>>

\* A bounded call that finds the result only says so.
Observe ==
  /\ proc.pc = "observe"
  /\ CASE hosted.status = "running" -> Bounded /\ Exit("waiting") /\ Save(state)
       [] hosted.status = "success" /\ Bounded -> Exit("waiting") /\ Save([state EXCEPT !.task.status = "result_ready"])
       [] hosted.status = "success" /\ ~Bounded -> Goto("accept") /\ Save(state)
       [] OTHER -> Raise

\* Mutant of Outcome: what the report says, whatever the commits are.
OutcomeReported == IF hosted.outcome = "none" /\ hosted.commits THEN "continue" ELSE hosted.outcome

\* candidate_review_outcome: commits without a report are to be continued; a clean
\* report with commits, or neither, is invalid.
Outcome ==
  CASE hosted.outcome = "none" /\ hosted.commits -> "continue"
    [] hosted.outcome = "incomplete" -> "incomplete"
    [] hosted.outcome = "cleared" /\ ~hosted.commits -> "cleared"
    [] OTHER -> "none"

\* Mutant of Superseded: the task was for free.
SupersededFree(s) == [s EXCEPT !.task.status = "superseded", !.review = "source_changed"]

Superseded(s) == [Charged(s) EXCEPT !.task.status = "superseded", !.review = "source_changed"]

\* A call that finds the push still unverified goes on with the verification.
Accept ==
  /\ proc.pc = "accept"
  /\ CASE Outcome = "none" -> Raise
       [] Outcome # "none" /\ state.task.status = "published_pending" ->
            IF state.task.published THEN Save(state) /\ Goto("finalize")
            ELSE IF LiveAt(Source) \/ LiveAt(Final) THEN Save(state) /\ Goto("confirm") ELSE Raise
       [] Outcome # "none" /\ state.task.status # "published_pending" /\ MovedOn ->
            Save(Superseded(state)) /\ Exit("source_changed")
       [] OTHER ->
            IF Outcome = "incomplete" \/ ~LiveAt(Source) THEN Raise
            ELSE /\ Save([state EXCEPT !.task.status = "validated", !.task.commits = hosted.commits, !.task.outcome = Outcome])
                 /\ Goto("import")

Import ==
  /\ proc.pc = "import"
  /\ IF local # Source THEN Raise
     ELSE local' = Final /\ Goto("record") /\ UNCHANGED <<github, hosted, state, budget>>

Record ==
  /\ proc.pc = "record"
  /\ Save([state EXCEPT !.task.status = "imported"]) /\ Goto("push")

-----------------------------------------------------------------------------
(* Publication *)

Push ==
  /\ proc.pc = "push"
  /\ IF ~LiveAt(Source) /\ ~(state.task.commits /\ LiveAt(Final)) THEN Raise
     ELSE /\ Save(state)
          /\ Goto(IF state.task.commits /\ github.head = Source THEN "send_push" ELSE "pushed")

\* Mutant of SendPush: the push is forced.
SendPushForced ==
  /\ proc.pc = "send_push"
  /\ github' = [github EXCEPT !.head = Final] /\ Goto("pushed")
  /\ UNCHANGED <<local, hosted, state, budget>>

\* git push without force.
SendPush ==
  /\ proc.pc = "send_push"
  /\ IF ~IsPrefix(github.head, Final) THEN Raise
     ELSE github' = [github EXCEPT !.head = Final] /\ Goto("pushed") /\ UNCHANGED <<local, hosted, state, budget>>

Pushed ==
  /\ proc.pc = "pushed"
  /\ Save(IF Bounded /\ state.task.commits THEN [state EXCEPT !.task.status = "published_pending"] ELSE state)
  /\ Goto(IF state.task.commits THEN "confirm" ELSE "live")

\* The push may be invisible for a while; a bounded call comes back for it.
Confirm ==
  /\ proc.pc = "confirm"
  /\ \/ Bounded /\ Exit("waiting") /\ Save(state)
     \/ IF github.head # Final THEN Raise
        ELSE Save([state EXCEPT !.task.status = "published_pending", !.task.confirmed = TRUE]) /\ Goto("live")

Live ==
  /\ proc.pc = "live"
  /\ IF ~Bounded /\ state.task.commits /\ ~LiveAt(Final) THEN Raise
     ELSE Save([state EXCEPT !.task.status = "published", !.task.published = TRUE]) /\ Goto("finalize")

Finalize ==
  /\ proc.pc = "finalize"
  /\ \/ /\ Bounded /\ state.task.commits /\ github.head = Final
        /\ Exit("waiting") /\ Save([state EXCEPT !.task.status = "published_pending"])
     \/ IF ~LiveAt(Final) THEN Raise ELSE Save(state) /\ Goto("complete")

\* AcceptedReviewResult.complete: a pass to be continued for which no budget is
\* left ends the review.
Completed(s) ==
  LET charged == Charged(s)
      outcome == IF s.task.outcome = "continue" /\ Exhausted(charged) THEN "max_iterations_reached" ELSE s.task.outcome IN
  [charged EXCEPT !.task.status = "completed", !.task.outcome = outcome,
     !.review = CASE outcome = "cleared" -> "clean" [] outcome = "continue" -> "continue" [] OTHER -> "exhausted",
     !.clean = IF outcome = "cleared" THEN Final ELSE NoHead]

Complete ==
  /\ proc.pc = "complete"
  /\ state' = Completed(state)
  /\ IF state.task.outcome = "cleared" /\ ~Bounded
     THEN /\ github' = [github EXCEPT !.now = @ + 1]
          /\ proc' = [proc EXCEPT !.pc = "read_shared", !.post = [Post(Final, "end") EXCEPT !.at = @ + 1]]
     ELSE Goto("end") /\ UNCHANGED github
  /\ UNCHANGED <<local, hosted, budget>>

\* command_agent_task: the next pass, in this process or in the next call.
Finish ==
  /\ proc.pc = "end"
  /\ CASE state.review = "clean" -> Exit("cleared")
       [] state.review = "continue" -> IF Bounded THEN Exit("waiting") ELSE Goto("preflight")
       [] OTHER -> Exit("exhausted")
  /\ UNCHANGED <<github, local, hosted, state, budget>>

-----------------------------------------------------------------------------
(* Errors and crashes, the hosted task, others *)

Raised == proc.pc # "idle" /\ Raise
Crash == proc.pc # "idle" /\ Exit("error") /\ UNCHANGED <<github, local, hosted, state, budget>>

\* What a review finds clean is the head it was asked about, as long as it commits
\* nothing.
HostedEnds ==
  /\ hosted.status = "running"
  /\ \E commits \in BOOLEAN, outcome \in {"none", "cleared", "incomplete"}, status \in {"success", "failure"} :
       hosted' = [hosted EXCEPT !.status = status, !.commits = commits, !.outcome = outcome,
                    !.clean = IF status = "success" /\ outcome = "cleared" /\ ~commits THEN @ \cup {hosted.snapshot.head} ELSE @]
  /\ UNCHANGED <<github, local, state, proc, budget>>

Align == proc.pc = "idle" /\ local # github.head /\ local' = github.head /\ UNCHANGED <<github, hosted, state, proc, budget>>

\* Others push, rewrite, edit, or start a review of their own.
OthersMove ==
  /\ budget > 0 /\ budget' = budget - 1
  /\ \/ \E head \in {Append(github.head, budget), <<1 + budget>>} : github' = [github EXCEPT !.head = head]
     \/ github' = [github EXCEPT !.text = @ + 1]
     \/ ~Bounded /\ github' = [github EXCEPT !.now = @ + 1, !.shared = [clean |-> NoHead, at |-> github.now + 1]]
  /\ UNCHANGED <<local, hosted, state, proc>>

Next ==
  \/ LaunchAlone \/ Rest \/ LaunchBounded \/ ReadShared \/ WriteShared \/ Preflight \/ Dispatch \/ Send \/ Observe \/ Accept
  \/ Import \/ Record \/ Push \/ SendPush \/ Pushed \/ Confirm \/ Live \/ Finalize \/ Complete \/ Finish
  \/ Raised \/ Crash \/ HostedEnds \/ Align \/ OthersMove

Spec == Init /\ [][Next]_vars

-----------------------------------------------------------------------------
(* Properties *)

\* A head on record as clean, here or in the state repository, is one that a
\* hosted task reviewed and left as it was.
CleanIsReviewed == {state.clean, github.shared.clean} \subseteq hosted.clean \cup {NoHead}

\* The process ends cleared with the head of the checkout on record.
ClearedIsLocal == proc'.exit = "cleared" /\ proc.exit # "cleared" => state.clean = local /\ state.task.status = "completed"

\* The state repository never goes back to an older entry.
SharedNeverOlder == github'.shared.at >= github.shared.at

\* The iterations of a sweep and of the run are bounded.
BudgetHolds == state.iterations - state.base <= MaxIterations /\ state.iterations <= MaxIterations * MaxSweeps

\* In a pipeline a task is asked for only when every one before is over, and paid
\* for.
Alone == Bounded /\ hosted'.asked > hosted.asked => hosted.status # "running"
AskedWhenPaid == hosted'.asked > hosted.asked => hosted.asked = state.iterations

\* Our push only extends the branch.
Extends == github'.head # github.head /\ budget' = budget => IsPrefix(github.head, github'.head)
=============================================================================
