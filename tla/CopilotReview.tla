---------------------------- MODULE CopilotReview ----------------------------
(***************************************************************************)
(* copilot_review_loop.py: the coordinator reads the open feedback of the  *)
(* Copilot reviewer, has a hosted task decide about it, imports and pushes *)
(* the commits, replies, resolves the threads, asks for the next review    *)
(* and watches it.  Standalone it is one long process with a file of its   *)
(* own; Bounded it is a call per step over the file of the pipeline.  Any  *)
(* call may raise or die at any step.  Left out: the shapes of the hosted  *)
(* report, the base branch, debouncing, review dismissal.                  *)
(***************************************************************************)
EXTENDS Integers, Sequences, SequencesExt, FiniteSets

CONSTANTS Bounded,         \* --bounded-step, called by the pipeline
          SourceOnly,      \* github_mutation_policy is source-only
          MaxIterations,   \* max_iterations
          MaxSweeps,       \* pipeline_max_iterations
          StabilityPolls,  \* stability_polls
          MaxReviews,      \* bound: reviews of the pull request
          MaxMoves         \* bound: moves of others, further standalone calls

CopilotReviewAssumption ==
  /\ Bounded \in BOOLEAN /\ SourceOnly \in BOOLEAN
  /\ {MaxIterations, MaxSweeps, StabilityPolls} \subseteq Nat \ {0} /\ {MaxReviews, MaxMoves} \subseteq Nat

VARIABLES github,  \* the head, its history, the reviews and the review that is asked for
          local,   \* the head of the checkout
          hosted,  \* the hosted task and what was asked of hosted tasks
          state,   \* the state file
          proc,    \* the running process and the exit of the last one
          budget   \* the moves of others that are left

vars == <<github, local, hosted, state, proc, budget>>

NoHead == <<>>
Heads == Seq(Nat)
Kinds == {"clean", "thread", "overview"}

\* Comment 2 * k is the thread of review k, 2 * k + 1 its overview.
ThreadOf(k) == 2 * k
OverviewOf(k) == 2 * k + 1

NoSnapshot == [head |-> NoHead, comments |-> {}, review |-> 0, clean |-> FALSE]
NoMonitoring == [status |-> "none", head |-> NoHead, baseline |-> 0]
NoTask == [status |-> "none", snapshot |-> NoSnapshot, commits |-> FALSE]
NoFile == [exists |-> FALSE, sweep |-> 1, scope |-> 0, terminal |-> FALSE, blocked |-> FALSE, last |-> "none",
           clean |-> NoHead, head |-> NoHead, iterations |-> 0, base |-> 0, queue |-> "none", task |-> NoTask,
           monitoring |-> NoMonitoring, poll |-> [snapshot |-> NoSnapshot, count |-> 0], processed |-> {}]
NoHosted == [status |-> "none", snapshot |-> NoSnapshot, commits |-> FALSE, asked |-> {}]
Resting(exit) == [pc |-> "idle", exit |-> exit, snapshot |-> NoSnapshot, todo |-> {}]

Pcs == {"idle", "preflight", "decide", "dispatch", "send", "worker", "import", "push", "confirm", "live", "reply", "resolve",
        "next", "ask", "send_request", "save_request", "verify", "watch", "end"}
Results == {"none", "ready", "no_unresolved_comments", "max_iterations_reached", "review_required", "source_changed",
            "overview_no_change", "review_no_comments", "review_comments", "head_changed", "timeout",
            "request_cancelled", "coordinator_error", "source_only_review_not_applicable"}
TaskStates == {"none", "preparing", "running", "pending", "validated", "published", "completed", "superseded",
               "failed", "failed_after_publication"}

TypeOK ==
  /\ github.head \in Heads /\ github.heads \subseteq Heads /\ github.requested \in Heads
  /\ \A k \in DOMAIN github.reviews :
       github.reviews[k] \in [head : Heads, kind : Kinds, open : BOOLEAN, reply : Heads, asked : BOOLEAN]
  /\ local \in Heads /\ proc.pc \in Pcs /\ proc.todo \subseteq DOMAIN github.reviews
  /\ proc.exit \in {"none", "error", "waiting", "cleared", "exhausted", "skipped", "source_changed"}
  /\ hosted.status \in {"none", "running", "success", "failure"}
  /\ state.last \in Results /\ state.task.status \in TaskStates /\ state.sweep \in 1..MaxSweeps
  /\ state.queue \in {"none", "active", "clean", "published"} /\ state.iterations \in Nat
  /\ state.monitoring.status \in {"none", "requesting", "requested", "running", "completed"}
  /\ state.poll.count \in 0..StabilityPolls /\ budget \in 0..MaxMoves

Init ==
  /\ \E reviews \in {<<>>} \cup {<<[head |-> <<1>>, kind |-> kind, open |-> kind = "thread", reply |-> NoHead,
                                    asked |-> FALSE]>> : kind \in Kinds} :
       github = [head |-> <<1>>, heads |-> {<<1>>}, requested |-> NoHead, reviews |-> reviews]
  /\ local = <<1>> /\ hosted = NoHosted /\ state = NoFile /\ proc = Resting("none") /\ budget = MaxMoves

-----------------------------------------------------------------------------
(* What the coordinator reads of the pull request *)

Latest == Len(github.reviews)

\* select_queue and latest_copilot_feedback_review: every open thread, and the
\* overview of the latest review if that is about the head.
CommentsAt(head) ==
  {ThreadOf(k) : k \in {j \in DOMAIN github.reviews : github.reviews[j].open}}
    \cup {OverviewOf(k) : k \in {j \in {Latest} \ {0} : github.reviews[j].kind = "overview" /\ github.reviews[j].head = head}}

\* agent_task_preflight
HeadReviews == {k \in DOMAIN github.reviews : github.reviews[k].head = github.head}
Snapshot ==
  LET review == CHOOSE k \in HeadReviews \cup {0} : \A j \in HeadReviews : j <= k IN
  [head |-> github.head, comments |-> CommentsAt(github.head), review |-> review,
   clean |-> review # 0 /\ github.reviews[review].kind = "clean"]

\* metadata and comments are still those of the preflight (github_decision_fingerprint).
Unmoved(snapshot) == github.head = snapshot.head /\ CommentsAt(github.head) = snapshot.comments

ActiveMonitoring == {"requesting", "requested", "running"}
TerminalTasks == {"none", "completed", "superseded"}

Goto(pc) == proc' = [proc EXCEPT !.pc = pc]
Exit(exit) == proc' = Resting(exit)
Save(s) == state' = s /\ UNCHANGED <<github, local, hosted, budget>>

\* Nothing of the run is under way, and no error stands.
Settled(s) == ~s.blocked /\ s.task.status \in TerminalTasks /\ s.monitoring.status \notin ActiveMonitoring

\* terminal_agent_task_clearance_error with allow_exhausted: what the process may
\* end with.
Verdict(s) ==
  LET cleared == Settled(s) /\ s.clean # NoHead /\ s.clean = s.head IN
  CASE s.last = "source_changed" /\ s.task.status = "superseded" -> "source_changed"
    [] s.last = "source_only_review_not_applicable" -> "skipped"
    [] s.last = "max_iterations_reached" /\ Settled(s) /\ s.queue = "active" /\ s.clean = NoHead -> "exhausted"
    [] s.last \in {"no_unresolved_comments", "overview_no_change"} /\ cleared -> "cleared"
    [] s.last = "review_no_comments" /\ cleared /\ s.monitoring.head = s.head -> "cleared"
    [] OTHER -> "error"

\* stage_outcome, as far as persist_agent_task_coordinator_error asks: a recorded
\* ending that is not a clearance stays.
Ended(s) ==
  s.clean = NoHead
    /\ s.last \notin {"none", "ready", "no_unresolved_comments", "review_required", "review_no_comments", "overview_no_change"}

\* Mutant of Failed: the clearance survives the error.
FailedCleared(s) == [s EXCEPT !.last = "coordinator_error", !.blocked = TRUE]

\* An error: the task fails, the clearance goes, the coordinator is blocked.
Failed(s) ==
  LET task == IF s.task.status \in TerminalTasks THEN s.task
              ELSE [s.task EXCEPT !.status = IF @ = "published" THEN "failed_after_publication" ELSE "failed"] IN
  IF ~s.exists THEN s
  ELSE IF Ended(s) THEN [s EXCEPT !.task = task]
  ELSE [s EXCEPT !.task = task, !.clean = NoHead, !.last = "coordinator_error", !.blocked = TRUE]

Raise == Save(Failed(state)) /\ Exit("error")

-----------------------------------------------------------------------------
(* Launch *)

\* A standalone call has a new file; a call of the pipeline goes on with the
\* file, in the sweep it is in or in the next one.
LaunchAlone ==
  /\ ~Bounded /\ proc.pc = "idle" /\ (state.exists => budget > 0)
  /\ budget' = IF state.exists THEN budget - 1 ELSE budget
  /\ state' = NoFile /\ proc' = [Resting("none") EXCEPT !.pc = "preflight"]
  /\ hosted' = [hosted EXCEPT !.asked = {}] /\ UNCHANGED <<github, local>>

\* The standalone loop may never be called again.
Rest == ~Bounded /\ proc.pc = "idle" /\ UNCHANGED vars

LaunchBounded ==
  /\ Bounded /\ proc.pc = "idle"
  /\ \E sweep \in {state.sweep, state.sweep + 1} \cap (1..MaxSweeps) :
       /\ sweep > state.sweep => state.terminal
       /\ IF sweep = state.sweep /\ state.terminal THEN Save(state) /\ Goto("end")
          ELSE LET s == [state EXCEPT !.exists = TRUE, !.sweep = sweep, !.terminal = FALSE]
                   unfit == s.scope \notin {0, sweep} /\ Verdict(s) = "error" IN
               /\ Save(s)
               /\ IF s.monitoring.status \in ActiveMonitoring THEN Goto("watch")
                  ELSE IF unfit THEN Exit("error")
                  ELSE IF s.task.status = "pending" THEN Goto("worker")
                  ELSE IF s.task.status \notin TerminalTasks THEN Exit("error")
                  ELSE proc' = [Resting("none") EXCEPT !.pc = "preflight"]

-----------------------------------------------------------------------------
(* wait_for_stable_review_preflight *)

Polled(snapshot) ==
  [state EXCEPT !.exists = TRUE,
     !.poll = [snapshot |-> snapshot,
               count |-> IF @.snapshot # snapshot THEN 1 ELSE IF @.count < StabilityPolls THEN @.count + 1 ELSE @.count]]

\* One poll: comments must be new, and the same StabilityPolls times; without any
\* the first look is enough.
Preflight(Again) ==
  /\ proc.pc = "preflight"
  /\ IF local # github.head THEN Raise
     ELSE LET snapshot == Snapshot
              polled == Polled(snapshot)
              read == proc' = [proc EXCEPT !.pc = "decide", !.snapshot = snapshot] IN
          CASE snapshot.comments = {} -> Save(state) /\ read
            [] snapshot.comments # {} /\ snapshot \in state.processed -> Save(state) /\ Again
            [] OTHER -> Save(polled) /\ IF polled.poll.count >= StabilityPolls THEN read ELSE Again

PreflightAlone == ~Bounded /\ Preflight(UNCHANGED proc)

PreflightBounded == Bounded /\ Preflight(Exit("waiting"))

-----------------------------------------------------------------------------
(* command_agent_task, from the preflight to its first outcome *)

\* Mutant of Spent: the first iteration of a sweep is free.
SpentFromOne(s) == [sweep |-> s.iterations - s.base - 1, run |-> s.iterations]

\* budget_spent: a sweep counts from where it began, a run from its beginning.
Spent(s) == [sweep |-> s.iterations - s.base, run |-> s.iterations]

\* absolute_iteration_cap
Remaining(s) ==
  LET sweep == MaxIterations - Spent(s).sweep
      run == MaxIterations * MaxSweeps - Spent(s).run IN
  IF Bounded /\ run < sweep THEN run ELSE sweep

\* pipeline_scope
Scoped(s) == [s EXCEPT !.scope = s.sweep, !.base = s.iterations]

\* What every pass records of the preflight.  The first pass of a sweep drops the
\* clearance and the snapshots of the sweep before.
Prepared ==
  LET s == IF Bounded /\ state.scope # state.sweep
           THEN [Scoped(state) EXCEPT !.clean = NoHead, !.blocked = FALSE, !.poll = NoFile.poll, !.processed = {}]
           ELSE state IN
  [s EXCEPT !.exists = TRUE, !.head = proc.snapshot.head, !.queue = "active"]

End(s) == Save(s) /\ Goto("end")

Unclear == [Prepared EXCEPT !.clean = NoHead]

\* What is read a second time is the same, and no comment of it is open.
NoneOpen(clean) == proc.snapshot.comments = {} /\ proc.snapshot.clean = clean

\* empty_queue_clearance_head: a second look sees the same.
Clear ==
  /\ proc.pc = "decide" /\ NoneOpen(TRUE)
  /\ IF Snapshot # proc.snapshot THEN Raise
     ELSE End([Prepared EXCEPT !.clean = proc.snapshot.head, !.last = "no_unresolved_comments", !.queue = "clean"])

\* source_only_policy_skip_head: there was never a review, or a task.
Skip ==
  /\ proc.pc = "decide" /\ SourceOnly /\ NoneOpen(FALSE)
  /\ IF Snapshot # proc.snapshot \/ proc.snapshot.review # 0 \/ Prepared.task # NoTask THEN Raise
     ELSE End([Unclear EXCEPT !.last = "source_only_review_not_applicable", !.queue = "none", !.monitoring = NoMonitoring])

Refuse ==
  /\ proc.pc = "decide" /\ SourceOnly /\ proc.snapshot.comments # {}
  /\ Save(Failed([Unclear EXCEPT !.last = "ready"])) /\ Exit("error")

Exhaust ==
  /\ proc.pc = "decide" /\ ~SourceOnly /\ ~NoneOpen(TRUE) /\ Remaining(Prepared) <= 0
  /\ End([Unclear EXCEPT !.last = "max_iterations_reached"])

Require ==
  /\ proc.pc = "decide" /\ ~SourceOnly /\ NoneOpen(FALSE) /\ Remaining(Prepared) > 0
  /\ Save([Unclear EXCEPT !.last = "review_required"]) /\ Goto("ask")

Prepare ==
  /\ proc.pc = "decide" /\ ~SourceOnly /\ proc.snapshot.comments # {} /\ Remaining(Prepared) > 0
  /\ Save([Prepared EXCEPT !.task = [status |-> "preparing", snapshot |-> proc.snapshot, commits |-> FALSE]])
  /\ Goto("dispatch")

\* The prompt is about comments that are still there.
Dispatch ==
  /\ proc.pc = "dispatch"
  /\ IF ~Unmoved(state.task.snapshot) THEN Raise
     ELSE Save([state EXCEPT !.task.status = IF Bounded THEN "pending" ELSE "running"]) /\ Goto("send")

Send ==
  /\ proc.pc = "send"
  /\ hosted' = [status |-> "running", snapshot |-> state.task.snapshot, commits |-> FALSE,
                asked |-> hosted.asked \cup {<<state.sweep, state.task.snapshot>>}]
  /\ IF Bounded THEN Exit("waiting") ELSE Goto("worker")
  /\ UNCHANGED <<github, local, state, budget>>

\* run_hosted_decision_worker: the pull request must be the one that was asked
\* about.  A bounded call observes a task that was dispatched, never again.
Worker ==
  /\ proc.pc = "worker"
  /\ IF hosted.status = "running"
     THEN Bounded /\ Exit("waiting") /\ Save(state)
     ELSE IF hosted.status # "success" \/ ~Unmoved(state.task.snapshot) THEN Raise
     ELSE Save([state EXCEPT !.task.status = "validated", !.task.commits = hosted.commits]) /\ Goto("import")

-----------------------------------------------------------------------------
(* Import and publication *)

Source == state.task.snapshot.head
Final == IF state.task.commits THEN Append(Source, 0) ELSE Source

Charged(s) == [s EXCEPT !.iterations = @ + 1, !.processed = @ \cup {s.task.snapshot}, !.clean = NoHead]

\* A head that moved on supersedes the candidate, which is spent all the same.
Import ==
  /\ proc.pc = "import"
  /\ IF github.head # Source /\ IsPrefix(Source, github.head)
     THEN End([Charged(state) EXCEPT !.task.status = "superseded", !.last = "source_changed"])
     ELSE IF ~Unmoved(state.task.snapshot) THEN Raise
     ELSE local' = Final /\ Goto("push") /\ UNCHANGED <<github, hosted, state, budget>>

\* Mutant of Push: without the lease.
PushUnleased ==
  /\ proc.pc = "push"
  /\ github' = [github EXCEPT !.head = Final, !.heads = @ \cup {Final}] /\ Goto("confirm")
  /\ UNCHANGED <<local, hosted, state, budget>>

\* The comments are read again; git push has a lease on the head of the preflight.
Push ==
  /\ proc.pc = "push"
  /\ IF github.head \notin {Source, Final} \/ ~(CommentsAt(Source) \subseteq state.task.snapshot.comments) THEN Raise
     ELSE /\ github' = [github EXCEPT !.head = Final, !.heads = @ \cup {Final}] /\ Goto("confirm")
          /\ UNCHANGED <<local, hosted, state, budget>>

Confirm ==
  /\ proc.pc = "confirm"
  /\ IF github.head # Final THEN Raise
     ELSE Save([state EXCEPT !.task.status = "published", !.head = Final]) /\ Goto("live")

\* require_live_comments with allow_resolved: nothing new is open.
Live ==
  /\ proc.pc = "live"
  /\ IF github.head # Final \/ ~(CommentsAt(Source) \subseteq state.task.snapshot.comments) THEN Raise
     ELSE /\ proc' = [proc EXCEPT !.pc = "reply",
                        !.todo = {k \in DOMAIN github.reviews : ThreadOf(k) \in state.task.snapshot.comments}]
          /\ Save(state)

\* Mutant of Reply: resolved in passing.
ReplySkipped ==
  /\ proc.pc = "reply" /\ Goto("resolve") /\ UNCHANGED <<github, local, hosted, state, budget>>

\* post_missing_replies, one thread after the other.
Reply ==
  /\ proc.pc = "reply"
  /\ LET open == {k \in proc.todo : github.reviews[k].reply # Final} IN
     IF open = {} THEN Goto("resolve") /\ UNCHANGED github
     ELSE github' = [github EXCEPT !.reviews[CHOOSE k \in open : \A j \in open : k <= j].reply = Final]
          /\ UNCHANGED proc
  /\ UNCHANGED <<local, hosted, state, budget>>

\* resolve_threads
Resolve ==
  /\ proc.pc = "resolve"
  /\ IF proc.todo = {} THEN Goto("next") /\ UNCHANGED github
     ELSE \E k \in proc.todo :
            /\ \A j \in proc.todo : k <= j
            /\ github' = [github EXCEPT !.reviews[k].open = FALSE]
            /\ proc' = [proc EXCEPT !.todo = @ \ {k}]
  /\ UNCHANGED <<local, hosted, state, budget>>

\* A lone overview that needs no change clears the head it is about, while it is
\* the latest review; otherwise the next review is asked for.
OverviewOnly ==
  ~state.task.commits /\ state.task.snapshot.comments \in {{OverviewOf(k)} : k \in DOMAIN github.reviews}

CompletedTask(s) == [Charged(s) EXCEPT !.task.status = "completed", !.queue = "published"]

NextReview ==
  /\ proc.pc = "next"
  /\ IF ~OverviewOnly THEN Goto("ask") /\ Save(state)
     ELSE IF github.head # Final \/ state.task.snapshot.comments # {OverviewOf(Latest)} THEN Raise
     ELSE End([CompletedTask(state) EXCEPT !.clean = Final, !.last = "overview_no_change"])

-----------------------------------------------------------------------------
(* request_copilot, verify_publish, command_watch *)

\* The baseline is taken, and saved, before the request.
Ask ==
  /\ proc.pc = "ask"
  /\ IF state.task.status # "published" /\ github.head # proc.snapshot.head THEN Raise
     ELSE /\ Save([state EXCEPT !.monitoring = [status |-> "requesting", head |-> local, baseline |-> Latest]])
          /\ Goto("send_request")

SendRequest ==
  /\ proc.pc = "send_request"
  /\ github' = [github EXCEPT !.requested = github.head]
  /\ Goto("save_request")
  /\ UNCHANGED <<local, hosted, state, budget>>

Watching == IF Bounded THEN Exit("waiting") ELSE Goto("watch")

SaveRequest ==
  /\ proc.pc = "save_request"
  /\ Save([state EXCEPT !.monitoring.status = "requested"])
  /\ IF state.task.status = "published" THEN Goto("verify") ELSE Watching

\* Mutant of MatchingReview: any review since the request.
MatchingAny(monitoring) == {k \in DOMAIN github.reviews : k > monitoring.baseline}

\* matching_review: of this head, and later than the baseline.
MatchingReview(monitoring) ==
  {k \in DOMAIN github.reviews : k > monitoring.baseline /\ github.reviews[k].head = monitoring.head}

Verify ==
  /\ proc.pc = "verify"
  /\ IF \/ github.head # local
        \/ \E k \in DOMAIN github.reviews :
             ThreadOf(k) \in state.task.snapshot.comments /\ (github.reviews[k].open \/ github.reviews[k].reply = NoHead)
        \/ github.requested = NoHead /\ MatchingReview(state.monitoring) = {}
     THEN Raise
     ELSE Save([CompletedTask(state) EXCEPT !.last = "review_required"]) /\ Watching

Watched(s, result) == [s EXCEPT !.monitoring.status = "completed", !.last = result]

\* One look of the watcher, or bounded_review_observation.
Watch ==
  /\ proc.pc = "watch"
  /\ LET monitoring == state.monitoring
         reviews == MatchingReview(monitoring)
         visible == github.requested # NoHead \/ reviews # {}
         first == CHOOSE k \in reviews : \A j \in reviews : k <= j
         running == [state EXCEPT !.monitoring.status = IF Bounded THEN "requested" ELSE "running"] IN
     IF monitoring.status = "requesting" /\ ~visible THEN Save(state) /\ Exit("waiting")
     ELSE IF github.head # monitoring.head THEN End(Watched(running, "head_changed"))
     ELSE IF reviews = {} THEN Save(running) /\ IF Bounded THEN Exit("waiting") ELSE UNCHANGED proc
     ELSE IF github.reviews[first].kind = "clean"
     THEN End([Watched(running, "review_no_comments") EXCEPT !.clean = monitoring.head])
     ELSE /\ Save(Watched(running, "review_comments"))
          /\ IF Bounded THEN Exit("waiting") ELSE Goto("preflight")

\* The watcher's time is up, or it is told to stop, or the request is withdrawn.
WatchEnds ==
  /\ proc.pc = "watch" /\ ~Bounded
  /\ \E result \in {"timeout", "request_cancelled"} : End(Watched(state, result))

\* require_terminal_agent_task_clearance: the last word.  An overview must still
\* be the latest review.
Finish ==
  /\ proc.pc = "end"
  /\ LET s == IF Bounded /\ state.last \in {"no_unresolved_comments", "max_iterations_reached", "overview_no_change",
                                            "source_only_review_not_applicable", "review_no_comments"}
              THEN [state EXCEPT !.terminal = TRUE] ELSE state IN
     IF \/ Verdict(s) = "error"
        \/ s.last = "overview_no_change"
             /\ (github.head # s.clean \/ CommentsAt(s.clean) \cap {OverviewOf(Latest)} = {})
     THEN Save(Failed(s)) /\ Exit("error")
     ELSE Save(s) /\ Exit(Verdict(s))

-----------------------------------------------------------------------------
(* Errors and crashes, the hosted task, the reviewer, others *)

Raised == proc.pc # "idle" /\ Raise
Crash == proc.pc # "idle" /\ Exit("error") /\ UNCHANGED <<github, local, hosted, state, budget>>

HostedEnds ==
  /\ hosted.status = "running"
  /\ \E commits \in BOOLEAN, status \in {"success", "failure"} :
       hosted' = [hosted EXCEPT !.status = status, !.commits = commits]
  /\ UNCHANGED <<github, local, state, proc, budget>>

\* The review is of the head it was asked for, or of a later one.
Reviewed ==
  /\ github.requested # NoHead /\ Len(github.reviews) < MaxReviews
  /\ \E kind \in Kinds, head \in {github.requested, github.head} :
       github' = [github EXCEPT !.requested = NoHead,
                    !.reviews = Append(@, [head |-> head, kind |-> kind, open |-> kind = "thread", reply |-> NoHead,
                                           asked |-> TRUE])]
  /\ UNCHANGED <<local, hosted, state, proc, budget>>

\* The checkout is brought to the head between two calls.
Align == proc.pc = "idle" /\ local # github.head /\ local' = github.head /\ UNCHANGED <<github, hosted, state, proc, budget>>

OthersMove ==
  /\ budget > 0 /\ budget' = budget - 1
  /\ \/ \E head \in {Append(github.head, budget), <<1 + budget>>} :
          github' = [github EXCEPT !.head = head, !.heads = @ \cup {head}]
     \/ \E k \in DOMAIN github.reviews :
          github.reviews[k].kind = "thread" /\ github' = [github EXCEPT !.reviews[k].open = ~@]
  /\ UNCHANGED <<local, hosted, state, proc>>

Next ==
  \/ LaunchAlone \/ LaunchBounded \/ PreflightAlone \/ PreflightBounded \/ Clear \/ Skip
  \/ Refuse \/ Exhaust \/ Require \/ Prepare \/ Dispatch \/ Send \/ Worker \/ Import \/ Push \/ Confirm
  \/ Live \/ Reply \/ Resolve \/ NextReview \/ Ask \/ SendRequest \/ SaveRequest \/ Verify \/ Watch \/ WatchEnds \/ Finish
  \/ Rest \/ Raised \/ Crash \/ HostedEnds \/ Reviewed \/ Align \/ OthersMove

Spec == Init /\ [][Next]_vars

-----------------------------------------------------------------------------
(* Properties *)

\* The process ends cleared only at a head that a review found clean, or whose
\* latest review is an overview that a task found needs no change; and with
\* nothing of its own under way.
ClearedByReview ==
  proc'.exit = "cleared" /\ proc.exit # "cleared" =>
    /\ state.task.status \in TerminalTasks /\ state.monitoring.status \notin ActiveMonitoring
    /\ \E k \in DOMAIN github.reviews :
         /\ github.reviews[k].head = state.clean
         /\ github.reviews[k].kind = "clean" \/ (github.reviews[k].kind = "overview" /\ k = Latest)

\* A file whose last word is an error holds no clearance.
ErrorsUnclear == state.last = "coordinator_error" => state.clean = NoHead

\* The iterations of a sweep and of the run are bounded, failed ones included.
BudgetHolds == state.iterations - state.base <= MaxIterations /\ state.iterations <= MaxIterations * MaxSweeps

\* In a pipeline no task is dispatched while another may run, and none twice for
\* one snapshot in a sweep.
Dispatches == hosted'.asked # hosted.asked \/ (hosted'.status = "running" /\ hosted.status # "running")
Alone == Bounded /\ Dispatches => hosted.status # "running"
OncePerSnapshot == Bounded /\ Dispatches => <<state.sweep, state.task.snapshot>> \notin hosted.asked

\* Our push only extends the branch.
Extends ==
  github'.head # github.head /\ budget' = budget => IsPrefix(github.head, github'.head)

\* A thread that we resolved has our reply, and the head that the reply names was
\* published.
RepliesArePublished == \A k \in DOMAIN github.reviews : github.reviews[k].reply \in github.heads \cup {NoHead}
ResolvedAfterReply ==
  \A k \in DOMAIN github.reviews :
    proc.pc = "resolve" /\ github.reviews[k].open /\ k \in DOMAIN github'.reviews /\ ~github'.reviews[k].open
      /\ budget' = budget => github.reviews[k].reply = Final
=============================================================================
