----------------------------- MODULE PrPipeline -----------------------------
(***************************************************************************)
(* pr_pipeline.py: up to two sweeps over the stages of one pull request.   *)
(* The synchronous route ("run") is one process.  The bounded route is one *)
(* "start" and then many "advance" calls, each a process of its own that   *)
(* takes the step lock, continues from the cursor in the run state file,   *)
(* does one stage's worth of work and leaves.  Others may push to the      *)
(* branch, move its base, change its checks or close it between any two    *)
(* reads, and a call may fail or die anywhere.                             *)
(***************************************************************************)
EXTENDS Integers, FiniteSets

CONSTANTS Callers,    \* processes that may run the helper
          Bounded,    \* TRUE: start and advance; FALSE: one synchronous run
          NumStages,  \* STAGES, by position
          Conflict,   \* the position of pr-conflict-resolver
          Ci,         \* the position of ci-fix-loop
          Watched,    \* stages whose status is checked against live data
          Installed,  \* stages whose plugin is installed
          Native,     \* TRUE: the conflict clearance is that of a native stack
          Heads,      \* commits the branch or the worktree may be at
          Older,      \* pairs <<a, b>>: a is a proper ancestor of b
          Bases,      \* commits of the base branch
          Checks,     \* states of the data the watched stages look at
          MaxMoves,   \* bound: changes others make to the pull request
          MaxWaits    \* bound: times a stage answers that its task still runs

MaxSweeps == 2

ASSUME PrPipelineAssumption ==
  /\ Bounded \in BOOLEAN /\ Native \in BOOLEAN
  /\ NumStages \in Nat \ {0}
  /\ Conflict \in 1..NumStages /\ Ci \in 1..NumStages /\ Conflict # Ci
  /\ Watched \subseteq 1..NumStages /\ Ci \in Watched
  /\ Installed \subseteq 1..NumStages
  /\ Older \subseteq Heads \X Heads
  /\ Bases # {} /\ Checks # {} /\ "none" \notin Heads
  /\ MaxMoves \in Nat /\ MaxWaits \in Nat

VARIABLES pr,        \* the pull request on GitHub
          tree,      \* the worktree: its tip, its dirt, its recovery refs
          stage,     \* what each stage's own state file records
          file,      \* the run state file of the bounded route
          lock,      \* step.lock exists
          prior,     \* what the Runtime says of the file's previous_execution
          caller,    \* the memory of every process
          launched,  \* history: the <<sweep, stage>> started
          running,   \* history: the <<sweep, stage>> under way
          verdict,   \* the result the run reported
          left       \* the bounds that are left

vars == <<pr, tree, stage, file, lock, prior, caller, launched, running, verdict, left>>

Sweeps == INSTANCE PipelineSweeps WITH verdict <- verdict.result
Nothing == Sweeps!Nothing
Nobody == "nobody"
NoHead == "none"

Outcomes == {"none", "cleared", "uncleared", "completed", "stuck"}
StageRecord == [outcome : Outcomes, head : Heads \cup {NoHead}, base : Bases,
                checks : Checks, attempt : Nat]

NoPending == [phase |-> "none", started |-> NoHead, attempt |-> 0]
Pending == [phase : {"none", "executing", "waiting"}, started : Heads \cup {NoHead}, attempt : Nat]

Cursor == [sweep : 1..MaxSweeps, index : 1..(NumStages + 1), initialized : BOOLEAN,
           startHead : Heads \cup {NoHead}, startBase : Bases,
           headChanged : BOOLEAN, baseChanged : BOOLEAN,
           known : Heads \cup {NoHead}, resolved : BOOLEAN, pending : Pending,
           heads : SUBSET Heads, bases : SUBSET Bases] \* history: what the sweep has read

\* run_pipeline with no cursor.
NewCursor(b) == [sweep |-> 1, index |-> 1, initialized |-> FALSE, startHead |-> NoHead,
                 startBase |-> b, headChanged |-> FALSE, baseChanged |-> FALSE,
                 known |-> NoHead, resolved |-> FALSE, pending |-> NoPending,
                 heads |-> {}, bases |-> {}]

InPipeline == {"sweep", "sweep_sync", "stage", "stage_sync", "inspect", "launch", "running",
               "settle", "after", "final", "final_sync", "judge"}
Working == InPipeline \cup {"load", "unlock", "seal"}
SomeBase == CHOOSE b \in Bases : TRUE
Fresh == [pc |-> "idle", at |-> NewCursor(SomeBase), base |-> SomeBase, ok |-> TRUE, more |-> FALSE]
Memory == [pc : Working \cup {"idle", "dead"}, at : Cursor, base : Bases,
           ok : BOOLEAN, more : BOOLEAN]

\* Every variable has its type.
TypeOK ==
  /\ pr \in [open : BOOLEAN, head : Heads, base : Bases, checks : Checks]
  /\ tree \in [local : Heads, dirty : BOOLEAN, kept : SUBSET Heads]
  /\ stage \in [1..NumStages -> StageRecord]
  /\ file \in [status : {"none", "active", "waiting", "blocked", "complete"}, cursor : Cursor]
  /\ lock \in BOOLEAN
  /\ prior \in [who : Callers \cup {Nobody}, says : {"open", "good", "bad"}]
  /\ caller \in [Callers -> Memory]
  /\ launched \subseteq Sweeps!Visits
  /\ running \in Sweeps!Visits \cup {Nothing}
  /\ verdict \in [result : Sweeps!Verdicts \cup {"none"}, why : {"none", "two_sweeps_finished", "stages_not_clear"},
                  head : Heads \cup {NoHead}, base : Bases]
  /\ left \in [moves : 0..MaxMoves, waits : 0..MaxWaits]

Init ==
  /\ pr \in [open : {TRUE}, head : Heads, base : {SomeBase}, checks : {CHOOSE k \in Checks : TRUE}]
  /\ tree \in [local : Heads, dirty : BOOLEAN, kept : {{}}]
  /\ stage = [s \in 1..NumStages |-> [outcome |-> "none", head |-> NoHead, base |-> SomeBase,
                                      checks |-> pr.checks, attempt |-> 0]]
  /\ file = [status |-> "none", cursor |-> NewCursor(SomeBase)]
  /\ lock = FALSE
  /\ prior = [who |-> Nobody, says |-> "bad"]
  /\ caller = [c \in Callers |-> Fresh]
  /\ launched = {} /\ running = Nothing
  /\ verdict = [result |-> "none", why |-> "none", head |-> NoHead, base |-> SomeBase]
  /\ left = [moves |-> MaxMoves, waits |-> MaxWaits]

Become(c, memory) == caller' = [caller EXCEPT ![c] = memory]
Goto(c, pc) == Become(c, [caller[c] EXCEPT !.pc = pc])

IsAncestor(a, b) == a = b \/ <<a, b>> \in Older

-----------------------------------------------------------------------------
(* What a stage's status says. *)

\* Mutant: the marker's head is not compared.
ClearAtAnyHead(s, head, base) ==
  /\ stage[s].outcome = "cleared"
  /\ s = Conflict /\ Native => stage[s].base = base
  /\ s \in Watched => stage[s].checks = pr.checks

\* inspect_stage: clear at exactly this head (and, for a native stack, this
\* base), by an outcome that clears, still confirmed by the live data.
Clear(s, head, base) ==
  /\ stage[s].outcome = "cleared"
  /\ stage[s].head = head
  /\ s = Conflict /\ Native => stage[s].base = base
  /\ s \in Watched => stage[s].checks = pr.checks

\* stage_blocker: unreadable, active, abandoned, or no state after a launch.
Blocks(s, afterLaunch) ==
  \/ stage[s].outcome = "stuck"
  \/ afterLaunch /\ stage[s].outcome = "none"

\* requires_ci_revalidation_sweep: CI alone is not clear, and only because
\* its checks are no longer those it was cleared on.
OnlyCiIsStale(head, base) ==
  /\ {s \in 1..NumStages : ~Clear(s, head, base)} = {Ci}
  /\ Ci \in Installed
  /\ stage[Ci].outcome = "cleared" /\ stage[Ci].head = head
  /\ stage[Ci].checks # pr.checks

-----------------------------------------------------------------------------
(* How a call records its progress and how it ends. *)

\* save_cursor: the checkpoint of the bounded route.
SaveCursor(c, status, cursor) ==
  IF Bounded
  THEN /\ file' = [status |-> status, cursor |-> cursor]
       /\ prior' = [who |-> c, says |-> "open"]
  ELSE UNCHANGED <<file, prior>>

\* The call is over; the bounded one still has to drop its lock.
Leaving(ok, more) == [Fresh EXCEPT !.pc = IF Bounded THEN "unlock" ELSE "idle", !.ok = ok, !.more = more]

\* run_pipeline returned its result, and the caller records it.
Conclude(c, result, why, head) ==
  /\ verdict' = [result |-> result, why |-> why, head |-> head,
                 base |-> IF head = NoHead THEN SomeBase ELSE caller[c].base]
  /\ running' = Nothing
  /\ file' = IF Bounded THEN [file EXCEPT !.status = IF result = "complete" THEN "complete" ELSE "blocked"]
             ELSE file
  /\ Become(c, Leaving(result # "error", FALSE))
  /\ UNCHANGED <<pr, tree, stage, lock, prior, launched, left>>

Block(c) == Conclude(c, "blocked", "none", NoHead)

\* more_work: the bounded call has done its share.
Suspend(c, status, cursor) ==
  /\ SaveCursor(c, status, cursor)
  /\ Become(c, Leaving(TRUE, TRUE))

\* Whatever this stage came to, go on with the next one.
NextStage(c, at) ==
  LET done == [at EXCEPT !.index = @ + 1, !.pending = NoPending] IN
  /\ running' = Nothing
  /\ IF Bounded
     THEN Suspend(c, "active", done)
     ELSE /\ Become(c, [caller[c] EXCEPT !.at = done, !.pc = IF done.index > NumStages THEN "final" ELSE "stage"])
          /\ UNCHANGED <<file, prior>>
  /\ UNCHANGED <<pr, tree, stage, lock, launched, verdict, left>>

-----------------------------------------------------------------------------
(* The calls. *)

\* command_run.
Run(c) ==
  /\ ~Bounded
  /\ caller[c].pc = "idle" /\ verdict.result = "none"
  /\ Become(c, [Fresh EXCEPT !.pc = "sweep"])
  /\ UNCHANGED <<pr, tree, stage, file, lock, prior, launched, running, verdict, left>>

\* command_start.
Start(c) ==
  /\ Bounded
  /\ caller[c].pc = "idle" /\ file.status = "none"
  /\ SaveCursor(c, "active", NewCursor(SomeBase))
  /\ Become(c, [Fresh EXCEPT !.pc = "seal", !.more = TRUE])
  /\ UNCHANGED <<pr, tree, stage, lock, launched, running, verdict, left>>

\* Mutant: the lock file is not created exclusively.
TakeLockAnyway(c) ==
  /\ Bounded
  /\ caller[c].pc = "idle" /\ file.status # "none"
  /\ lock' = TRUE
  /\ Goto(c, "load")
  /\ UNCHANGED <<pr, tree, stage, file, prior, launched, running, verdict, left>>

\* command_advance takes the step lock; a call that finds it taken is refused
\* and changes nothing.
TakeLock(c) ==
  /\ Bounded
  /\ caller[c].pc = "idle" /\ file.status # "none"
  /\ ~lock
  /\ lock' = TRUE
  /\ Goto(c, "load")
  /\ UNCHANGED <<pr, tree, stage, file, prior, launched, running, verdict, left>>

\* require_finished_step: the Runtime sealed the previous call as finished,
\* with more work to do.
FinishedStep == prior.says = "good"

\* It loads the state file, and refuses a run that is over, a run whose
\* previous call did not finish and one caught in the middle of a stage.
Load(c) ==
  LET m == caller[c] IN
  /\ m.pc = "load"
  /\ IF file.status \in {"active", "waiting"} /\ ~FinishedStep
     THEN /\ file' = [file EXCEPT !.status = "blocked"]
          /\ verdict' = IF verdict.result = "none" THEN [verdict EXCEPT !.result = "error"] ELSE verdict
          /\ running' = Nothing
     ELSE UNCHANGED <<file, verdict, running>>
  /\ IF file.status \in {"active", "waiting"} /\ FinishedStep /\ file.cursor.pending.phase # "executing"
     THEN Become(c, [m EXCEPT !.pc = "sweep", !.at = file.cursor])
     ELSE Become(c, Leaving(FALSE, FALSE))
  /\ UNCHANGED <<pr, tree, stage, lock, prior, launched, left>>

\* Mutant: the lock file is not removed.
UnlockNothing(c) ==
  /\ caller[c].pc = "unlock"
  /\ UNCHANGED lock
  /\ Goto(c, "seal")
  /\ UNCHANGED <<pr, tree, stage, file, prior, launched, running, verdict, left>>

\* The finally clause.
Unlock(c) ==
  /\ caller[c].pc = "unlock"
  /\ lock' = FALSE
  /\ Goto(c, "seal")
  /\ UNCHANGED <<pr, tree, stage, file, prior, launched, running, verdict, left>>

\* The call's execution is sealed (Execution), and with it what the Runtime
\* will answer when the file names it as the previous one.
Seal(c) ==
  LET m == caller[c] IN
  /\ m.pc = "seal"
  /\ prior' = IF prior.who = c /\ prior.says = "open"
              THEN [prior EXCEPT !.says = IF m.ok /\ m.more THEN "good" ELSE "bad"]
              ELSE prior
  /\ Become(c, Fresh)
  /\ UNCHANGED <<pr, tree, stage, file, lock, launched, running, verdict, left>>

\* Anything run_pipeline calls may raise, a local cancellation included.  The
\* bounded call then records the run as blocked, if it still can write; if it
\* cannot, the run is as its last checkpoint left it.
Fails(c) ==
  /\ caller[c].pc \in InPipeline
  /\ \/ /\ verdict' = [verdict EXCEPT !.result = "error"]
        /\ running' = Nothing
        /\ file' = IF Bounded THEN [file EXCEPT !.status = "blocked"] ELSE file
     \/ Bounded /\ UNCHANGED <<verdict, running, file>>
  /\ Become(c, Leaving(FALSE, FALSE))
  /\ UNCHANGED <<pr, tree, stage, lock, prior, launched, left>>

\* The process dies: no finally clause, and its execution never finished.
Crash(c) ==
  /\ caller[c].pc \in Working
  /\ Become(c, [Fresh EXCEPT !.pc = "dead"])
  /\ prior' = IF prior.who = c /\ prior.says = "open" THEN [prior EXCEPT !.says = "bad"] ELSE prior
  /\ UNCHANGED <<pr, tree, stage, file, lock, launched, running, verdict, left>>

-----------------------------------------------------------------------------
(* run_pipeline: reading the pull request and bringing the worktree to it. *)

SyncOf(pc) == CASE pc = "sweep" -> "sweep_sync" [] pc = "stage" -> "stage_sync" [] pc = "final" -> "final_sync"

\* read_pull_request; only the end of a sweep does not mind a closed one.
Read(c) ==
  LET m == caller[c] IN
  /\ m.pc \in {"sweep", "stage", "final"}
  /\ IF ~pr.open /\ m.pc # "final"
     THEN Block(c)
     ELSE /\ Become(c, [m EXCEPT !.pc = SyncOf(m.pc), !.base = pr.base])
          /\ UNCHANGED <<pr, tree, stage, file, lock, prior, launched, running, verdict, left>>

\* Mutant: no recovery ref.
CheckoutBare(to) ==
  tree' = [tree EXCEPT !.local = to,
                       !.kept = @]

\* retain_checkout_head and checkout_fetched_head: a tip that the new one does
\* not contain gets a recovery ref before the worktree leaves it.
Checkout(to) ==
  tree' = [tree EXCEPT !.local = to,
                       !.kept = IF IsAncestor(tree.local, to) THEN @ ELSE @ \cup {tree.local}]

\* Mutant: a continued sweep does not compare the head with the cursor's.
EnterSweepForgets(c, head) ==
  LET m == caller[c]
      at == m.at
      fresh == [at EXCEPT !.initialized = TRUE, !.startHead = head, !.startBase = m.base,
                          !.headChanged = FALSE, !.baseChanged = FALSE, !.known = head,
                          !.heads = {head}, !.bases = {m.base}]
      same == [at EXCEPT !.headChanged = @, !.known = head, !.heads = @ \cup {head}]
  IN IF at.initialized
     THEN Become(c, [m EXCEPT !.at = same, !.pc = IF at.index > NumStages THEN "final" ELSE "stage"])
     ELSE Become(c, [m EXCEPT !.at = fresh, !.pc = "stage"])

\* A sweep starts afresh, or goes on where the cursor left it.
EnterSweep(c, head) ==
  LET m == caller[c]
      at == m.at
      fresh == [at EXCEPT !.initialized = TRUE, !.startHead = head, !.startBase = m.base,
                          !.headChanged = FALSE, !.baseChanged = FALSE, !.known = head,
                          !.heads = {head}, !.bases = {m.base}]
      same == [at EXCEPT !.headChanged = @ \/ head # at.known, !.known = head, !.heads = @ \cup {head}]
  IN IF at.initialized
     THEN Become(c, [m EXCEPT !.at = same, !.pc = IF at.index > NumStages THEN "final" ELSE "stage"])
     ELSE Become(c, [m EXCEPT !.at = fresh, !.pc = "stage"])

\* Before each stage the head is compared with the last one known, at the end
\* of a sweep with the one the sweep started from.
NoteMoves(c, head, against, pc) ==
  LET m == caller[c] IN
  Become(c, [m EXCEPT !.pc = pc,
                      !.at.headChanged = @ \/ head # against,
                      !.at.baseChanged = @ \/ m.base # m.at.startBase,
                      !.at.known = head,
                      !.at.heads = @ \cup {head}, !.at.bases = @ \cup {m.base}])

\* sync_worktree: never over uncommitted changes.
Sync(c) ==
  LET m == caller[c] IN
  /\ m.pc \in {"sweep_sync", "stage_sync", "final_sync"}
  /\ IF tree.dirty
     THEN Block(c)
     ELSE /\ Checkout(pr.head)
          /\ CASE m.pc = "sweep_sync" -> EnterSweep(c, pr.head)
               [] m.pc = "stage_sync" -> NoteMoves(c, pr.head, m.at.known, "inspect")
               [] m.pc = "final_sync" -> NoteMoves(c, pr.head, m.at.startHead, "judge")
          /\ UNCHANGED <<pr, stage, file, lock, prior, launched, running, verdict, left>>

-----------------------------------------------------------------------------
(* run_pipeline: one stage. *)

\* The stage is passed over, stops the run, or is about to start: the bounded
\* route first records that it is executing.
Inspect(c) ==
  LET m == caller[c]
      at == m.at
      s == at.index
      resuming == Bounded /\ at.pending.phase = "waiting"
      pending == IF resuming THEN [at.pending EXCEPT !.phase = "executing"]
                 ELSE [phase |-> "executing", started |-> at.known, attempt |-> stage[s].attempt]
      passed == \/ Clear(s, at.known, m.base)
                \/ s = Conflict /\ at.resolved
  IN
  /\ m.pc = "inspect"
  /\ CASE ~resuming /\ ~Clear(s, at.known, m.base) /\ Blocks(s, FALSE) -> Block(c)
       [] (~resuming /\ passed) \/ s \notin Installed -> NextStage(c, at)
       [] OTHER -> /\ SaveCursor(c, "active", [at EXCEPT !.pending = pending])
                   /\ Become(c, [m EXCEPT !.at.pending = pending, !.pc = "launch"])
                   /\ UNCHANGED <<pr, tree, stage, lock, launched, running, verdict, left>>

\* run_stage: the stage's own process starts.
Launch(c) ==
  LET v == <<caller[c].at.sweep, caller[c].at.index>> IN
  /\ caller[c].pc = "launch"
  /\ launched' = launched \cup {v}
  /\ running' = v
  /\ Goto(c, "running")
  /\ UNCHANGED <<pr, tree, stage, file, lock, prior, verdict, left>>

StageOf(c) == caller[c].at.index
Record(s, outcome, attempt) ==
  stage' = [stage EXCEPT ![s] = [outcome |-> outcome, head |-> pr'.head, base |-> pr.base,
                                 checks |-> pr.checks, attempt |-> attempt]]

\* The stage does its work: it may publish a new head, and leaves the worktree
\* there or where it was.  The conflict stage may complete an attempt that
\* the pull request is not yet clear by.
StageWorks(c) ==
  LET s == StageOf(c) IN
  /\ caller[c].pc = "running"
  /\ \E h \in Heads, local \in {"stays", "follows"}, outcome \in {"cleared", "uncleared", "completed"} :
       /\ outcome = "completed" => s = Conflict
       /\ pr' = [pr EXCEPT !.head = h]
       /\ tree' = IF local = "follows" THEN [tree EXCEPT !.local = h] ELSE tree
       /\ Record(s, outcome, IF outcome = "completed" THEN stage[s].attempt + 1 ELSE stage[s].attempt)
  /\ Goto(c, "settle")
  /\ UNCHANGED <<file, lock, prior, launched, running, verdict, left>>

\* It ends badly: with an exit code, a state that blocks, nothing recorded,
\* uncommitted changes, or commits of its own it did not publish.
StageStumbles(c) ==
  LET s == StageOf(c) IN
  /\ caller[c].pc = "running"
  /\ UNCHANGED pr
  /\ \/ /\ Become(c, [caller[c] EXCEPT !.pc = "settle", !.ok = FALSE])
        /\ \/ Record(s, "cleared", stage[s].attempt)
           \/ Record(s, "uncleared", stage[s].attempt)
        /\ UNCHANGED tree
     \/ /\ Goto(c, "settle")
        /\ \/ Record(s, "stuck", stage[s].attempt) \/ UNCHANGED stage
        /\ UNCHANGED tree
     \/ /\ Goto(c, "settle")
        /\ tree' = [tree EXCEPT !.dirty = TRUE]
        /\ UNCHANGED stage
     \/ /\ Goto(c, "settle")
        /\ \E h \in Heads : tree' = [tree EXCEPT !.local = h]
        /\ Record(s, "cleared", stage[s].attempt)
  /\ UNCHANGED <<file, lock, prior, launched, running, verdict, left>>

\* A bounded stage answers that its hosted task still runs; it may have
\* published something already.
StageWaits(c) ==
  LET waiting == [caller[c].at EXCEPT !.pending.phase = "waiting"] IN
  /\ Bounded
  /\ caller[c].pc = "running" /\ left.waits > 0
  /\ left' = [left EXCEPT !.waits = @ - 1]
  /\ \E h \in Heads : pr' = [pr EXCEPT !.head = h] /\ tree' = [tree EXCEPT !.local = h]
  /\ Suspend(c, "waiting", waiting)
  /\ UNCHANGED <<stage, lock, launched, running, verdict>>

\* settle_after_stage.
Settle(c) ==
  LET m == caller[c]
      started == m.at.pending.started
      published == IsAncestor(tree.local, pr.head)
  IN
  /\ m.pc = "settle"
  /\ IF tree.dirty \/ (tree.local # started /\ ~published)
     THEN Block(c)
     ELSE /\ Checkout(pr.head)
          /\ Become(c, [m EXCEPT !.pc = "after", !.at.known = pr.head,
                                 !.at.headChanged = @ \/ pr.head # started,
                                 !.at.heads = @ \cup {pr.head}])
          /\ UNCHANGED <<pr, stage, file, lock, prior, launched, running, verdict, left>>

\* Mutant: the completed conflict attempt is not noted.
AfterStageForgets(c) ==
  LET m == caller[c]
      s == m.at.index
      resolved == IF s = Conflict /\ stage[s].outcome = "completed"
                  THEN stage[s].attempt # m.at.pending.attempt
                  ELSE m.at.resolved
  IN
  /\ m.pc = "after"
  /\ IF ~m.ok \/ Blocks(s, TRUE)
     THEN Block(c)
     ELSE NextStage(c, m.at)

\* The stage is inspected again: a failed process or a blocking state stops
\* the run whatever the marker says, any other state does not.
AfterStage(c) ==
  LET m == caller[c]
      s == m.at.index
      resolved == IF s = Conflict /\ stage[s].outcome = "completed"
                  THEN stage[s].attempt # m.at.pending.attempt
                  ELSE m.at.resolved
  IN
  /\ m.pc = "after"
  /\ IF ~m.ok \/ Blocks(s, TRUE)
     THEN Block(c)
     ELSE NextStage(c, [m.at EXCEPT !.resolved = resolved])

-----------------------------------------------------------------------------
(* run_pipeline: the end of a sweep. *)

\* Mutant: no limit to the sweeps.
JudgeWithoutEnd(c) ==
  LET m == caller[c]
      at == m.at
      again == [at EXCEPT !.sweep = @ + 1, !.index = 1, !.initialized = FALSE, !.startHead = at.known,
                          !.startBase = m.base, !.headChanged = FALSE, !.baseChanged = FALSE, !.heads = {}, !.bases = {}]
  IN
  /\ m.pc = "judge"
  /\ CASE \A s \in 1..NumStages : Clear(s, at.known, m.base) -> Conclude(c, "complete", "none", at.known)
       [] OTHER ->
          CASE ~at.headChanged /\ ~at.baseChanged /\ ~OnlyCiIsStale(at.known, m.base)
                 -> Conclude(c, "incomplete", "stages_not_clear", NoHead)
            [] OTHER -> /\ IF Bounded
                           THEN Suspend(c, "active", again)
                           ELSE Become(c, [m EXCEPT !.at = again, !.pc = "sweep"]) /\ UNCHANGED <<file, prior>>
                        /\ UNCHANGED <<pr, tree, stage, lock, launched, running, verdict, left>>

Judge(c) ==
  LET m == caller[c]
      at == m.at
      again == [at EXCEPT !.sweep = @ + 1, !.index = 1, !.initialized = FALSE, !.startHead = at.known,
                          !.startBase = m.base, !.headChanged = FALSE, !.baseChanged = FALSE, !.heads = {}, !.bases = {}]
  IN
  /\ m.pc = "judge"
  /\ CASE \A s \in 1..NumStages : Clear(s, at.known, m.base) -> Conclude(c, "complete", "none", at.known)
       [] OTHER ->
          CASE at.sweep = MaxSweeps -> Conclude(c, "incomplete", "two_sweeps_finished", NoHead)
            [] ~at.headChanged /\ ~at.baseChanged /\ ~OnlyCiIsStale(at.known, m.base)
                 -> Conclude(c, "incomplete", "stages_not_clear", NoHead)
            [] OTHER -> /\ IF Bounded
                           THEN Suspend(c, "active", again)
                           ELSE Become(c, [m EXCEPT !.at = again, !.pc = "sweep"]) /\ UNCHANGED <<file, prior>>
                        /\ UNCHANGED <<pr, tree, stage, lock, launched, running, verdict, left>>

-----------------------------------------------------------------------------
(* Others: a push, a rewrite of the branch, a new base, other checks, a close. *)
Moves ==
  /\ left.moves > 0 /\ verdict.result = "none"
  /\ left' = [left EXCEPT !.moves = @ - 1]
  /\ \/ \E h \in Heads \ {pr.head} : pr' = [pr EXCEPT !.head = h]
     \/ \E b \in Bases \ {pr.base} : pr' = [pr EXCEPT !.base = b]
     \/ \E k \in Checks \ {pr.checks} : pr' = [pr EXCEPT !.checks = k]
     \/ pr.open /\ pr' = [pr EXCEPT !.open = FALSE]
  /\ UNCHANGED <<tree, stage, file, lock, prior, caller, launched, running, verdict>>

-----------------------------------------------------------------------------
\* What a call does by itself, once it was made.
Step(c) ==
  \/ Load(c) \/ Unlock(c) \/ Seal(c) \/ Read(c) \/ Sync(c) \/ Inspect(c) \/ Launch(c)
  \/ StageWorks(c) \/ StageStumbles(c) \/ StageWaits(c) \/ Settle(c) \/ AfterStage(c) \/ Judge(c)

Next ==
  \/ \E c \in Callers : Run(c) \/ Start(c) \/ TakeLock(c) \/ Step(c) \/ Fails(c) \/ Crash(c)
  \/ Moves

Spec == Init /\ [][Next]_vars

\* A call that runs goes on, and the agent that was told to go on calls again.
FairSpec ==
  /\ Spec
  /\ \A c \in Callers : WF_vars(Step(c)) /\ WF_vars(Start(c)) /\ WF_vars(Run(c))
                          /\ WF_vars(TakeLock(c) /\ prior.says = "good")

-----------------------------------------------------------------------------
(* Properties. *)

\* Both routes keep the promise of PipelineSweeps: stages start one at a time,
\* in order, once in a sweep, and never after the verdict.  It is what the
\* step lock, the cursor saved before a launch and require_finished_step are
\* for.
StagesRunInTurn == Sweeps!Spec

\* A run ends as "complete" only when every stage is cleared at one head, and
\* the worktree is clean and at that head (run_pipeline's last inspect_all).
CompleteIsClear ==
  verdict.result = "complete" =>
    /\ tree.local = verdict.head /\ ~tree.dirty
    /\ \A s \in 1..NumStages :
         /\ stage[s].outcome = "cleared" /\ stage[s].head = verdict.head
         /\ s = Conflict /\ Native => stage[s].base = verdict.base

\* README: "a second sweep starts when the head or base changed during the
\* first sweep", and on unchanged revisions only for CI.  A change seen by an
\* earlier call of the run is not forgotten by a later one.
SweepsAgain(c) == caller'[c].more \/ caller'[c].pc = "sweep"
Changed(at) == Cardinality(at.heads) > 1 \/ Cardinality(at.bases) > 1
SecondSweepIffChanged ==
  [][\A c \in Callers : caller[c].pc = "judge" =>
       /\ verdict'.why = "stages_not_clear" => ~Changed(caller[c].at)
       /\ SweepsAgain(c) => Changed(caller[c].at) \/ OnlyCiIsStale(caller[c].at.known, caller[c].base)]_vars

\* The worktree never moves off a tip that neither the new tip contains nor a
\* recovery ref keeps (sync_worktree, settle_after_stage).
NoTipLost ==
  [][tree'.local # tree.local /\ (\A c \in Callers : caller[c].pc # "running")
       => IsAncestor(tree.local, tree'.local) \/ tree.local \in tree'.kept]_vars

\* The conflict stage completes at most one attempt in a run, over both sweeps
\* and every call (completed_conflict_resolution).
ConflictCompletesOnce == stage[Conflict].attempt <= 1

\* A driven run ends: it gets its verdict, or the step that failed or died is
\* one the agent stops at.  Only a step that fails for ever before its first
\* checkpoint, and can never record it, could keep the agent calling.
StopsFailing == <>[][\A c \in Callers : ~Fails(c)]_vars
Stopped == \/ verdict.result # "none"
           \/ \E c \in Callers : caller[c].pc = "dead"
           \/ prior.who # Nobody /\ prior.says = "bad"
RunEnds == StopsFailing => <>Stopped
=============================================================================
