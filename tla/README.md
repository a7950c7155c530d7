# A verification project for the Copilot plugins

This directory holds TLA+ specifications of the controllers in this repository, the TLC runs that
check them on small instances, and theorems about them checked by TLAPS. Every definition is
translated from the Python source; `PROJECT.json` maps each one to the lines it stands for.

## 1. The system

The repository is a marketplace of Copilot plugins. A custom agent launches one helper (a Python
controller) per invocation. Helpers own local processes (git, gh, other helpers), create hosted
agent tasks over the GitHub API, and publish results to a pull request: commits, replies, titles.

| Component | Files | State it keeps | Operations | Interacts with |
|---|---|---|---|---|
| Execution runtime | `agent-tasks-runtime/.../execution.py` | handle, launch receipts, results, cancel request, dispatch observations, one lock per root | start, run, poll/wait/terminate, finish, cancel, status | every helper runs under it |
| Hosted task coordinator | `agent-tasks-runtime/.../cloud_task.py` | pipeline checkpoint, result file | dispatch, monitor, observe, collect | API, git, runtime |
| PR pipeline | `pr_pipeline.py`, `pipeline_common.py` | run state, stage cursor, step lock | run, start, advance | stage helpers, git, API |
| PR stack pipeline | `pr_stack_pipeline.py` | phases, workers, receipts | run over a stack, waves, CI phase, finish | stage helpers, worktrees |
| CI fix loop | `ci_fix_loop.py`, `ci_fix_loop_permission.py` | per-PR and stack state, budgets | inspect, rerun, agent-task, publish, propagate, stack-* | coordinator, git, API |
| Copilot review loop | `copilot_review_loop.py`, `actions_review_loop.py` | iteration state, review identity, receipts | request, watch, agent-task, reply | coordinator, API |
| Self review loop | `self_review_loop.py` | passes, accepted results, clearance | agent-task, status | coordinator, git |
| PR description | `pr_description.py` | snapshot, proposal, clearance | agent-task, apply, status | coordinator, API |
| Conflict resolver | `pr_conflict_resolver.py`, `cloud_conflict_task.py` | replay state, publication receipts | agent-task, bounded-pipeline, publish | own hosted backend, git |
| Historical audit | `historical_pr_audit.py` | audit branch, invocation file | agent-task, status, cleanup | coordinator, git |
| PR reviewer | `pr_reviewer.py` | run state, mutation guard | run (check, post) | coordinator, API |
| Package tools | `tools/*.py` | none | consistency checks | file tree |

What is hard in it: processes that die or are cancelled between two writes; a tree of controllers
of which an inner one dies; a POST whose answer is lost; pull requests that move while a stage
works; steps that are called again after a crash; budgets that survive restarts; two controls at
once; pushes that race other writers. The list of hazards, each at its line and with the
properties that cover it, is in `PROJECT.json`.

## 2. Modules

| Module | Models | Kind |
|---|---|---|
| `ForegroundRun` | what one execution promises to its session | abstract specification |
| `Execution` | the runtime: a tree of controllers and commands, launch, drainage, sealing, cancellation, crashes, hosted-task observations | detailed, implements `ForegroundRun` |
| `ExecutionControls` | `execution-status` reading beside a run | composes with `Execution` |
| `ExecutionProofs` | theorems about `Execution` and `ExecutionControls`: types, cancellation, what a sealed result says of the tree below it, the refinement of `ForegroundRun`, what a status report says | proofs |
| `CloudTask` | one request for a hosted task: the synchronous call, and the staged dispatch and observe calls with their checkpoint | detailed |
| `CloudTaskProofs` | theorems about `CloudTask` | proofs |
| `PipelineSweeps` | the order in which a pipeline run may start its stages | abstract specification |
| `PrPipeline` | `pr_pipeline.py`: two sweeps over the stages, synchronous or in bounded steps | detailed, implements `PipelineSweeps` |
| `PrPipelineProofs` | theorems about `PrPipeline`: types, the step lock, the refinement of `PipelineSweeps`, what complete means, the second sweep, the worktree's tips | proofs |
| `StackPipeline` | `pr_stack_pipeline.py`: two passes of workers over a native stack | detailed |
| `StackPipelineProofs` | theorems about `StackPipeline` | proofs |
| `CiFixLoop` | `ci_fix_loop.py`, hosted: the loop, and the bounded pipeline's calls | detailed |
| `CiFixLoopProofs` | theorems about `CiFixLoop`, and about `CiRepair` and `CiStack` as instances over the same variables | proofs |
| `CiRepair` | `ci_fix_loop.py` as an agent's command line over one pull request | detailed |
| `CiStack` | `ci_fix_loop.py`: the run over the members of a native stack | detailed |
| `CopilotReview` | `copilot_review_loop.py`: feedback, replies, request and watch of the next review | detailed |
| `CopilotReviewProofs` | theorems about `CopilotReview` | proofs |
| `SelfReview` | `self_review_loop.py`: passes until clean, and the state repository | detailed |
| `PrDescription` | `pr_description.py`: judge and replace a title and body; the index of runs | detailed |
| `ConflictResolver` | `pr_conflict_resolver.py` and `cloud_conflict_task.py`: replay of a pull request or a stack | detailed |
| `PrReviewer` | `pr_reviewer.py`: discovery, critique, one pending review | detailed |
| `HistoricalAudit` | `historical_pr_audit.py`: the audit branch of a merged pull request | detailed |
| `ReviewProofs` | theorems about `HistoricalAudit`, `PrReviewer` and `SelfReview`, each an instance over the six variables of a helper | proofs |
| `UpkeepProofs` | theorems about `PrDescription` and `ConflictResolver`, in the same way | proofs |
| `MCStacks`, `MCHelpers` | the instances of the last ten models | model checking |
| other `MC*` | the instances TLC checks | model checking |

Each module is the part of the program between two files or two processes that only share files:
`PrPipeline` sees a stage as a process with an exit code and a state file, and sees the runtime as
what it answers about the previous call (`prior`); `Execution` is that runtime; `CloudTask` is the
process at the bottom of a stage; the ten modules from `StackPipeline` on are the stages
themselves and the helpers beside the pipelines. A hosted task is in `Execution` an observation that may end, in
`CloudTask` an object of the service.

### Execution

A node is a process the run may own. `pc` says where it is: a controller goes
`absent - boot - ready - main - finish - gate - write - seal - leave - halted`, and through
`admit - popen - bind` for each launch; a command only runs and exits. What the code keeps on disk
is `handle`, `receipt` (the `child-*.json` of a node, written by its parent), `result`, `cancel`
and `dispatch`; what it keeps in memory (`children`, `mem`, `draft`) is lost when the process ends.
`lock` is the root's `cancel.guard`, an OS lock that the death of its holder releases.

Each step of the code that another process can come between is an action: admission of the
receipt, taking the guard and checking under it, `Popen`, binding; each child's drainage; the
judgement of the evidence below the handle; taking the guard, writing the result, sealing the
handle; the process exit. `Crash` ends a controller at any point. On Linux its descendants live on
in their own sessions; on Windows the job handles it held close and kill them. A command may leave
a process of its group or job behind (`strays`).

Abstracted: identities are exact (a generation check never confuses two processes); digests
compare; the presentation, live progress, captured output and route validation are left out; a
workflow's result is reduced to its exit and whether it says that hosted work is awaited. The
window on Windows between `CreateProcess` and the assignment to the job is one step, and so is an
OS error that makes sealing fail (as a crash: nothing is sealed).

### ExecutionControls

Adds to `Execution` one reader that executes `execution-status`. It reads the handle, then the
result, then the owner, in that order and without the guard, while the run goes on between the
reads. Its answer is compared with what was true during the reading.

### CloudTask

`call[c]` is the memory of one invocation of `cloud_task.py`; `checkpoint` is
`<result>.pipeline.json`, `final` the result file, `tasks` the tasks the service has admitted.
A plain call goes `prepare - post - answer - confirm - monitor - collect - finish - write`; a
staged dispatch reserves the checkpoint before it posts (`reserve`) and leaves after `confirm`; a
staged observation takes the checkpoint (`begin`), looks once (`get`), puts it back (`put`) or
collects. A lost answer is one step of the service (`Post` may admit and answer "lost"). `Interrupt`
is Ctrl-C or a cancellation: the call still writes what it believes. `Crash` writes nothing.

Abstracted: requests other than the POST and the polls; the proof that a completed task's branch,
manifest and history are the requested ones is one verdict (`completed` or `unfit`); the pull
request's head is a count of its pushes, the checkout is "same" or "other".

### PrPipeline

`caller[c]` is one process; its `at` is the tuple of local variables of `run_pipeline` that
`save_cursor` writes, so that the cursor on disk is `file.cursor = caller[c].at` at a checkpoint.
`Read`, `Sync`, `Inspect`, `Launch`, `Settle`, `AfterStage`, `Judge` are the segments of the loop
between two looks at the outside; others push, rewrite, rebase, close or rerun checks between any
two of them (`Moves`). `TakeLock`, `Load`, `Unlock`, `Seal` are `command_advance` around it.
`Fails` is any exception, with or without a recorded status; `Crash` leaves the lock.
`heads` and `bases` inside `at` are history: what this sweep has read. `launched` and `running`
are history too and are mapped to the variables of `PipelineSweeps`.

A stage is any process: it may publish any head, leave the worktree anywhere, dirty or with commits
of its own, record any outcome, fail, or answer that its hosted task still runs. Stages are
numbered; the two the loop treats apart are `Conflict` and `Ci`. `Watched` stages are those whose
status is verified against live data (CI checks, description metadata).

Abstracted: the read of the pull request's base and that of its head are two steps, but
`fetch_pr_head` is one (its own comparison with the remote tip is a `Fails`); the commit snapshots
and reports; the check that a hand-edited cursor is well formed.

### StackPipeline

`live` is GitHub (members' heads, what each stands on, the trunk, the checks), `marks` what each
stage's own state file says of a member, `workers` the worker processes, `trees` the worktrees,
`saved` the run file, `sched` the scheduler's memory. A phase goes launch, start, record,
confirm, monitor, collect (`LaunchWorker`, `RecordWorker`, `Confirm`, ...); the conflict phase is one worker for the clicked member, review and description are waves,
`ci` is bottom up with its gate and carries each push of a CI worker to the members above
(`accepted_pushes`, propagate). `final_snapshot`'s two readings are steps of their own. Starting a
worker and recording it are two steps: the process runs before `write_json_atomically` and
`record_started` have named it, and when the record cannot be written nobody knows of it
(section 5). `touched` are the members this process has created a worktree for,
the only ones that cleanup looks at. The scheduler may die and be started again with workers alive; a
second start finds the same state only if it is given the same run identity, because a run that the
runtime starts afresh has a new one (`StartAgain`). `CancelWorkers` is the except clause of
`execute`; there `finish_worker` may raise again, which ends the process without a result. A wave is launched in the order of the members, one worker at a time (`First`). The
module's actions carry names that those of `Execution` leave free (`CiGate`, `LaunchWorker`), because
`MCStacks` extends both.

### CiFixLoop, CiRepair, CiStack

The three layers of `ci_fix_loop.py`. `CiFixLoop` is the hosted loop: stability, charge, hosted task,
admission, import, push, rerun request. `CiRepair` is one pull request as an agent repairs it through
commands that are separate processes over one state file; each command is steps only where another
process, GitHub or a death can come between. `CiStack` walks the members of a native stack
(`stack-next`, `stack-record`, `stack-propagate`), with a member's repair reduced to what it leaves
in the member's file.

Abstracted in `CiRepair`: the agent attributes only checks whose cause is unknown, and commits only
for a plan; the iteration limit there binds through the agent, who is told `max_iterations_reached`;
the history is not kept. In `CiStack`: the clearances are read in the step that saves, the agent
records only a member that was dispatched, and a member's retired attempts are filed before the
coordinator's file (as in the code). Its branch for a propagation that did not contain the head
below is never reached in the model.

### CopilotReview, SelfReview

One hosted task per iteration over a state file (`state`), the checkout (`local`) and the pull
request (`github`). With `Bounded` the pipeline makes one call per step and each call may be the last;
without, one process does all of it and a second start is a new file. `CopilotReview` has in `github`
the reviews with the thread that each leaves open, the request that waits, and the published heads;
`SourceOnly` is the invocation that may not reply, resolve or request. `SelfReview` has the state
repository that others write too.

Abstracted: hosted reports are the decision they contain; the base branch, reuse of an overview
clearance, dismissal of reviews, debounce and artifacts are left out. After a clean completion is
saved, a failed cleanup of artifacts or a failed publication to the state repository is only a
warning, and is a stutter here.

### PrDescription

Several `Runs` share the pull request, the index of runs under its lock (an OS lock, released by
death), and the entry in the state repository. The text of the pull request is a value that says who
wrote it; `past` is history: what the pull request was at each change, so that "what the run last
looked at" is a position in it. GitHub's PATCH has no condition, so an edit in the last instant
before it is lost; the property says what the code can promise, that what is overwritten is what was
read.

### ConflictResolver

A commit is the layers of work it has, the trunk below it and the version of the replay; a member
stands on the one below. `hosted[m]` is the replay of a member, `state` the controller's file with its
receipts and collected results. All members are pushed in one atomic command with a lease on each,
then read back, revalidated and cleared; a bounded run's later sweeps only look again.

Left out: outside dependents, normalization, propagation to descendants, the merge strategy and the
choice of one, checkouts, how ranges are read. The invoked member is the top of the stack.

### PrReviewer, HistoricalAudit

`PrReviewer` is one run per process: preflight, discovery, refresh on an advanced base, critique, the
comparisons before the POST, the guard file (`local`), the POST, its verification. What GitHub shows
is head, text, base (a line and a position, with the findings that left the diff) and the viewer's
pending review. The preflight's reads are one step; the anchors are not read again at the last look
(as in the code).

`HistoricalAudit` has a checkout per run or one for all (`Shared`); the audit branch is shared. A
commit is what stands on the merged head, by author. `Prepare` looks at the checkout, `Examine` at the
remote and for work of the branch's own; then comes the fetch, and the realignment is its three
commands (`Detach`, `MoveBranch`, `Return`) with a last look (`Settle`). Others commit on the branch, or
on the detached HEAD, between any two of them. The state file is written before the import and again
after it, and both are steps. The import is one: what comes between its look and `merge --ff-only`, that
command refuses itself.

### MCStacks, MCHelpers

Starting a model checker per instance of each helper would repeat the same questions, so these two modules
put instances side by side: `Init` chooses one (`helper`, `scheduler`), and the others stand still.
Nothing is shared but the names of variables, so the state spaces add and no interleaving between
helpers is claimed. The properties of `MCHelpers` are the questions the helpers have in common; each
conjunct is the helper's own formula, stated and commented in its module:

| Property | What each helper says under it |
|---|---|
| `HelperTypeOK` | the type invariant |
| `OneTaskAtATime` | `Alone`: no second hosted task while one may run; of a stack's replays: in turn, on the result below |
| `AskedOnce` | a snapshot is given to one task a sweep; checks of a head are rerun once; a task is paid for before the next |
| `BudgetHolds` | iterations or tasks within what the run, and each sweep, may spend, restarts included |
| `NoPushLost` | a push extends the branch or holds its lease; no overwritten text, newer record, pending review, or checkout with work |
| `VerdictIsEarned` | green, clean, cleared, settled, verified only of what was checked or reviewed at that head |
| `PublicationIsAccounted` | whatever reached the remote is in the state file that a next call reads, once |

Several helpers read the remote and save their verdict in one step (`Clear` of the description,
`Complete` of the resolver, `VerifyCreated`, `Record` of the audit, `Finish` of the Copilot review): "live"
in their verdicts is what was last read. `PROJECT.json` lists mutants of several helpers for each
conjunction, but not one for every conjunct.

`MCStacks` extends `ExecutionControls` and `StackPipeline`, whose own properties its run checks; conflict
before CI, the wave and the suffix are further instances, in variables of their own, and
`OtherStacksHold` says of each of them those properties that its phases can disturb.

## 3. What is checked

TLC explores every state of these instances. Every property of every passing run also fails on at
least one mutation of the model that a plausible slip in the code would make (`mutants` in
`PROJECT.json`).

| Run | Instance | Shows |
|---|---|---|
| `execution_linux` | root, stage, worker (all controllers); worker has a hosted task; two deaths | a sealed cancellation never says finished, drained means that every local process below has stopped, uncertainty about hosted work is admitted, nothing is launched or finished after the cancellation took the guard |
| `execution_commands` | root, stage, one command that may leave processes; two deaths; fairness | a cancelled root and orphaned controllers end |
| `execution_windows` | the same tree with kill-on-close jobs, two deaths, a hosted task of the root | success under jobs; the root implements `ForegroundRun` (that drainage is true there too is a theorem) |
| `execution_controls` | root and a command with one reader; beside it four stacks of two members: CI, conflict and CI, a wave of descriptions, the upper member alone | what `execution-status` reports as sealed is sealed; complete is one consistent stack, one worker per member, CI bottom up with every push carried, no worktree of a recorded worker removed in use |
| `execution_status_lost` | root and a command, one reader | finding, below |
| `cloud_race` | three staged calls at once, one push; beside it the twenty-one instances of the helpers named in `MCHelpers` | at most one hosted task per request, success only for what was asked about; the helpers' shared properties |
| `cloud_staged` | three staged calls in turn; fairness | after a pending answer the next call can observe; work abandoned by a failed or dead call is never adopted; a staged call ends whatever the hosted task does |
| `cloud_plain` | one plain call, three tries, two pushes; fairness | success is earned; the call ends if the task ends |
| `cloud_interrupted` | one plain call | finding, below |
| `audit_realign` | one audit, one commit of others | finding, below |
| `pipeline_sync` | three stages, one change by others | complete means all stages clear at one head; no tip of the worktree is lost |
| `pipeline_steps` | two processes, two stages, one wait, any failures and deaths; fairness | implements `PipelineSweeps`; one conflict attempt per run; a second sweep exactly when something changed; changes survive from call to call; a driven run ends |

### Bounds and why they are enough

* Trees of three nodes: every rule of the runtime relates a node to its parent, its children or
  the root, and a chain of three has all of these at once. Two deaths let both a parent and its
  child die; one cancellation is all a root accepts.
* Three calls of one result path: one that reserves or dies, one that observes, one that comes
  after; two pushes make "moved, and moved again" possible. `MaxFailures` is 2 or 3 (the code has
  `MAX_TRANSIENT_FAILURES`): first try, retry, last try.
* Two heads, one an ancestor of the other, can advance, be rewritten, and return to where they
  were; two bases and two states of the checks likewise. `pipeline_steps` keeps the base and the
  checks fixed, which `pipeline_sync` varies. One wait gives a stage that is resumed.
* Stacks: two members have a below and an above; beside the stack that only CI repairs,
  `Repair` has the conflict phase, `Waves` two workers at once, `Suffix` a member below that is not
  selected; these three are checked under `OtherStacksHold`. One push by a worker or by others makes a
  clearance stale or a member fall behind.
* Helpers: bounded instances have two sweeps, so that something is inherited from the first; one
  iteration per sweep (two where a second pass changes the question: the CI loop, self review); one
  or two changes by others (`MaxMoves`, `MaxEvents`), where one invalidates what was read and the
  second restores or invalidates it again. `CiRepair` has one check with a move, or two checks
  without; `CiStack` two members with a move, or three without. `PrDescription` and `PrReviewer` have
  two runs that overlap and no other events, or one run with two; `HistoricalAudit` two runs with
  one. Wider instances of single helpers were explored while they were written; the run keeps what
  ends in about two minutes.
* `MaxCrashes`, `MaxMoves`, `MaxWaits` are budgets of the environment, not of the code. `MaxSweeps`
  is the code's own 2.

`CHECK_DEADLOCK FALSE` or an explicit final state is used because a finished run stops.

### Fairness

Weak fairness is assumed only of a process's own straight-line steps: the controllers poll for
cancellation and for their parent (`check_cancel`, `OWNER_POLL`), children that are terminated
do exit, the monitor loop polls with a deadline, and `run_pipeline` has no unbounded wait except
its stage. No fairness is assumed of crashes, interrupts, other writers or the hosted service:
`BoundedCallsEnd` therefore holds even if a hosted task never ends, and `PlainCallsEnd` holds by
the code's own deadline. `RunEnds` assumes in addition that the agent calls
again after a sealed `continue` or `waiting` (pr-pipeline.agent.md says to), that a stage answers
"waiting" finitely often (`MaxWaits`), and that steps do not fail for ever without being able to
record it (`StopsFailing`).

## 4. What is proved

For every value of the constants (any tree, any number of calls, any bound), by TLAPS:

| Theorem | Says |
|---|---|
| `TypeCorrect` (`ExecutionProofs`) | `Spec => []TypeOK` |
| `CancelledRootNeverFinished` | a cancelled root's result never says finished |
| `NothingFinishesAfterCancel` | after the cancellation has the guard, no node seals "finished" |
| `CancelFencesLaunches` | after it, no node passes the launch check |
| `DrainedResultIsTrue` | a result that says "drained" is true of every process below its controller, and stays true |
| `SuccessIsOfWholeTree` | exit 0 is sealed only over a tree whose controllers all sealed "finished" or never came to start |
| `DenialOfRemoteWorkIsTrue` | a result that denies remote work was written of a tree without a hosted task that runs, and none is created later |
| `RunKeepsItsPromise` | `Execution` implements `ForegroundRun` |
| `StatusReportsTheSeal` | an outcome that `execution-status` reports is the sealed one |
| `CloudTaskTypes` (`CloudTaskProofs`) | `Spec => []TypeOK` |
| `OneHostedTask` | for staged calls, at most one hosted task is ever admitted |
| `StagedSuccessIsEarned` | for staged calls, a result that says success names the checkpoint's task, completed, started from the head it reports |
| `PendingIsKept` | for calls that run one after the other, an answer "pending" leaves a checkpoint that the next observation takes up, of a task that exists |
| `TypeCorrect` (`PrPipelineProofs`) | `Spec => []TypeOK`, on both routes |
| `BoundedStagesRunInTurn` | the bounded route implements `PipelineSweeps` |
| `BoundedConflictOnce` | the bounded route completes at most one conflict attempt |
| `CompleteRunIsClear` | under the lock or with one caller, complete means every stage cleared at the verdict's head and base, and a clean worktree there |
| `SecondSweepIsOfAChange` | under the lock or with one caller, a second sweep exactly when the first one saw head or base change; without a change only CI sweeps again |
| `NoTipIsLost` | for any callers on either route, the worktree leaves no tip that is neither contained in the new one nor kept by a recovery ref |
| `TypeCorrect` (`StackPipelineProofs`) | `StackSpec => []StackTypeOK` |
| `WorkersAreAlone` | a worker starts only on a member that has none and that the run file does not name |
| `RepairsGoBottomUp` | a CI worker starts only on a head that stands on the very head CI cleared below |
| `EveryPushIsCarried` | a CI phase that is neither blocked nor stopped has carried every push of its workers up the stack |
| `CompleteStackIsOne` | complete names heads and bases that were one stack at one moment |
| `WorktreesInUseStay` | cleanup removes no worktree of a worker that still runs, except of one whose start could not be recorded |
| `TypesHold` (`CiFixLoopProofs`) | `Spec => []TypeOK`, for the loop and for the pipeline's calls |
| `AsksAlone` | a hosted task starts only while none of ours runs, and a sweep gives a snapshot to one task |
| `BudgetIsKept` | a sweep starts at most `MaxIterations` hosted tasks, however often the coordinator dies |
| `RerunsOnce` | the checks of a head are asked to run again at most once |
| `PushExtends` | a push of the loop only extends the branch |
| `ClearancesAreQuiet` | while a clearance is on record no hosted task runs and no rerun is owed |
| `RepairStaysInBudget` | the iterations charged stay within the limit; a clean head is the head of the active run |
| `RepairIsAccounted` | while the pull request is guarded, a push of ours at the head is announced or accepted; none is accepted twice |
| `RepairExtends` | a push of a repair, or of the empty commit of a rerun, only extends the branch |
| `RepairSaysWhatItSaw` | a clearance is of a head whose checks all passed; a flake that failed twice ended twice |
| `WalkClearsUpwards` | the clear members of a stack are a prefix of it, each cleared at a head that contains what was cleared below; complete means every member green at that live head |
| `WalkIsAccounted` | a commit of the run that heads a member is announced, accepted or retired on record |
| `WalkExtends` | the pushes of the members' commands and of a propagation only extend a member |
| `AuditIsAccounted` (`ReviewProofs`) | a run's commit is on the audit branch, or in a checkout, only if its state file says so, and is the first one there |
| `AuditLosesNothing` | a run only ever creates the audit branch on the remote; the branch of a checkout leaves commits behind at one step only, the `branch --force` of a realignment whose look found none there |
| `AuditCleanIsEarned` | a clean head was declared clean by its task, and is on the remote if there were commits |
| `ReviewIsAccounted` | a pending review of a run is on record, of the head both tasks saw, with what the second left of the first's findings |
| `ReviewKeepsSource` | a review replaces none and is of the source the first task was asked about |
| `ReviewVerdictHolds` | "no findings" is of the base that was reviewed; "verified" of a review that stands on the live head |
| `SelfCleanIsReviewed` | a head on record as clean, here or in the state repository, is one that a hosted task reviewed and left as it was |
| `SelfBudgetHolds` | passes of a sweep and of the run are bounded, through any deaths |
| `SelfIsAlone` | the pipeline's calls ask for a task only when the last one is over |
| `SelfSharedNeverOlder` | the state repository never goes back |
| `SelfExtends` | a push only extends the branch |
| `DescriptionIsAccounted` (`UpkeepProofs`) | runs that end undisturbed leave the index and the state repository speaking for the last of them |
| `DescribeOverwritesPinned` | an update writes over no text that the run did not ask about, as it last read it |
| `DescribeIsSettled` | a settled head was live with the text on record, which the task kept or the run wrote |
| `DescribeNeverOlder` | neither the index nor the state repository goes back to an older run |
| `DescribeIsAlone` | a run asks for no task while its last one may run |
| `ConflictIsAccounted` | replayed branches are on the remote only where the file says that a push was begun and all members were replayed; a completed file leaves no task running |
| `ConflictAlone` | the members are replayed one after the other, each once, on what the one below became |
| `ConflictNothingLost` | a push moves every branch of the stack or none, and drops nothing that anyone pushed |
| `ConflictClearedIsLive` | a clearance is of the live head: of a mergeable one, or of members that stand on each other and on the trunk the guards saw |
| `CopilotAlone` (`CopilotReviewProofs`) | the pipeline's calls dispatch a task only while none may run |
| `CopilotOncePerSnapshot` | a sweep dispatches no second task for a head with its comments |
| `CopilotBudget` | the iterations of a sweep and of the run are bounded, failed ones included |
| `CopilotReplies` | a reply names a head that was published before |
| `CopilotResolvedAfterReply` | a thread is resolved by others, or after our reply |
| `CopilotClearedByReview` | "cleared" is said only of a head that a review found clean, or whose latest review needs no change |

The theorems of `ExecutionProofs` rest on one inductive invariant, `CancelInv`: types, `LockInv` (the guard's
holder is the process that is between taking and releasing it), `LaunchInv` (who passed the check
under the guard has not seen the request), and `FenceInv` (once the request exists and the guard
is free or the canceller's, whoever still has to seal will read it). None of the three properties
is inductive without `LockInv`: it is what makes check and act one step.

What a sealed result says of its tree adds three groups, together `RunInv`. `FileInv`: a sealed handle is of a controller
that only has to leave, and the result it vouches for has its status; no request stands beside a root
without a handle. `TreeInv`: below a controller without a handle nothing was ever started; a receipt
that says drained, or that nothing was launched, is of a process that is gone; the children a
controller remembers are its own and still to be collected; on Windows nothing outlives the job above
it, and a controller that has not concluded knows every child that lives. `ResultInv`: a hosted task
runs only where its dispatch is on record, and every draft and result is `Honest` about its tree. The
difficulty is that a controller judges its tree and seals several steps later, and that a result must
stay true. `Frozen` closes that gap: below a stopped controller nobody is left to act, so that no
receipt, handle or result there changes and no hosted task begins. That the nodes form a tree is
`TreeAssumption`, with the induction over it as its last conjunct: a set of nodes that has the root and
the children of its nodes has all of them. The code gives this by construction: each process is
launched by one parent, which exists already. TLC evaluates the assumption on every instance.

`RunKeepsItsPromise` is the refinement, step by step: `RootSteps` shows that a step of the root maps
to a step of `ForegroundRun` or is unseen, `GoneStays` that what has ended below the root does not come
back, so that a step of another node is unseen too. `StatusReportsTheSeal` adds the reader's `ViewInv`:
what it has read of a sealed handle and result is still what they say, because a seal stays.

`OneHostedTask` rests on `TInv` (types, with what the checkpoint and a call's memory must agree on)
and `ReserveInv`: a call that may still post is the one that created the checkpoint, the checkpoint
then says `dispatch_unknown`, and no task exists yet; from this follows that a second call finds a
checkpoint and cannot reach its POST. The assumption is that creating the checkpoint is exclusive
(`os.O_EXCL`).

`StagedSuccessIsEarned` adds `EarnedInv` to these two, because success is decided several steps
before it is written and other calls run in between. `Sound` says what a call remembers at each step
still holds of the shared state: the head it froze is the checkpoint's, a task it saw completed is
completed, and a success it is about to write is `Earned`. The steps of the others may not undo that
(`SoundStays`): the checkpoint keeps its head once it exists and keeps naming a task once it is
settled (`Steady`), and a completed task stays completed (`Grows`). That the task is the
checkpoint's follows from `OneTask`: there is no other. For plain calls, which have no checkpoint and
read the branch head again, `SuccessIsEarned` stays model-checked.

`PendingIsKept` is proved for `Serial` calls, which is how the callers use the coordinator (a stage's
next call starts when the last one has ended). `PendingInv`: at most one call runs, and it keeps its
`Promises`: who looks is an observation that found no result file, who creates is a dispatch without
one or a plain call, and who says "pending" is about to end and leaves a checkpoint that can be taken.
A call that leaves in
another way, death included, has not said it.

The two theorems of the bounded route rest on `TInv` (types, and which pc may have which cursor)
and `TurnInv`: `Exclusion` (who is between taking and dropping `step.lock` is alone),
`FileAgrees` (the state file's cursor is where the started stages end: all others started before
it, the one at it exactly if it is under way) and `CallAgrees` (a call in the pipeline is where the
file says it is, and the file says "executing" exactly while that call has a stage in hand). Every
step then is one of `PipelineSweeps` or leaves its variables alone: a launch begins the visit or,
for a resumed stage, finds it running. `Bounded` is an assumption of both: the synchronous route is
one process without a lock, and the model lets more than one start only if it is given more than one caller.
`BoundedConflictOnce` adds `AttemptInv`: an attempt counted is an attempt the file knows as
resolved, or one whose call still stands between the stage and its record; a failure there leaves
the file at "executing", which no later call continues. Other assumptions are those of the modules
(`PrPipelineAssumption`: at least one base and one state of the checks, the conflict and the CI
stage differ). `require_finished_step` is not needed for these two: the lock and the phase
"executing" suffice.

What a run concludes needs that one call at a time judges: `OneAtATime` is the step lock
(`Bounded`, through `TurnInv`) or a single caller, which is what the synchronous route is.
`SecondSweepIsOfAChange` rests on `HistoryInv`: the flags in the cursor are true of what the sweep has
read, whichever call read it; the flag is set exactly if the sweep has read two heads or two bases.
`CompleteRunIsClear` adds `ClearInv`: nobody is in the pipeline after the verdict, and who is about to
judge has just synchronized a clean worktree to the head the sweep knows, which no other call can have
moved since. `NoTipIsLost` needs neither: the pipeline moves the worktree in `Sync` and `Settle` only,
through `Checkout`, which saves a tip that the new one does not contain. The proofs showed that
`PrPipelineAssumption` had to say that "none" is not a commit, which it now does.

The theorems of `StackPipeline` hold for a stack of any size, any selection of it, any list of phases
and any number of pushes. Their invariant `IInv` has five parts. `TInv` is the types in full.
`WorkInv`: the run file names every worker that runs and whose start was recorded, and outside the
way out every one but the worker that was started just now; between dispatches there is none, and inside one
there are only members of the wave that were launched; so a second start finds what a dead scheduler
left. `GateInv`: from the gate to the launch of a CI worker the member below is green and the next one
stands on the head that was cleared (`Standing`); no worker runs in between, and only a worker writes
which head a marker names. `CarryInv`: members below the index have no push that was not carried; a CI
worker pushes only to the member it works on. `SnapInv`: versions of a branch only grow, and the bases
are read after the first reading of the heads and before the second; if both readings agree, they are
of one moment. The assumptions are those of the module (`StackPipelineAssumption`).

The theorems about `CiFixLoop` share one invariant, `Inv`, which holds through the death of the
process at any step. `Owned`: at most one hosted task is ours, and none while the file's attempt may be
followed by another; the answer is read when it has ended. `Unsettled`: the file has no clearance while
a task or a rerun is still to come. `Recorded`: every rerun that was asked for is in the file, which is
written before the request. `Ordered`: what can be seen of a pull request only moves on (`Before`: heads are
extended or rewritten with a mark of their own, attempts count up, a run that ended stays as it
ended), and the snapshot that the file charged comes after all those that the sweep asked about; so a
new charge is of a snapshot that no task had. `Paid`: a sweep's spent iterations cover the tasks it
started, and one more while a task is paid for and not started. The assumption is the module's.
`CiRepair` and `CiStack` have an invariant each, and each module's own assumption:

* `RepairInv`: a head that the branch left does not come back, because others commit with a mark of
  their own (`RepairHeads`); a run of a check is counted when it ends (`RepairCounted`), so a verdict,
  or a rerun that was asked for, is of one that ended (`RepairJudged`). The iteration of a plan is charged
  at a head that was not charged before, with one left, or the head is green (`RepairSpent`). An announced
  push is behind an announcement of its own, and the head that an accepted push replaced was left
  for good, so a second acceptance is of another push (`RepairAccepted`).
* `WalkInv`: every commit was made before the next one (`WalkKnown`). An announced push adds one commit,
  which is nowhere while the push is still to come; otherwise the head moved on to something newer
  (`WalkAnnounced`). So a push that is repeated after a death is recognised as done or as overtaken, and
  never drops a commit. The cursor parts the stack: clear below, not begun above (`WalkCursor`). While the
  member at the cursor is worked on, the head that was dispatched, every head of ours there and
  every head that the resolver carried up contain what was cleared below (`WalkAttempt`). The chain of
  clearances is not inductive without it: a member is cleared at the live head, which is one of these.

`CopilotInv`, in `CopilotReviewProofs`, is inductive for the loop and for the pipeline's calls at once.
`CopilotPlaced`: where the process stands, the file's task has the status that goes with it.
`CopilotPaid`: while a task is open an iteration is left to be charged for it. `CopilotAsked`: a
snapshot that a task of this sweep was asked about is charged (`processed`), or is that of the file's
open or failed task; and a hosted task runs only while the file's task is pending, or failed.
`CopilotEarned`: a clean head goes with a review of it that was clean, and an error leaves none.
`CopilotReplied`: the head that a reply names is one that was published. `Verdict` is written with cases
that exclude one another, which is what the prover can split.

In `ReviewProofs` and `UpkeepProofs` each helper is an instance over the same six variables and has one
invariant, which is inductive with every death of the process, every move of others and every end of
a hosted task among the steps; the assumption is the module's. A theorem of types is there for each.

* `AuditInv`: a line of commits has one run's at most, as its first (`AuditFirst`); a run that has
  commits there has a file that is past its import, and one whose commits are on the remote has
  published (`AuditMine`). The steps of a realignment
  bring a branch or a HEAD back to the merged head and so keep all of this.
* `ReviewerInv`: the tasks of a run are asked in turn about what its file pins, the pending review of a
  run is the critique's answer to that, and a run whose file says "not attempted" has none on GitHub.
* `SelfInv`: where the process stands its file says so (what is still to come of a task's outcome,
  which pass it was paid for); a head enters the file, or an entry of the state repository, only
  behind a task that left it as it was (`SelfClean`); the entry a process is about to write is
  compared with the one it read, and a write that comes second is tried again.
* `ConflictInv`: a member has its layers, and before our push nothing of the stack is on a trunk
  (`ConflictLaid`); what was collected is a replay of what the file pins, of every member below the one
  in work, and of all of them when a push was begun (`ConflictKept`). The receipts say which members were
  asked about: below the one in work the tasks have ended, above it none was begun (`ConflictAsked`).
* `DescribeInv`: where the process stands its file says so, also while it is away to bring the index
  up to date; what the file says was validated was live; at most the holder of the index's guard is
  about to write it. `DescriptionIsAccounted` adds `DescribeQuiet`:
  while nothing happened to a run, the index speaks for the latest run that is past bringing it up to date
  (`DescribeIndexed`), and the state repository says what the index says or the run at its head is still to
  write it (`DescribePublished`). It assumes `EnoughAttempts`: no more runs than attempts of a
  write. The assumption is needed: with two runs and one attempt TLC finds a run that gives its
  write up and leaves the state repository behind the index. The program has three
  (`SHARED_STATE_MAX_ATTEMPTS`).

Only model-checked, and why:

* Liveness (`CancelEndsRoot`, `OrphansEnd`, `BoundedCallsEnd`, `PlainCallsEnd`, `RunEnds`): fairness and
  ENABLED are out of the prover's reach.
* `SuccessIsEarned` of plain calls. `PendingCanBeObserved` is not claimed of calls that overlap: of these
  `OneHostedTask` and `StagedSuccessIsEarned` hold. `CompleteIsClear` and `SecondSweepIffChanged` are not claimed of several
  synchronous callers, which have no lock and which the agent does not start.
* `HelperTypeOK`, `OneTaskAtATime`, `AskedOnce`, `BudgetHolds`, `NoPushLost`, `VerdictIsEarned` and
  `PublicationIsAccounted` as formulas of `MCHelpers`, where each is a conjunction over its instances. What
  the conjunctions consist of is proved, for every value of the constants, of all nine models
  of helpers: the theorems of `CiFixLoopProofs`, `CopilotReviewProofs`, `ReviewProofs` and
  `UpkeepProofs`. What is left to TLC there is that only the chosen instance moves.

## 5. Findings

* `execution_status_lost`: see `PROJECT.json`; `execution-status` can deny a root that sealed
  between two of its reads.
* `cloud_interrupted`: an interruption around the POST writes "before an Agent Task was started"
  although the service may have admitted one.
* `audit_realign`: a commit that lands on the audit branch between the look for unique work and
  `branch --force` is left behind without an error, although preparation promises not to move a
  branch that carries commits of its own.

Met while modelling, without a run (each is an observation about the code, at the level of the model):

* `inspect_stage`'s docstring (pipeline_common.py:1782) says that any base marker must name the base
  being inspected; the code compares it for native stacks only, as the README of the plugin wants.
* A staged observation does not read the pull request's live head again; its callers do.
* CI loop: a call that dies between saving "completed" and recording the snapshot as processed leaves
  a state in which a relaunch waits for other checks until it times out; a loop that dies after the
  record and before the rerun request never asks for it.
* CI repair: an unguarded publication that dies before its save and is followed by a preflight gets
  no accepted checkpoint; a pending push whose head others moved on can only be retired. In a stack a
  propagation that dies between the resolver's publication and its own save cannot be repeated for
  an accepted push (`propagation_snapshot_changed`).
* Plain calls of `cloud_task.py`: `request_json` repeats the POST after a lost answer (cloud_task.py:2682),
  so that one request may leave several hosted tasks, of which only the last is known. TLC finds this when
  `OneTask` is asked of a plain call; the pipeline's calls post once.
* Stack: a worker whose record file cannot be written after its process was started
  (pr_stack_pipeline.py:1314) is neither terminated nor named, and its worktree may be removed while it
  works. TLC finds this when `NotInUse` is asked of every running worker, without `recorded`.
* Stack: one failed propagation blocks the CI phase although a later sweep may repeat it.
* Copilot review: a bounded call that dies between saving "requesting" and its POST leaves the run
  waiting for the request; a watch's clearance does not look at threads that others open again.
  Standalone, a death leaves a hosted task and a fresh invocation may start another.
* Self review: bounded, a death between "validated" and "published_pending_verification" cannot be
  continued; the next sweep starts afresh.
* PR description: a PATCH whose verification fails is recorded as "failed"; an older run that ends
  later takes the index over; a death between the index and the state repository leaves the latter
  behind.
* Conflict resolver: a call that dies leaves its `.lock` file, which only its `finally` removes, and
  later bounded calls fail on it. The guards read just before a stack's push tell that the base
  advanced, and that answer is not used unless the invoked member is the bottom one.
* PR reviewer: an answer lost after the POST leaves the mutation at "attempted" and a review on
  GitHub; the next run finds it as an existing pending review.
* Historical audit: a death after the push leaves an audit branch, and every later invocation
  refuses to start.

## 6. Not modelled

Reporting and presentation, JSON validation, prompt and route checks, process creation below
`Popen`; how `cloud_task.py` proves a candidate's Git history; the shape of hosted reports; status
and cleanup commands of the helpers; for each module what its section above leaves out.

* `ci_fix_loop_permission.py` is a static table; `tools/*.py` check the file tree. Neither has state.
* `actions_review_loop.py` (reviews by a workflow) keeps one receipt around one dispatch; its
  question, a POST that is not repeated when its answer is lost, is the one that `CloudTask` and
  `CopilotReview` answer for the other routes.
* `ci_fix_loop.py`: test suppression, approval of workflow runs, failures of aggregate jobs, and the
  sealed invocation of the agent's commands.
* Composition of the pipelines with their helpers: `PrPipeline` and `StackPipeline` take a stage to be
  any process that writes any record, which is weaker than the helpers' own modules say.

## 7. What could come next

| Work | Question |
|---|---|
| `CiStack` under `StackPipeline` | the CI worker's promise as an abstract specification of both |
| `ActionsReview`, `OwnedProcess` | the dispatch receipt; jobs and groups of a monitored stage in `pipeline_common.py` |
