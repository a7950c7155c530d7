----------------------------- MODULE PrDescription -----------------------------
(***************************************************************************)
(* pr_description.py: a run has a hosted task judge the title and body of  *)
(* a pull request at one head, and keeps or replaces them.  Runs that      *)
(* overlap share the index of the pull request, under a lock, and what the *)
(* index says of the head goes to a state repository.  Standalone a run is *)
(* one process with a file of its own; bounded the pipeline makes a call   *)
(* per step, and a later sweep takes the file over.  A run may raise or    *)
(* die at any step.  Left out: cleanup, the artifacts, the permissions.    *)
(***************************************************************************)
EXTENDS Integers, Sequences, FiniteSetsExt, SequencesExt

CONSTANTS Runs,         \* the runs, one process at a time each
          Bounded,      \* pipeline --bounded-step
          MaxSweeps,    \* pipeline_max_iterations
          MaxAttempts,  \* SHARED_STATE_MAX_ATTEMPTS
          MaxEvents     \* bound: moves of others, errors and crashes

PrDescriptionAssumption ==
  /\ Runs \subseteq Nat \ {0} /\ Bounded \in BOOLEAN /\ {MaxSweeps, MaxAttempts} \subseteq Nat \ {0} /\ MaxEvents \in Nat

VARIABLES github,  \* what the pull request was, and is last; the record in the state repository
          local,   \* the index, its guard and lock file, the policy, the clock
          hosted,  \* the hosted task of each run
          state,   \* the file of each run
          proc,    \* the process of each run and the exit of its last one
          budget   \* the events that are left

vars == <<github, local, hosted, state, proc, budget>>

Dead == -1  \* the owner of a lock file is no process

NoText == [by |-> 0, n |-> 0]
NoPr == [head |-> 0, text |-> NoText]
NoTask == [status |-> "none", run |-> 0, decision |-> "none"]
NoFile == [exists |-> FALSE, at |-> 0, sweep |-> 0, pr |-> NoPr, task |-> NoTask, validated |-> 0, cleared |-> FALSE]
NoHosted == [status |-> "none", pr |-> NoPr, decision |-> "none", asked |-> 0]
NoIndex == [at |-> 0, run |-> 0, validated |-> -1]
NoShared == [value |-> 0, at |-> 0]
NoPost == [value |-> 0, at |-> 0, seen |-> NoShared, attempts |-> 0]
Resting(exit) == [pc |-> "idle", next |-> "none", exit |-> exit, sweep |-> 0, index |-> NoIndex, read |-> 0, post |-> NoPost]

Pcs == {"idle", "lock", "update", "read_shared", "write_shared", "dispatch", "send", "observe", "accept", "keep", "propose",
        "check", "patch", "verify", "clear", "finalize", "waiting", "head_changed", "error", "done", "failed"}
Statuses == {"none", "reserved", "running", "result_ready", "validated", "completed", "head_changed", "failed", "failed_after_mutation"}
Decisions == {"none", "keep", "replace"}

TypeOK ==
  /\ \A i \in DOMAIN github.past : github.past[i].head \in Nat /\ github.past[i].text \in [by : Runs \cup {0}, n : Nat]
  /\ github.shared \in [value : Nat, at : Nat]
  /\ local.guard \in Runs \cup {0} /\ local.file \in Runs \cup {0, Dead} /\ local.sourceOnly \in BOOLEAN /\ local.now \in Nat
  /\ local.index.run \in Runs \cup {0} /\ local.index.at \in Nat /\ local.index.validated \in Nat \cup {-1}
  /\ \A r \in Runs :
       /\ hosted[r].status \in {"none", "running", "success", "failure"} /\ hosted[r].decision \in Decisions
       /\ state[r].task.status \in Statuses /\ state[r].task.decision \in Decisions
       /\ state[r].validated \in Nat /\ state[r].sweep \in 0..MaxSweeps
       /\ proc[r].pc \in Pcs /\ proc[r].next \in Pcs \cup {"none"} /\ proc[r].post.attempts \in 0..MaxAttempts
       /\ proc[r].exit \in {"none", "waiting", "done", "head_changed", "error"}
  /\ budget \in 0..MaxEvents

Init ==
  /\ github = [past |-> <<[head |-> 1, text |-> NoText]>>, shared |-> NoShared]
  /\ \E only \in (IF Bounded THEN BOOLEAN ELSE {FALSE}) :
       local = [index |-> NoIndex, guard |-> 0, file |-> 0, sourceOnly |-> only, now |-> 0]
  /\ hosted = [r \in Runs |-> NoHosted] /\ state = [r \in Runs |-> NoFile]
  /\ proc = [r \in Runs |-> Resting("none")] /\ budget = MaxEvents

Live == Last(github.past)
Goto(r, pc) == proc' = [proc EXCEPT ![r].pc = pc]
Exit(r, exit) == proc' = [proc EXCEPT ![r] = Resting(exit)]

\* save_state
Saved(r, s) ==
  /\ state' = [state EXCEPT ![r] = [s EXCEPT !.at = local.now + 1]]
  /\ local' = [local EXCEPT !.now = @ + 1]
Save(r, s) == Saved(r, s) /\ UNCHANGED <<github, hosted, budget>>

\* save_state and refresh_run_index, and what comes after them
SaveAndRefresh(r, s, next) ==
  /\ Save(r, s)
  /\ proc' = [proc EXCEPT ![r].pc = "lock", ![r].next = next]

\* Mutant of Unchanged: the title and the body may have changed.
UnchangedHead(pr) == Live.head = pr.head

\* metadata_for and require_unchanged
Unchanged(pr) == Live = pr

-----------------------------------------------------------------------------
(* The index *)

\* Mutant of LockFree: whoever finds the lock file of another takes it over.
LockFreeAlways(r) == TRUE

\* The guard is the operating system's, and goes with its process.
GuardFree == local.guard = 0

\* A lock file that a dead process left is stale after a while.
LockFree(r) == GuardFree /\ local.file \in {0, Dead}

Lock(r) ==
  /\ proc[r].pc = "lock" /\ LockFree(r)
  /\ local' = [local EXCEPT !.guard = r, !.file = r]
  /\ proc' = [proc EXCEPT ![r].pc = "update", ![r].index = local.index]
  /\ UNCHANGED <<github, hosted, state, budget>>

\* The index speaks for the run that was saved last.
Updated(r, index) ==
  IF state[r].at >= index.at THEN [at |-> state[r].at, run |-> r, validated |-> state[r].validated] ELSE index

Released(r) == local.file = r

\* Only the owner of the lock file removes it; otherwise the update is an error.
UpdateIndex(r) ==
  /\ proc[r].pc = "update"
  /\ LET index == Updated(r, proc[r].index)
         changed == index.validated # proc[r].index.validated /\ ~local.sourceOnly
         mine == Released(r)
     IN /\ local' = [local EXCEPT !.index = index, !.now = @ + 1, !.guard = IF @ = r THEN 0 ELSE @, !.file = IF mine THEN 0 ELSE @]
        /\ proc' = [proc EXCEPT ![r].index = NoIndex,
                      ![r].pc = IF ~mine THEN "error" ELSE IF changed THEN "read_shared" ELSE proc[r].next,
                      ![r].next = IF mine /\ ~changed THEN "none" ELSE @,
                      ![r].post = IF changed THEN [NoPost EXCEPT !.value = index.validated, !.at = local.now + 1] ELSE NoPost]
  /\ UNCHANGED <<github, hosted, state, budget>>

\* publish_shared_state: failing is not an error
ReadShared(r) ==
  /\ proc[r].pc = "read_shared"
  /\ proc' = [proc EXCEPT ![r].pc = "write_shared", ![r].post.seen = github.shared, ![r].post.attempts = @ + 1]
  /\ UNCHANGED <<github, local, hosted, state, budget>>

\* Mutant of Merged: the last one to write wins.
MergedLast(post) == [value |-> post.value, at |-> post.at]

Merged(post) == IF post.seen.at >= post.at THEN post.seen ELSE [value |-> post.value, at |-> post.at]

Shared(p) == [p EXCEPT !.pc = p.next, !.next = "none", !.post = NoPost]

\* The content is replaced only where it is what was read.
Unwritten(post) == github.shared # post.seen

WriteShared(r) ==
  /\ proc[r].pc = "write_shared"
  /\ LET post == proc[r].post
         written == Merged(post)
         stale == Unwritten(post)
         again == stale /\ written # post.seen /\ post.attempts < MaxAttempts
     IN /\ github' = IF stale THEN github ELSE [github EXCEPT !.shared = written]
        /\ proc' = [proc EXCEPT ![r] = IF again THEN [@ EXCEPT !.pc = "read_shared"] ELSE Shared(@)]
  /\ UNCHANGED <<local, hosted, state, budget>>

ShareFails(r) ==
  /\ proc[r].pc \in {"read_shared", "write_shared"}
  /\ budget > 0 /\ budget' = budget - 1
  /\ proc' = [proc EXCEPT ![r] = Shared(@)]
  /\ UNCHANGED <<github, local, hosted, state>>

-----------------------------------------------------------------------------
(* Launch *)

\* agent_task_preflight and create_state, or the next sweep's save
Reserved(r, sweep) ==
  [exists |-> TRUE, at |-> local.now + 1, sweep |-> sweep, pr |-> Live, validated |-> 0, cleared |-> FALSE,
   task |-> [status |-> "reserved", run |-> state[r].task.run + 1, decision |-> "none"]]

Reserve(r, sweep) ==
  /\ Saved(r, Reserved(r, sweep))
  /\ proc' = [proc EXCEPT ![r] = [Resting("none") EXCEPT !.pc = "lock", !.next = "dispatch", !.sweep = sweep]]

\* A standalone run has a new file.  The runs are numbered as they come.
LaunchAlone(r) ==
  /\ ~Bounded /\ proc[r].pc = "idle" /\ ~state[r].exists /\ proc[r].exit = "none"
  /\ \A q \in Runs : q < r => state[q].exists \/ proc[q].exit # "none"
  /\ Reserve(r, 1)
  /\ UNCHANGED <<github, hosted, budget>>

\* Only the worker writes the checkpoint of a task.
Checkpointed(r) == hosted[r].asked = state[r].task.run

Resumable == {"running", "result_ready"}

\* Mutant of MayEnter: a failed task does not stand in the way.
MayEnterFailed(r, sweep) == state[r].exists => state[r].sweep < sweep

MayEnter(r, sweep) == state[r].exists => state[r].sweep < sweep /\ state[r].task.status \in {"completed", "head_changed"}

LaunchBounded(r) ==
  /\ Bounded /\ proc[r].pc = "idle"
  /\ \E sweep \in {state[r].sweep, state[r].sweep + 1} \cap (1..MaxSweeps) :
       IF state[r].task.status \in Resumable
       THEN /\ proc' = [proc EXCEPT ![r] =
                 IF state[r].sweep # sweep THEN Resting("error")
                 ELSE [Resting("none") EXCEPT !.sweep = sweep,
                         !.pc = IF ~Checkpointed(r) THEN "error" ELSE IF state[r].task.status = "running" THEN "observe" ELSE "accept"]]
            /\ UNCHANGED <<state, local>>
       ELSE IF MayEnter(r, sweep) THEN Reserve(r, sweep)
       ELSE Exit(r, "error") /\ UNCHANGED <<state, local>>
  /\ UNCHANGED <<github, hosted, budget>>

Dispatch(r) ==
  /\ proc[r].pc = "dispatch"
  /\ SaveAndRefresh(r, [state[r] EXCEPT !.task.status = "running"], "send")

Send(r) ==
  /\ proc[r].pc = "send"
  /\ hosted' = [hosted EXCEPT ![r] = [status |-> "running", pr |-> state[r].pr, decision |-> "none", asked |-> state[r].task.run]]
  /\ Goto(r, IF Bounded THEN "waiting" ELSE "observe")
  /\ UNCHANGED <<github, local, state, budget>>

HostedEnds(r) ==
  /\ hosted[r].status = "running"
  /\ \E status \in {"success", "failure"}, decision \in {"keep", "replace"} :
       hosted' = [hosted EXCEPT ![r].status = status, ![r].decision = IF status = "success" THEN decision ELSE "none"]
  /\ UNCHANGED <<github, local, state, proc, budget>>

Pending(r) == hosted[r].status = "running"

Succeeded(r) == hosted[r].status = "success"

\* A bounded call that finds the result only says so.
Observe(r) ==
  /\ proc[r].pc = "observe"
  /\ IF Pending(r) THEN Bounded /\ Goto(r, "waiting") /\ UNCHANGED <<github, local, hosted, state, budget>>
     ELSE IF ~Succeeded(r) THEN Goto(r, "error") /\ UNCHANGED <<github, local, hosted, state, budget>>
     ELSE IF Bounded THEN SaveAndRefresh(r, [state[r] EXCEPT !.task.status = "result_ready"], "waiting")
     ELSE Goto(r, "accept") /\ UNCHANGED <<github, local, hosted, state, budget>>

-----------------------------------------------------------------------------
(* The recommendation *)

Decision(r) == hosted[r].decision

\* A result for another head, title or body is not adopted.
Accept(r) ==
  /\ proc[r].pc = "accept"
  /\ IF ~Unchanged(state[r].pr) THEN SaveAndRefresh(r, [state[r] EXCEPT !.task.status = "head_changed"], "head_changed")
     ELSE /\ Save(r, [state[r] EXCEPT !.task.status = "validated", !.task.decision = Decision(r)])
          /\ Goto(r, IF Decision(r) = "keep" THEN "keep" ELSE IF local.sourceOnly THEN "clear" ELSE "propose")

\* validate_no_change
Keep(r) ==
  /\ proc[r].pc = "keep"
  /\ IF Unchanged(state[r].pr) THEN SaveAndRefresh(r, [state[r] EXCEPT !.validated = state[r].pr.head], "clear")
     ELSE Goto(r, "error") /\ UNCHANGED <<github, local, hosted, state, budget>>

\* store_proposal
Propose(r) ==
  /\ proc[r].pc = "propose"
  /\ Save(r, [state[r] EXCEPT !.validated = 0]) /\ Goto(r, "check")

\* Mutant of Check: the reads are made, and not compared.
CheckAny(r) ==
  /\ proc[r].pc = "check"
  /\ proc' = [proc EXCEPT ![r].pc = "patch", ![r].read = Len(github.past)]
  /\ UNCHANGED <<github, local, hosted, state, budget>>

\* The two exact reads before the update.
Check(r) ==
  /\ proc[r].pc = "check"
  /\ proc' = [proc EXCEPT ![r].pc = IF Unchanged(state[r].pr) THEN "patch" ELSE "error", ![r].read = Len(github.past)]
  /\ UNCHANGED <<github, local, hosted, state, budget>>

Proposal(r) == [by |-> r, n |-> state[r].task.run]

\* update_pr: GitHub takes no condition here.  An error may come after the fact.
Patch(r) ==
  /\ proc[r].pc = "patch"
  /\ github' = [github EXCEPT !.past = Append(@, [head |-> Live.head, text |-> Proposal(r)])]
  /\ Goto(r, "verify")
  /\ UNCHANGED <<local, hosted, state, budget>>

\* Mutant of Verified: the text is compared, the head is not.
VerifiedText(r) == Live.text = Proposal(r)

Verified(r) == Live = [head |-> state[r].pr.head, text |-> Proposal(r)]

Verify(r) ==
  /\ proc[r].pc = "verify"
  /\ IF Verified(r)
     THEN SaveAndRefresh(r, [state[r] EXCEPT !.pr.text = Proposal(r), !.validated = state[r].pr.head], "clear")
     ELSE Goto(r, "error") /\ UNCHANGED <<github, local, hosted, state, budget>>

Validated(s) == s.validated # 0

\* record_clearance_snapshot, unless nothing was validated
Clear(r) ==
  /\ proc[r].pc = "clear"
  /\ IF Validated(state[r]) /\ ~Unchanged(state[r].pr) THEN Goto(r, "error") /\ UNCHANGED <<github, local, hosted, state, budget>>
     ELSE SaveAndRefresh(r, [state[r] EXCEPT !.task.status = "completed", !.cleared = Validated(state[r])], "finalize")

\* finalize_recommendation_artifacts
Finalize(r) ==
  /\ proc[r].pc = "finalize"
  /\ SaveAndRefresh(r, state[r], "done")

Ended(r) ==
  /\ proc[r].pc \in {"waiting", "head_changed", "done", "failed"}
  /\ Exit(r, IF proc[r].pc = "failed" THEN "error" ELSE proc[r].pc)
  /\ UNCHANGED <<github, local, hosted, state, budget>>

-----------------------------------------------------------------------------
(* Errors, crashes, others *)

\* record_failure.  An error of the reservation leaves no new file, and marks one
\* that was there; an error while the failure is recorded is the last.
Raised(r) ==
  /\ proc[r].pc = "error"
  /\ IF proc[r].next = "dispatch"
     THEN /\ IF state[r].task.run = 1 THEN state' = [state EXCEPT ![r] = NoFile] /\ UNCHANGED local
             ELSE Saved(r, [state[r] EXCEPT !.task.status = "failed"])
          /\ Exit(r, "error") /\ UNCHANGED <<github, hosted, budget>>
     ELSE IF proc[r].next = "failed" THEN Exit(r, "error") /\ UNCHANGED <<github, local, hosted, state, budget>>
     ELSE SaveAndRefresh(r, [state[r] EXCEPT !.task.status = IF Validated(state[r]) THEN "failed_after_mutation" ELSE "failed"], "failed")

\* Any other call may fail, and the wait for the lock may time out.
Fails(r) ==
  /\ proc[r].pc \in {"lock", "update", "dispatch", "send", "observe", "accept", "keep", "propose", "check", "patch", "verify", "clear", "finalize"}
  /\ budget > 0 /\ budget' = budget - 1
  /\ local' = [local EXCEPT !.guard = IF @ = r THEN 0 ELSE @, !.file = IF @ = r THEN 0 ELSE @]
  /\ Goto(r, "error")
  /\ UNCHANGED <<github, hosted, state>>

\* A lock file outlives its process.
Crash(r) ==
  /\ proc[r].pc # "idle" /\ budget > 0 /\ budget' = budget - 1
  /\ local' = [local EXCEPT !.guard = IF @ = r THEN 0 ELSE @, !.file = IF @ = r THEN Dead ELSE @]
  /\ Exit(r, "error")
  /\ UNCHANGED <<github, hosted, state>>

\* Others push to the branch, or edit the title or the body.
OthersMove ==
  /\ budget > 0 /\ budget' = budget - 1
  /\ \E pr \in {[Live EXCEPT !.head = @ + 1], [Live EXCEPT !.text = [by |-> 0, n |-> Len(github.past)]]} :
       github' = [github EXCEPT !.past = Append(@, pr)]
  /\ UNCHANGED <<local, hosted, state, proc>>

\* Nothing is called any more.
Rest == (\A r \in Runs : proc[r].pc = "idle") /\ UNCHANGED vars

Next ==
  \/ \E r \in Runs :
       \/ Lock(r) \/ UpdateIndex(r) \/ ReadShared(r) \/ WriteShared(r) \/ ShareFails(r)
       \/ LaunchAlone(r) \/ LaunchBounded(r) \/ Dispatch(r) \/ Send(r) \/ HostedEnds(r) \/ Observe(r)
       \/ Accept(r) \/ Keep(r) \/ Propose(r) \/ Check(r) \/ Patch(r) \/ Verify(r) \/ Clear(r) \/ Finalize(r)
       \/ Ended(r) \/ Raised(r) \/ Fails(r) \/ Crash(r)
  \/ OthersMove \/ Rest

Spec == Init /\ [][Next]_vars

-----------------------------------------------------------------------------
(* Properties *)

\* A run never asks for a task while its last one may run.
Alone == \A r \in Runs : hosted'[r].asked # hosted[r].asked => hosted[r].status # "running"

\* A run asks once a sweep, whatever call died in between.
AskedOnce == \A r \in Runs : hosted'[r].asked # hosted[r].asked => hosted'[r].asked > hosted[r].asked

BudgetHolds == \A r \in Runs : hosted[r].asked <= state[r].sweep \/ ~state[r].exists

\* Our update writes over nothing that was there, unasked about, when the run last
\* looked.
OverwritesOnlyPinned ==
  \A r \in Runs : Live'.text # Live.text /\ Live'.text = Proposal(r) => github.past[proc[r].read] = state[r].pr

\* The index never goes back to an older run, nor the state repository to an older
\* entry, whatever the order the runs come in.
NeverOlder == local'.index.at >= local.index.at /\ github'.shared.at >= github.shared.at

\* A head on record as settled was live with the title and body on record, and
\* these are what the task kept or what the run wrote.
Settled ==
  \A r \in Runs : state[r].validated # 0 =>
    /\ state[r].pr \in ToSet(github.past) /\ state[r].validated = state[r].pr.head
    /\ hosted[r].pr.head = state[r].validated
    /\ state[r].pr.text = IF hosted[r].decision = "keep" THEN hosted[r].pr.text ELSE Proposal(r)

\* A clearance is recorded only of what the pull request is.
ClearedIsLive == \A r \in Runs : state'[r].cleared /\ ~state[r].cleared => Live = state'[r].pr

\* Where only the source may be changed the pull request keeps its text.  When
\* all runs are over and nothing happened to them, the index speaks for the last of them, and
\* the state repository says the same.
Accounted ==
  /\ local.sourceOnly => \A i \in DOMAIN github.past : github.past[i].text.by = 0
  /\ (\A r \in Runs : proc[r].pc = "idle") /\ budget = MaxEvents =>
       /\ local.index.at = Max({state[r].at : r \in Runs})
       /\ local.index.run # 0 => local.index.validated = state[local.index.run].validated
       /\ ~local.sourceOnly /\ local.index.run # 0 => github.shared.value = local.index.validated
=============================================================================
