--------------------------- MODULE HistoricalAudit ---------------------------
(***************************************************************************)
(* historical_pr_audit.py: a merged pull request is audited by a hosted    *)
(* task, and what the task fixed goes to an audit branch, onto the head    *)
(* that was merged.  Runs may overlap, in one checkout or in two, and      *)
(* share the audit branch; others commit, leave edits, push there, or edit *)
(* the pull request; a run may raise or die.  Left out: how commits and    *)
(* artifacts are verified, the branch's name, cleanup, status.             *)
(***************************************************************************)
EXTENDS Integers, Sequences

CONSTANTS Runs,        \* invocations, each with a state file of its own
          Shared,      \* they work in one checkout
          MaxEvents    \* bound: changes by others

HistoricalAuditAssumption == Runs \subseteq Nat \ {0} /\ Shared \in BOOLEAN /\ MaxEvents \in Nat

VARIABLES github,  \* the pull request and the audit branch
          local,   \* the checkouts: the audit branch, a detached HEAD, edits
          hosted,  \* the task of each run
          state,   \* the state file of each run
          proc,    \* the process of each run
          budget   \* the changes that are left

vars == <<github, local, hosted, state, proc, budget>>

Others == 0

\* A commit: whose commits there are on the merged head, or on the default branch.
Commit(on, by) == [on |-> on, by |-> by]
NoCommit == Commit("none", <<>>)
Fresh == Commit("default", <<>>)
Merged == Commit("merged", <<>>)
NoTask == [status |-> "none", commits |-> FALSE, outcome |-> "none"]
NoFile == [status |-> "none", outcome |-> "none", clean |-> NoCommit]
Started == [pc |-> "launch", pr |-> 0, read |-> NoCommit]

Pcs == {"launch", "prepare", "examine", "detach", "force", "return", "settle", "start", "ask", "collect", "validate", "import", "imported", "publish", "push", "record", "over"}
Statuses == {"none", "preparing", "preparation_failed", "ready", "running", "failed", "failed_without_result", "head_moved",
             "validated_pending_import", "validated", "publication_failed", "completed"}

Preparing == {"prepare", "examine", "detach", "force", "return", "settle"}

Checkouts == IF Shared THEN {1} ELSE Runs
Checkout(r) == IF Shared THEN 1 ELSE r

TypeOK ==
  /\ github.pr \in 0..MaxEvents /\ budget \in 0..MaxEvents
  /\ github.remote.on \in {"none", "merged"} /\ \A i \in DOMAIN github.remote.by : github.remote.by[i] \in Runs \cup {Others}
  /\ \A c \in Checkouts : /\ local[c].head.on \in {"default", "merged"} /\ local[c].away.on \in {"none", "merged"}
                           /\ local[c].dirty \in BOOLEAN
  /\ \A r \in Runs :
       /\ hosted[r].status \in {"none", "running", "completed", "failed"}
       /\ hosted[r].outcome \in {"none", "clean", "exhausted", "incomplete"}
       /\ state[r].status \in Statuses /\ state[r].outcome \in {"none", "clean", "max_iterations_reached", "no_change"}
       /\ proc[r].pc \in Pcs /\ proc[r].pr \in 0..MaxEvents

Init ==
  /\ github = [pr |-> 0, remote |-> NoCommit]
  /\ local = [c \in Checkouts |-> [head |-> Fresh, away |-> NoCommit, dirty |-> FALSE]]
  /\ hosted = [r \in Runs |-> NoTask] /\ state = [r \in Runs |-> NoFile] /\ proc = [r \in Runs |-> Started] /\ budget = MaxEvents

Goto(r, pc) == proc' = [proc EXCEPT ![r].pc = pc]
Save(r, s) == state' = [state EXCEPT ![r] = s] /\ UNCHANGED <<github, hosted, budget>>
End(r, status) ==
  /\ proc' = [proc EXCEPT ![r] = [Started EXCEPT !.pc = "over"]]
  /\ Save(r, [state[r] EXCEPT !.status = status]) /\ UNCHANGED local

\* local_identity
At(r, head) == local[Checkout(r)] = [head |-> head, away |-> NoCommit, dirty |-> FALSE]

\* HEAD, on the audit branch or detached
HeadOf(c) == IF c.away = NoCommit THEN c.head ELSE c.away

Result(r) == IF hosted[r].commits THEN Commit("merged", <<r>>) ELSE Merged

-----------------------------------------------------------------------------
(* Preparation *)

\* The state file is there before the branch can move; it is never entered again.
Launch(r) ==
  /\ proc[r].pc = "launch"
  /\ proc' = [proc EXCEPT ![r] = [Started EXCEPT !.pc = "prepare", !.pr = github.pr]]
  /\ Save(r, [state[r] EXCEPT !.status = "preparing"]) /\ UNCHANGED local

\* Mutant of UniqueWork: the branch is moved whatever it holds.
UniqueWorkNone(head) == FALSE

\* unique_local_work: commits that the remote does not have
UniqueWork(head) == head.by # <<>>

\* A clean checkout of the audit branch; one at the merged head is taken over.
Prepare(r) ==
  LET c == local[Checkout(r)]
  IN /\ proc[r].pc = "prepare"
     /\ IF At(r, Merged) /\ github.remote = NoCommit
        THEN Save(r, [state[r] EXCEPT !.status = "ready"]) /\ Goto(r, "start") /\ UNCHANGED local
        ELSE IF ~c.dirty /\ c.away = NoCommit
        THEN /\ proc' = [proc EXCEPT ![r].pc = "examine", ![r].read = c.head]
             /\ UNCHANGED <<github, local, hosted, state, budget>>
        ELSE End(r, "preparation_failed")

\* No audit branch on the remote, and no work of its own on this one; then commits
\* are fetched.
Examine(r) ==
  LET head == HeadOf(local[Checkout(r)])
  IN /\ proc[r].pc = "examine"
     /\ IF github.remote = NoCommit /\ ~UniqueWork(head)
        THEN /\ proc' = [proc EXCEPT ![r].pc = IF proc[r].read = Merged THEN "settle" ELSE "detach", ![r].read = head]
             /\ UNCHANGED <<github, local, hosted, state, budget>>
        ELSE End(r, "preparation_failed")

\* realign_branch in its three commands: edits are carried along or refused by git,
\* which moves no branch that is checked out.
Realign(r, from, to, away) ==
  /\ proc[r].pc = from
  /\ local' = [local EXCEPT ![Checkout(r)].away = away]
  /\ Goto(r, to) /\ UNCHANGED <<github, hosted, state, budget>>

Detach(r) == Realign(r, "detach", "force", Merged)

MoveBranch(r) ==
  /\ proc[r].pc = "force" /\ local[Checkout(r)].away # NoCommit
  /\ local' = [local EXCEPT ![Checkout(r)].head = Merged]
  /\ Goto(r, "return") /\ UNCHANGED <<github, hosted, state, budget>>

Return(r) == Realign(r, "return", "settle", NoCommit)

Settle(r) ==
  LET c == local[Checkout(r)]
  IN /\ proc[r].pc = "settle"
     /\ IF c.away = NoCommit /\ c.head = Merged
        THEN Save(r, [state[r] EXCEPT !.status = "ready"]) /\ Goto(r, "start") /\ UNCHANGED local
        ELSE End(r, "preparation_failed")

Start(r) ==
  /\ proc[r].pc = "start"
  /\ IF At(r, Merged) THEN Save(r, [state[r] EXCEPT !.status = "running"]) /\ Goto(r, "ask") /\ UNCHANGED local
     ELSE End(r, state[r].status)

-----------------------------------------------------------------------------
(* The hosted task *)

Ask(r) ==
  /\ proc[r].pc = "ask"
  /\ hosted' = [hosted EXCEPT ![r].status = "running"]
  /\ Goto(r, "collect") /\ UNCHANGED <<github, local, state, budget>>

HostedEnds(r) ==
  /\ hosted[r].status = "running"
  /\ hosted' \in {[hosted EXCEPT ![r].status = "failed"]} \cup
       {[hosted EXCEPT ![r] = [status |-> "completed", commits |-> b, outcome |-> o]] : b \in BOOLEAN, o \in {"clean", "exhausted", "incomplete"}}
  /\ UNCHANGED <<github, local, state, proc, budget>>

Collect(r) ==
  /\ proc[r].pc = "collect" /\ hosted[r].status # "running"
  /\ IF hosted[r].status = "completed" THEN Goto(r, "validate") /\ UNCHANGED <<github, local, hosted, state, budget>>
     ELSE End(r, "failed")

CollectNothing(r) == proc[r].pc = "collect" /\ End(r, "failed_without_result")

\* Mutant of Pending: the candidate is noted when it is imported.
PendingUnsaved(s) == s

Pending(s) == [s EXCEPT !.status = "validated_pending_import"]

\* A pull request that was edited meanwhile supersedes the candidate.
Validate(r) ==
  /\ proc[r].pc = "validate"
  /\ IF hosted[r].outcome = "incomplete" \/ ~At(r, Merged) THEN End(r, "failed")
     ELSE IF github.pr # proc[r].pr THEN End(r, "head_moved")
     ELSE Save(r, Pending(state[r])) /\ Goto(r, "import") /\ UNCHANGED local

\* Mutant of MayImport: the checkout is not looked at again.
MayImportAny(r) == TRUE

\* apply_verified_import: what comes after its look, the fast-forward refuses itself
MayImport(r) == At(r, Merged)

Import(r) ==
  /\ proc[r].pc = "import"
  /\ IF MayImport(r)
     THEN /\ local' = [local EXCEPT ![Checkout(r)].head = Result(r)]
          /\ Goto(r, "imported") /\ UNCHANGED <<github, hosted, state, budget>>
     ELSE End(r, "failed")

Imported(r) ==
  /\ proc[r].pc = "imported"
  /\ IF At(r, Result(r)) THEN Save(r, [state[r] EXCEPT !.status = "validated"]) /\ Goto(r, "publish") /\ UNCHANGED local
     ELSE End(r, "failed")

-----------------------------------------------------------------------------
(* Publication *)

\* Mutant of MayPublish: what is on the audit branch is replaced.
MayPublishAny(r) == TRUE

MayPublish(r) == github.remote \in {NoCommit, Result(r)}

Publish(r) ==
  /\ proc[r].pc = "publish"
  /\ IF At(r, Result(r)) /\ github.pr = proc[r].pr /\ (hosted[r].commits => MayPublish(r))
     THEN /\ proc' = [proc EXCEPT ![r].pc = IF hosted[r].commits /\ github.remote # Result(r) THEN "push" ELSE "record",
                                   ![r].read = github.remote]
          /\ UNCHANGED <<github, local, hosted, state, budget>>
     ELSE End(r, "publication_failed")

\* Mutant of Leased: a push without a lease.
LeasedNever(r) == TRUE

Leased(r) == github.remote = proc[r].read

\* What is pushed is HEAD of the checkout, whatever it is by then.
Push(r) ==
  /\ proc[r].pc = "push"
  /\ github' \in {github} \cup IF Leased(r) THEN {[github EXCEPT !.remote = HeadOf(local[Checkout(r)])]} ELSE {}
  /\ Goto(r, "record") /\ UNCHANGED <<local, hosted, state, budget>>

\* Mutant of Outcome: a task that ran out of iterations is done too.
OutcomeClean(task) == IF task.commits THEN "clean" ELSE "no_change"

Outcome(task) ==
  IF task.outcome = "exhausted" THEN "max_iterations_reached" ELSE IF task.commits THEN "clean" ELSE "no_change"

\* Mutant of Landed: the push is not read back.
LandedAny(r) == TRUE

Landed(r) == hosted[r].commits => github.remote = Result(r)

Record(r) ==
  LET outcome == Outcome(hosted[r])
  IN /\ proc[r].pc = "record"
     /\ IF Landed(r)
        THEN /\ Save(r, [status |-> "completed", outcome |-> outcome,
                         clean |-> IF outcome \in {"clean", "no_change"} THEN Result(r) ELSE NoCommit])
             /\ proc' = [proc EXCEPT ![r] = [Started EXCEPT !.pc = "over"]] /\ UNCHANGED local
        ELSE End(r, "publication_failed")

-----------------------------------------------------------------------------
(* Failures and others *)

Raised(r) ==
  \/ proc[r].pc \in Preparing /\ End(r, "preparation_failed")
  \/ proc[r].pc = "ask" /\ End(r, "failed_without_result")
  \/ proc[r].pc \in {"validate", "import", "imported"} /\ End(r, "failed")
  \/ proc[r].pc \in {"publish", "push", "record"} /\ End(r, "publication_failed")

Crash(r) ==
  /\ proc[r].pc # "over" /\ Goto(r, "over")
  /\ UNCHANGED <<github, local, hosted, state, budget>>

\* A commit goes to what is checked out.
Committed(c) ==
  IF c.away = NoCommit THEN [c EXCEPT !.head.by = Append(@, Others)] ELSE [c EXCEPT !.away.by = Append(@, Others)]

OthersMove ==
  /\ budget > 0 /\ budget' = budget - 1
  /\ \/ github' \in {[github EXCEPT !.pr = @ + 1],
                     [github EXCEPT !.remote = Commit("merged", Append(@.by, Others))], [github EXCEPT !.remote = NoCommit]}
        /\ UNCHANGED local
     \/ \E c \in Checkouts : local' \in {[local EXCEPT ![c] = Committed(@)], [local EXCEPT ![c].dirty = ~@]}
        /\ UNCHANGED github
  /\ UNCHANGED <<hosted, state, proc>>

Rest == (\A r \in Runs : proc[r].pc = "over") /\ UNCHANGED vars

Next ==
  \/ \E r \in Runs :
       \/ Launch(r) \/ Prepare(r) \/ Examine(r) \/ Detach(r) \/ MoveBranch(r) \/ Return(r) \/ Settle(r) \/ Start(r) \/ Ask(r)
       \/ HostedEnds(r) \/ Collect(r) \/ CollectNothing(r) \/ Validate(r)
       \/ Import(r) \/ Imported(r) \/ Publish(r) \/ Push(r) \/ Record(r) \/ Raised(r) \/ Crash(r)
  \/ OthersMove \/ Rest

Spec == Init /\ [][Next]_vars

-----------------------------------------------------------------------------
(* Properties *)

\* "this audit refuses to move a branch that carries commits of its own"
WorkIsKept == budget' = budget => \A c \in Checkouts : local'[c].head # local[c].head => local[c].head.by = <<>>
WorkStays == [][WorkIsKept]_vars

\* A step of ours only ever creates the audit branch, and moves the branch of a
\* checkout off someone's commits only in a realignment whose run has seen none there:
\* they were made since unique_local_work looked (proc.read).
NothingLost ==
  budget' = budget =>
    /\ github'.remote # github.remote => github.remote = NoCommit
    /\ \A c \in Checkouts : local'[c].head # local[c].head /\ local[c].head.by # <<>> =>
         \E r \in Runs : Checkout(r) = c /\ proc[r].pc = "force" /\ proc[r].read.by = <<>>

\* A clean head is one that its task declared clean, on the remote if there are
\* commits.
CleanIsEarned ==
  \A r \in Runs : state'[r].clean # NoCommit /\ state[r].clean = NoCommit =>
    /\ hosted[r].outcome = "clean" /\ state'[r].clean = Result(r)
    /\ hosted[r].commits => github.remote = Result(r)

\* What of a run's is in a checkout or on the audit branch is there after its state
\* file says so, and is the branch's first: also what another run of that checkout
\* pushed, as HEAD is what is pushed (publish_agent_task_result).
Accounted ==
  \A r \in Runs :
    LET brought(by) == \E i \in DOMAIN by : by[i] = r
    IN /\ (\E c \in Checkouts : brought(local[c].head.by)) \/ brought(github.remote.by) =>
            state[r].status \in {"validated_pending_import", "validated", "failed", "publication_failed", "completed"}
       /\ brought(github.remote.by) => Head(github.remote.by) = r
=============================================================================
