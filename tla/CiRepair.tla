------------------------------ MODULE CiRepair ------------------------------
(***************************************************************************)
(* ci_fix_loop.py as the command line of an agent: preflight, checks,      *)
(* attribute, rerun, plan, record, skip and publish, each a process of its *)
(* own over one state file.  A command may die or fail between two of its  *)
(* steps and be called again; a command whose only effect is one save is   *)
(* one step.  With Guarded the pull request is a member of a native stack  *)
(* and a push is announced in the state file first (pending_stack_push).   *)
(* Left out: the history (a report), approval of workflow runs, the search *)
(* for commits that disable tests.                                         *)
(***************************************************************************)
EXTENDS Integers, Sequences, SequencesExt, FiniteSets

CONSTANTS Checks,         \* the checks of the pull request
          Baseline,       \* what each of them says on the base commit
          Guarded,        \* a member of a native stack
          MaxIterations,  \* max_iterations
          MaxRuns,        \* bound: how often a check ends at one head
          MaxCommits,     \* bound: commits of ours above the first head
          MaxMoves        \* bound: pushes of others

Verdicts == {"pr_caused", "flake", "pre_existing", "unknown"}

CiRepairAssumption ==
  /\ Baseline \in [Checks -> {"pr_caused", "pre_existing", "unknown"}] /\ Guarded \in BOOLEAN
  /\ {MaxIterations, MaxRuns, MaxCommits, MaxMoves} \subseteq Nat

VARIABLES github,  \* the head of the branch and the checks of that head
          local,   \* the head of the local checkout
          state,   \* the state file
          proc,    \* the memory of the running command
          budget   \* the moves of others that are left

vars == <<github, local, state, proc, budget>>

\* A head is the sequence of its commits: a repair is 0, the first head 1, an amended
\* repair 8, the empty commit of a rerun 9, a commit of others 10 or more.
NoHead == <<>>
EmptyChild(head) == Append(head, 9)

NewChecks == [c \in Checks |-> [class |-> "running", done |-> 0, lag |-> FALSE]]
NoPush == [kind |-> "none", previous |-> NoHead, head |-> NoHead]
NoRerun == [count |-> 0, method |-> "none", head |-> NoHead, seen |-> 0, status |-> "none", commit |-> NoHead]
NoRun == [status |-> "none", head |-> NoHead, charged |-> FALSE, verdict |-> [c \in Checks |-> "none"],
          batch |-> [c \in Checks |-> "none"], commits |-> {}]
Idle == [pc |-> "idle", check |-> "none", seen |-> 0, local |-> NoHead, remote |-> NoHead]

Escalations == {"max_iterations_reached", "head_changed", "blocked", "flake_failed_twice", "pre_existing_failures",
                "unfixable_failure", "no_rerun_support"}
Heads == Seq(Nat)
PushRecord == [kind : {"none", "fix", "ci_rerun"}, previous : Heads, head : Heads]

TypeOK ==
  /\ github.head \in Heads /\ local \in Heads
  /\ github.checks \in [Checks -> [class : {"running", "failed", "passed", "blocked"}, done : 0..MaxRuns, lag : BOOLEAN]]
  /\ state.run.status \in {"none", "active", "published"} /\ state.run.head \in Heads
  /\ state.run.verdict \in [Checks -> Verdicts \cup {"none"}]
  /\ state.run.batch \in [Checks -> {"none", "planned", "recorded", "skipped"}] /\ state.run.commits \subseteq Heads
  /\ state.reruns \in [Checks -> [count : 0..1, method : {"none", "request", "empty_commit"}, head : Heads,
                                  seen : 0..MaxRuns, commit : Heads,
                                  status : {"none", "creating", "prepared", "pushed", "published"}]]
  /\ state.escalation \in Escalations \cup {"none"} /\ state.clean \in Heads /\ state.iterations \in Nat
  /\ state.pending \in PushRecord /\ state.accepted \in Seq(PushRecord) /\ state.charged \in Heads
  /\ proc.pc \in {"idle", "post", "requested", "fallback", "create", "prepare", "announce", "push_empty", "pushed",
                  "confirm_empty", "push", "confirm"}
  /\ proc.check \in Checks \cup {"none"} /\ budget \in 0..MaxMoves

Init ==
  /\ github = [head |-> <<1>>, checks |-> NewChecks]
  /\ local = <<1>>
  /\ state = [run |-> NoRun, reruns |-> [c \in Checks |-> NoRerun], iterations |-> 0, charged |-> NoHead,
              escalation |-> "none", clean |-> NoHead, pending |-> NoPush, accepted |-> <<>>]
  /\ proc = Idle
  /\ budget = MaxMoves

-----------------------------------------------------------------------------
(* The state file. *)

Run == state.run
Active == proc.pc = "idle" /\ Run.status = "active"

\* What the command line asks of the agent: an escalation ends its work.
Working == Active /\ state.escalation = "none"

Save(s) == state' = s /\ UNCHANGED <<github, local, proc, budget>>
Goto(pc) == proc' = [proc EXCEPT !.pc = pc]

\* Mutant of ChargeIteration: a head is charged again by every run.
ChargeEveryRun(s) ==
  IF s.run.charged THEN s
  ELSE [s EXCEPT !.run.charged = TRUE, !.iterations = @ + 1, !.charged = s.run.head]

\* charge_iteration: once for a head, however often it is launched.
ChargeIteration(s) ==
  IF s.run.charged \/ s.charged = s.run.head THEN s
  ELSE [s EXCEPT !.run.charged = TRUE, !.iterations = @ + 1, !.charged = s.run.head]

Pinned(pending) == pending.previous = Run.head

\* accepted_push_checkpoint and what every publication resets.
Published(s, push) ==
  [s EXCEPT !.run.status = "published", !.accepted = Append(@, push), !.clean = NoHead]

\* Mutant of Finalized: the clearance of the old head stays.
FinalizedUncleared(s, push) ==
  [s EXCEPT !.run.status = "published", !.accepted = Append(@, push), !.pending = NoPush,
            !.reruns = [c \in Checks |-> NoRerun]]

\* finalize_pending_stack_push: checkpoint, reset and the end of the
\* announcement in one save.
Finalized(s, push) ==
  [Published(s, push) EXCEPT !.pending = NoPush, !.reruns = [c \in Checks |-> NoRerun]]

\* recover_landed_pending_stack_push: an announced push that landed before.
Landed == state.pending # NoPush /\ Pinned(state.pending) /\ github.head = state.pending.head

\* prepare_pending_stack_push: an announcement is repeated or made, never
\* replaced.
Announced(push) == IF Guarded THEN [state EXCEPT !.pending = push] ELSE state
MayAnnounce(push) == Guarded => state.pending \in {NoPush, push}

-----------------------------------------------------------------------------
(* preflight *)

\* The checkout follows the pull request, never over local work.  A new head
\* forgets the reruns of the old one.  A stack asks for a pending push first.
Preflight ==
  /\ proc.pc = "idle"
  /\ IsPrefix(local, github.head)
  /\ Guarded => state.pending = NoPush
  /\ local' = github.head
  /\ state' = [state EXCEPT
       !.run = [NoRun EXCEPT !.status = "active", !.head = github.head],
       !.reruns = IF Run.status # "none" /\ Run.head # github.head THEN [c \in Checks |-> NoRerun] ELSE @,
       !.clean = NoHead,
       !.escalation = IF state.iterations >= MaxIterations /\ state.charged # github.head
                      THEN "max_iterations_reached" ELSE "none"]
  /\ UNCHANGED <<github, proc, budget>>

-----------------------------------------------------------------------------
(* checks: one reading of the checks, and what it asks for. *)

\* Mutant of Stale: any failure at the head counts.
StaleNever(c) == state.reruns[c].count = 2

\* rerun_evidence_is_stale: the failure was there when the rerun was asked for.
Stale(c) ==
  /\ state.reruns[c].count = 1 /\ state.reruns[c].head = Run.head
  /\ github.checks[c].done <= state.reruns[c].seen

\* apply_rerun_watermark
Class(c) ==
  IF github.checks[c].class = "failed" /\ Stale(c) THEN "running" ELSE github.checks[c].class

Failed == {c \in Checks : Class(c) = "failed"}

\* decide, without the failures.
Decision ==
  IF \E c \in Checks : Class(c) = "blocked" THEN "escalate"
  ELSE IF \E c \in Checks : Class(c) = "running" THEN "waiting"
  ELSE "green"

\* allowed_verdicts
Allowed(c) ==
  CASE Baseline[c] = "pre_existing" -> {"pre_existing"}
    [] Baseline[c] = "pr_caused" -> {"pr_caused", "flake"}
    [] OTHER -> Verdicts

\* attribute_failures: the verdict of the agent stays, the base decides the rest.
Attributed(c) ==
  IF c \notin Failed THEN "none" ELSE IF Run.verdict[c] = "none" THEN Baseline[c] ELSE Run.verdict[c]

\* next_action, for failures.
NextAction ==
  LET flakes == {c \in Failed : Attributed(c) = "flake"} IN
  IF \E c \in Failed : Attributed(c) = "pr_caused" /\ Run.batch[c] # "recorded" THEN "fix"
  ELSE IF \E c \in flakes : state.reruns[c].count < 1 THEN "rerun"
  ELSE IF \E c \in Failed : Attributed(c) = "unknown" THEN "attribute"
  ELSE IF flakes # {} THEN "flake_failed_twice"
  ELSE IF \E c \in Failed : Attributed(c) = "pre_existing"
  THEN IF \E c \in Checks : Class(c) = "running" THEN "waiting" ELSE "pre_existing_failures"
  ELSE "unfixable_failure"

\* command_checks
CommandChecks ==
  /\ Working
  /\ IF github.head # Run.head THEN Save([state EXCEPT !.escalation = "head_changed"])
     ELSE IF Failed = {}
     THEN CASE Decision = "escalate" -> Save([state EXCEPT !.escalation = "blocked"])
            [] Decision = "green" -> Save([state EXCEPT !.clean = Run.head, !.escalation = "none"])
            [] OTHER -> Save(state)
     ELSE LET attributed == [state EXCEPT !.run.verdict = [c \in Checks |-> Attributed(c)]] IN
          Save(IF NextAction \in {"fix", "rerun", "attribute"} THEN ChargeIteration(attributed)
               ELSE IF NextAction = "waiting" THEN attributed
               ELSE [attributed EXCEPT !.escalation = NextAction])

\* command_resolve: a clearance on the agent's word is read again first.
Resolve ==
  /\ Active
  /\ github.head = Run.head /\ Failed = {} /\ Decision = "green"
  /\ Save([state EXCEPT !.clean = Run.head, !.escalation = "none"])

-----------------------------------------------------------------------------
(* attribute, plan, record, skip, escalate: one save each. *)

Attribute ==
  /\ Working
  /\ \E c \in Checks, verdict \in Verdicts :
       Run.verdict[c] = "unknown" /\ verdict \in Allowed(c) /\ Save([state EXCEPT !.run.verdict[c] = verdict])

Plan ==
  /\ Working
  /\ \E c \in Checks : Run.verdict[c] = "pr_caused" /\ Save([state EXCEPT !.run.batch[c] = "planned"])

\* The batch names the commit the agent just made, or only a rationale.
Record ==
  /\ Working
  /\ \E c \in Checks, commits \in {{}, {local}} :
       Run.batch[c] # "none" /\ Save([state EXCEPT !.run.batch[c] = "recorded", !.run.commits = @ \cup commits])

Skip ==
  /\ Working
  /\ \E c \in Checks :
       Run.batch[c] # "none" /\ Save([state EXCEPT !.run.batch[c] = "skipped", !.escalation = "unfixable_failure"])

-----------------------------------------------------------------------------
(* rerun *)

\* A finished rerun is only reported again; an unfinished empty commit goes on;
\* otherwise the check must have its one retry left.  The watermark is taken
\* before the request.
Rerun ==
  /\ Working
  /\ \E c \in Checks :
       LET previous == state.reruns[c] IN
       /\ Run.verdict[c] = "flake"
       /\ IF previous.method = "empty_commit" /\ previous.head = Run.head /\ previous.status # "published"
          THEN proc' = [Idle EXCEPT !.pc = "fallback", !.check = c] /\ UNCHANGED state
          ELSE /\ previous.count = 0
               /\ \/ proc' = [Idle EXCEPT !.pc = "post", !.check = c, !.seen = github.checks[c].done] /\ UNCHANGED state
                  \/ state' = [state EXCEPT !.escalation = "no_rerun_support"] /\ UNCHANGED proc
  /\ UNCHANGED <<github, local, budget>>

\* rerun_failed_jobs: the run starts again later, or GitHub denies it.
Post ==
  /\ proc.pc = "post"
  /\ LET check == github.checks[proc.check] IN
     \/ /\ Goto("requested")
        /\ github' = IF github.head = Run.head /\ check.class = "failed" /\ check.done < MaxRuns
                     THEN [github EXCEPT !.checks[proc.check].lag = TRUE] ELSE github
     \/ Goto("fallback") /\ UNCHANGED github
  /\ UNCHANGED <<local, state, budget>>

Requested ==
  /\ proc.pc = "requested"
  /\ state' = [state EXCEPT !.reruns[proc.check] =
                 [NoRerun EXCEPT !.count = 1, !.method = "request", !.head = Run.head, !.seen = proc.seen]]
  /\ proc' = Idle
  /\ UNCHANGED <<github, local, budget>>

\* publish_empty_rerun_commit, up to its first save.
Fallback ==
  /\ proc.pc = "fallback"
  /\ LET entry == state.reruns[proc.check]
         reading == [proc EXCEPT !.pc = "create", !.local = local, !.remote = github.head] IN
     IF Landed
     THEN /\ state.pending.kind = "ci_rerun"
          /\ state' = Finalized(state, state.pending) /\ proc' = Idle
     ELSE /\ state.pending # NoPush => Pinned(state.pending)
          /\ IF entry = NoRerun
             THEN /\ local = Run.head /\ github.head = Run.head
                  /\ state' = [state EXCEPT !.reruns[proc.check] =
                                 [NoRerun EXCEPT !.count = 1, !.method = "empty_commit", !.head = Run.head,
                                                 !.seen = proc.seen, !.status = "creating"]]
             ELSE /\ entry.method = "empty_commit" /\ entry.head = Run.head /\ entry.status # "published"
                  /\ UNCHANGED state
          /\ proc' = reading
  /\ UNCHANGED <<github, local, budget>>

\* A commit that an earlier call made is taken over, one on record kept.
Create ==
  /\ proc.pc = "create"
  /\ IF state.reruns[proc.check].commit = NoHead /\ proc.local = Run.head
     THEN proc.remote = Run.head /\ Len(local) <= MaxCommits /\ local' = EmptyChild(local)
     ELSE UNCHANGED local
  /\ Goto("prepare")
  /\ UNCHANGED <<github, state, budget>>

\* require_empty_child, then the commit is on record.
Prepare ==
  /\ proc.pc = "prepare"
  /\ LET entry == state.reruns[proc.check]
         commit == IF entry.commit = NoHead THEN local ELSE entry.commit IN
     /\ commit = EmptyChild(Run.head)
     /\ state' = IF entry.commit = commit /\ entry.status # "creating" THEN state
                 ELSE [state EXCEPT !.reruns[proc.check].commit = commit, !.reruns[proc.check].status = "prepared"]
  /\ Goto("announce")
  /\ UNCHANGED <<github, local, budget>>

EmptyPush == [kind |-> "ci_rerun", previous |-> Run.head, head |-> EmptyChild(Run.head)]

AnnounceEmpty ==
  /\ proc.pc = "announce"
  /\ MayAnnounce(EmptyPush) /\ state' = Announced(EmptyPush)
  /\ proc.remote \in {Run.head, EmptyPush.head}
  /\ proc.remote = Run.head => local = EmptyPush.head
  /\ Goto(IF proc.remote = Run.head THEN "push_empty" ELSE "confirm_empty")
  /\ UNCHANGED <<github, local, budget>>

\* git push without force.
PushEmpty ==
  /\ proc.pc = "push_empty"
  /\ IsPrefix(github.head, local)
  /\ github' = IF github.head = local THEN github ELSE [head |-> local, checks |-> NewChecks]
  /\ Goto("pushed")
  /\ UNCHANGED <<local, state, budget>>

Pushed ==
  /\ proc.pc = "pushed"
  /\ state' = [state EXCEPT !.reruns[proc.check].status = "pushed"]
  /\ Goto("confirm_empty")
  /\ UNCHANGED <<github, local, budget>>

ConfirmEmpty ==
  /\ proc.pc = "confirm_empty"
  /\ github.head = EmptyPush.head
  /\ state' = IF Guarded THEN Finalized(state, state.pending)
              ELSE Published([state EXCEPT !.reruns[proc.check].status = "published"], EmptyPush)
  /\ proc' = Idle
  /\ UNCHANGED <<github, local, budget>>

-----------------------------------------------------------------------------
(* publish *)

FixPush == [kind |-> "fix", previous |-> Run.head, head |-> local]

\* Mutant of Publish: the push is not announced.
PublishUnannounced ==
  /\ Working
  /\ IF Landed
     THEN state' = Finalized(state, state.pending) /\ UNCHANGED proc
     ELSE /\ \A c \in Checks : Run.batch[c] \in {"none", "recorded"}
          /\ Run.commits # {} /\ Run.commits = Prefixes(local) \ Prefixes(Run.head)
          /\ github.head \in {Run.head, local}
          /\ UNCHANGED state
          /\ proc' = [Idle EXCEPT !.pc = "push", !.remote = github.head]
  /\ UNCHANGED <<github, local, budget>>

\* A push that landed before is finished; otherwise the local commits must be
\* exactly the recorded ones, and nothing may be planned or skipped.
Publish ==
  /\ Working
  /\ IF Landed
     THEN state' = Finalized(state, state.pending) /\ UNCHANGED proc
     ELSE /\ state.pending # NoPush => Pinned(state.pending)
          /\ \A c \in Checks : Run.batch[c] \in {"none", "recorded"}
          /\ Run.commits # {} /\ Run.commits = Prefixes(local) \ Prefixes(Run.head)
          /\ github.head \in {Run.head, local}
          /\ MayAnnounce(FixPush) /\ state' = Announced(FixPush)
          /\ proc' = [Idle EXCEPT !.pc = "push", !.remote = github.head]
  /\ UNCHANGED <<github, local, budget>>

\* Mutant of Push: the push is forced.
PushForced ==
  /\ proc.pc = "push"
  /\ github' = IF proc.remote = local THEN github ELSE [head |-> local, checks |-> NewChecks]
  /\ Goto("confirm")
  /\ UNCHANGED <<local, state, budget>>

Push ==
  /\ proc.pc = "push"
  /\ IF proc.remote = local \/ github.head = local THEN UNCHANGED github
     ELSE IsPrefix(github.head, local) /\ github' = [head |-> local, checks |-> NewChecks]
  /\ Goto("confirm")
  /\ UNCHANGED <<local, state, budget>>

Confirm ==
  /\ proc.pc = "confirm"
  /\ github.head = local
  /\ state' = IF Guarded THEN Finalized(state, state.pending)
              ELSE [Published(state, FixPush) EXCEPT !.reruns = [c \in Checks |-> NoRerun]]
  /\ proc' = Idle
  /\ UNCHANGED <<github, local, budget>>

\* handle_active_stack_member: stack-next finishes a push that landed; of one
\* that did not it asks to call the command again, or it stops.
StackNext ==
  /\ proc.pc = "idle" /\ Guarded /\ Run.status = "active"
  /\ Save(IF Landed THEN Finalized(state, state.pending) ELSE state)

-----------------------------------------------------------------------------
(* The agent at its checkout, a command that ends early, GitHub, others. *)

\* The agent commits for a plan, amends a recorded commit, or drops commits that
\* keep preflight from starting.
Edit ==
  /\ proc.pc = "idle"
  /\ \/ /\ Working /\ \E c \in Checks : Run.batch[c] = "planned"
        /\ Len(local) <= MaxCommits /\ local' = Append(local, 0)
     \/ /\ Working /\ local \in Run.commits /\ local # github.head /\ Last(local) = 0
        /\ local' = [local EXCEPT ![Len(local)] = 8]
     \/ ~IsPrefix(local, github.head) /\ local' = github.head
  /\ UNCHANGED <<github, state, proc, budget>>

\* A command dies, or one of its conditions fails.
Stop ==
  /\ proc.pc # "idle" /\ proc' = Idle
  /\ UNCHANGED <<github, local, state, budget>>

ChecksMove ==
  /\ \E c \in Checks :
       LET check == github.checks[c] IN
       \/ /\ check.class = "running" /\ check.done < MaxRuns
          /\ \E class \in {"failed", "passed", "blocked"} :
               github' = [github EXCEPT !.checks[c].class = class, !.checks[c].done = @ + 1]
       \/ check.lag /\ github' = [github EXCEPT !.checks[c].class = "running", !.checks[c].lag = FALSE]
  /\ UNCHANGED <<local, state, proc, budget>>

OthersMove ==
  /\ budget > 0 /\ budget' = budget - 1
  /\ \E head \in {Append(github.head, budget + 9), <<budget + 9>>} : github' = [head |-> head, checks |-> NewChecks]
  /\ UNCHANGED <<local, state, proc>>

Next ==
  \/ Preflight \/ CommandChecks \/ Resolve \/ Attribute \/ Plan \/ Record \/ Skip
  \/ Rerun \/ Post \/ Requested \/ Fallback \/ Create \/ Prepare \/ AnnounceEmpty \/ PushEmpty \/ Pushed \/ ConfirmEmpty
  \/ Publish \/ Push \/ Confirm \/ StackNext \/ Edit \/ Stop \/ ChecksMove \/ OthersMove

Spec == Init /\ [][Next]_vars

-----------------------------------------------------------------------------
(* Properties *)

\* The iterations of the pull request stay within the limit, although a head
\* may be launched any number of times (charge_iteration, command_preflight).
BudgetHolds == state.iterations <= MaxIterations

\* A clearance is one of the head that the run is about, and it is recorded only
\* when every check passed there; it does not outlive a publication.
Cleared == state.clean # NoHead => Run.status = "active" /\ state.clean = Run.head
ClearedWhenGreen ==
  state'.clean # NoHead /\ state.clean = NoHead =>
    github.head = state'.clean /\ \A c \in Checks : github.checks[c].class = "passed"

\* "Failed twice" is only said of a check that ended twice at this head: the
\* failure that was there when its rerun was asked for is not counted again
\* (apply_rerun_watermark).
TwiceIsTwice ==
  state'.escalation = "flake_failed_twice" /\ state.escalation # "flake_failed_twice" =>
    \E c \in Checks : github.checks[c].class = "failed" /\ github.checks[c].done >= 2

\* A push only extends the branch.
Pushes == proc.pc \in {"push", "push_empty"} /\ github'.head = local /\ github.head # local
Extends == Pushes => IsPrefix(github.head, github'.head)

\* No push is recorded twice, whatever was interrupted and called again; and in
\* a stack every commit of ours on the branch is one that the state file
\* announces or has accepted.
CheckpointOnce == \A i, j \in DOMAIN state.accepted : state.accepted[i] = state.accepted[j] => i = j
Accounted ==
  Guarded /\ Last(github.head) \in {0, 8, 9} =>
    github.head \in {state.pending.head} \cup {state.accepted[i].head : i \in DOMAIN state.accepted}
=============================================================================
