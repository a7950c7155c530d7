------------------------------ MODULE PrReviewer ------------------------------
(***************************************************************************)
(* pr_reviewer.py: one hosted task discovers findings, a second one        *)
(* criticizes them, and what is left becomes one pending review of the     *)
(* viewer.  Runs may overlap; meanwhile the head, the title, the base and  *)
(* the viewer's pending review change, and a run may die at any step.      *)
(* Left out: permissions, the location and wording of comments beyond      *)
(* whether the diff still has them, artifacts of the tasks, the checkout.  *)
(***************************************************************************)
EXTENDS Integers

CONSTANTS Runs,        \* invocations
          Candidates,  \* what there is to find
          MaxEvents    \* bound: changes by others

PrReviewerAssumption == Runs \subseteq Nat \ {0} /\ MaxEvents \in Nat

VARIABLES github,  \* the pull request and the pending review of the viewer
          local,   \* the mutation guards claimed
          hosted,  \* the tasks of each run
          state,   \* the state file of each run
          proc,    \* the process of each run
          budget   \* the changes that are left

vars == <<github, local, hosted, state, proc, budget>>

\* The base has moved "at" times along a line, and with it candidates left the diff.
NoBase == [line |-> 0, at |-> 0, gone |-> {}]
NoPr == [head |-> 0, text |-> 0, base |-> NoBase]
NoReview == [by |-> 0, commit |-> 0, comments |-> {}]
Viewer == -1  \* the viewer without a run
NoTask == [status |-> "none", seen |-> NoPr, out |-> {}]
NoHosted == [discovery |-> NoTask, critique |-> NoTask]
NoFile == [exists |-> FALSE, pr |-> NoPr, phase |-> "none", status |-> "none", observed |-> NoPr, refreshed |-> FALSE,
           candidates |-> {}, comments |-> {}, mutation |-> "not_attempted", outcome |-> "none"]
Started == [pc |-> "check", read |-> NoPr, anchors |-> {}]
Resting == [Started EXCEPT !.pc = "over"]

Pcs == {"check", "begin", "ask", "collect", "refresh", "discovered", "ready", "post", "guard", "claim", "send", "created", "verify", "over"}
Outcomes == {"none", "existing_pending_review", "no_findings", "ready", "incomplete", "created_pending_review", "error"}

TypeOK ==
  /\ github.pending.by \in Runs \cup {0, Viewer} /\ github.pending.comments \subseteq Candidates
  /\ local \subseteq Runs /\ budget \in 0..MaxEvents
  /\ \A r \in Runs :
       /\ \A p \in {"discovery", "critique"} : hosted[r][p].status \in {"none", "running", "completed", "failed"}
       /\ state[r].phase \in {"none", "discovery", "critique"}
       /\ state[r].status \in {"none", "running", "completed", "failed", "head_changed"}
       /\ state[r].candidates \subseteq Candidates /\ state[r].comments \subseteq Candidates
       /\ state[r].mutation \in {"not_attempted", "attempted", "created", "created_unverified", "verified"}
       /\ state[r].outcome \in Outcomes /\ proc[r].pc \in Pcs /\ proc[r].anchors \subseteq Candidates

Init ==
  /\ github = [pr |-> NoPr, pending |-> NoReview]
  /\ local = {} /\ hosted = [r \in Runs |-> NoHosted] /\ state = [r \in Runs |-> NoFile]
  /\ proc = [r \in Runs |-> Started] /\ budget = MaxEvents

Live == github.pr
Anchors(base) == Candidates \ base.gone

\* live_base_contains
Advanced(from, to) == from.line = to.line /\ from.at <= to.at

\* Mutant of SameCandidate: the head alone is compared.
SameHead(expected, actual) == expected.head = actual.head

SameCandidate(expected, actual) ==
  expected.head = actual.head /\ expected.text = actual.text /\ Advanced(expected.base, actual.base)

Goto(r, pc) == proc' = [proc EXCEPT ![r].pc = pc]
Save(r, s) == state' = [state EXCEPT ![r] = s] /\ UNCHANGED <<github, hosted, budget>>
End(r, s) == proc' = [proc EXCEPT ![r] = Resting] /\ Save(r, s) /\ UNCHANGED local
Fail(r) == End(r, [state[r] EXCEPT !.outcome = "error", !.status = IF state[r].exists /\ state[r].outcome = "none" THEN "failed" ELSE @])

-----------------------------------------------------------------------------
(* Check *)

\* preflight: a pending review of the viewer is the end.
Check(r) ==
  /\ proc[r].pc = "check"
  /\ IF github.pending.by # 0 THEN End(r, [state[r] EXCEPT !.outcome = "existing_pending_review"])
     ELSE /\ Save(r, [state[r] EXCEPT !.exists = TRUE, !.pr = Live])
          /\ proc' = [proc EXCEPT ![r] = [pc |-> "begin", read |-> Live, anchors |-> Anchors(Live.base)]]
          /\ UNCHANGED local

NextPhase(phase) == IF phase = "none" THEN "discovery" ELSE "critique"

\* A source that changed leaves a result that says so.
SourceChanged(r, s) == End(r, [s EXCEPT !.status = "head_changed", !.outcome = "incomplete"])

BeginPhase(r) ==
  /\ proc[r].pc = "begin"
  /\ LET s == [state[r] EXCEPT !.phase = NextPhase(@), !.status = "running"]
     IN IF SameCandidate(s.pr, Live) THEN Save(r, s) /\ Goto(r, "ask") /\ UNCHANGED local ELSE SourceChanged(r, s)

\* The task pins the source that it finds; title and body are in its prompt.
Ask(r) ==
  /\ proc[r].pc = "ask"
  /\ hosted' = [hosted EXCEPT ![r][state[r].phase] =
       [status |-> "running", seen |-> [Live EXCEPT !.text = state[r].pr.text], out |-> {}]]
  /\ Goto(r, "collect") /\ UNCHANGED <<github, local, state, budget>>

HostedEnds(r, phase) ==
  /\ hosted[r][phase].status = "running"
  /\ \/ hosted' = [hosted EXCEPT ![r][phase].status = "failed"]
     \/ \E out \in SUBSET Candidates : hosted' = [hosted EXCEPT ![r][phase].status = "completed", ![r][phase].out = out]
  /\ UNCHANGED <<github, local, state, proc, budget>>

\* verify_current_candidate
Verified(pr, task) == task.status = "completed" /\ task.seen.head = pr.head /\ Advanced(pr.base, task.seen.base)

Collect(r) ==
  /\ proc[r].pc = "collect"
  /\ LET task == hosted[r][state[r].phase]
         s == [state[r] EXCEPT !.status = "completed", !.observed = Live]
     IN /\ task.status # "running"
        /\ IF ~Verified(s.pr, task) THEN Fail(r)
           ELSE IF ~SameCandidate(s.pr, Live) THEN SourceChanged(r, state[r])
           ELSE /\ Save(r, s) /\ UNCHANGED local
                /\ Goto(r, IF s.phase = "critique" THEN "ready" ELSE IF Live.base # s.pr.base THEN "refresh" ELSE "discovered")

\* A target that advanced since is read again, anchors with it.
Refresh(r) ==
  /\ proc[r].pc = "refresh"
  /\ IF github.pending.by = 0 /\ SameCandidate(state[r].pr, Live) /\ Live.base = state[r].observed.base
     THEN /\ Save(r, [state[r] EXCEPT !.pr = Live, !.refreshed = TRUE])
          /\ Goto(r, "discovered") /\ UNCHANGED local
     ELSE Fail(r)

\* Mutant of Stale: nothing found is no findings.
StaleNever(s, found) == FALSE

\* Nothing found on a base that is no longer the base is no clearance.
Stale(s, found) == s.refreshed /\ found = {}

NothingFound(r, s) == End(r, [s EXCEPT !.outcome = IF Stale(s, {}) THEN "incomplete" ELSE "no_findings"])

\* ReviewBatch.discover: candidates that the diff lost are dropped.
Kept(s, out) == out \cap Anchors(s.pr.base)

Discovered(r) ==
  /\ proc[r].pc = "discovered"
  /\ LET out == hosted[r].discovery.out
         s == [state[r] EXCEPT !.candidates = Kept(state[r], out)]
     IN IF ~(out \subseteq proc[r].anchors) THEN Fail(r)
        ELSE IF s.candidates = {} THEN NothingFound(r, s)
        ELSE Save(r, s) /\ Goto(r, "begin") /\ UNCHANGED local

\* Mutant of Selected: the critique changes words only.
SelectedAll(s, out) == s.candidates

\* ReviewBatch.select
Selected(s, out) == out

Ready(r) ==
  /\ proc[r].pc = "ready"
  /\ LET out == hosted[r].critique.out
         s == [state[r] EXCEPT !.comments = Selected(state[r], out)]
     IN IF ~(out \subseteq s.candidates) THEN Fail(r)
        ELSE IF s.comments = {} THEN NothingFound(r, s)
        ELSE Save(r, [s EXCEPT !.outcome = "ready"]) /\ Goto(r, "post") /\ UNCHANGED local

-----------------------------------------------------------------------------
(* Post *)

ReadOnly(r) == proc[r].pc = "post" /\ End(r, state[r])

Post(r) ==
  /\ proc[r].pc = "post"
  /\ IF Live.head # state[r].pr.head THEN Fail(r)
     ELSE IF github.pending.by # 0 THEN End(r, [state[r] EXCEPT !.outcome = "existing_pending_review"])
     ELSE IF SameCandidate(state[r].pr, Live) /\ state[r].comments \subseteq Anchors(Live.base)
     THEN Goto(r, "guard") /\ UNCHANGED <<github, local, hosted, state, budget>>
     ELSE Fail(r)

LastLook(r) ==
  /\ proc[r].pc = "guard"
  /\ IF SameCandidate(state[r].pr, Live)
     THEN proc' = [proc EXCEPT ![r].pc = "claim", ![r].read = Live] /\ UNCHANGED <<github, local, hosted, state, budget>>
     ELSE Fail(r)

\* Mutant of Claimed: the state file follows the review.
ClaimedLate(s) == s

Claimed(s) == [s EXCEPT !.mutation = "attempted"]

ClaimMutation(r) ==
  /\ proc[r].pc = "claim" /\ r \notin local
  /\ local' = local \cup {r} /\ Save(r, Claimed(state[r])) /\ Goto(r, "send")

\* The viewer has one pending review: GitHub refuses another.
Send(r) ==
  /\ proc[r].pc = "send"
  /\ IF github.pending.by # 0 THEN Fail(r)
     ELSE /\ github' = [github EXCEPT !.pending = [by |-> r, commit |-> state[r].pr.head, comments |-> state[r].comments]]
          /\ Goto(r, "created") /\ UNCHANGED <<local, hosted, state, budget>>

Created(r) ==
  /\ proc[r].pc = "created"
  /\ Save(r, [state[r] EXCEPT !.mutation = "created"]) /\ Goto(r, "verify") /\ UNCHANGED local

\* Mutant of Landed: the head is not read again.
LandedAnywhere(r) == github.pending = [by |-> r, commit |-> state[r].pr.head, comments |-> state[r].comments]

\* verify_created_review
Landed(r) ==
  /\ github.pending = [by |-> r, commit |-> state[r].pr.head, comments |-> state[r].comments]
  /\ Live.head = state[r].pr.head

VerifyCreated(r) ==
  /\ proc[r].pc = "verify"
  /\ End(r, IF Landed(r) THEN [state[r] EXCEPT !.mutation = "verified", !.outcome = "created_pending_review"]
            ELSE [state[r] EXCEPT !.mutation = "created_unverified", !.outcome = "error"])

-----------------------------------------------------------------------------
(* Failures and others *)

\* A read or a save fails, or the answer of the POST is lost.
Raised(r) == proc[r].pc \in {"check", "ask", "collect", "refresh", "post", "guard", "claim", "created"} /\ Fail(r)

Crash(r) ==
  /\ proc[r].pc # "over" /\ proc' = [proc EXCEPT ![r] = Resting]
  /\ UNCHANGED <<github, local, hosted, state, budget>>

OthersMove ==
  /\ budget > 0 /\ budget' = budget - 1
  /\ github' \in {[github EXCEPT !.pr.head = @ + 1], [github EXCEPT !.pr.text = @ + 1], [github EXCEPT !.pr.base.line = @ + 1]}
       \cup {[github EXCEPT !.pr.base.at = @ + 1, !.pr.base.gone = @ \cup s] : s \in SUBSET Candidates}
       \cup {[github EXCEPT !.pending = IF @.by = 0 THEN [NoReview EXCEPT !.by = Viewer] ELSE NoReview]}
  /\ UNCHANGED <<local, hosted, state, proc>>

Rest == (\A r \in Runs : proc[r].pc = "over") /\ UNCHANGED vars

Next ==
  \/ \E r \in Runs :
       \/ Check(r) \/ BeginPhase(r) \/ Ask(r) \/ (\E phase \in {"discovery", "critique"} : HostedEnds(r, phase)) \/ Collect(r)
       \/ Refresh(r) \/ Discovered(r) \/ Ready(r) \/ ReadOnly(r) \/ Post(r) \/ LastLook(r) \/ ClaimMutation(r)
       \/ Send(r) \/ Created(r) \/ VerifyCreated(r) \/ Raised(r) \/ Crash(r)
  \/ OthersMove \/ Rest

Spec == Init /\ [][Next]_vars

-----------------------------------------------------------------------------
(* Properties *)

\* A pending review of a run is on record, of the head that both its tasks saw, and
\* has what the second one left of what the first one found.
Accounted ==
  \A r \in Runs : github.pending.by = r =>
    /\ state[r].mutation # "not_attempted"
    /\ \A p \in {"discovery", "critique"} : hosted[r][p].seen.head = github.pending.commit
    /\ github.pending.comments = hosted[r].critique.out
    /\ github.pending.comments # {} /\ github.pending.comments \subseteq hosted[r].discovery.out

\* A review replaces none, and is of the source that the first task was asked about
\* as the last look showed it.
SourceKept ==
  \A r \in Runs : github'.pending.by = r /\ github.pending.by # r =>
    /\ github.pending.by = 0
    /\ proc[r].read.text = hosted[r].discovery.seen.text /\ proc[r].read.head = hosted[r].discovery.seen.head

\* That nothing was found is said of the base that the tasks were asked about; a
\* review is verified while it stands, on the live head.
VerdictHolds ==
  \A r \in Runs :
    /\ state'[r].outcome = "no_findings" /\ state[r].outcome = "none" => hosted[r].discovery.seen = state[r].pr
    /\ state'[r].mutation = "verified" /\ state[r].mutation # "verified" =>
         github.pending.by = r /\ Live.head = github.pending.commit
=============================================================================
