------------------------------- MODULE CiStack -------------------------------
(***************************************************************************)
(* The native stack run of ci_fix_loop.py: stack-next, stack-record,       *)
(* stack-propagate, stack-format and stack-status walk the members from    *)
(* the bottom to the top over one coordinator file, while the commands of  *)
(* a member (CiRepair has their detail) repair it over a file of its own.  *)
(* One command runs at a time and may die between its steps; the pull      *)
(* requests, their checks and the stack move at any time.                  *)
(***************************************************************************)
EXTENDS Integers, FiniteSets, FiniteSetsExt

CONSTANTS N,           \* members of the stack
          MaxCommits,  \* bound: commits ever made
          MaxMoves     \* bound: moves of others

CiStackAssumption == N \in Nat \ {0} /\ MaxCommits \in Nat /\ MaxCommits >= N /\ MaxMoves \in Nat

VARIABLES github,  \* the live members, the topology and the commits made so far
          local,   \* the state file of each member
          state,   \* the coordinator's file
          proc,    \* the memory of the running command and what the agent was told
          budget   \* the moves of others that are left

vars == <<github, local, state, proc, budget>>

Members == 1..N

\* A head is the set of the commits it contains: commit_contains is \subseteq.
Commits == 1..MaxCommits
NoHead == {}
NoPush == [previous |-> NoHead, head |-> NoHead]
NoAsk == [fixed |-> 0, head |-> NoHead]
NoFile == [guard |-> NoHead, clean |-> NoHead, pending |-> NoPush, accepted |-> {}, retired |-> {}]
Resting == [pc |-> "idle", seen |-> [m \in Members |-> NoHead], fixed |-> 0, head |-> NoHead, push |-> FALSE]

Heads == SUBSET Commits
PushRecord == [previous : Heads, head : Heads]

TypeOK ==
  /\ github.head \in [Members -> Heads] /\ github.red \subseteq Members /\ github.changed \in BOOLEAN
  /\ github.serial \in N..MaxCommits /\ github.ours \subseteq Heads
  /\ local \in [Members -> [guard : Heads, clean : Heads, pending : PushRecord, accepted : SUBSET Heads,
                            retired : SUBSET Heads]]
  /\ state.status \in {"active", "complete", "stopped"} /\ state.cursor \in 1..(N + 1)
  /\ state.ci \in [Members -> {"pending", "active", "clear", "blocked"}]
  /\ state.clean \in [Members -> Heads] /\ state.sent \in [Members -> Heads]
  /\ state.propagated \subseteq Members \X Heads
  /\ {state.format, state.conflict} \subseteq [fixed : 0..N, head : Heads]
  /\ proc.pc \in {"idle", "next", "record", "status", "propagate", "resolver", "contained", "format", "push", "confirm"}
  /\ proc.seen \in [Members -> Heads] /\ proc.fixed \in 0..N /\ proc.head \in Heads /\ proc.push \in BOOLEAN
  /\ budget \in 0..MaxMoves

\* The stack may start with members that do not contain their predecessors.
Init ==
  /\ \E aligned \in [Members -> BOOLEAN] :
       github = [head |-> [m \in Members |-> {m} \cup {k \in 1..(m - 1) : \A j \in (k + 1)..m : aligned[j]}],
                 red |-> {}, changed |-> FALSE, serial |-> N, ours |-> {}]
  /\ local = [m \in Members |-> NoFile]
  /\ state = [status |-> "active", cursor |-> 1, ci |-> [m \in Members |-> "pending"],
              clean |-> [m \in Members |-> NoHead], sent |-> [m \in Members |-> NoHead], propagated |-> {},
              requests |-> {}, guards |-> {}, format |-> NoAsk, conflict |-> NoAsk]
  /\ proc = Resting
  /\ budget = MaxMoves

-----------------------------------------------------------------------------
(* The coordinator's file *)

Contains(head, ancestor) == ancestor \subseteq head
Fresh == github.serial + 1
Current == state.cursor

Told(fixed, head, push) == [Resting EXCEPT !.fixed = fixed, !.head = head, !.push = push]
Result(s, told) == state' = s /\ proc' = told
Save(s) == Result(s, Resting) /\ UNCHANGED <<github, local, budget>>
Stopped(s) == [s EXCEPT !.status = "stopped"]
StackStop(s) == Save(Stopped(s))

\* Each command first reads the stack again (refresh_stack_state).
Refresh(command) ==
  /\ proc.pc = "idle" /\ state.status \in {"active", "complete"}
  /\ IF github.changed THEN StackStop(state)
     ELSE proc' = [proc EXCEPT !.pc = command, !.seen = github.head] /\ UNCHANGED <<github, local, state, budget>>

Next1 == Refresh("next")
Record1 == (Current <= N => state.ci[Current] = "active") /\ Refresh("record")
Status1 == Refresh("status")
Propagate1 == proc.fixed # 0 /\ Refresh("propagate")
Format1 == state.status = "active" /\ state.format # NoAsk /\ Refresh("format")

\* stale_cleared_member
StaleMembers == {m \in Members : state.ci[m] = "clear" /\ state.clean[m] # proc.seen[m]}

\* Mutant of RetiredFile: a prepared push is dropped without a record.
RetiredUnrecorded(m) == [local[m] EXCEPT !.pending = NoPush]

\* retire_member_state_work
RetiredFile(m) ==
  [local[m] EXCEPT !.pending = NoPush,
                   !.retired = IF local[m].pending = NoPush THEN @ ELSE @ \cup {local[m].pending.head}]

\* retire_stale_cleared_attempt: the lowest member that moved and all above it
\* start again; the members' files come first.  Only stack-next goes on.
Retire ==
  /\ proc.pc \in {"next", "record", "status", "propagate"} /\ StaleMembers # {}
  /\ LET stale == Min(StaleMembers)
         affected == stale..N IN
     /\ local' = [m \in Members |-> IF m \in affected THEN RetiredFile(m) ELSE local[m]]
     /\ \/ /\ state' = [state EXCEPT
                !.status = "active", !.cursor = stale, !.format = NoAsk, !.conflict = NoAsk,
                !.ci = [m \in Members |-> IF m \in affected THEN "pending" ELSE @[m]],
                !.clean = [m \in Members |-> IF m \in affected THEN NoHead ELSE @[m]],
                !.sent = [m \in Members |-> IF m \in affected THEN NoHead ELSE @[m]]]
           /\ proc' = IF proc.pc = "next" THEN proc ELSE Resting
        \/ UNCHANGED state /\ proc' = Resting
  /\ UNCHANGED <<github, budget>>

Running(command) == proc.pc = command /\ StaleMembers = {}

\* Mutant of Verified: the records are compared, the checks not read again.
VerifiedOnRecord(heads) == \A m \in Members : state.ci[m] = "clear" => local[m].guard = heads[m]

\* require_current_stack_clearances: the checks of every cleared member are read
\* again.
Verified(heads) ==
  \A m \in Members : state.ci[m] = "clear" =>
    local[m].guard = heads[m] /\ github.head[m] = state.clean[m] /\ m \notin github.red

-----------------------------------------------------------------------------
(* stack-next, for the member at the cursor *)

Unpropagated(m) == {head \in local[m].accepted : <<m, head>> \notin state.propagated}

\* The predecessor must be clear and contained before the member is dispatched.
Dispatch(m, s) ==
  LET below == IF m = 1 THEN NoHead ELSE proc.seen[m - 1] IN
  IF m > 1 /\ (s.ci[m - 1] # "clear" \/ s.clean[m - 1] # below) THEN Result(Stopped(s), Resting)
  ELSE IF ~Contains(proc.seen[m], below)
  THEN IF <<m - 1, below, m, proc.seen[m]>> \in s.guards THEN Result(Stopped(s), Resting)
       ELSE Result(s, Told(m - 1, below, FALSE))
  ELSE Result([s EXCEPT !.ci[m] = "active", !.sent[m] = proc.seen[m]], Resting)

\* handle_active_stack_member: a push that landed is finished, one that did not
\* resumed, an accepted one propagated; any other move stops the run.
NextActive(m) ==
  LET file == local[m]
      head == proc.seen[m]
      landed == file.pending # NoPush /\ file.pending.head = head
      accepted == Unpropagated(m) \cup (IF landed THEN {head} ELSE {})
      superseded == [state EXCEPT !.propagated = @ \cup ({m} \X (accepted \ {head}))] IN
  IF file.pending # NoPush /\ file.pending.previous = head
  THEN Result(state, Resting) /\ UNCHANGED local
  ELSE /\ local' = IF landed
                   THEN [local EXCEPT ![m].accepted = @ \cup {head}, ![m].pending = NoPush, ![m].clean = NoHead]
                   ELSE local
       /\ IF head \in accepted THEN Result(superseded, Told(m, head, TRUE))
          ELSE IF state.sent[m] # head THEN Result(Stopped(superseded), Resting)
          ELSE Dispatch(m, superseded)

StackNext ==
  /\ Running("next")
  /\ IF ~Verified(proc.seen) THEN StackStop(state)
     ELSE IF state.status # "active" THEN Save(state)
     ELSE IF state.format # NoAsk
     THEN IF proc.seen[state.format.fixed] # state.format.head THEN StackStop(state) ELSE Save(state)
     ELSE IF state.conflict # NoAsk THEN Result(state, Told(state.conflict.fixed, state.conflict.head, FALSE)) /\ UNCHANGED <<github, local, budget>>
     ELSE IF Current > N THEN Save([state EXCEPT !.status = "complete"])
     ELSE IF state.ci[Current] = "active" THEN NextActive(Current) /\ UNCHANGED <<github, budget>>
     ELSE Dispatch(Current, state) /\ UNCHANGED <<github, local, budget>>

\* stack-status only retires.
StackStatus == Running("status") /\ Save(state)

-----------------------------------------------------------------------------
(* stack-record *)

\* The member's file is of this dispatch.
MayRecord(m) == local[m].guard # NoHead /\ local[m].guard = state.sent[m]

StackRecord ==
  /\ Running("record") /\ state.status = "active" /\ Current <= N
  /\ LET m == Current
         file == local[m]
         clear == file.clean = proc.seen[m] /\ github.head[m] = file.clean /\ m \notin github.red IN
     /\ MayRecord(m)
     /\ IF clear
        THEN Save([state EXCEPT !.ci[m] = "clear", !.clean[m] = file.clean, !.cursor = m + 1])
        ELSE StackStop([state EXCEPT !.ci[m] = "blocked", !.clean[m] = file.clean])

-----------------------------------------------------------------------------
(* stack-propagate and stack-format *)

Descendants == (proc.fixed + 1)..N
Moved == proc.seen[proc.fixed] # proc.head

\* The request of one fixed head is written once, with every head it was made
\* for; the resolver is not called with another.
StackPropagate ==
  /\ Running("propagate") /\ state.status = "active"
  /\ LET request == <<proc.fixed, proc.head, proc.seen>> IN
     IF Moved \/ \E r \in state.requests : r[1] = proc.fixed /\ r[2] = proc.head /\ r # request
     THEN StackStop(state)
     ELSE /\ state' = [state EXCEPT !.requests = @ \cup {request}]
          /\ proc' = [proc EXCEPT !.pc = "resolver"]
          /\ UNCHANGED <<github, local, budget>>

\* descendant-propagate of the conflict resolver: it publishes the descendants
\* from the bottom up, over the heads it was asked about, or stops before one.
\* The merge of member d has the commit serial + d.
Published(last) ==
  [d \in Members |->
     IF d \in Descendants /\ d <= last /\ ~Contains(github.head[d], proc.head)
     THEN github.head[d] \cup proc.head \cup {github.serial + k - proc.fixed : k \in (proc.fixed + 1)..d}
     ELSE github.head[d]]

Resolver ==
  /\ proc.pc = "resolver"
  /\ \/ \E last \in proc.fixed..N :
          /\ last > proc.fixed => github.head = proc.seen /\ github.serial + last - proc.fixed <= MaxCommits
          /\ github' = [github EXCEPT !.head = Published(last),
                                      !.serial = IF Published(last) = github.head THEN @ ELSE @ + last - proc.fixed]
          /\ IF last = N THEN proc' = [proc EXCEPT !.pc = "contained"] /\ UNCHANGED state
             ELSE proc' = Resting /\ state' = [state EXCEPT !.status = "stopped"]
     \/ /\ proc.fixed < N
        /\ state' = [state EXCEPT !.format = [fixed |-> proc.fixed, head |-> proc.head]]
        /\ proc' = Resting /\ UNCHANGED github
     \/ /\ proc.fixed < N
        /\ state' = [state EXCEPT !.format = NoAsk, !.conflict = [fixed |-> proc.fixed, head |-> proc.head]]
        /\ proc' = Resting /\ UNCHANGED github
  /\ UNCHANGED <<local, budget>>

\* The stack is read again: the resolver's word is not enough.
Contained ==
  /\ proc.pc = "contained"
  /\ IF github.changed \/ \E d \in Descendants : ~Contains(github.head[d], proc.head) THEN StackStop(state)
     ELSE Save([state EXCEPT
            !.guards = @ \cup {<<proc.fixed, proc.head, d, github.head[d]>> : d \in Descendants},
            !.propagated = IF proc.push THEN @ \cup {<<proc.fixed, proc.head>>} ELSE @,
            !.format = NoAsk, !.conflict = NoAsk,
            !.sent = IF Current = proc.fixed THEN [@ EXCEPT ![Current] = proc.head] ELSE @])

\* stack-format: the preserved workspace is done, in conflict, or to be retried.
StackFormat ==
  /\ proc.pc = "format"
  /\ IF proc.seen[state.format.fixed] # state.format.head THEN StackStop(state)
     ELSE \/ Save(state)
          \/ Save([state EXCEPT !.format = NoAsk])
          \/ Save([state EXCEPT !.format = NoAsk, !.conflict = state.format])
          \/ StackStop(state)

-----------------------------------------------------------------------------
(* The commands of a member, and what guards them. *)

\* Mutant of GuardHolds: the predecessor is taken as read.
GuardUnchained(m) == state.status = "active" /\ m = Current /\ ~github.changed

\* verify_stack_member_guard: the run is active, this is its member, and what is
\* below is clear, contained and unchanged.
GuardHolds(m) ==
  /\ state.status = "active" /\ m = Current /\ ~github.changed
  /\ \A k \in Members : state.ci[k] = "clear" => state.clean[k] = github.head[k]
  /\ m > 1 => /\ state.ci[m - 1] = "clear"
              /\ Verified(github.head)
              /\ Contains(github.head[m], github.head[m - 1])

\* preflight: the file is of this head from now on.
MemberPreflight(m) ==
  /\ proc.pc = "idle" /\ GuardHolds(m) /\ local[m].pending = NoPush
  /\ local' = [local EXCEPT ![m].guard = github.head[m], ![m].clean = NoHead]
  /\ UNCHANGED <<github, state, proc, budget>>

\* checks: green at the head of the preflight.
MemberClear(m) ==
  /\ proc.pc = "idle"
  /\ local[m].guard # NoHead /\ github.head[m] = local[m].guard /\ m \notin github.red
  /\ local' = [local EXCEPT ![m].clean = github.head[m]]
  /\ UNCHANGED <<github, state, proc, budget>>

\* publish: guarded, announced, pushed without force, accepted.  An announcement
\* that did not land is made again.
MemberPublish(m) ==
  /\ proc.pc = "idle" /\ GuardHolds(m) /\ github.head[m] = local[m].guard /\ local[m].guard # NoHead
  /\ LET again == local[m].pending # NoPush /\ local[m].pending.previous = local[m].guard IN
     /\ again \/ (local[m].pending = NoPush /\ Fresh <= MaxCommits)
     /\ local' = [local EXCEPT ![m].pending =
                    IF again THEN @ ELSE [previous |-> github.head[m], head |-> github.head[m] \cup {Fresh}]]
     /\ github' = IF again THEN github ELSE [github EXCEPT !.serial = Fresh]
  /\ proc' = [Resting EXCEPT !.pc = "push", !.fixed = m]
  /\ UNCHANGED <<state, budget>>

MemberPush(m) ==
  /\ proc.pc = "push" /\ m = proc.fixed
  /\ github.head[m] = local[m].pending.previous
  /\ github' = [github EXCEPT !.head[m] = local[m].pending.head, !.ours = @ \cup {local[m].pending.head}]
  /\ proc' = [proc EXCEPT !.pc = "confirm"]
  /\ UNCHANGED <<local, state, budget>>

MemberConfirm(m) ==
  /\ proc.pc = "confirm" /\ m = proc.fixed /\ github.head[m] = local[m].pending.head
  /\ local' = [local EXCEPT ![m].accepted = @ \cup {github.head[m]}, ![m].pending = NoPush, ![m].clean = NoHead]
  /\ proc' = Resting
  /\ UNCHANGED <<github, state, budget>>

-----------------------------------------------------------------------------
(* A command that ends early, and others *)

Stop == proc.pc # "idle" /\ proc' = Resting /\ UNCHANGED <<github, local, state, budget>>

OthersMove ==
  /\ budget > 0 /\ budget' = budget - 1
  /\ \E m \in Members :
       \/ /\ Fresh <= MaxCommits
          /\ \E base \in {github.head[m], NoHead} :
               github' = [github EXCEPT !.head[m] = base \cup {Fresh}, !.serial = Fresh]
       \/ github' = [github EXCEPT !.red = @ \cup {m}]
       \/ github' = [github EXCEPT !.changed = TRUE]
  /\ UNCHANGED <<local, state, proc>>

ChecksPass == github.red # {} /\ github' = [github EXCEPT !.red = {}] /\ UNCHANGED <<local, state, proc, budget>>

\* The run is over: stack-next repeats its result.
Repeated == proc.pc = "idle" /\ state.status = "stopped" /\ UNCHANGED vars

Next ==
  \/ Next1 \/ Record1 \/ Status1 \/ Propagate1 \/ Format1
  \/ Retire \/ StackNext \/ StackStatus \/ StackRecord \/ StackPropagate \/ Resolver \/ Contained \/ StackFormat
  \/ \E m \in Members : \/ MemberPreflight(m) \/ MemberClear(m) \/ MemberPublish(m) \/ MemberPush(m) \/ MemberConfirm(m)
  \/ Stop \/ OthersMove \/ ChecksPass \/ Repeated

Spec == Init /\ [][Next]_vars

-----------------------------------------------------------------------------
(* Properties *)

\* The cleared members are a prefix of the stack, and each was cleared at a head
\* that contains the head its predecessor was cleared at.
Chain ==
  \A m \in Members : state.ci[m] = "clear" =>
    /\ state.clean[m] # NoHead
    /\ m > 1 => state.ci[m - 1] = "clear" /\ Contains(state.clean[m], state.clean[m - 1])

\* A run completes only while every member is green at the live head it was
\* cleared at.
CompletesGreen ==
  state.status # "complete" /\ state'.status = "complete" =>
    \A m \in Members : state.ci[m] = "clear" /\ github.head[m] = state.clean[m] /\ m \notin github.red

\* A commit of ours that heads a member is announced, accepted or retired on
\* record, although commands die and attempts are retired.
Accounted ==
  \A m \in Members : github.head[m] \in github.ours =>
    github.head[m] \in {local[m].pending.head} \cup local[m].accepted \cup local[m].retired

\* Our pushes only extend a member.
Extends ==
  \A m \in Members : github'.head[m] # github.head[m] /\ budget' = budget => Contains(github'.head[m], github.head[m])
=============================================================================
