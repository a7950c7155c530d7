---------------------------- MODULE ConflictResolver ----------------------------
(***************************************************************************)
(* pr_conflict_resolver.py and its worker cloud_conflict_task.py: replay a *)
(* pull request, or every member of its native stack in turn, onto a trunk *)
(* that it conflicts with.  A hosted task does each replay; the worker     *)
(* keeps a receipt of each, proves the result, and the controller pushes   *)
(* all of them at once, under leases.  Bounded the pipeline makes a call   *)
(* per step; a later sweep only looks again.  Others may push, the trunk   *)
(* may advance or be rewritten, a call may raise or die at any step.  Left *)
(* out: how histories are read, the merge strategy's choice, checkouts,    *)
(* outside dependents, the propagation to descendants.                     *)
(***************************************************************************)
EXTENDS Integers, Sequences, SequencesExt

CONSTANTS N,          \* the members of the stack, or 1 for a pull request of its own
          Bounded,    \* pipeline --bounded-step
          MaxSweeps,  \* pipeline_max_iterations
          MaxMoves    \* bound: moves of others

ConflictResolverAssumption ==
  /\ N \in Nat \ {0} /\ Bounded \in BOOLEAN /\ MaxSweeps \in Nat \ {0} /\ MaxMoves \in Nat

VARIABLES github,  \* the trunk, the head of each member, whether what is not contained merges cleanly
          local,   \* the lock file of the state
          hosted,  \* the hosted task of each member
          state,   \* the state file and the worker's receipts and results
          proc,    \* the running call and the exit of the last one
          budget   \* the moves of others that are left

vars == <<github, local, hosted, state, proc, budget>>

Members == 1..N
Stack == N > 1

\* The commits of a member: those of its layer, on those of the members below, on a trunk.
Commit(trunk, layers) == [trunk |-> trunk, layers |-> layers]
NoCommit == Commit(<<>>, <<>>)
NoPin == [trunk |-> <<>>, heads |-> [m \in Members |-> NoCommit]]
NoHosted == [status |-> "none", base |-> NoCommit, new |-> NoCommit, asked |-> 0]
NoFile == [exists |-> FALSE, sweep |-> 0, status |-> "none", phase |-> "none", member |-> 0, pin |-> NoPin, inflight |-> FALSE,
           receipts |-> [m \in Members |-> "none"], collected |-> [m \in Members |-> NoCommit],
           pushing |-> FALSE, advanced |-> FALSE, last |-> "none", cleared |-> NoCommit, attempts |-> 0]
Resting(exit) == [pc |-> "idle", exit |-> exit, sweep |-> 0, tries |-> 0, read |-> NoCommit, trunk |-> <<>>, mergeable |-> FALSE]

Pcs == {"idle", "preflight", "dispatch", "post", "posted", "observe", "collect", "verify", "publish", "push", "send", "read_back", "confirm",
        "complete", "revalidate", "revalidated"}
Statuses == {"none", "preparing", "running", "verified", "publishing", "published_pending_verification", "completed",
             "superseded", "failed", "interrupted"}

TypeOK ==
  /\ DOMAIN github = {"trunk", "heads", "clean"} /\ github.clean \in BOOLEAN /\ local \in BOOLEAN
  /\ \A m \in Members : Len(github.heads[m].layers) = m /\ Len(state.collected[m].layers) \in {0, m}
  /\ \A m \in Members : hosted[m].status \in {"none", "running", "completed", "failed"} /\ hosted[m].asked \in Nat
  /\ state.status \in Statuses /\ state.phase \in {"none", "dispatch", "observe", "collect"} /\ state.member \in 0..N
  /\ \A m \in Members : state.receipts[m] \in {"none", "dispatching", "active", "completed"}
  /\ state.last \in {"none", "revalidating", "mergeable", "published", "head_changed"} /\ state.sweep \in 0..MaxSweeps
  /\ proc.pc \in Pcs /\ proc.tries \in 0..2 /\ proc.exit \in {"none", "error", "waiting", "mergeable", "published", "head_changed"}
  /\ budget \in 0..MaxMoves

Init ==
  /\ github = [trunk |-> <<1>>, heads |-> [m \in Members |-> Commit(<<>>, [i \in 1..m |-> 0])], clean |-> FALSE]
  /\ local = FALSE /\ hosted = [m \in Members |-> NoHosted] /\ state = NoFile /\ proc = Resting("none") /\ budget = MaxMoves

Goto(pc) == proc' = [proc EXCEPT !.pc = pc]
Exit(exit) == proc' = Resting(exit) /\ local' = FALSE
Save(s) == state' = s /\ UNCHANGED <<github, hosted, budget>>

\* A bounded call ends here, and another one goes on; a synchronous one goes on itself.
Step(pc) == IF Bounded THEN Exit("waiting") ELSE Goto(pc) /\ UNCHANGED local

StandsOn(head, below) ==
  IF Len(head.layers) = 1 THEN IsPrefix(below.trunk, head.trunk)
  ELSE head.trunk = below.trunk /\ Front(head.layers) = below.layers

Below(m) == IF m = 1 THEN Commit(github.trunk, <<>>) ELSE github.heads[m - 1]

\* live_mergeability: there is nothing to resolve
Mergeable(m) == StandsOn(github.heads[m], Below(m)) \/ github.clean

\* _conflict_preflight: a stack must also stand on its trunk, member on member.
NothingToDo == IF Stack THEN \A m \in Members : StandsOn(github.heads[m], Below(m)) ELSE Mergeable(N)

Replay(head, base) == Commit(base.trunk, Append(base.layers, Last(head.layers)))

\* Mutant of Base: a member is replayed onto what the one below was.
BasePinned(s, m) == IF m = 1 THEN Commit(s.pin.trunk, <<>>) ELSE s.pin.heads[m - 1]

\* What a member is replayed onto
Base(s, m) == IF m = 1 THEN Commit(s.pin.trunk, <<>>) ELSE s.collected[m - 1]

\* The trunk may advance while the work is done, and not be rewritten.
Forward == IsPrefix(state.pin.trunk, github.trunk)

HeadsPinned == github.heads = state.pin.heads

\* require_live_conflict_guards and require_target_fresh
Fresh == Forward /\ HeadsPinned

Raise(s) ==
  /\ Exit("error")
  /\ Save(IF Bounded /\ s.status # "completed" THEN [s EXCEPT !.status = "interrupted"] ELSE s)

-----------------------------------------------------------------------------
(* Calls *)

\* The lock file is opened for this call alone.
LaunchFirst ==
  /\ proc.pc = "idle" /\ ~local /\ ~state.exists
  /\ local' = Bounded
  /\ proc' = [Resting("none") EXCEPT !.pc = "preflight", !.sweep = 1]
  /\ Save([NoFile EXCEPT !.exists = TRUE, !.sweep = 1, !.status = "preparing"])

\* Mutant of MayRevalidate: a sweep that is not over is taken over too.
MayRevalidateAny(sweep) == state.sweep < sweep

\* require_later_conflict_sweep
MayRevalidate(sweep) == state.sweep < sweep /\ state.status = "completed" /\ state.last \in {"mergeable", "published"}

\* Work that a call left in flight is not adopted.
Resumable == state.status = "running" /\ ~state.inflight /\ (state.phase = "dispatch" => \A m \in state.member..N : state.receipts[m] = "none")

LaunchAgain ==
  /\ Bounded /\ proc.pc = "idle" /\ state.exists
  /\ \E sweep \in {state.sweep, state.sweep + 1} \cap (1..MaxSweeps) :
       IF local THEN proc' = Resting("error") /\ UNCHANGED <<local, state>>
       ELSE IF sweep > state.sweep
       THEN IF MayRevalidate(sweep)
            THEN /\ proc' = [Resting("none") EXCEPT !.pc = "revalidate", !.sweep = sweep] /\ local' = TRUE
                 /\ state' = [state EXCEPT !.sweep = sweep, !.status = "preparing", !.last = "revalidating", !.cleared = NoCommit]
            ELSE proc' = Resting("error") /\ UNCHANGED <<local, state>>
       ELSE IF Resumable
       THEN proc' = [Resting("none") EXCEPT !.pc = state.phase, !.sweep = sweep] /\ local' = TRUE /\ UNCHANGED state
       ELSE /\ proc' = Resting(IF state.status = "completed" THEN state.last ELSE "error")
            /\ state' = [state EXCEPT !.status = IF @ \in {"completed", "interrupted"} THEN @ ELSE "interrupted"]
            /\ UNCHANGED local
  /\ UNCHANGED <<github, hosted, budget>>

Rest == ~Bounded /\ proc.pc = "idle" /\ state.exists /\ UNCHANGED vars

\* record_mergeable_conflict
Recorded(s) == [s EXCEPT !.status = "completed", !.last = "mergeable", !.cleared = github.heads[N]]

\* The request pins the trunk and every head, and with them the leases.
Pinned(s) ==
  [s EXCEPT !.status = "running", !.phase = "dispatch", !.member = 1, !.attempts = @ + 1,
            !.pin = [trunk |-> github.trunk, heads |-> github.heads]]

Preflight ==
  /\ proc.pc = "preflight"
  /\ IF NothingToDo THEN Save(Recorded(state)) /\ Exit("mergeable")
     ELSE Save(Pinned(state)) /\ IF Stack THEN Step("dispatch") ELSE Goto("dispatch") /\ UNCHANGED local

PreflightFails ==
  /\ proc.pc = "preflight"
  /\ Save([state EXCEPT !.status = "failed"]) /\ Exit("error")

-----------------------------------------------------------------------------
(* Hosted work *)

\* A target that changed before the POST is the end of the task, and nothing was asked.
Dispatch ==
  /\ proc.pc = "dispatch"
  /\ IF Fresh THEN /\ Save([state EXCEPT !.inflight = TRUE, !.receipts[state.member] = "dispatching"])
                   /\ Goto("post") /\ UNCHANGED local
     ELSE Save([state EXCEPT !.status = IF state.member > 1 THEN "interrupted" ELSE "failed"]) /\ Exit("error")

Post ==
  /\ proc.pc = "post"
  /\ hosted' = [hosted EXCEPT ![state.member] =
       [status |-> "running", base |-> Base(state, state.member), new |-> NoCommit, asked |-> @.asked + 1]]
  /\ Goto("posted")
  /\ UNCHANGED <<github, local, state, budget>>

Posted ==
  /\ proc.pc = "posted"
  /\ Save([state EXCEPT !.inflight = FALSE, !.phase = "observe", !.receipts[state.member] = "active"])
  /\ Step("observe")

\* An agent may return what is no replay.
HostedEnds(m) ==
  /\ hosted[m].status = "running"
  /\ \/ hosted' = [hosted EXCEPT ![m].status = "failed"]
     \/ \E new \in {Replay(state.pin.heads[m], hosted[m].base), Commit(hosted[m].base.trunk, Append(hosted[m].base.layers, -1))} :
          hosted' = [hosted EXCEPT ![m].status = "completed", ![m].new = new]
  /\ UNCHANGED <<github, local, state, proc, budget>>

Observed(m) == IF hosted[m].status = "running" THEN state ELSE [state EXCEPT !.receipts[m] = "completed", !.phase = "collect"]

Observe ==
  /\ proc.pc = "observe" /\ (hosted[state.member].status = "running" => Bounded)
  /\ IF hosted[state.member].status = "failed" THEN Raise(state) ELSE Save(Observed(state.member)) /\ Step("collect")

\* Mutant of IsReplay: whatever sits on the base will do.
IsReplayAny(new, head, base) == StandsOn(new, base)

\* mechanical_mapping: every commit of the source is there, in order, on the base
IsReplay(new, head, base) == new = Replay(head, base)

Proven(m) == IsReplay(hosted[m].new, state.pin.heads[m], Base(state, m))

Superseded(s) == [s EXCEPT !.status = "superseded", !.last = "head_changed"]

\* The result is kept when the source moved on, and not adopted.
Collect ==
  /\ proc.pc = "collect"
  /\ LET m == state.member
         s == [state EXCEPT !.collected[m] = hosted[m].new]
     IN IF ~Forward \/ ~Proven(m) THEN Raise(state)
        ELSE IF ~HeadsPinned THEN Save(Superseded(s)) /\ Exit("head_changed")
        ELSE IF m < N THEN Save([s EXCEPT !.member = m + 1, !.phase = "dispatch"]) /\ Step("dispatch")
        ELSE Save(s) /\ Goto("verify") /\ UNCHANGED local

-----------------------------------------------------------------------------
(* Publication *)

Verified == \A m \in Members : IsReplay(state.collected[m], state.pin.heads[m], Base(state, m))

Verify ==
  /\ proc.pc = "verify"
  /\ IF Verified /\ Fresh THEN Save([state EXCEPT !.status = "verified"]) /\ Goto("publish") /\ UNCHANGED local
     ELSE Raise(state)

\* Mutant of Publishing: the state is saved when the push is done.
PublishingUnsaved(s) == s

Publishing(s) == [s EXCEPT !.status = "publishing", !.pushing = TRUE]

Publish ==
  /\ proc.pc = "publish"
  /\ IF Fresh
     THEN /\ Save(Publishing([state EXCEPT !.advanced = github.trunk # state.pin.trunk]))
          /\ proc' = [proc EXCEPT !.pc = "push", !.trunk = github.trunk] /\ UNCHANGED local
     ELSE Raise(state)

\* Mutants of Moved: the push takes no lease; each branch has a push of its own.
MovedFree == [github EXCEPT !.heads = state.collected]
MovedEach == [github EXCEPT !.heads = [m \in Members |-> IF github.heads[m] = state.pin.heads[m] THEN state.collected[m] ELSE github.heads[m]]]

\* conflict_push_command: --atomic, and a lease on every branch
Moved == IF HeadsPinned THEN [github EXCEPT !.heads = state.collected] ELSE github

\* The guards are read again before the push of a stack.
Push ==
  /\ proc.pc = "push"
  /\ IF Stack /\ ~Fresh THEN Raise(state) ELSE Goto("send") /\ UNCHANGED <<github, local, hosted, state, budget>>

SendPush ==
  /\ proc.pc = "send"
  /\ github' \in {github, Moved}
  /\ proc' = [proc EXCEPT !.pc = "read_back", !.tries = @ + 1]
  /\ UNCHANGED <<local, hosted, state, budget>>

Published == github.heads = state.collected

ReadBack ==
  /\ proc.pc = "read_back"
  /\ IF Published THEN Goto("confirm") /\ UNCHANGED <<github, local, hosted, state, budget>>
     ELSE IF HeadsPinned /\ proc.tries < 2 THEN Goto("push") /\ UNCHANGED <<github, local, hosted, state, budget>>
     ELSE Raise(state)

Confirm ==
  /\ proc.pc = "confirm"
  /\ IF github.heads[N] = state.collected[N]
     THEN /\ Save([state EXCEPT !.status = "published_pending_verification", !.last = "published"])
          /\ proc' = [proc EXCEPT !.pc = "complete", !.mergeable = Mergeable(N), !.read = Below(N)] /\ UNCHANGED local
     ELSE Raise(state)

\* Mutant of Stale: a base that moved on does not matter.
StaleNever == FALSE

\* published_conflict_snapshot: no clearance for a stack whose base moved on
Stale == Stack /\ (state.advanced \/ proc.read # Base(state, N))

Complete ==
  /\ proc.pc = "complete"
  /\ IF Published
     THEN /\ Save([state EXCEPT !.status = "completed",
                                !.cleared = IF proc.mergeable /\ ~Stale THEN state.collected[N] ELSE NoCommit])
          /\ Exit("published")
     ELSE Raise(state)

\* revalidate_pipeline_conflict: a later sweep asks for nothing
Revalidate ==
  /\ proc.pc = "revalidate"
  /\ IF Mergeable(N) THEN proc' = [proc EXCEPT !.pc = "revalidated", !.read = github.heads[N]] /\ UNCHANGED <<github, local, hosted, state, budget>>
     ELSE Raise(state)

\* Mutant of Unmoved: the second read is left out.
UnmovedFree == TRUE

Unmoved == github.heads[N] = proc.read /\ Mergeable(N)

Revalidated ==
  /\ proc.pc = "revalidated"
  /\ IF Unmoved THEN Save([Recorded(state) EXCEPT !.cleared = proc.read]) /\ Exit("mergeable") ELSE Raise(state)

-----------------------------------------------------------------------------
(* Errors, crashes, others *)

Raised == proc.pc \notin {"idle", "preflight"} /\ Raise(state)

\* The lock file outlives its process.
Crash ==
  /\ proc.pc # "idle" /\ proc' = Resting("error")
  /\ UNCHANGED <<github, local, hosted, state, budget>>

OthersMove ==
  /\ budget > 0 /\ budget' = budget - 1
  /\ \E clean \in BOOLEAN :
       github' \in {[github EXCEPT !.trunk = Append(@, budget), !.clean = clean],
                    [github EXCEPT !.trunk = <<0, budget>>, !.clean = clean]}
                   \cup {[github EXCEPT !.heads[m].layers[m] = @ + 1, !.clean = clean] : m \in Members}
  /\ UNCHANGED <<local, hosted, state, proc>>

Next ==
  \/ LaunchFirst \/ LaunchAgain \/ Rest \/ Preflight \/ PreflightFails
  \/ Dispatch \/ Post \/ Posted \/ Observe \/ Collect \/ \E m \in Members : HostedEnds(m)
  \/ Verify \/ Publish \/ Push \/ SendPush \/ ReadBack \/ Confirm \/ Complete
  \/ Revalidate \/ Revalidated \/ Raised \/ Crash \/ OthersMove

Spec == Init /\ [][Next]_vars

-----------------------------------------------------------------------------
(* Properties *)

\* The members are replayed one after the other, each once, on what the one below
\* became.
Alone ==
  \A m \in Members : hosted'[m].asked # hosted[m].asked =>
    /\ \A k \in Members : hosted[k].status # "running"
    /\ hosted[m].asked = 0
    /\ m > 1 => hosted'[m].base = hosted[m - 1].new /\ hosted[m - 1].status = "completed"

\* A push of ours moves every branch or none, and drops nothing that anyone pushed.
NothingLost ==
  budget' = budget /\ github'.heads # github.heads =>
    \A m \in Members : github'.heads[m] # github.heads[m] /\ Last(github'.heads[m].layers) = Last(github.heads[m].layers)

\* A clearance is of the head as it is.  One of a publication is of a stack that
\* stands on the trunk that the guards saw.
ClearedIsLive ==
  state'.cleared # state.cleared /\ state'.cleared # NoCommit =>
    /\ github.heads[N] = state'.cleared
    /\ state'.last = "mergeable" => Mergeable(N)
    /\ state'.last = "published" =>
         /\ \A m \in 2..N : StandsOn(github.heads[m], github.heads[m - 1])
         /\ Stack => github.heads[1].trunk = proc.trunk

\* Branches of ours are on the remote only where the file says that a push was
\* begun, and only when every member was replayed.  A completed file leaves no task running.
Accounted ==
  /\ state.status = "completed" => \A m \in Members : hosted[m].status # "running"
  /\ \A m \in Members : state.exists /\ github.heads[m] = state.collected[m] =>
       state.pushing /\ \A k \in Members : state.collected[k] # NoCommit
=============================================================================
