--------------------------- MODULE StackPipeline ---------------------------
(***************************************************************************)
(* pr_stack_pipeline.py: two passes over the open suffix of a native       *)
(* stack of pull requests.  One scheduler process starts a worker process  *)
(* for each member and stage: for the clicked member alone (conflict), for *)
(* all members at once (review, description), or member after member from  *)
(* the bottom (ci), carrying every push of a CI worker up the stack.       *)
(* Others push to the members, restack them or change their checks at any  *)
(* time; the user may cancel, the scheduler may die and be started again.  *)
(***************************************************************************)
EXTENDS Integers, Sequences

CONSTANTS NumMembers,  \* the native stack, by position from the trunk
          Clicked,       \* the position of the pull request the user clicked
          Phases,      \* PHASES in order
          MaxPushes    \* bound: heads that workers or others push, checks others change

MaxPasses == 2
Members == 1..NumMembers
Selected == Clicked..NumMembers
Whole == Clicked = 1
Stages == {Phases[i] : i \in DOMAIN Phases}

\* What the instances assume of their constants.
StackPipelineAssumption ==
  /\ NumMembers \in Nat \ {0} /\ Clicked \in Members /\ MaxPushes \in Nat
  /\ Phases \in Seq({"conflict", "review", "ci", "description"}) /\ Phases # <<>>

VARIABLES live,      \* the stack on GitHub: heads, trunk, and whether it is still the selected one
          marks,     \* what each stage's own state file records, by member
          native,    \* the aggregate clearance in the clicked member's conflict state
          workers,   \* the worker processes
          trees,     \* the members' worktrees
          pushed,    \* accepted_pushes of the CI stage, by member
          saved,     \* the run state file
          sched,     \* the memory of the scheduler
          outcome,   \* the result file
          budget     \* the bounds that are left

stackVars == <<live, marks, native, workers, trees, pushed, saved, sched, outcome, budget>>

\* A head is a version of the member's branch, on top of a version of the
\* branch below it.  Version 0 is none.
Commit == [v : Nat, on : Nat]
NoHead == [v |-> 0, on |-> 0]
Contains(low, high) == high.on = low.v

Tip(m) == IF m = 1 THEN live.trunk ELSE live.heads[m - 1].v
Tips == [m \in Selected |-> Tip(m)]
LiveHeads == [m \in Selected |-> live.heads[m]]

NoMark == [outcome |-> "none", head |-> NoHead, base |-> 0]
NoNote == [sent |-> NoHead, at |-> NoHead, base |-> 0, clear |-> FALSE, outcome |-> "none"]
NoWorker == [state |-> "none", stage |-> "none", head |-> NoHead, ok |-> TRUE, recorded |-> FALSE]
NoHeads == [m \in Selected |-> NoHead]
NoEvidence == [heads |-> NoHeads, bases |-> [m \in Selected |-> 0]]
NoSnapshot == [heads |-> NoHeads, bases |-> [m \in Selected |-> 0], next |-> Clicked,
               uncleared |-> [m \in Selected |-> {}]]
NoPrevious == [clear |-> FALSE, head |-> NoHead, warned |-> FALSE, base |-> 0]
FreshMemory == [pc |-> "open", pass |-> 1, phase |-> 1, seen |-> NoHeads, todo |-> {}, mine |-> {},
          stop |-> "none", resolved |-> FALSE, index |-> Clicked, below |-> NoPrevious, aligned |-> FALSE,
          green |-> {}, failed |-> FALSE, blocked |-> FALSE, snap |-> NoSnapshot, result |-> "none",
          touched |-> {}]

Outcomes == {"none", "open", "drifted", "completed", "cleared", "warned", "stuck"}
StackResults == {"complete", "partial", "blocked", "stopped", "cancelled", "error"}
Working == {"open", "pass", "phase", "launch", "started", "confirm", "collect", "gate", "pending", "before", "monitor",
            "after", "ended", "snap", "snap_close", "snap_judge", "stopping", "finish"}

StackTypeOK ==
  /\ live \in [heads : [Members -> Commit], trunk : Nat, same : BOOLEAN]
  /\ marks \in [Selected -> [Stages -> [outcome : Outcomes, head : Commit, base : Nat]]]
  /\ native \in [heads : [Selected -> Commit], bases : [Selected -> Nat]]
  /\ workers \in [Selected -> [state : {"none", "running", "exited"}, stage : Stages \cup {"none"},
                               head : Commit, ok : BOOLEAN, recorded : BOOLEAN]]
  /\ trees \in [Selected -> {"absent", "owned", "dirty"}]
  /\ pushed \in [Selected -> SUBSET Nat]
  /\ saved.exists \in BOOLEAN /\ saved.active \subseteq Selected /\ saved.carried \in [Selected -> SUBSET Nat]
  /\ sched.pc \in Working \cup {"over", "dead"} /\ sched.pass \in 1..MaxPasses
  /\ sched.phase \in DOMAIN Phases /\ sched.todo \cup sched.mine \cup sched.touched \subseteq Selected
  /\ sched.index \in Selected /\ sched.result \in StackResults \cup {"none"}
  /\ outcome.result \in StackResults \cup {"none"}

\* selection_from_stack: the open suffix from the clicked member on.
StackInit ==
  /\ live = [heads |-> [m \in Members |-> [v |-> 1, on |-> 1]], trunk |-> 1, same |-> TRUE]
  /\ marks = [m \in Selected |-> [s \in Stages |-> NoMark]]
  /\ native = NoEvidence
  /\ workers = [m \in Selected |-> NoWorker]
  /\ trees = [m \in Selected |-> "absent"]
  /\ pushed = [m \in Selected |-> {}]
  /\ saved = [exists |-> FALSE, active |-> {}, carried |-> [m \in Selected |-> {}], auth |-> NoHeads,
              notes |-> [s \in {"conflict", "description"} |-> [m \in Selected |-> NoNote]]]
  /\ sched = [FreshMemory EXCEPT !.seen = LiveHeads]
  /\ outcome = [result |-> "none", snap |-> NoSnapshot]
  /\ budget = [pushes |-> MaxPushes, again |-> TRUE]

-----------------------------------------------------------------------------
(* What a stage's status says of a member at a head and a base. *)

Clear(m, s, head, base) ==
  LET k == marks[m][s] IN
  /\ k.outcome \in {"cleared"} \cup (IF s = "ci" THEN {"warned"} ELSE {})
  /\ k.head = head
  /\ (s = "conflict" /\ native # NoEvidence) => k.base = base

\* stage_blocker and the checks that finish_worker adds to it.
Blocks(m, s) ==
  \/ marks[m][s].outcome \in {"stuck", "none"}
  \/ s \in {"conflict", "description"} /\ marks[m][s].outcome = "open"

-----------------------------------------------------------------------------
(* How the scheduler goes on and how it ends. *)

Others == <<live, marks, native, pushed, budget>>
Think(memory) == sched' = memory
Stopping(m, why) == [m EXCEPT !.pc = "finish", !.result = why]

\* What the scheduler still has in mind when a command raised (execute).
Raised(why) == [FreshMemory EXCEPT !.pc = "stopping", !.seen = sched.seen, !.touched = sched.touched, !.result = why]

\* The phase is over, with a reason to stop or without one.
EndPhase(m, stop) == [m EXCEPT !.pc = "ended", !.stop = stop, !.todo = {}, !.mine = {}]

\* Mutant of Open: a state file that exists is written over.
OpenReplays ==
  /\ sched.pc = "open"
  /\ IF ~live.same \/ LiveHeads # sched.seen
     THEN Think(Stopping(sched, "stopped")) /\ UNCHANGED saved
     ELSE /\ saved' = [saved EXCEPT !.exists = TRUE, !.active = {}]
          /\ Think([sched EXCEPT !.pc = "pass"])
  /\ UNCHANGED <<Others, workers, trees, outcome>>

\* command_run, _execute: the sealed state file of an earlier run with this
\* identity is refused, and so is a stack that changed since the selection.
Open ==
  /\ sched.pc = "open"
  /\ IF ~live.same \/ LiveHeads # sched.seen
     THEN Think(Stopping(sched, "stopped")) /\ UNCHANGED <<saved, outcome>>
     ELSE IF saved.exists
     THEN Think([sched EXCEPT !.pc = "over"]) /\ outcome' = [outcome EXCEPT !.result = "stopped"] /\ UNCHANGED saved
     ELSE /\ saved' = [saved EXCEPT !.exists = TRUE]
          /\ UNCHANGED outcome
          /\ \/ Think([sched EXCEPT !.pc = "pass"])
             \/ Think(Stopping(sched, "stopped"))   \* missing_dependencies
  /\ UNCHANGED <<Others, workers, trees>>

\* A pass begins on a fresh reading of the stack.
BeginPass ==
  /\ sched.pc = "pass"
  /\ IF live.same
     THEN Think([sched EXCEPT !.pc = "phase", !.phase = 1, !.seen = LiveHeads])
     ELSE Think(Stopping(sched, "stopped"))
  /\ UNCHANGED <<Others, workers, trees, saved, outcome>>

Stage == Phases[sched.phase]

\* run_conflict_phase: the whole stack by one worker of the clicked member,
\* once in a run; a partial selection is only looked at.
ConflictPhase ==
  /\ sched.pc = "phase" /\ Stage = "conflict"
  /\ IF sched.resolved
     THEN Think(EndPhase(sched, "none")) /\ UNCHANGED saved
     ELSE IF ~live.same
     THEN Think([sched EXCEPT !.pc = "stopping", !.result = "error"]) /\ UNCHANGED saved
     ELSE IF ~Whole
     THEN /\ \/ Think([EndPhase(sched, "none") EXCEPT !.resolved = TRUE])
             \/ Think(EndPhase(sched, "blocked"))
          /\ UNCHANGED saved
     ELSE IF live.heads[Clicked] # sched.seen[Clicked]   \* authorize_stack_publication
     THEN Think([sched EXCEPT !.pc = "stopping", !.result = "error"]) /\ UNCHANGED saved
     ELSE IF marks[Clicked]["conflict"].outcome = "stuck"
     THEN Think(EndPhase(sched, "blocked")) /\ UNCHANGED saved
     ELSE /\ Think([sched EXCEPT !.pc = "launch", !.todo = {Clicked}])
          /\ saved' = [saved EXCEPT !.auth = LiveHeads]
  /\ UNCHANGED <<Others, workers, trees, outcome>>

\* run_parallel_phase: a member whose description this run already cleared at
\* this head is not evaluated again, and must still be clear.
ParallelPhase ==
  LET s == Stage
      again == {m \in Selected : /\ s = "description"
                                 /\ saved.notes[s][m].sent = sched.seen[m]
                                 /\ saved.notes[s][m].clear \/ saved.notes[s][m].outcome = "cleared"}
      reused == {m \in again : /\ saved.notes[s][m].clear /\ saved.notes[s][m].at = sched.seen[m]
                               /\ saved.notes[s][m].base = Tip(m)
                               /\ Clear(m, s, sched.seen[m], Tip(m))}
  IN
  /\ sched.pc = "phase" /\ s \in {"review", "description"}
  /\ IF again # reused \/ \E m \in Selected \ again : marks[m][s].outcome = "stuck"
     THEN Think(EndPhase(sched, "blocked"))
     ELSE Think([sched EXCEPT !.pc = "launch", !.todo = Selected \ again])
  /\ UNCHANGED <<Others, workers, trees, saved, outcome>>

\* dispatch: no base, no launch.
BaseUnreadable ==
  /\ sched.pc \in {"phase", "before"}
  /\ Think(EndPhase(sched, "blocked"))
  /\ UNCHANGED <<Others, workers, trees, saved, outcome>>

-----------------------------------------------------------------------------
(* launch_workers: strictly one at a time. *)

\* The lowest member that is still to be launched.
First(m) == m \in sched.todo /\ \A k \in sched.todo : m <= k

\* create, verify, start: the worktree is at the head the request names, and the
\* process runs before anything says so.
LaunchWorker(m) ==
  LET next == Stage IN
  /\ sched.pc = "launch" /\ First(m) /\ live.heads[m] = sched.seen[m] /\ trees[m] # "dirty"
  /\ trees' = [trees EXCEPT ![m] = "owned"]
  /\ workers' = [workers EXCEPT ![m] = [state |-> "running", stage |-> next, head |-> sched.seen[m], ok |-> TRUE,
                                       recorded |-> FALSE]]
  /\ Think([sched EXCEPT !.pc = "started", !.touched = @ \cup {m}])
  /\ UNCHANGED <<Others, saved, outcome>>

\* Or nothing is started, and nothing more will be in this dispatch or, cancelled or
\* raising, in this run; the worktree may be there by then, and then it may be touched.
LaunchFails(m) ==
  LET created == [trees EXCEPT ![m] = IF @ = "absent" THEN "owned" ELSE @] IN
  /\ sched.pc = "launch" /\ First(m)
  /\ \E touched \in {sched.touched, sched.touched \cup {m}} :
       /\ \/ Think([sched EXCEPT !.pc = "collect", !.stop = "stopped", !.todo = {}, !.touched = touched])
          \/ \E why \in {"cancelled", "error"} : Think([Raised(why) EXCEPT !.touched = touched])
       /\ trees' \in {trees, created}
       /\ m \in touched => trees' = created
  /\ UNCHANGED <<Others, workers, saved, outcome>>

\* The worker's record file, and then running_workers, active_workers and the run
\* state (saved.active stands for the three); if the file cannot be written, no
\* one knows of the worker.
RecordWorker(m) ==
  /\ sched.pc = "started" /\ First(m)
  /\ \/ /\ workers' = [workers EXCEPT ![m].recorded = TRUE]
        /\ saved' = [saved EXCEPT !.active = @ \cup {m}]
        /\ Think([sched EXCEPT !.pc = "confirm"])
     \/ Think(Raised("error")) /\ UNCHANGED <<workers, saved>>
  /\ UNCHANGED <<Others, trees, outcome>>

WorkersLaunched ==
  /\ sched.pc = "launch" /\ sched.todo = {}
  /\ Think([sched EXCEPT !.pc = IF Stage = "ci" THEN "monitor" ELSE "collect"])
  /\ UNCHANGED <<Others, workers, trees, saved, outcome>>

\* confirm_ready; a worker without readiness is terminated, the ones before
\* it keep running.
Confirm(m) ==
  /\ sched.pc = "confirm" /\ First(m)
  /\ \/ /\ Think([sched EXCEPT !.pc = "launch", !.todo = @ \ {m}, !.mine = @ \cup {m}])
        /\ UNCHANGED <<workers, saved>>
     \/ /\ Think([sched EXCEPT !.pc = "collect", !.stop = "stopped", !.todo = {}])
        /\ workers' = [workers EXCEPT ![m] = NoWorker]
        /\ saved' = [saved EXCEPT !.active = @ \ {m}]
  /\ UNCHANGED <<Others, trees, outcome>>

\* finish_worker, current_stage_result, record_stage.
CollectWorker(m) ==
  LET s == workers[m].stage
      clear == Clear(m, s, live.heads[m], Tip(m))
      blocked == ~live.same \/ ~workers[m].ok \/ Blocks(m, s)
      note == [sent |-> workers[m].head, at |-> live.heads[m], base |-> Tip(m), clear |-> clear,
               outcome |-> marks[m][s].outcome]
  IN
  /\ sched.pc = "collect" /\ m \in sched.mine /\ workers[m].state = "exited"
  /\ workers' = [workers EXCEPT ![m] = NoWorker]
  /\ saved' = [saved EXCEPT !.active = @ \ {m},
                            !.notes = IF s \in DOMAIN @ THEN [@ EXCEPT ![s][m] = note] ELSE @]
  /\ Think([sched EXCEPT !.mine = @ \ {m},
                         !.stop = IF @ = "none" /\ blocked THEN "blocked" ELSE @,
                         !.resolved = @ \/ (s = "conflict" /\ clear /\ ~blocked)])
  /\ UNCHANGED <<Others, trees, outcome>>

Collected ==
  /\ sched.pc = "collect" /\ sched.mine = {}
  /\ Think([sched EXCEPT !.pc = "ended"])
  /\ UNCHANGED <<Others, workers, trees, saved, outcome>>

-----------------------------------------------------------------------------
(* run_ci_phase: from the bottom up. *)

CiPhase ==
  /\ sched.pc = "phase" /\ Stage = "ci"
  /\ Think([sched EXCEPT !.pc = "gate", !.index = Clicked, !.below = NoPrevious, !.aligned = FALSE, !.green = {},
                         !.failed = FALSE, !.blocked = FALSE])
  /\ UNCHANGED <<Others, workers, trees, saved, outcome>>

Block(m) == [EndPhase(m, "none") EXCEPT !.blocked = TRUE]

\* propagate_descendants: the members above get new heads, by one atomic push
\* that is authorized only while the stack is the selected one and the head is
\* still the live one (authorize_stack_publication).
Propagated(m) ==
  [k \in Members |-> IF k <= m THEN live.heads[k]
                     ELSE [v |-> live.heads[k].v + 1,
                           on |-> live.heads[k - 1].v + IF k - 1 > m THEN 1 ELSE 0]]

\* Mutant of CiGate: the predecessor's marker is not inspected again.
GateTrusting ==
  LET i == sched.index
      p == i - 1
      low == sched.seen[p]
      below == IF low # sched.below.head \/ (sched.below.warned /\ Tip(p) # sched.below.base)
               THEN [sched.below EXCEPT !.clear = FALSE, !.head = low] ELSE sched.below
  IN
  /\ sched.pc = "gate"
  /\ IF i = Clicked
     THEN Think([sched EXCEPT !.pc = "pending"]) /\ UNCHANGED live
     ELSE IF FALSE
     THEN Think([Block(sched) EXCEPT !.green = @ \ {p}]) /\ UNCHANGED live
     ELSE IF Contains(low, sched.seen[i])
     THEN Think([sched EXCEPT !.pc = "pending", !.below = below]) /\ UNCHANGED live
     ELSE IF sched.aligned
     THEN Think(Block(sched)) /\ UNCHANGED live
     ELSE \/ /\ live.same /\ live.heads[p] = low
             /\ live' = [live EXCEPT !.heads = Propagated(p)]
             /\ Think([sched EXCEPT !.aligned = TRUE, !.below = below,
                                    !.seen = [k \in Selected |-> Propagated(p)[k]]])
          \/ Think(Block(sched)) /\ UNCHANGED live
  /\ UNCHANGED <<marks, native, pushed, budget, workers, trees, saved, outcome>>

\* ci_gate: the member below is still clear at the head that was read, and
\* that head is contained; if it is not, it is carried up once.
CiGate ==
  LET i == sched.index
      p == i - 1
      low == sched.seen[p]
      below == IF low # sched.below.head \/ (sched.below.warned /\ Tip(p) # sched.below.base)
               THEN [sched.below EXCEPT !.clear = FALSE, !.head = low] ELSE sched.below
  IN
  /\ sched.pc = "gate"
  /\ IF i = Clicked
     THEN Think([sched EXCEPT !.pc = "pending"]) /\ UNCHANGED live
     ELSE IF ~below.clear \/ ~Clear(p, "ci", low, Tip(p))
     THEN Think([Block(sched) EXCEPT !.green = @ \ {p}]) /\ UNCHANGED live
     ELSE IF Contains(low, sched.seen[i])
     THEN Think([sched EXCEPT !.pc = "pending", !.below = below]) /\ UNCHANGED live
     ELSE IF sched.aligned
     THEN Think(Block(sched)) /\ UNCHANGED live
     ELSE \/ /\ live.same /\ live.heads[p] = low
             /\ live' = [live EXCEPT !.heads = Propagated(p)]
             /\ Think([sched EXCEPT !.aligned = TRUE, !.below = below,
                                    !.seen = [k \in Selected |-> Propagated(p)[k]]])
          \/ Think(Block(sched)) /\ UNCHANGED live
  /\ UNCHANGED <<marks, native, pushed, budget, workers, trees, saved, outcome>>

\* propagate_ci_pushes: a push that is no longer the live head is superseded;
\* the live one is carried up, or that fails.
Behind(m) == pushed[m] \ saved.carried[m]
CarryPushes(m, carried, failing) ==
  LET current == Behind(m) \cap {live.heads[m].v}
  IN IF ~live.same
     THEN failing /\ UNCHANGED <<live, saved>>
     ELSE \/ /\ live' = IF current = {} THEN live ELSE [live EXCEPT !.heads = Propagated(m)]
             /\ saved' = [saved EXCEPT !.carried[m] = @ \cup Behind(m)]
             /\ carried
          \/ /\ current # {} /\ failing
             /\ saved' = [saved EXCEPT !.carried[m] = @ \cup (Behind(m) \ current)]
             /\ UNCHANGED live

\* Pushes of an earlier worker of this member come first.
Pending ==
  LET i == sched.index IN
  /\ sched.pc = "pending"
  /\ IF Behind(i) = {}
     THEN Think([sched EXCEPT !.pc = "before"]) /\ UNCHANGED <<live, saved>>
     ELSE CarryPushes(i,
            Think([sched EXCEPT !.pc = "gate", !.aligned = FALSE, !.seen = [k \in Selected |-> live'.heads[k]]]),
            Think(Block(sched)))
  /\ UNCHANGED <<marks, native, pushed, budget, workers, trees, outcome>>

Above(m, i) == IF i = NumMembers THEN EndPhase(m, "none") ELSE [m EXCEPT !.pc = "gate", !.index = i + 1, !.aligned = FALSE]

\* A member that is clear already needs no worker.
Before ==
  LET i == sched.index IN
  /\ sched.pc = "before"
  /\ IF Clear(i, "ci", sched.seen[i], Tip(i))
     THEN Think(Above([sched EXCEPT !.green = @ \cup {i},
                        !.below = [clear |-> TRUE, head |-> sched.seen[i], base |-> Tip(i),
                                   warned |-> marks[i]["ci"].outcome = "warned"]], i))
     ELSE IF marks[i]["ci"].outcome = "stuck"
     THEN Think(EndPhase(sched, "blocked"))
     ELSE Think([sched EXCEPT !.pc = "launch", !.todo = {i}])
  /\ UNCHANGED <<Others, workers, trees, saved, outcome>>

\* Mutant of Monitor: no last look at the pushes once the worker has exited.
MonitorHasty ==
  LET i == sched.index
      rest == [sched EXCEPT !.pc = IF workers[i].state = "exited" THEN "after" ELSE "monitor"]
  IN
  /\ sched.pc = "monitor"
  /\ IF Behind(i) = {} \/ workers[i].state = "exited"
     THEN workers[i].state = "exited" /\ Think(rest) /\ UNCHANGED <<live, saved>>
     ELSE CarryPushes(i, Think(rest), Think([rest EXCEPT !.failed = TRUE]))
  /\ UNCHANGED <<marks, native, pushed, budget, workers, trees, outcome>>

\* monitor_ci_worker: pushes are carried while the worker runs, and once more
\* after it has exited.
Monitor ==
  LET i == sched.index
      rest == [sched EXCEPT !.pc = IF workers[i].state = "exited" THEN "after" ELSE "monitor"]
  IN
  /\ sched.pc = "monitor"
  /\ IF Behind(i) = {}
     THEN workers[i].state = "exited" /\ Think(rest) /\ UNCHANGED <<live, saved>>
     ELSE CarryPushes(i, Think(rest), Think([rest EXCEPT !.failed = TRUE]))
  /\ UNCHANGED <<marks, native, pushed, budget, workers, trees, outcome>>

\* The worker's result, then the member again at its live head.
AfterWorker ==
  LET i == sched.index
      clear == Clear(i, "ci", live.heads[i], Tip(i))
      now == [sched EXCEPT !.seen = LiveHeads, !.mine = {},
                !.green = IF clear THEN @ \cup {i} ELSE @,
                !.below = [clear |-> clear, base |-> Tip(i), warned |-> marks[i]["ci"].outcome = "warned",
                           head |-> IF clear THEN marks[i]["ci"].head ELSE live.heads[i]]]
  IN
  /\ sched.pc = "after"
  /\ workers' = [workers EXCEPT ![i] = NoWorker]
  /\ saved' = [saved EXCEPT !.active = @ \ {i}]
  /\ Think(IF ~live.same \/ ~workers[i].ok \/ Blocks(i, "ci") THEN EndPhase(sched, "blocked")
           ELSE IF sched.failed THEN Block(sched)
           ELSE Above(now, i))
  /\ UNCHANGED <<Others, trees, outcome>>

-----------------------------------------------------------------------------
(* The end of a phase and of a pass. *)

\* refresh_selection between phases.
PhaseEnded ==
  /\ sched.pc = "ended"
  /\ Think(IF sched.stop # "none" THEN Stopping(sched, sched.stop)
           ELSE IF ~live.same THEN Stopping(sched, "stopped")
           ELSE IF sched.phase = Len(Phases)
           THEN [sched EXCEPT !.pc = "snap", !.snap = [NoSnapshot EXCEPT !.heads = LiveHeads], !.green = {}]
           ELSE [sched EXCEPT !.pc = "phase", !.phase = @ + 1, !.seen = LiveHeads])
  /\ UNCHANGED <<Others, workers, trees, saved, outcome>>

\* final_snapshot inspects member after member against the opening heads.
Inspect(m) ==
  /\ sched.pc = "snap" /\ m = sched.snap.next
  /\ \E mergeable \in (IF Whole \/ "conflict" \notin Stages THEN {TRUE} ELSE BOOLEAN) :
       LET clear(s) == IF s # "conflict" THEN Clear(m, s, sched.snap.heads[m], Tip(m))
                       ELSE IF ~Whole THEN mergeable
                       ELSE /\ Clear(m, s, sched.snap.heads[m], Tip(m))
                            /\ m > 1 => marks[m][s].base = Tip(m)
       IN Think([sched EXCEPT !.snap.bases[m] = Tip(m),
                              !.snap.uncleared[m] = {s \in Stages : ~clear(s)},
                              !.snap.next = IF m = NumMembers THEN m ELSE m + 1,
                              !.pc = IF m = NumMembers THEN "snap_close" ELSE "snap"])
  /\ UNCHANGED <<Others, workers, trees, saved, outcome>>

\* Mutant of NextPass: no limit to the passes.
NextPassAlways(m) == [m EXCEPT !.pc = "pass", !.pass = @ + 1, !.snap = NoSnapshot]

NextPass(m) ==
  IF m.pass = MaxPasses THEN Stopping(m, "partial")
  ELSE [m EXCEPT !.pc = "pass", !.pass = @ + 1, !.snap = NoSnapshot]

\* Mutant of CloseSnapshot: only the topology is compared.
CloseSnapshotLoosely ==
  /\ sched.pc = "snap_close"
  /\ Think(IF ~live.same THEN NextPass(sched) ELSE [sched EXCEPT !.pc = "snap_judge"])
  /\ UNCHANGED <<Others, workers, trees, saved, outcome>>

\* The closing read: the same topology and the same heads as the opening one.
CloseSnapshot ==
  /\ sched.pc = "snap_close"
  /\ Think(IF ~live.same \/ LiveHeads # sched.snap.heads THEN NextPass(sched)
           ELSE [sched EXCEPT !.pc = "snap_judge"])
  /\ UNCHANGED <<Others, workers, trees, saved, outcome>>

\* apply_native_stack_clearance: the aggregate clearance stands in for the
\* members that have no conflict state, if this run accepted it and every
\* head, base and the authorization are still what it says.
NativeClearance(snap) ==
  LET note == saved.notes["conflict"][Clicked] IN
  /\ Whole /\ "conflict" \in Stages
  /\ Clear(Clicked, "conflict", snap.heads[Clicked], snap.bases[Clicked])
  /\ note.clear /\ note.outcome = "cleared"
  /\ note.sent = snap.heads[Clicked] /\ note.at = snap.heads[Clicked] /\ note.base = snap.bases[Clicked]
  /\ saved.auth = snap.heads
  /\ native.heads = snap.heads /\ native.bases = snap.bases

JudgeSnapshot ==
  LET snap == sched.snap
      spared(m) == IF NativeClearance(snap) /\ marks[m]["conflict"].outcome = "none" THEN {"conflict"} ELSE {}
      final == [snap EXCEPT !.uncleared = [m \in Selected |-> snap.uncleared[m] \ spared(m)]]
  IN
  /\ sched.pc = "snap_judge"
  /\ Think(IF Tips # snap.bases THEN NextPass(sched)
           ELSE IF \A m \in Selected : final.uncleared[m] = {} THEN Stopping([sched EXCEPT !.snap = final], "complete")
           ELSE NextPass(sched))
  /\ UNCHANGED <<Others, workers, trees, saved, outcome>>

-----------------------------------------------------------------------------
(* The ways out. *)

\* check_cancellation, and any command that raises: workers are stopped first.
Interrupted ==
  /\ sched.pc \in Working \ {"open", "started", "stopping", "finish"}
  /\ \E why \in {"cancelled", "error"} : Think(Raised(why))
  /\ UNCHANGED <<Others, workers, trees, saved, outcome>>

\* cancel_active_workers: a worker that cannot be terminated stays recorded as
\* active.  Reading the result of one that exited may raise once more, and
\* then nothing is recorded at all.
CancelWorkers ==
  LET running == {m \in saved.active : workers[m].state = "running"}
      exited == saved.active \ running
  IN
  /\ sched.pc = "stopping"
  /\ \E survive \in SUBSET running :
       /\ workers' = [m \in Selected |-> IF m \in running \ survive THEN NoWorker ELSE workers[m]]
       /\ saved' = [saved EXCEPT !.active = survive]
  /\ \/ Think([sched EXCEPT !.pc = "finish"])
     \/ exited # {} /\ Think([FreshMemory EXCEPT !.pc = "dead", !.seen = sched.seen])
  /\ UNCHANGED <<Others, trees, outcome>>

\* Mutant of Finish: the worktrees of active workers are removed as well.
FinishAll ==
  /\ sched.pc = "finish"
  /\ \E removed \in SUBSET {m \in sched.touched : trees[m] = "owned"} :
       LET failed == {m \in sched.touched : trees[m] = "owned"} \ removed IN
       /\ trees' = [m \in Selected |-> IF m \in removed THEN "absent" ELSE trees[m]]
       /\ outcome' = [result |-> IF sched.result = "complete" /\ failed # {} THEN "error" ELSE sched.result,
                      snap |-> sched.snap]
  /\ Think([FreshMemory EXCEPT !.pc = "over", !.seen = sched.seen])
  /\ UNCHANGED <<Others, workers, saved>>

\* cleanup and finish: of the members this process has touched, only clean worktrees
\* that active_workers does not name go.
Finish ==
  LET free == {m \in sched.touched : trees[m] = "owned" /\ m \notin saved.active} IN
  /\ sched.pc = "finish"
  /\ \E removed \in SUBSET free :
       /\ trees' = [m \in Selected |-> IF m \in removed THEN "absent" ELSE trees[m]]
       /\ outcome' = [result |-> IF sched.result = "complete" /\ removed # free THEN "error" ELSE sched.result,
                      snap |-> sched.snap]
  /\ Think([FreshMemory EXCEPT !.pc = "over", !.seen = sched.seen])
  /\ UNCHANGED <<Others, workers, saved>>

SchedulerCrash ==
  /\ sched.pc \in Working
  /\ Think([FreshMemory EXCEPT !.pc = "dead", !.seen = sched.seen])
  /\ UNCHANGED <<Others, workers, trees, saved, outcome>>

\* The same command after a crash, for the same state path: the run identity must be
\* given to it explicitly, as each run of its own has a new one (command_run).
StartAgain ==
  /\ sched.pc = "dead" /\ budget.again
  /\ budget' = [budget EXCEPT !.again = FALSE]
  /\ Think([FreshMemory EXCEPT !.seen = LiveHeads])
  /\ UNCHANGED <<live, marks, native, workers, trees, pushed, saved, outcome>>

-----------------------------------------------------------------------------
(* The workers and the others. *)

Spend == budget.pushes > 0 /\ budget' = [budget EXCEPT !.pushes = @ - 1]
Push(m) == [live EXCEPT !.heads[m].v = @ + 1]

\* A CI or review worker publishes its candidate; CI records it first thing.
WorkerPushes(m) ==
  /\ workers[m].state = "running" /\ workers[m].stage \in {"ci", "review"}
  /\ Spend
  /\ live' = Push(m)
  /\ pushed' = IF workers[m].stage = "ci" THEN [pushed EXCEPT ![m] = @ \cup {live'.heads[m].v}] ELSE pushed
  /\ UNCHANGED <<marks, native, workers, trees, saved, sched, outcome>>

\* The conflict worker restacks everything by one atomic push.
WorkerRestacks(m) ==
  /\ workers[m].state = "running" /\ workers[m].stage = "conflict"
  /\ Spend
  /\ live' = [live EXCEPT !.heads = [k \in Members |-> [v |-> live.heads[k].v + 1,
                                                        on |-> IF k = 1 THEN live.trunk ELSE live.heads[k - 1].v + 1]]]
  /\ UNCHANGED <<marks, native, pushed, workers, trees, saved, sched, outcome>>

\* It ends, well or badly; an already mergeable stack leaves one aggregate
\* clearance, a restacked one a state for every member.
WorkerEnds(m) ==
  LET s == workers[m].stage
      mark(k, o) == [outcome |-> o, head |-> live.heads[k], base |-> Tip(k)]
  IN
  /\ workers[m].state = "running"
  /\ \E ok \in BOOLEAN, o \in Outcomes \ {"none"} :
       /\ o = "warned" => s = "ci"
       /\ o = "completed" => s = "conflict"
       /\ o = "drifted" => s = "description"
       /\ ~ok => o = "open"
       /\ workers' = [workers EXCEPT ![m].state = "exited", ![m].ok = ok]
       /\ \/ /\ marks' = [marks EXCEPT ![m][s] = mark(m, o)]
             /\ native' = IF s = "conflict" /\ o = "cleared" THEN [heads |-> LiveHeads, bases |-> Tips] ELSE native
          \/ /\ s = "conflict" /\ o = "cleared"
             /\ marks' = [k \in Selected |-> [marks[k] EXCEPT ![s] = mark(k, o)]]
             /\ native' = NoEvidence
  /\ trees' \in {trees} \cup (IF workers'[m].ok \/ trees[m] = "absent" THEN {} ELSE {[trees EXCEPT ![m] = "dirty"]})
  /\ UNCHANGED <<live, pushed, saved, sched, outcome, budget>>

\* A push, a rebase onto the branch below, a move of the trunk, other checks
\* on a head, another stack.
OthersAct ==
  /\ Spend /\ sched.pc \notin {"over", "dead"}
  /\ \/ /\ \E m \in Members : live' \in {Push(m), [live EXCEPT !.heads[m] = [v |-> @.v + 1, on |-> Tip(m)]]}
        /\ UNCHANGED marks
     \/ live' = [live EXCEPT !.trunk = @ + 1] /\ UNCHANGED marks
     \/ live.same /\ live' = [live EXCEPT !.same = FALSE] /\ UNCHANGED marks
     \/ /\ "ci" \in Stages
        /\ \E m \in Selected : /\ marks[m]["ci"].outcome \in {"cleared", "warned"}
                               /\ marks' = [marks EXCEPT ![m]["ci"].outcome = "open"]
        /\ UNCHANGED live
  /\ UNCHANGED <<native, workers, trees, pushed, saved, sched, outcome>>

-----------------------------------------------------------------------------
Schedule ==
  \/ Open \/ BeginPass \/ ConflictPhase \/ ParallelPhase \/ CiPhase \/ BaseUnreadable \/ WorkersLaunched \/ Collected
  \/ CiGate \/ Pending \/ Before \/ Monitor \/ AfterWorker \/ PhaseEnded \/ CloseSnapshot \/ JudgeSnapshot
  \/ CancelWorkers \/ Finish
  \/ \E m \in Selected : LaunchWorker(m) \/ LaunchFails(m) \/ RecordWorker(m) \/ Confirm(m) \/ CollectWorker(m) \/ Inspect(m)

StackNext ==
  \/ Schedule \/ Interrupted \/ SchedulerCrash \/ StartAgain
  \/ \E m \in Selected : WorkerPushes(m) \/ WorkerRestacks(m) \/ WorkerEnds(m)
  \/ OthersAct

StackSpec == StackInit /\ [][StackNext]_stackVars

-----------------------------------------------------------------------------
(* Properties. *)

\* Complete means one consistent stack: at the heads of the snapshot every
\* member stands on the one below it that was inspected (final_snapshot's two
\* readings), however members moved while the markers were read.
CompleteIsOneStack ==
  outcome.result = "complete" =>
    \A m \in Selected \ {Clicked} : outcome.snap.bases[m] = outcome.snap.heads[m - 1].v

\* No two workers on one pull request, also not after a crash that leaves
\* workers behind and a second start of the run (the sealed run state).
AloneOnMember ==
  \A m \in Selected : workers'[m].state = "running" /\ workers[m].state # "running"
    => m \notin saved.active /\ workers[m].state = "none"
OneWorkerPerMember == [][AloneOnMember]_stackVars

\* Repairs go bottom up: a CI worker starts on a head that contains the very
\* head of the member below that CI's marker names, however the members moved
\* since that one was cleared (ci_gate).
OnGreen ==
  \A m \in Selected \ {Clicked} :
    workers'[m].state = "running" /\ workers[m].state # "running" /\ workers'[m].stage = "ci"
      => m - 1 \in sched.green /\ marks[m - 1]["ci"].head.v = workers'[m].head.on
BottomUp == [][OnGreen]_stackVars

\* A CI phase that is neither blocked nor stopped has carried every push of
\* its workers up the stack, the last ones before an exit included.
PushesAreCarried ==
  sched.pc = "ended" /\ Stage = "ci" /\ sched.stop = "none" /\ ~sched.blocked
    => \A m \in Selected : Behind(m) = {}

\* A worktree is removed from under a worker only if its start could not be recorded:
\* never from one that could not be terminated, or that was started before another
\* failed (cancel_active_workers, cleanup).
NotInUse ==
  \A m \in Selected : trees[m] # "absent" /\ trees'[m] = "absent" =>
    ~(workers[m].state = "running" /\ workers[m].recorded)
WorktreeInUseIsKept == [][NotInUse]_stackVars
=============================================================================
