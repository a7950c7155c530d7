------------------------------ MODULE CloudTask ------------------------------
(***************************************************************************)
(* cloud_task.py: one request for a hosted agent task.  The synchronous    *)
(* call ("plain") posts the task, polls it to its end and writes one       *)
(* result file.  A pipeline stage splits the same work over several calls: *)
(* one "dispatch" that posts and returns, then "observe" calls that look   *)
(* once each; what they know of one another is the checkpoint file beside  *)
(* the result file.  Any call may die or be interrupted anywhere.          *)
(***************************************************************************)
EXTENDS Integers, Sequences

CONSTANTS Calls,        \* invocations of the helper for one result path
          Bounded,      \* TRUE: dispatch and observe calls; FALSE: plain calls
          Serial,       \* TRUE: a call starts only when none is running
          MaxFailures,  \* MAX_TRANSIENT_FAILURES: tries of one retried request
          MaxMoves      \* bound: pushes by others to the pull request

ASSUME CloudTaskAssumption ==
  /\ Bounded \in BOOLEAN
  /\ Serial \in BOOLEAN
  /\ MaxFailures \in Nat \ {0}
  /\ MaxMoves \in Nat

VARIABLES tasks,       \* the hosted tasks that exist, in order of admission
          head,        \* the pull request's branch, as a count of its pushes
          tree,        \* the identity of the local checkout
          checkpoint,  \* <result file>.pipeline.json
          final,       \* the result file
          call,        \* the memory of every call
          last         \* the call that ended last, if any

vars == <<tasks, head, tree, checkpoint, final, call, last>>

Trees == {"same", "other"}
TaskStates == {"active", "completed", "unfit", "stopped"}
CheckpointStates == {"dispatch_unknown", "dispatched", "observing", "collecting", "terminal_error"}
Working == {"prepare", "reserve", "post", "answer", "confirm", "monitor",
            "begin", "get", "put", "collect", "finish", "write"}
Answers == {"none", "pending", "success", "error", "not_started", "interrupted"}

NoCheckpoint == [state |-> "none", task |-> 0, head |-> 0, tree |-> "same"]
NoFinal == [status |-> "none", task |-> 0, head |-> 0]
Fresh == [pc |-> "idle", mode |-> "plain", head |-> 0, tree |-> "same", task |-> 0,
          tries |-> 0, reply |-> "none", known |-> FALSE, seen |-> "none", said |-> "none"]

HostedTask == [state : TaskStates, head : 0..MaxMoves, endedAt : -1..MaxMoves]
Checkpoint == [state : CheckpointStates \cup {"none"}, task : Nat, head : 0..MaxMoves, tree : Trees]
Result == [status : Answers, task : Nat, head : 0..MaxMoves]
Memory == [pc : Working \cup {"idle", "over"}, mode : {"plain", "dispatch", "observe"},
           head : 0..MaxMoves, tree : Trees, task : Nat, tries : 0..MaxFailures,
           reply : {"none", "ok", "lost", "refused"}, known : BOOLEAN,
           seen : TaskStates \cup {"none"}, said : Answers]

\* Every variable has its type; a call that counts the tries of its request
\* never exceeds the limit of the code.
TypeOK ==
  /\ tasks \in Seq(HostedTask)
  /\ head \in 0..MaxMoves
  /\ tree \in Trees
  /\ checkpoint \in Checkpoint
  /\ final \in Result
  /\ call \in [Calls -> Memory]
  /\ last \in Calls \cup {"nobody"}

Init ==
  /\ tasks = <<>>
  /\ head = 0
  /\ tree = "same"
  /\ checkpoint = NoCheckpoint
  /\ final = NoFinal
  /\ call = [c \in Calls |-> Fresh]
  /\ last = "nobody"

Running == {c \in Calls : call[c].pc \in Working}
TaskOf(c) == tasks[call[c].task]

Become(c, memory) == call' = [call EXCEPT ![c] = memory]

Goto(c, pc) == Become(c, [call[c] EXCEPT !.pc = pc])

\* execute and main catch every error: the call goes on to report it.
Answer(c, said) == Become(c, [call[c] EXCEPT !.pc = "finish", !.said = said])

-----------------------------------------------------------------------------
(* Starting a call *)

\* A dispatch refuses a result path that was used before.
Unused == checkpoint = NoCheckpoint /\ final = NoFinal

Start(c) ==
  /\ call[c].pc = "idle"
  /\ Serial => Running = {}
  /\ Become(c, [call[c] EXCEPT !.mode = IF Bounded THEN "dispatch" ELSE "plain", !.head = head,
       !.pc = IF Bounded => Unused THEN "prepare" ELSE "finish",
       !.said = IF Bounded => Unused THEN "none" ELSE "error"])
  /\ UNCHANGED <<tasks, head, tree, checkpoint, final, last>>

\* Mutant of Observable: an interrupted observation may be taken up again.
ObservableTask == checkpoint.state \in {"dispatched", "observing"} /\ final = NoFinal

\* An observation accepts only a checkpoint with a confirmed task that no
\* other observation has taken further, with no result beside it.
Observable == checkpoint.state = "dispatched" /\ final = NoFinal

\* load_pipeline_checkpoint and the comparison of the whole frozen identity.
StartObserve(c) ==
  /\ call[c].pc = "idle"
  /\ Serial => Running = {}
  /\ Bounded
  /\ Become(c, [call[c] EXCEPT !.mode = "observe", !.known = Observable /\ checkpoint.tree = tree,
       !.pc = IF Observable /\ checkpoint.tree = tree THEN "begin" ELSE "finish",
       !.said = IF Observable /\ checkpoint.tree = tree THEN "none" ELSE "error",
       !.task = checkpoint.task, !.head = checkpoint.head, !.tree = checkpoint.tree])
  /\ UNCHANGED <<tasks, head, tree, checkpoint, final, last>>

\* The pull request is read again after the checkout is aligned with it; then
\* the local identity is frozen.
Prepare(c) ==
  /\ call[c].pc = "prepare"
  /\ IF head = call[c].head
       THEN Become(c, [call[c] EXCEPT !.pc = "reserve", !.tree = tree])
       ELSE Answer(c, "error")
  /\ UNCHANGED <<tasks, head, tree, checkpoint, final, last>>

-----------------------------------------------------------------------------
(* Creating the task *)

\* Mutant of Reserve: the checkpoint is opened for writing instead of created.
ReserveAnyway(c) ==
  /\ call[c].pc = "reserve"
  /\ IF call[c].mode = "plain" THEN UNCHANGED checkpoint
     ELSE checkpoint' = [state |-> "dispatch_unknown", task |-> 0,
                         head |-> call[c].head, tree |-> call[c].tree]
  /\ Goto(c, "post")
  /\ UNCHANGED <<tasks, head, tree, final, last>>

\* reserve_pipeline_checkpoint: an exclusive create, before the POST.
Reserve(c) ==
  /\ call[c].pc = "reserve"
  /\ IF call[c].mode = "plain" THEN Goto(c, "post") /\ UNCHANGED checkpoint
     ELSE IF checkpoint # NoCheckpoint THEN Answer(c, "error") /\ UNCHANGED checkpoint
     ELSE /\ checkpoint' = [state |-> "dispatch_unknown", task |-> 0,
                            head |-> call[c].head, tree |-> call[c].tree]
          /\ Goto(c, "post")
  /\ UNCHANGED <<tasks, head, tree, final, last>>

\* One POST.  The service admits the task or not, and its answer arrives, is
\* lost on the way (a transport failure or a 5xx), or refuses for good.
Post(c) ==
  /\ call[c].pc = "post"
  /\ \E reply \in {"ok", "lost", "refused"}, admitted \in BOOLEAN :
       /\ reply = "ok" => admitted
       /\ reply = "refused" => ~admitted
       /\ tasks' = IF admitted THEN Append(tasks, [state |-> "active", head |-> call[c].head, endedAt |-> -1])
                   ELSE tasks
       /\ Become(c, [call[c] EXCEPT !.pc = "answer", !.reply = reply, !.tries = @ + 1,
                               !.task = IF reply = "ok" THEN Len(tasks) + 1 ELSE 0])
  /\ UNCHANGED <<head, tree, checkpoint, final, last>>

\* request_json repeats a plain POST after a transient failure; a dispatch
\* calls _request_once and gives up at the first.
Replied(c) ==
  /\ call[c].pc = "answer"
  /\ IF call[c].reply = "ok" THEN Goto(c, "confirm")
     ELSE IF call[c].reply = "lost" /\ call[c].mode = "plain" /\ call[c].tries < MaxFailures
       THEN Goto(c, "post")
     ELSE Answer(c, "error")
  /\ UNCHANGED <<tasks, head, tree, checkpoint, final, last>>

\* Mutant of Confirm: a dispatch that sees an active task stays to monitor it.
ConfirmAndWait(c) ==
  /\ call[c].pc = "confirm"
  /\ Become(c, [call[c] EXCEPT !.pc = "monitor", !.known = TRUE])
  /\ UNCHANGED <<tasks, head, tree, checkpoint, final, last>>

\* A dispatch writes the task's identity into the checkpoint and answers
\* pending if the task is active; a plain call starts to monitor it.
Confirm(c) ==
  /\ call[c].pc = "confirm"
  /\ IF call[c].mode = "plain"
       THEN /\ Become(c, [call[c] EXCEPT !.pc = "monitor", !.known = TRUE])
            /\ UNCHANGED checkpoint
       ELSE LET active == TaskOf(c).state = "active" IN
            /\ checkpoint' = [checkpoint EXCEPT !.task = call[c].task,
                 !.state = IF active THEN "dispatched" ELSE "terminal_error"]
            /\ Become(c, [call[c] EXCEPT !.pc = "finish", !.known = TRUE, !.seen = TaskOf(c).state,
                                    !.said = IF active THEN "pending" ELSE "error"])
  /\ UNCHANGED <<tasks, head, tree, final, last>>

-----------------------------------------------------------------------------
(* Watching and collecting *)

\* Mutant of Monitor: the monitor knows only the states that mean success or more work.
MonitorSuccess(c) ==
  /\ call[c].pc = "monitor"
  /\ call[c].seen # TaskOf(c).state
  /\ TaskOf(c).state # "stopped"
  /\ Become(c, [call[c] EXCEPT !.seen = TaskOf(c).state,
       !.pc = IF TaskOf(c).state = "active" THEN "monitor" ELSE "collect"])
  /\ UNCHANGED <<tasks, head, tree, checkpoint, final, last>>

\* monitor_task: one poll of a plain call.
Monitor(c) ==
  /\ call[c].pc = "monitor"
  /\ call[c].seen # TaskOf(c).state
  /\ Become(c, [call[c] EXCEPT !.seen = TaskOf(c).state,
       !.pc = CASE TaskOf(c).state = "active" -> "monitor"
                   [] TaskOf(c).state = "stopped" -> "finish"
                   [] OTHER -> "collect",
       !.said = IF TaskOf(c).state = "stopped" THEN "error" ELSE "none"])
  /\ UNCHANGED <<tasks, head, tree, checkpoint, final, last>>

\* A poll that fails for good, or more than MaxFailures times in a row; an
\* active task that is not the one requested.
PollFails(c) ==
  /\ \/ call[c].pc \in {"monitor", "get"}
     \/ call[c].pc = "put" /\ call[c].seen = "active"
  /\ Answer(c, "error")
  /\ UNCHANGED <<tasks, head, tree, checkpoint, final, last>>

\* The call rewrites the whole checkpoint it loaded, with a new state.
SetCheckpointState(c, state) ==
  checkpoint' = [state |-> state, task |-> call[c].task, head |-> call[c].head, tree |-> call[c].tree]

Begin(c) ==
  /\ call[c].pc = "begin"
  /\ SetCheckpointState(c, "observing")
  /\ Goto(c, "get")
  /\ UNCHANGED <<tasks, head, tree, final, last>>

\* The single GET of an observation.
Get(c) ==
  /\ call[c].pc = "get"
  /\ Become(c, [call[c] EXCEPT !.pc = "put", !.seen = TaskOf(c).state])
  /\ UNCHANGED <<tasks, head, tree, checkpoint, final, last>>

\* Mutant of StateAfter: an observation of an active task leaves the checkpoint as it is.
StateAfterEnd(seen) ==
  CASE seen = "active" -> "observing"
    [] seen = "stopped" -> "terminal_error"
    [] OTHER -> "collecting"

\* Mutant of StateAfter: the service's own state is written.
StateAfterRaw(seen) == seen

StateAfter(seen) ==
  CASE seen = "active" -> "dispatched"
    [] seen = "stopped" -> "terminal_error"
    [] OTHER -> "collecting"

Put(c) ==
  /\ call[c].pc = "put"
  /\ SetCheckpointState(c, StateAfter(call[c].seen))
  /\ CASE call[c].seen = "active" -> Answer(c, "pending")
       [] call[c].seen = "stopped" -> Answer(c, "error")
       [] OTHER -> Goto(c, "collect")
  /\ UNCHANGED <<tasks, head, tree, final, last>>

\* Mutant of Acceptable: the pull request is not read again after the task.
AcceptableTask(c) == call[c].seen = "completed" /\ tree = call[c].tree

\* Mutant of Acceptable: any completed task is accepted.
AcceptableState(c) == tree = call[c].tree /\ (call[c].mode = "plain" => head = call[c].head)

\* collect_completed_task: the completed task's evidence and history must fit
\* the request and the checkout must be untouched; a plain call reads the pull
\* request again, an observation leaves that to its caller.
Acceptable(c) ==
  /\ call[c].seen = "completed"
  /\ tree = call[c].tree
  /\ call[c].mode = "plain" => head = call[c].head

Collect(c) ==
  /\ call[c].pc = "collect"
  /\ Answer(c, IF Acceptable(c) THEN "success" ELSE "error")
  /\ UNCHANGED <<tasks, head, tree, checkpoint, final, last>>

-----------------------------------------------------------------------------
(* Ending a call *)

End(c) ==
  /\ Become(c, [Fresh EXCEPT !.pc = "over", !.mode = call[c].mode, !.said = call[c].said])
  /\ last' = c

\* main: a pipeline call prints its answer, and writes the result file only
\* when it observed the end of the task and there is no such file.
Writes(c) ==
  \/ call[c].mode = "plain"
  \/ call[c].mode = "observe" /\ call[c].seen \in {"completed", "unfit"} /\ final = NoFinal

Finish(c) ==
  /\ call[c].pc = "finish"
  /\ IF Writes(c) THEN Goto(c, "write") /\ UNCHANGED last ELSE End(c)
  /\ UNCHANGED <<tasks, head, tree, checkpoint, final>>

WriteFinal(c) ==
  /\ call[c].pc = "write"
  /\ final' = [status |-> call[c].said, task |-> call[c].task, head |-> call[c].head]
  /\ End(c)
  /\ UNCHANGED <<tasks, head, tree, checkpoint>>

\* Ctrl-C: what the call says depends on whether it had noted a task.
Interrupt(c) ==
  /\ call[c].pc \in Working \ {"finish", "write"}
  /\ Answer(c, IF call[c].known THEN "interrupted" ELSE "not_started")
  /\ UNCHANGED <<tasks, head, tree, checkpoint, final, last>>

\* The process dies and says nothing.
Crash(c) ==
  /\ call[c].pc \in Working
  /\ Become(c, [Fresh EXCEPT !.pc = "over", !.mode = call[c].mode])
  /\ last' = c
  /\ UNCHANGED <<tasks, head, tree, checkpoint, final>>

-----------------------------------------------------------------------------
(* The world *)

TaskEnds(t) ==
  /\ tasks[t].state = "active"
  /\ \E state \in TaskStates \ {"active"} :
       tasks' = [tasks EXCEPT ![t].state = state, ![t].endedAt = head]
  /\ UNCHANGED <<head, tree, checkpoint, final, call, last>>

HeadMoves ==
  /\ head < MaxMoves
  /\ head' = head + 1
  /\ UNCHANGED <<tasks, tree, checkpoint, final, call, last>>

TreeChanges ==
  /\ tree' \in Trees \ {tree}
  /\ UNCHANGED <<tasks, head, checkpoint, final, call, last>>

Step(c) ==
  \/ Prepare(c) \/ Reserve(c) \/ Post(c) \/ Replied(c) \/ Confirm(c)
  \/ Monitor(c) \/ Begin(c) \/ Get(c) \/ Put(c)
  \/ Collect(c) \/ Finish(c) \/ WriteFinal(c)

Next ==
  \/ \E c \in Calls :
       \/ Start(c)
       \/ StartObserve(c)
       \/ Step(c)
       \/ PollFails(c)
       \/ Interrupt(c)
       \/ Crash(c)
  \/ \E t \in DOMAIN tasks : TaskEnds(t)
  \/ HeadMoves
  \/ TreeChanges

Spec == Init /\ [][Next]_vars

\* A running call keeps running; nothing is assumed of the hosted service.
FairSpec == Spec /\ \A c \in Calls : WF_vars(Step(c))

-----------------------------------------------------------------------------
(* Properties *)

\* However many dispatches race for one result path, and wherever they die, at
\* most one hosted task comes of it: the reservation is exclusive, outlives
\* its writer and precedes the only POST.
OneTask == Len(tasks) <= 1

\* A result file that says success names a task that did complete with fitting
\* evidence, started from the head that the result reports.  For a plain call
\* nobody had pushed between the freezing of that head and the task's end; for
\* a staged one it is the task of the checkpoint.
SuccessIsEarned ==
  final.status = "success" =>
    /\ final.task \in DOMAIN tasks
    /\ tasks[final.task].state = "completed"
    /\ tasks[final.task].head = final.head
    /\ IF Bounded THEN checkpoint.task = final.task ELSE tasks[final.task].endedAt = final.head

\* A pending answer is a promise: until another call starts, the checkpoint
\* names an existing task and the next observation will take it up.
PendingCanBeObserved ==
  Running = {} /\ last # "nobody" /\ call[last].said = "pending" =>
    checkpoint.state = "dispatched" /\ final = NoFinal /\ checkpoint.task \in DOMAIN tasks

\* "A failed call cannot be resumed": a dispatch or observation that ended
\* between its first and its last write leaves a checkpoint that no later call
\* moves, so the work of its task never becomes a result.
Abandoned(state) ==
  Running = {} /\ checkpoint.state = state /\ final = NoFinal

AbandonedStaysSo ==
  \A state \in CheckpointStates \ {"dispatched"} :
    [](Abandoned(state) => [](checkpoint.state = state /\ final = NoFinal))

\* A staged call never waits for the hosted task: it ends however long the
\* task runs.
BoundedCallsEnd == \A c \in Calls : call[c].pc \in Working ~> call[c].pc = "over"

\* A plain call that waits for its task ends once the task has ended, in
\* whatever state.
PlainCallsEnd ==
  \A c \in Calls :
    (call[c].pc = "monitor" /\ TaskOf(c).state # "active") ~> call[c].pc = "over"

\* The message of an interrupted call: no Agent Task was started.
NotStartedIsTrue == \A c \in Calls : call[c].said = "not_started" => tasks = <<>>

==============================================================================
