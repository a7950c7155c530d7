--------------------------- MODULE CloudTaskProofs ---------------------------
(***************************************************************************)
(* Theorems about CloudTask, for any number of calls, of retries and of    *)
(* pushes by others: types, that staged calls create one task at most, and *)
(* that a staged result says success only of the task that earned it.      *)
(***************************************************************************)
EXTENDS CloudTask, TLAPS

\* The calls that refer to a hosted task, and what makes a reference good when
\* there are n tasks.
HasTask == {"confirm", "monitor", "begin", "get", "put", "collect"}

GoodMemory(m, n) ==
  /\ m \in Memory
  /\ m.pc \in HasTask \/ (m.pc = "answer" /\ m.reply = "ok") => m.task \in 1..n
  /\ m.pc \in {"idle", "prepare", "reserve", "post"} => m.tries < MaxFailures

GoodCheckpoint(n) ==
  /\ checkpoint \in Checkpoint
  /\ checkpoint.state \notin {"none", "dispatch_unknown"} => checkpoint.task \in 1..n

TInv ==
  /\ TypeOK
  /\ \A c \in Calls : GoodMemory(call[c], Len(tasks))
  /\ GoodCheckpoint(Len(tasks))

\* A call that may still post has the reservation to itself.
Posting == {"post", "answer", "confirm"}

ReserveInv ==
  /\ \A c \in Calls : call[c].pc \in Posting \cup {"prepare", "reserve"} => call[c].mode = "dispatch"
  /\ \A c \in Calls : call[c].pc \in Posting => checkpoint.state # "none"
  /\ \A c, d \in Calls : call[c].pc \in Posting /\ call[d].pc \in Posting => c = d
  /\ \A c \in Calls : call[c].pc = "post" => tasks = <<>>
  /\ tasks # <<>> => checkpoint.state # "none"
  /\ OneTask

-----------------------------------------------------------------------------
LEMMA FreshMemory ==
  ASSUME NEW mode \in {"plain", "dispatch", "observe"}, NEW said \in Answers, NEW n \in Nat
  PROVE  /\ GoodMemory([Fresh EXCEPT !.pc = "over", !.mode = mode, !.said = said], n)
         /\ GoodMemory([Fresh EXCEPT !.pc = "over", !.mode = mode], n)
         /\ GoodMemory(Fresh, n)
  <1>1. 0 \in 0..MaxMoves /\ 0 \in 0..MaxFailures /\ 0 < MaxFailures
    BY CloudTaskAssumption
  <1>2. Fresh \in Memory
    BY <1>1 DEF Fresh, Memory, Working, Trees, Answers, TaskStates
  <1>3. [Fresh EXCEPT !.pc = "over", !.mode = mode] \in Memory
    BY <1>2 DEF Memory
  <1>4. [Fresh EXCEPT !.pc = "over", !.mode = mode, !.said = said] \in Memory
    BY <1>2 DEF Memory
  <1> QED
    BY <1>1, <1>2, <1>3, <1>4 DEF GoodMemory, Fresh, HasTask

LEMMA InitTypes == Init => TInv
  <1> SUFFICES ASSUME Init PROVE TInv
    OBVIOUS
  <1>1. TypeOK
    <2>1. Fresh \in Memory
      BY FreshMemory DEF GoodMemory, Answers
    <2> QED
      BY <2>1, CloudTaskAssumption DEF Init, TypeOK, NoCheckpoint, NoFinal, Checkpoint, Result,
         Trees, Answers
  <1>2. \A c \in Calls : GoodMemory(call[c], Len(tasks))
    BY FreshMemory DEF Init, Answers
  <1>3. GoodCheckpoint(Len(tasks))
    BY <1>1 DEF Init, GoodCheckpoint, NoCheckpoint, TypeOK
  <1> QED
    BY <1>1, <1>2, <1>3 DEF TInv

\* What a call remembers stays good when tasks are added.
LEMMA MemoryGrows ==
  ASSUME NEW m, NEW n \in Nat, NEW k \in Nat, n <= k, GoodMemory(m, n)
  PROVE  GoodMemory(m, k)
  BY DEF GoodMemory

\* A step of one call keeps the types if its new memory is good.
LEMMA BecomeTypes ==
  ASSUME TInv, NEW c \in Calls, NEW m, Become(c, m), GoodMemory(m, Len(tasks')),
         tasks' \in Seq(HostedTask), Len(tasks) <= Len(tasks'),
         head' \in 0..MaxMoves, tree' \in Trees, final' \in Result,
         last' \in Calls \cup {"nobody"}, GoodCheckpoint(Len(tasks))'
  PROVE  TInv'
  <1> Len(tasks) \in Nat /\ Len(tasks') \in Nat
    BY DEF TInv, TypeOK
  <1>1. call' \in [Calls -> Memory]
    BY DEF TInv, TypeOK, Become, GoodMemory
  <1>2. \A d \in Calls : GoodMemory(call'[d], Len(tasks'))
    <2> TAKE d \in Calls
    <2>1. CASE d = c
      BY <2>1 DEF Become, TInv, TypeOK
    <2>2. CASE d # c
      BY <2>2, MemoryGrows DEF Become, TInv, TypeOK
    <2> QED
      BY <2>1, <2>2
  <1>3. TypeOK'
    BY <1>1 DEF TypeOK, GoodCheckpoint
  <1>4. (\A d \in Calls : GoodMemory(call[d], Len(tasks)))'
    BY <1>2
  <1> QED
    BY <1>3, <1>4 DEF TInv

\* The steps of a call that only change what it remembers.
LEMMA QuietTypes ==
  ASSUME TInv, NEW c \in Calls, NEW m, Become(c, m), GoodMemory(m, Len(tasks)),
         UNCHANGED <<tasks, head, tree, checkpoint, final>>, last' \in Calls \cup {"nobody"}
  PROVE  TInv'
  <1> GoodCheckpoint(Len(tasks))'
    BY DEF TInv, GoodCheckpoint
  <1> QED
    BY BecomeTypes DEF TInv, TypeOK

LEMMA Known ==
  ASSUME TInv, NEW c \in Calls
  PROVE  /\ GoodMemory(call[c], Len(tasks))
         /\ call[c] \in Memory
         /\ Len(tasks) \in Nat
         /\ call[c].pc \in HasTask => TaskOf(c) \in HostedTask /\ TaskOf(c).state \in TaskStates
  <1>1. GoodMemory(call[c], Len(tasks)) /\ tasks \in Seq(HostedTask) /\ Len(tasks) \in Nat
    BY DEF TInv, TypeOK
  <1>2. ASSUME call[c].pc \in HasTask PROVE TaskOf(c) \in HostedTask
    <2>1. call[c].task \in 1..Len(tasks)
      BY <1>1, <1>2 DEF GoodMemory
    <2> QED
      BY <1>1, <2>1 DEF TaskOf
  <1> QED
    BY <1>1, <1>2 DEF GoodMemory, HostedTask

-----------------------------------------------------------------------------
(* Types: every step of a call *)

LEMMA AnswerTypes ==
  ASSUME TInv, NEW c \in Calls, NEW said \in Answers, Answer(c, said),
         UNCHANGED <<tasks, head, tree, checkpoint, final, last>>
  PROVE  TInv'
  <1>1. GoodMemory([call[c] EXCEPT !.pc = "finish", !.said = said], Len(tasks))
    BY Known DEF GoodMemory, Memory, HasTask, Working
  <1> QED
    BY <1>1, QuietTypes DEF Answer, TInv, TypeOK

LEMMA EndTypes ==
  ASSUME TInv, NEW c \in Calls, End(c), UNCHANGED <<tasks, head, tree, checkpoint>>, final' \in Result
  PROVE  TInv'
  <1>1. call[c].mode \in {"plain", "dispatch", "observe"} /\ call[c].said \in Answers /\ Len(tasks) \in Nat
    BY Known DEF Memory
  <1>2. GoodMemory([Fresh EXCEPT !.pc = "over", !.mode = call[c].mode, !.said = call[c].said], Len(tasks))
    BY <1>1, FreshMemory
  <1>3. GoodCheckpoint(Len(tasks))'
    BY DEF TInv, GoodCheckpoint
  <1> QED
    BY <1>1, <1>2, <1>3, BecomeTypes DEF End, TInv, TypeOK

LEMMA StartTypes ==
  ASSUME TInv, NEW c \in Calls, Start(c) \/ StartObserve(c) \/ Prepare(c)
  PROVE  TInv'
  <1>1. CASE Start(c)
    <2> DEFINE mode == IF Bounded THEN "dispatch" ELSE "plain"
               pc == IF Bounded => Unused THEN "prepare" ELSE "finish"
               said == IF Bounded => Unused THEN "none" ELSE "error"
    <2>1. Become(c, [call[c] EXCEPT !.mode = mode, !.head = head, !.pc = pc, !.said = said])
      BY <1>1 DEF Start
    <2>2. mode \in {"plain", "dispatch", "observe"} /\ said \in Answers /\ pc \in Working
          /\ pc \notin HasTask \cup {"answer", "post"}
      BY DEF Answers, Working, HasTask
    <2> HIDE DEF mode, pc, said
    <2>3. [call[c] EXCEPT !.mode = mode, !.head = head, !.pc = pc, !.said = said] \in Memory
      <3>1. head \in 0..MaxMoves
        BY DEF TInv, TypeOK
      <3> QED
        BY <2>2, <3>1, Known DEF Memory
    <2>4. LET m == [call[c] EXCEPT !.mode = mode, !.head = head, !.pc = pc, !.said = said]
          IN  m.pc = pc /\ m.tries = call[c].tries
      BY Known DEF Memory
    <2>5. GoodMemory([call[c] EXCEPT !.mode = mode, !.head = head, !.pc = pc, !.said = said], Len(tasks))
      BY <1>1, <2>2, <2>3, <2>4, Known DEF GoodMemory, Start
    <2> QED
      BY <1>1, <2>1, <2>5, QuietTypes DEF Start, TInv, TypeOK
  <1>2. CASE StartObserve(c)
    <2> DEFINE ok == Observable /\ checkpoint.tree = tree
               pc == IF ok THEN "begin" ELSE "finish"
               said == IF ok THEN "none" ELSE "error"
               m == [call[c] EXCEPT !.mode = "observe", !.known = ok, !.pc = pc, !.said = said,
                       !.task = checkpoint.task, !.head = checkpoint.head, !.tree = checkpoint.tree]
    <2>1. Become(c, m)
      BY <1>2 DEF StartObserve
    <2>2. m \in Memory
      <3>1. ok \in BOOLEAN
        BY ZenonT(30)
      <3>2. checkpoint.task \in Nat /\ checkpoint.head \in 0..MaxMoves /\ checkpoint.tree \in Trees
        BY DEF TInv, GoodCheckpoint, Checkpoint
      <3>3. pc \in Working /\ said \in Answers
        BY DEF Working, Answers
      <3> HIDE DEF ok, pc, said
      <3> QED
        BY <3>1, <3>2, <3>3, Known DEF Memory
    <2>3. m.pc = pc /\ m.task = checkpoint.task
      BY Known DEF Memory
    <2>4. pc = "begin" => checkpoint.task \in 1..Len(tasks)
      BY DEF TInv, GoodCheckpoint, Observable
    <2>5. pc \in {"begin", "finish"}
      OBVIOUS
    <2> HIDE DEF m, pc
    <2>6. GoodMemory(m, Len(tasks))
      BY <2>2, <2>3, <2>4, <2>5 DEF GoodMemory, HasTask
    <2> QED
      BY <1>2, <2>1, <2>6, QuietTypes DEF StartObserve, TInv, TypeOK
  <1>3. CASE Prepare(c)
    <2>1. CASE head = call[c].head
      <3>1. Become(c, [call[c] EXCEPT !.pc = "reserve", !.tree = tree])
        BY <1>3, <2>1 DEF Prepare
      <3>2. GoodMemory([call[c] EXCEPT !.pc = "reserve", !.tree = tree], Len(tasks))
        <4>1. tree \in Trees /\ "reserve" \in Working /\ call[c].tries < MaxFailures
          BY <1>3, Known DEF Prepare, TInv, TypeOK, GoodMemory, Working
        <4>2. [call[c] EXCEPT !.pc = "reserve", !.tree = tree] \in Memory
          BY <4>1, Known DEF Memory
        <4> QED
          BY <4>1, <4>2, Known DEF GoodMemory, Memory, HasTask
      <3> QED
        BY <1>3, <3>1, <3>2, QuietTypes DEF Prepare, TInv, TypeOK
    <2>2. CASE head # call[c].head
      BY <1>3, <2>2, AnswerTypes DEF Prepare, Answers
    <2> QED
      BY <2>1, <2>2
  <1> QED
    BY <1>1, <1>2, <1>3

\* The steps that move a call on and nothing else.
LEMMA GotoTypes ==
  ASSUME TInv, NEW c \in Calls, NEW pc \in Working, Goto(c, pc),
         pc \in HasTask => call[c].task \in 1..Len(tasks),
         pc # "answer", pc \in {"prepare", "reserve", "post"} => call[c].tries < MaxFailures,
         UNCHANGED <<tasks, head, tree, final, last>>, GoodCheckpoint(Len(tasks))'
  PROVE  TInv'
  <1>1. GoodMemory([call[c] EXCEPT !.pc = pc], Len(tasks))
    <2>1. pc # "idle"
      BY DEF Working
    <2> QED
      BY <2>1, Known DEF GoodMemory, Memory
  <1> QED
    BY <1>1, BecomeTypes, Known DEF Goto, TInv, TypeOK

LEMMA CreateTypes ==
  ASSUME TInv, NEW c \in Calls, Reserve(c) \/ Post(c) \/ Replied(c) \/ Confirm(c)
  PROVE  TInv'
  <1> USE Known, CloudTaskAssumption
  <1>0. GoodCheckpoint(Len(tasks)) /\ head \in 0..MaxMoves /\ tree \in Trees /\ final \in Result
        /\ last \in Calls \cup {"nobody"} /\ tasks \in Seq(HostedTask)
    BY DEF TInv, TypeOK
  <1>1. CASE Reserve(c)
    <2>1. CASE call[c].pc = "reserve" /\ call[c].mode # "plain" /\ checkpoint # NoCheckpoint
      BY <1>1, <2>1, AnswerTypes DEF Reserve, Answers
    <2>2. CASE Goto(c, "post")
      <3>1. PICK h \in 0..MaxMoves, t \in Trees :
              checkpoint' \in {checkpoint, [state |-> "dispatch_unknown", task |-> 0, head |-> h, tree |-> t]}
        BY <1>1, <2>1, <2>2 DEF Reserve, Answer, Memory
      <3>2. GoodCheckpoint(Len(tasks))'
        BY <1>0, <1>1, <3>1 DEF GoodCheckpoint, Checkpoint, CheckpointStates, Reserve
      <3>3. call[c].tries < MaxFailures
        BY <1>1 DEF Reserve, GoodMemory
      <3> QED
        BY <1>1, <2>2, <3>2, <3>3, GotoTypes DEF Reserve, Working, HasTask
    <2> QED
      BY <1>1, <2>1, <2>2 DEF Reserve
  <1>2. CASE Post(c)
    <2>1. PICK reply \in {"ok", "lost", "refused"}, admitted \in BOOLEAN :
            /\ reply = "ok" => admitted
            /\ tasks' = IF admitted THEN Append(tasks, [state |-> "active", head |-> call[c].head, endedAt |-> -1])
                        ELSE tasks
            /\ Become(c, [call[c] EXCEPT !.pc = "answer", !.reply = reply, !.tries = @ + 1,
                                         !.task = IF reply = "ok" THEN Len(tasks) + 1 ELSE 0])
      BY <1>2 DEF Post
    <2> DEFINE task == IF reply = "ok" THEN Len(tasks) + 1 ELSE 0
               m == [call[c] EXCEPT !.pc = "answer", !.reply = reply, !.tries = @ + 1, !.task = task]
    <2>2. [state |-> "active", head |-> call[c].head, endedAt |-> -1] \in HostedTask
      BY DEF HostedTask, Memory, TaskStates
    <2>3. /\ tasks' \in Seq(HostedTask) /\ Len(tasks) <= Len(tasks')
          /\ admitted => Len(tasks') = Len(tasks) + 1
      BY <1>0, <2>1, <2>2
    <2>4. task \in Nat /\ (reply = "ok" => task \in 1..Len(tasks'))
      BY <2>1, <2>3
    <2>5. call[c].tries + 1 \in 0..MaxFailures
      BY <1>2 DEF Post, GoodMemory, Memory
    <2>6. "answer" \in Working
      BY DEF Working
    <2> HIDE DEF task
    <2>7. m \in Memory
      BY <2>4, <2>5, <2>6 DEF Memory
    <2>8. m.pc = "answer" /\ m.reply = reply /\ m.task = task
      BY DEF Memory
    <2>m. Become(c, m)
      BY <2>1 DEF task
    <2> HIDE DEF m
    <2>9. GoodMemory(m, Len(tasks'))
      BY <2>4, <2>7, <2>8 DEF GoodMemory, HasTask
    <2>10. GoodCheckpoint(Len(tasks))'
      BY <1>0, <1>2, <2>3 DEF GoodCheckpoint, Post
    <2> QED
      BY <1>0, <1>2, <2>3, <2>m, <2>9, <2>10, BecomeTypes DEF Post
  <1>3. CASE Replied(c)
    <2> GoodCheckpoint(Len(tasks))'
      BY <1>0, <1>3 DEF Replied, GoodCheckpoint
    <2>1. CASE Goto(c, "confirm") /\ call[c].reply = "ok"
      BY <1>3, <2>1, GotoTypes DEF Replied, GoodMemory, Working
    <2>2. CASE Goto(c, "post") /\ call[c].tries < MaxFailures
      BY <1>3, <2>2, GotoTypes DEF Replied, Working, HasTask
    <2>3. CASE Answer(c, "error")
      BY <1>3, <2>3, AnswerTypes DEF Replied, Answers
    <2> QED
      BY <1>3, <2>1, <2>2, <2>3 DEF Replied
  <1>4. CASE Confirm(c)
    <2>0. call[c].task \in 1..Len(tasks) /\ TaskOf(c).state \in TaskStates
      BY <1>4 DEF Confirm, GoodMemory, HasTask
    <2>1. CASE call[c].mode = "plain"
      <3>1. [call[c] EXCEPT !.pc = "monitor", !.known = TRUE] \in Memory
        BY DEF Memory, Working
      <3>2. GoodMemory([call[c] EXCEPT !.pc = "monitor", !.known = TRUE], Len(tasks))
        BY <2>0, <3>1 DEF GoodMemory, Memory
      <3> QED
        BY <1>0, <1>4, <2>1, <3>2, QuietTypes DEF Confirm
    <2>2. CASE call[c].mode # "plain"
      <3> DEFINE said == IF TaskOf(c).state = "active" THEN "pending" ELSE "error"
                 m == [call[c] EXCEPT !.pc = "finish", !.known = TRUE, !.seen = TaskOf(c).state, !.said = said]
                 state == IF TaskOf(c).state = "active" THEN "dispatched" ELSE "terminal_error"
      <3>1. Become(c, m) /\ checkpoint' = [checkpoint EXCEPT !.task = call[c].task, !.state = state]
        BY <1>4, <2>2 DEF Confirm
      <3>2. said \in Answers /\ state \in CheckpointStates /\ "finish" \in Working
        BY DEF Answers, CheckpointStates, Working
      <3> HIDE DEF said, state
      <3>3. m \in Memory
        BY <2>0, <3>2 DEF Memory
      <3>4. GoodMemory(m, Len(tasks))
        BY <3>3 DEF GoodMemory, Memory, HasTask
      <3>5. GoodCheckpoint(Len(tasks))'
        <4>0. checkpoint \in Checkpoint /\ call[c].task \in Nat
          BY <1>0 DEF GoodCheckpoint, Memory
        <4>1. checkpoint' \in Checkpoint
          BY <3>1, <3>2, <4>0 DEF Checkpoint
        <4>2. checkpoint'.task = call[c].task
          BY <1>0, <3>1 DEF GoodCheckpoint, Checkpoint
        <4> QED
          BY <1>4, <2>0, <4>1, <4>2 DEF Confirm, GoodCheckpoint
      <3> QED
        BY <1>0, <1>4, <3>1, <3>4, <3>5, BecomeTypes DEF Confirm
    <2> QED
      BY <2>1, <2>2
  <1> QED
    BY <1>1, <1>2, <1>3, <1>4

LEMMA WatchTypes ==
  ASSUME TInv, NEW c \in Calls,
         Monitor(c) \/ PollFails(c) \/ Begin(c) \/ Get(c) \/ Put(c) \/ Collect(c)
  PROVE  TInv'
  <1> USE Known
  <1>0. GoodCheckpoint(Len(tasks)) /\ last \in Calls \cup {"nobody"}
    BY DEF TInv, TypeOK
  <1>1. CASE Monitor(c)
    <2> DEFINE pc == CASE TaskOf(c).state = "active" -> "monitor"
                       [] TaskOf(c).state = "stopped" -> "finish"
                       [] OTHER -> "collect"
               said == IF TaskOf(c).state = "stopped" THEN "error" ELSE "none"
               m == [call[c] EXCEPT !.seen = TaskOf(c).state, !.pc = pc, !.said = said]
    <2>1. Become(c, m)
      BY <1>1 DEF Monitor
    <2>2. call[c].task \in 1..Len(tasks) /\ TaskOf(c).state \in TaskStates
      BY <1>1 DEF Monitor, GoodMemory, HasTask
    <2>3. pc \in {"monitor", "finish", "collect"} /\ pc \in Working /\ said \in Answers
      BY DEF Working, Answers
    <2> HIDE DEF pc, said
    <2>4. m \in Memory
      BY <2>2, <2>3 DEF Memory
    <2>5. GoodMemory(m, Len(tasks))
      BY <2>2, <2>3, <2>4 DEF GoodMemory, Memory
    <2> QED
      BY <1>0, <1>1, <2>1, <2>5, QuietTypes DEF Monitor
  <1>2. CASE PollFails(c)
    BY <1>2, AnswerTypes DEF PollFails, Answers
  <1>3. ASSUME NEW state \in CheckpointStates, SetCheckpointState(c, state), UNCHANGED tasks,
               call[c].task \in 1..Len(tasks)
        PROVE  GoodCheckpoint(Len(tasks))'
    BY <1>3 DEF SetCheckpointState, GoodCheckpoint, Checkpoint, Memory
  <1>4. CASE Begin(c)
    <2>1. call[c].task \in 1..Len(tasks)
      BY <1>4 DEF Begin, GoodMemory, HasTask
    <2>2. GoodCheckpoint(Len(tasks))'
      BY <1>3, <1>4, <2>1 DEF Begin, CheckpointStates
    <2> QED
      BY <1>4, <2>1, <2>2, GotoTypes DEF Begin, Working
  <1>5. CASE Get(c)
    <2>1. call[c].task \in 1..Len(tasks) /\ TaskOf(c).state \in TaskStates /\ "put" \in Working
      BY <1>5 DEF Get, GoodMemory, HasTask, Working
    <2>2. [call[c] EXCEPT !.pc = "put", !.seen = TaskOf(c).state] \in Memory
      BY <2>1 DEF Memory
    <2>3. GoodMemory([call[c] EXCEPT !.pc = "put", !.seen = TaskOf(c).state], Len(tasks))
      BY <2>1, <2>2 DEF GoodMemory, Memory
    <2> QED
      BY <1>0, <1>5, <2>3, QuietTypes DEF Get
  <1>6. CASE Put(c)
    <2>1. call[c].task \in 1..Len(tasks)
      BY <1>6 DEF Put, GoodMemory, HasTask
    <2>2. StateAfter(call[c].seen) \in CheckpointStates
      BY DEF StateAfter, CheckpointStates
    <2>3. GoodCheckpoint(Len(tasks))'
      BY <1>3, <1>6, <2>1, <2>2 DEF Put
    <2>4. ASSUME NEW said \in Answers, Answer(c, said) PROVE TInv'
      <3>1. [call[c] EXCEPT !.pc = "finish", !.said = said] \in Memory
        BY DEF Memory, Working
      <3>2. GoodMemory([call[c] EXCEPT !.pc = "finish", !.said = said], Len(tasks))
        BY <3>1 DEF GoodMemory, Memory, HasTask
      <3> QED
        BY <1>6, <2>3, <2>4, <3>2, BecomeTypes DEF Put, Answer, TInv, TypeOK
    <2>5. CASE Goto(c, "collect")
      BY <1>6, <2>1, <2>3, <2>5, GotoTypes DEF Put, Working
    <2> QED
      BY <1>6, <2>4, <2>5 DEF Put, Answers
  <1>7. CASE Collect(c)
    <2>1. PICK said \in {"success", "error"} : Answer(c, said)
      BY <1>7 DEF Collect
    <2> QED
      BY <1>7, <2>1, AnswerTypes DEF Collect, Answers
  <1> QED
    BY <1>1, <1>2, <1>4, <1>5, <1>6, <1>7

LEMMA FinishTypes ==
  ASSUME TInv, NEW c \in Calls, Finish(c) \/ WriteFinal(c) \/ Interrupt(c) \/ Crash(c)
  PROVE  TInv'
  <1> USE Known
  <1>0. GoodCheckpoint(Len(tasks)) /\ final \in Result /\ last \in Calls \cup {"nobody"}
    BY DEF TInv, TypeOK
  <1>1. CASE Finish(c)
    <2>1. CASE End(c)
      BY <1>0, <1>1, <2>1, EndTypes DEF Finish
    <2>2. CASE Goto(c, "write") /\ UNCHANGED last
      <3>1. GoodCheckpoint(Len(tasks))'
        BY <1>0, <1>1 DEF Finish, GoodCheckpoint
      <3> QED
        BY <1>0, <1>1, <2>2, <3>1, GotoTypes DEF Finish, Working, HasTask
    <2> QED
      BY <1>1, <2>1, <2>2 DEF Finish
  <1>2. CASE WriteFinal(c)
    <2>1. final' \in Result
      BY <1>2 DEF WriteFinal, Result, Memory
    <2> QED
      BY <1>2, <2>1, EndTypes DEF WriteFinal
  <1>3. CASE Interrupt(c)
    <2>1. PICK said \in {"interrupted", "not_started"} : Answer(c, said)
      BY <1>3 DEF Interrupt
    <2> QED
      BY <1>3, <2>1, AnswerTypes DEF Interrupt, Answers
  <1>4. CASE Crash(c)
    <2>1. GoodMemory([Fresh EXCEPT !.pc = "over", !.mode = call[c].mode], Len(tasks))
      BY FreshMemory DEF Memory
    <2> QED
      BY <1>0, <1>4, <2>1, QuietTypes DEF Crash
  <1> QED
    BY <1>1, <1>2, <1>3, <1>4

LEMMA WorldTypes ==
  ASSUME TInv, (\E t \in DOMAIN tasks : TaskEnds(t)) \/ HeadMoves \/ TreeChanges
  PROVE  TInv'
  <1>1. head' \in 0..MaxMoves /\ tree' \in Trees
    <2>1. head \in 0..MaxMoves /\ tree \in Trees /\ MaxMoves \in Nat
      BY CloudTaskAssumption DEF TInv, TypeOK
    <2>2. CASE HeadMoves
      BY <2>1, <2>2 DEF HeadMoves
    <2>3. CASE TreeChanges
      BY <2>1, <2>3 DEF TreeChanges
    <2>4. CASE \E t \in DOMAIN tasks : TaskEnds(t)
      BY <2>1, <2>4 DEF TaskEnds
    <2> QED
      BY <2>2, <2>3, <2>4
  <1>2. tasks' \in Seq(HostedTask) /\ Len(tasks') = Len(tasks)
    <2>1. CASE UNCHANGED tasks
      BY <2>1 DEF TInv, TypeOK
    <2>2. ASSUME NEW t \in DOMAIN tasks, TaskEnds(t)
          PROVE  tasks' \in Seq(HostedTask) /\ Len(tasks') = Len(tasks)
      <3>1. PICK state \in TaskStates : tasks' = [tasks EXCEPT ![t].state = state, ![t].endedAt = head]
        BY <2>2 DEF TaskEnds
      <3>2. tasks[t] \in HostedTask /\ head \in -1..MaxMoves /\ tasks \in Seq(HostedTask)
        BY CloudTaskAssumption DEF TInv, TypeOK
      <3>3. [tasks[t] EXCEPT !.state = state, !.endedAt = head] \in HostedTask
        BY <3>2 DEF HostedTask
      <3>4. tasks' = [tasks EXCEPT ![t] = [tasks[t] EXCEPT !.state = state, !.endedAt = head]]
        BY <3>1, <3>2
      <3> QED
        BY <3>2, <3>3, <3>4
    <2> QED
      BY <2>1, <2>2 DEF HeadMoves, TreeChanges
  <1>3. UNCHANGED <<checkpoint, final, call, last>>
    BY DEF TaskEnds, HeadMoves, TreeChanges
  <1> QED
    BY <1>1, <1>2, <1>3 DEF TInv, TypeOK, GoodCheckpoint

LEMMA NextTypes == TInv /\ [Next]_vars => TInv'
  <1> SUFFICES ASSUME TInv, [Next]_vars PROVE TInv'
    OBVIOUS
  <1>1. CASE UNCHANGED vars
    BY <1>1 DEF vars, TInv, TypeOK, GoodCheckpoint
  <1>2. CASE \E c \in Calls : Start(c) \/ StartObserve(c) \/ Step(c) \/ PollFails(c) \/ Interrupt(c) \/ Crash(c)
    BY <1>2, StartTypes, CreateTypes, WatchTypes, FinishTypes DEF Step
  <1>3. CASE (\E t \in DOMAIN tasks : TaskEnds(t)) \/ HeadMoves \/ TreeChanges
    BY <1>3, WorldTypes
  <1> QED
    BY <1>1, <1>2, <1>3 DEF Next

\* Every variable of cloud_task.py keeps its type, and no request is sent more
\* often than MAX_TRANSIENT_FAILURES.
THEOREM CloudTaskTypes == Spec => []TypeOK
  <1>1. TInv => TypeOK
    BY DEF TInv
  <1> QED
    BY InitTypes, NextTypes, <1>1, PTL DEF Spec

-----------------------------------------------------------------------------
(* One hosted task *)

\* A step after which the call is not about to post, and that leaves a
\* reservation where there was one, keeps the invariant.
LEMMA NotPosting ==
  ASSUME TInv, ReserveInv, NEW c \in Calls, NEW m, Become(c, m), UNCHANGED tasks,
         m.pc \notin Posting, m.pc \in {"prepare", "reserve"} => m.mode = "dispatch",
         checkpoint.state # "none" => checkpoint'.state # "none"
  PROVE  ReserveInv'
  <1>1. \A d \in Calls : call'[d] = IF d = c THEN m ELSE call[d]
    BY DEF TInv, TypeOK, Become
  <1> QED
    BY <1>1 DEF ReserveInv, OneTask, Posting

LEMMA AnswerNotPosting ==
  ASSUME TInv, ReserveInv, NEW c \in Calls, NEW said, Answer(c, said), UNCHANGED tasks,
         checkpoint.state # "none" => checkpoint'.state # "none"
  PROVE  ReserveInv'
  <1>1. [call[c] EXCEPT !.pc = "finish", !.said = said].pc = "finish"
    BY Known DEF Memory
  <1> QED
    BY <1>1, NotPosting DEF Answer, Posting

LEMMA GotoNotPosting ==
  ASSUME TInv, ReserveInv, NEW c \in Calls, NEW pc \in Working \ (Posting \cup {"prepare", "reserve"}),
         Goto(c, pc), UNCHANGED tasks, checkpoint.state # "none" => checkpoint'.state # "none"
  PROVE  ReserveInv'
  <1>1. [call[c] EXCEPT !.pc = pc].pc = pc
    BY Known DEF Memory
  <1> QED
    BY <1>1, NotPosting DEF Goto

LEMMA EndNotPosting ==
  ASSUME TInv, ReserveInv, NEW c \in Calls, NEW m, Become(c, m), UNCHANGED <<tasks, checkpoint>>,
         m.pc = "over"
  PROVE  ReserveInv'
  BY NotPosting DEF Posting

LEMMA StartReserve ==
  ASSUME Bounded, TInv, ReserveInv, NEW c \in Calls, Start(c) \/ StartObserve(c) \/ Prepare(c)
  PROVE  ReserveInv'
  <1> USE Known
  <1>1. CASE Start(c)
    <2> DEFINE pc == IF Bounded => Unused THEN "prepare" ELSE "finish"
               said == IF Bounded => Unused THEN "none" ELSE "error"
               m == [call[c] EXCEPT !.mode = "dispatch", !.head = head, !.pc = pc, !.said = said]
    <2>1. Become(c, m) /\ UNCHANGED <<tasks, checkpoint>>
      BY <1>1 DEF Start
    <2>2. pc \in {"prepare", "finish"}
      OBVIOUS
    <2> HIDE DEF pc, said
    <2>3. m.pc = pc /\ m.mode = "dispatch"
      BY DEF Memory
    <2> QED
      BY <2>1, <2>2, <2>3, NotPosting DEF Posting
  <1>2. CASE StartObserve(c)
    <2> DEFINE ok == Observable /\ checkpoint.tree = tree
               pc == IF ok THEN "begin" ELSE "finish"
               said == IF ok THEN "none" ELSE "error"
               m == [call[c] EXCEPT !.mode = "observe", !.known = ok, !.pc = pc, !.said = said,
                       !.task = checkpoint.task, !.head = checkpoint.head, !.tree = checkpoint.tree]
    <2>1. Become(c, m) /\ UNCHANGED <<tasks, checkpoint>>
      BY <1>2 DEF StartObserve
    <2>2. pc \in {"begin", "finish"}
      OBVIOUS
    <2> HIDE DEF ok, pc, said
    <2>3. m.pc = pc
      BY DEF Memory
    <2> QED
      BY <2>1, <2>2, <2>3, NotPosting DEF Posting
  <1>3. CASE Prepare(c)
    <2>1. CASE Become(c, [call[c] EXCEPT !.pc = "reserve", !.tree = tree])
      <3>1. /\ [call[c] EXCEPT !.pc = "reserve", !.tree = tree].pc = "reserve"
            /\ [call[c] EXCEPT !.pc = "reserve", !.tree = tree].mode = call[c].mode
        BY DEF Memory
      <3>2. call[c].mode = "dispatch"
        BY <1>3 DEF Prepare, ReserveInv
      <3> QED
        BY <1>3, <2>1, <3>1, <3>2, NotPosting DEF Prepare, Posting
    <2>2. CASE Answer(c, "error")
      BY <1>3, <2>2, AnswerNotPosting DEF Prepare
    <2> QED
      BY <1>3, <2>1, <2>2 DEF Prepare
  <1> QED
    BY <1>1, <1>2, <1>3

\* The exclusive create: whoever reserves finds nobody posting, no task and no
\* checkpoint, and leaves a checkpoint for all who come after.
LEMMA CreateReserve ==
  ASSUME Bounded, TInv, ReserveInv, NEW c \in Calls, Reserve(c) \/ Post(c) \/ Replied(c) \/ Confirm(c)
  PROVE  ReserveInv'
  <1> USE Known
  <1>0. \A m : Become(c, m) => \A d \in Calls : call'[d] = IF d = c THEN m ELSE call[d]
    BY DEF TInv, TypeOK, Become
  <1>1. CASE Reserve(c)
    <2>1. call[c].mode = "dispatch"
      BY <1>1 DEF Reserve, ReserveInv
    <2>2. CASE checkpoint # NoCheckpoint
      BY <1>1, <2>1, <2>2, AnswerNotPosting DEF Reserve
    <2>3. CASE checkpoint = NoCheckpoint
      <3>1. checkpoint'.state = "dispatch_unknown" /\ Goto(c, "post") /\ UNCHANGED tasks
        BY <1>1, <2>1, <2>3 DEF Reserve
      <3>2. checkpoint.state = "none"
        BY <2>3 DEF NoCheckpoint
      <3>3. (\A d \in Calls : call[d].pc \notin Posting) /\ tasks = <<>>
        BY <3>2 DEF ReserveInv
      <3> DEFINE m == [call[c] EXCEPT !.pc = "post"]
      <3>4. m.pc = "post" /\ m.mode = "dispatch"
        BY <2>1 DEF Memory
      <3>5. \A d \in Calls : call'[d] = IF d = c THEN m ELSE call[d]
        BY <1>0, <3>1 DEF Goto
      <3> HIDE DEF m
      <3> QED
        BY <3>1, <3>3, <3>4, <3>5 DEF ReserveInv, OneTask, Posting
    <2> QED
      BY <2>2, <2>3
  <1>2. CASE Post(c)
    <2>1. PICK reply, admitted, task :
            /\ tasks' = IF admitted THEN Append(tasks, [state |-> "active", head |-> call[c].head, endedAt |-> -1])
                        ELSE tasks
            /\ Become(c, [call[c] EXCEPT !.pc = "answer", !.reply = reply, !.tries = @ + 1, !.task = task])
      BY <1>2 DEF Post
    <2>2. call[c].pc = "post" /\ tasks = <<>> /\ checkpoint.state # "none" /\ UNCHANGED checkpoint
      BY <1>2 DEF Post, ReserveInv, Posting
    <2>3. Len(tasks') <= 1
      BY <2>1, <2>2
    <2> DEFINE m == [call[c] EXCEPT !.pc = "answer", !.reply = reply, !.tries = @ + 1, !.task = task]
    <2>4. m.pc = "answer" /\ m.mode = call[c].mode
      BY DEF Memory
    <2>5. \A d \in Calls : call'[d] = IF d = c THEN m ELSE call[d]
      BY <1>0, <2>1
    <2> HIDE DEF m
    <2>6. \A d \in Calls : call[d].pc \in Posting => d = c
      BY <2>2 DEF ReserveInv, Posting
    <2> QED
      BY <2>2, <2>3, <2>4, <2>5, <2>6 DEF ReserveInv, OneTask, Posting
  <1>3. CASE Replied(c)
    <2>1. call[c].mode = "dispatch" /\ call[c].pc \in Posting /\ UNCHANGED <<tasks, checkpoint>>
      BY <1>3 DEF Replied, ReserveInv, Posting
    <2>2. CASE Answer(c, "error")
      BY <2>1, <2>2, AnswerNotPosting
    <2>3. CASE Goto(c, "confirm")
      <3> DEFINE m == [call[c] EXCEPT !.pc = "confirm"]
      <3>1. m.pc = "confirm" /\ m.mode = "dispatch"
        BY <2>1 DEF Memory
      <3>2. \A d \in Calls : call'[d] = IF d = c THEN m ELSE call[d]
        BY <1>0, <2>3 DEF Goto
      <3> HIDE DEF m
      <3> QED
        BY <2>1, <3>1, <3>2 DEF ReserveInv, OneTask, Posting
    <2> QED
      BY <1>3, <2>1, <2>2, <2>3 DEF Replied
  <1>4. CASE Confirm(c)
    <2>1. call[c].mode = "dispatch"
      BY <1>4 DEF Confirm, ReserveInv, Posting
    <2> DEFINE said == IF TaskOf(c).state = "active" THEN "pending" ELSE "error"
               state == IF TaskOf(c).state = "active" THEN "dispatched" ELSE "terminal_error"
               m == [call[c] EXCEPT !.pc = "finish", !.known = TRUE, !.seen = TaskOf(c).state, !.said = said]
    <2>2. Become(c, m) /\ checkpoint' = [checkpoint EXCEPT !.task = call[c].task, !.state = state] /\ UNCHANGED tasks
      BY <1>4, <2>1 DEF Confirm
    <2>3. state # "none"
      OBVIOUS
    <2> HIDE DEF said, state
    <2>4. m.pc = "finish"
      BY DEF Memory
    <2>5. checkpoint'.state = state
      BY <2>2 DEF TInv, TypeOK, Checkpoint
    <2> QED
      BY <2>2, <2>3, <2>4, <2>5, NotPosting DEF Posting
  <1> QED
    BY <1>1, <1>2, <1>3, <1>4

LEMMA WatchReserve ==
  ASSUME Bounded, TInv, ReserveInv, NEW c \in Calls,
         Monitor(c) \/ PollFails(c) \/ Begin(c) \/ Get(c) \/ Put(c) \/ Collect(c)
  PROVE  ReserveInv'
  <1> USE Known
  <1>1. CASE Monitor(c)
    <2> DEFINE pc == CASE TaskOf(c).state = "active" -> "monitor"
                       [] TaskOf(c).state = "stopped" -> "finish"
                       [] OTHER -> "collect"
               said == IF TaskOf(c).state = "stopped" THEN "error" ELSE "none"
               m == [call[c] EXCEPT !.seen = TaskOf(c).state, !.pc = pc, !.said = said]
    <2>1. Become(c, m) /\ UNCHANGED <<tasks, checkpoint>>
      BY <1>1 DEF Monitor
    <2>2. pc \notin Posting \cup {"prepare", "reserve"}
      BY DEF Posting
    <2> HIDE DEF pc, said
    <2>3. m.pc = pc
      BY DEF Memory
    <2> QED
      BY <2>1, <2>2, <2>3, NotPosting
  <1>2. CASE PollFails(c)
    BY <1>2, AnswerNotPosting DEF PollFails
  <1>3. CASE Begin(c)
    <2>1. checkpoint'.state = "observing"
      BY <1>3 DEF Begin, SetCheckpointState
    <2> QED
      BY <1>3, <2>1, GotoNotPosting DEF Begin, Posting, Working
  <1>4. CASE Get(c)
    <2>1. [call[c] EXCEPT !.pc = "put", !.seen = TaskOf(c).state].pc = "put"
      BY DEF Memory
    <2> QED
      BY <1>4, <2>1, NotPosting DEF Get, Posting
  <1>5. CASE Put(c)
    <2>1. checkpoint'.state # "none"
      BY <1>5 DEF Put, SetCheckpointState, StateAfter
    <2>2. CASE Goto(c, "collect")
      BY <1>5, <2>1, <2>2, GotoNotPosting DEF Put, Posting, Working
    <2>3. CASE Answer(c, "pending") \/ Answer(c, "error")
      BY <1>5, <2>1, <2>3, AnswerNotPosting DEF Put
    <2> QED
      BY <1>5, <2>2, <2>3 DEF Put
  <1>6. CASE Collect(c)
    <2>1. PICK said : Answer(c, said)
      BY <1>6 DEF Collect
    <2> QED
      BY <1>6, <2>1, AnswerNotPosting DEF Collect
  <1> QED
    BY <1>1, <1>2, <1>3, <1>4, <1>5, <1>6

LEMMA FinishReserve ==
  ASSUME Bounded, TInv, ReserveInv, NEW c \in Calls,
         Finish(c) \/ WriteFinal(c) \/ Interrupt(c) \/ Crash(c)
  PROVE  ReserveInv'
  <1> USE Known
  <1>0. ASSUME End(c), UNCHANGED <<tasks, checkpoint>> PROVE ReserveInv'
    <2>1. [Fresh EXCEPT !.pc = "over", !.mode = call[c].mode, !.said = call[c].said].pc = "over"
      BY DEF Fresh
    <2> QED
      BY <1>0, <2>1, EndNotPosting DEF End
  <1>1. CASE Finish(c)
    <2>1. CASE Goto(c, "write")
      BY <1>1, <2>1, GotoNotPosting DEF Finish, Posting, Working
    <2> QED
      BY <1>0, <1>1, <2>1 DEF Finish
  <1>2. CASE WriteFinal(c)
    BY <1>0, <1>2 DEF WriteFinal
  <1>3. CASE Interrupt(c)
    <2>1. PICK said : Answer(c, said)
      BY <1>3 DEF Interrupt
    <2> QED
      BY <1>3, <2>1, AnswerNotPosting DEF Interrupt
  <1>4. CASE Crash(c)
    <2>1. [Fresh EXCEPT !.pc = "over", !.mode = call[c].mode].pc = "over"
      BY DEF Fresh
    <2> QED
      BY <1>4, <2>1, EndNotPosting DEF Crash
  <1> QED
    BY <1>1, <1>2, <1>3, <1>4

LEMMA WorldReserve ==
  ASSUME TInv, ReserveInv, (\E t \in DOMAIN tasks : TaskEnds(t)) \/ HeadMoves \/ TreeChanges
  PROVE  ReserveInv'
  <1>1. UNCHANGED <<call, checkpoint>>
    BY DEF TaskEnds, HeadMoves, TreeChanges
  <1>2. CASE UNCHANGED tasks
    BY <1>1, <1>2 DEF ReserveInv, OneTask
  <1>3. CASE \E t \in DOMAIN tasks : TaskEnds(t)
    <2>1. Len(tasks') = Len(tasks) /\ tasks # <<>>
      <3>1. PICK t \in DOMAIN tasks, state \in TaskStates :
              tasks' = [tasks EXCEPT ![t].state = state, ![t].endedAt = head]
        BY <1>3 DEF TaskEnds
      <3> QED
        BY <3>1 DEF TInv, TypeOK
    <2> QED
      BY <1>1, <2>1 DEF ReserveInv, OneTask
  <1> QED
    BY <1>2, <1>3 DEF HeadMoves, TreeChanges

LEMMA InitReserve == Init => ReserveInv
  BY DEF Init, ReserveInv, OneTask, Posting, Fresh, NoCheckpoint

LEMMA NextReserve == ASSUME Bounded, TInv, ReserveInv, [Next]_vars PROVE ReserveInv'
  <1>1. CASE UNCHANGED vars
    BY <1>1 DEF vars, ReserveInv, OneTask
  <1>2. CASE \E c \in Calls : Start(c) \/ StartObserve(c) \/ Step(c) \/ PollFails(c) \/ Interrupt(c) \/ Crash(c)
    BY <1>2, StartReserve, CreateReserve, WatchReserve, FinishReserve DEF Step
  <1>3. CASE (\E t \in DOMAIN tasks : TaskEnds(t)) \/ HeadMoves \/ TreeChanges
    BY <1>3, WorldReserve
  <1> QED
    BY <1>1, <1>2, <1>3 DEF Next

\* Dispatch and observe calls of one result path, however many run at once and
\* wherever they die, create at most one hosted task.
THEOREM OneHostedTask == Bounded => (Spec => []OneTask)
  <1> SUFFICES ASSUME Bounded PROVE Spec => []OneTask
    OBVIOUS
  <1> DEFINE IInv == TInv /\ ReserveInv
  <1>1. Init => IInv
    BY InitTypes, InitReserve
  <1>2. IInv /\ [Next]_vars => IInv'
    BY NextTypes, NextReserve
  <1>3. IInv => OneTask
    BY DEF ReserveInv
  <1> QED
    BY <1>1, <1>2, <1>3, PTL DEF Spec

-----------------------------------------------------------------------------
(* Success is earned *)

Observing == {"begin", "get", "put", "collect"}

\* The checkpoint names a task, and goes on to name it.
Settled(cp) == cp.state \notin {"none", "dispatch_unknown"}

Completed(task, ts) == task \in DOMAIN ts /\ ts[task].state = "completed"

Earned(task, h, cp, ts) == Settled(cp) /\ Completed(task, ts) /\ h = cp.head

\* What a call remembers agrees with the checkpoint and the tasks.
Sound(m, cp, ts) ==
  /\ m.pc \in Posting \cup Observing => m.head = cp.head
  /\ m.pc \in Observing => Settled(cp)
  /\ m.pc \in {"put", "collect"} /\ m.seen = "completed" => Completed(m.task, ts)
  /\ m.pc \in {"finish", "write"} /\ m.said = "success" => Earned(m.task, m.head, cp, ts)
  /\ m.pc # "monitor"

EarnedInv ==
  /\ tasks # <<>> => tasks[1].head = checkpoint.head
  /\ \A c \in Calls : Sound(call[c], checkpoint, tasks)
  /\ final.status = "success" => Earned(final.task, final.head, checkpoint, tasks)

\* What a checkpoint and the tasks may become without harm to what calls remember.
Steady(cp, cp2) ==
  /\ Settled(cp) => Settled(cp2)
  /\ cp.state # "none" => cp2.head = cp.head
Grows(ts, ts2) == \A t \in DOMAIN ts : t \in DOMAIN ts2 /\ (ts[t].state = "completed" => ts2[t].state = "completed")

LEMMA EarnedStays ==
  ASSUME NEW task, NEW h, NEW cp, NEW cp2, NEW ts, NEW ts2, Steady(cp, cp2), Grows(ts, ts2), Earned(task, h, cp, ts)
  PROVE  Earned(task, h, cp2, ts2)
  BY DEF Steady, Grows, Earned, Completed, Settled

LEMMA SoundStays ==
  ASSUME NEW m, NEW cp, NEW cp2, NEW ts, NEW ts2, Steady(cp, cp2), Grows(ts, ts2), Sound(m, cp, ts),
         m.pc \in Posting => cp.state # "none"
  PROVE  Sound(m, cp2, ts2)
  <1>1. m.pc \in Posting \cup Observing => m.head = cp2.head
    BY DEF Sound, Steady, Settled
  <1>2. m.pc \in Observing => Settled(cp2)
    BY DEF Sound, Steady
  <1>3. m.pc \in {"put", "collect"} /\ m.seen = "completed" => Completed(m.task, ts2)
    BY DEF Sound, Grows, Completed
  <1>4. m.pc \in {"finish", "write"} /\ m.said = "success" => Earned(m.task, m.head, cp2, ts2)
    BY EarnedStays DEF Sound
  <1> QED
    BY <1>1, <1>2, <1>3, <1>4 DEF Sound

LEMMA BecomeEarned ==
  ASSUME TInv, ReserveInv, EarnedInv, NEW c \in Calls, NEW m, Become(c, m), Steady(checkpoint, checkpoint'),
         UNCHANGED <<tasks, final>>, Sound(m, checkpoint', tasks)
  PROVE  EarnedInv'
  <1>1. \A d \in Calls : call'[d] = IF d = c THEN m ELSE call[d]
    BY DEF TInv, TypeOK, Become
  <1>2. Grows(tasks, tasks)
    BY DEF Grows
  <1>3. \A d \in Calls : Sound(call'[d], checkpoint', tasks')
    <2> TAKE d \in Calls
    <2>1. CASE d = c
      BY <1>1, <2>1
    <2>2. CASE d # c
      <3>1. call[d].pc \in Posting => checkpoint.state # "none"
        BY DEF ReserveInv
      <3>2. Sound(call[d], checkpoint, tasks)
        BY DEF EarnedInv
      <3> QED
        BY <1>1, <1>2, <2>2, <3>1, <3>2, SoundStays
    <2> QED
      BY <2>1, <2>2
  <1>4. tasks' # <<>> => tasks'[1].head = checkpoint'.head
    BY DEF EarnedInv, ReserveInv, Steady
  <1>5. final'.status = "success" => Earned(final'.task, final'.head, checkpoint', tasks')
    BY <1>2, EarnedStays DEF EarnedInv
  <1> QED
    BY <1>3, <1>4, <1>5 DEF EarnedInv

LEMMA SteadyRefl == \A cp : Steady(cp, cp)
  BY DEF Steady

\* A call that goes to report anything but success.
LEMMA AnswerEarned ==
  ASSUME TInv, ReserveInv, EarnedInv, NEW c \in Calls, NEW said \in Answers \ {"success"}, Answer(c, said),
         Steady(checkpoint, checkpoint'), UNCHANGED <<tasks, final>>
  PROVE  EarnedInv'
  <1> DEFINE m == [call[c] EXCEPT !.pc = "finish", !.said = said]
  <1>1. m.pc = "finish" /\ m.said = said
    BY Known DEF Memory
  <1>2. Become(c, m)
    BY DEF Answer
  <1> HIDE DEF m
  <1>3. Sound(m, checkpoint', tasks)
    BY <1>1 DEF Sound, Posting, Observing
  <1> QED
    BY <1>2, <1>3, BecomeEarned

LEMMA EndEarned ==
  ASSUME TInv, ReserveInv, EarnedInv, NEW c \in Calls, NEW m, Become(c, m), m.pc = "over",
         UNCHANGED <<tasks, checkpoint, final>>
  PROVE  EarnedInv'
  <1>1. Sound(m, checkpoint', tasks)
    BY DEF Sound, Posting, Observing
  <1> QED
    BY <1>1, SteadyRefl, BecomeEarned

LEMMA StartEarned ==
  ASSUME TInv, ReserveInv, EarnedInv, NEW c \in Calls, Start(c) \/ StartObserve(c) \/ Prepare(c)
  PROVE  EarnedInv'
  <1> USE Known
  <1>0. UNCHANGED <<tasks, checkpoint, final>> /\ Steady(checkpoint, checkpoint')
    BY SteadyRefl DEF Start, StartObserve, Prepare
  <1>1. CASE Start(c)
    <2> DEFINE mode == IF Bounded THEN "dispatch" ELSE "plain"
               pc == IF Bounded => Unused THEN "prepare" ELSE "finish"
               said == IF Bounded => Unused THEN "none" ELSE "error"
               m == [call[c] EXCEPT !.mode = mode, !.head = head, !.pc = pc, !.said = said]
    <2>1. Become(c, m)
      BY <1>1 DEF Start
    <2>2. pc \in {"prepare", "finish"} /\ said # "success"
      OBVIOUS
    <2> HIDE DEF mode, pc, said
    <2>3. m.pc = pc /\ m.said = said
      BY DEF Memory
    <2> HIDE DEF m
    <2>4. Sound(m, checkpoint', tasks)
      BY <2>2, <2>3 DEF Sound, Posting, Observing
    <2> QED
      BY <1>0, <2>1, <2>4, BecomeEarned
  <1>2. CASE StartObserve(c)
    <2> DEFINE ok == Observable /\ checkpoint.tree = tree
               pc == IF ok THEN "begin" ELSE "finish"
               said == IF ok THEN "none" ELSE "error"
               m == [call[c] EXCEPT !.mode = "observe", !.known = ok, !.pc = pc, !.said = said,
                       !.task = checkpoint.task, !.head = checkpoint.head, !.tree = checkpoint.tree]
    <2>1. Become(c, m)
      BY <1>2 DEF StartObserve
    <2>2. pc \in {"begin", "finish"} /\ said # "success" /\ (pc = "begin" => Settled(checkpoint))
      BY DEF Observable, Settled
    <2> HIDE DEF ok, pc, said
    <2>3. m.pc = pc /\ m.said = said /\ m.head = checkpoint.head
      BY DEF Memory
    <2> HIDE DEF m
    <2>4. Sound(m, checkpoint', tasks)
      BY <1>0, <2>2, <2>3 DEF Sound, Posting, Observing
    <2> QED
      BY <1>0, <2>1, <2>4, BecomeEarned
  <1>3. CASE Prepare(c)
    <2>1. CASE Answer(c, "error")
      BY <1>0, <2>1, AnswerEarned DEF Answers
    <2>2. CASE Become(c, [call[c] EXCEPT !.pc = "reserve", !.tree = tree])
      <3> DEFINE m == [call[c] EXCEPT !.pc = "reserve", !.tree = tree]
      <3>1. m.pc = "reserve"
        BY DEF Memory
      <3> HIDE DEF m
      <3>2. Sound(m, checkpoint', tasks)
        BY <3>1 DEF Sound, Posting, Observing
      <3>3. Become(c, m)
        BY <2>2 DEF m
      <3> QED
        BY <1>0, <3>2, <3>3, BecomeEarned
    <2> QED
      BY <1>3, <2>1, <2>2 DEF Prepare
  <1> QED
    BY <1>1, <1>2, <1>3

\* The head that was frozen goes into the checkpoint, and from the same memory
\* into the request.
LEMMA CreateEarned ==
  ASSUME Bounded, TInv, ReserveInv, EarnedInv, NEW c \in Calls, Reserve(c) \/ Post(c) \/ Replied(c) \/ Confirm(c)
  PROVE  EarnedInv'
  <1> USE Known
  <1>1. CASE Reserve(c)
    <2>1. call[c].mode = "dispatch" /\ UNCHANGED <<tasks, final>>
      BY <1>1 DEF Reserve, ReserveInv
    <2>2. CASE checkpoint # NoCheckpoint
      BY <1>1, <2>1, <2>2, AnswerEarned, SteadyRefl DEF Reserve, Answers
    <2>3. CASE checkpoint = NoCheckpoint
      <3> DEFINE m == [call[c] EXCEPT !.pc = "post"]
      <3>1. checkpoint'.head = call[c].head /\ Become(c, m)
        BY <1>1, <2>1, <2>3 DEF Reserve, Goto
      <3>2. Steady(checkpoint, checkpoint')
        BY <2>3 DEF Steady, Settled, NoCheckpoint
      <3>3. m.pc = "post" /\ m.head = call[c].head
        BY DEF Memory
      <3> HIDE DEF m
      <3>4. Sound(m, checkpoint', tasks)
        BY <3>1, <3>3 DEF Sound, Posting, Observing
      <3> QED
        BY <2>1, <3>1, <3>2, <3>4, BecomeEarned
    <2> QED
      BY <2>2, <2>3
  <1>2. CASE Post(c)
    <2>1. PICK reply, admitted, task :
            /\ tasks' = IF admitted THEN Append(tasks, [state |-> "active", head |-> call[c].head, endedAt |-> -1])
                        ELSE tasks
            /\ Become(c, [call[c] EXCEPT !.pc = "answer", !.reply = reply, !.tries = @ + 1, !.task = task])
      BY <1>2 DEF Post
    <2>2. tasks = <<>> /\ UNCHANGED <<checkpoint, final>> /\ call[c].head = checkpoint.head
      BY <1>2 DEF Post, ReserveInv, EarnedInv, Sound, Posting
    <2>3. tasks' # <<>> => tasks'[1].head = checkpoint'.head
      BY <2>1, <2>2
    <2>4. Grows(tasks, tasks')
      BY <2>2 DEF Grows
    <2> DEFINE m == [call[c] EXCEPT !.pc = "answer", !.reply = reply, !.tries = @ + 1, !.task = task]
    <2>5. m.pc = "answer" /\ m.head = call[c].head
      BY DEF Memory
    <2>6. \A d \in Calls : call'[d] = IF d = c THEN m ELSE call[d]
      BY <2>1 DEF TInv, TypeOK, Become
    <2> HIDE DEF m
    <2>7. \A d \in Calls : Sound(call'[d], checkpoint', tasks')
      <3> TAKE d \in Calls
      <3>1. CASE d = c
        BY <2>2, <2>5, <2>6, <3>1 DEF Sound, Posting, Observing
      <3>2. CASE d # c
        <4>1. Sound(call[d], checkpoint, tasks) /\ (call[d].pc \in Posting => checkpoint.state # "none")
          BY DEF EarnedInv, ReserveInv
        <4> QED
          BY <2>2, <2>4, <2>6, <3>2, <4>1, SteadyRefl, SoundStays
      <3> QED
        BY <3>1, <3>2
    <2>8. final'.status = "success" => Earned(final'.task, final'.head, checkpoint', tasks')
      BY <2>2, <2>4, SteadyRefl, EarnedStays DEF EarnedInv
    <2> QED
      BY <2>3, <2>7, <2>8 DEF EarnedInv
  <1>3. CASE Replied(c)
    <2>1. call[c].mode = "dispatch" /\ call[c].head = checkpoint.head
      BY <1>3 DEF Replied, ReserveInv, EarnedInv, Sound, Posting
    <2>2. UNCHANGED <<tasks, checkpoint, final>> /\ Steady(checkpoint, checkpoint')
      BY <1>3, SteadyRefl DEF Replied
    <2>3. CASE Answer(c, "error")
      BY <2>2, <2>3, AnswerEarned DEF Answers
    <2>4. CASE Goto(c, "confirm")
      <3> DEFINE m == [call[c] EXCEPT !.pc = "confirm"]
      <3>1. m.pc = "confirm" /\ m.head = call[c].head
        BY DEF Memory
      <3>2. Become(c, m)
        BY <2>4 DEF Goto
      <3> HIDE DEF m
      <3>3. Sound(m, checkpoint', tasks)
        BY <2>1, <2>2, <3>1 DEF Sound, Posting, Observing
      <3> QED
        BY <2>2, <3>2, <3>3, BecomeEarned
    <2> QED
      BY <1>3, <2>1, <2>3, <2>4 DEF Replied
  <1>4. CASE Confirm(c)
    <2>1. call[c].mode = "dispatch"
      BY <1>4 DEF Confirm, ReserveInv, Posting
    <2> DEFINE said == IF TaskOf(c).state = "active" THEN "pending" ELSE "error"
               state == IF TaskOf(c).state = "active" THEN "dispatched" ELSE "terminal_error"
               m == [call[c] EXCEPT !.pc = "finish", !.known = TRUE, !.seen = TaskOf(c).state, !.said = said]
    <2>2. /\ Become(c, m) /\ UNCHANGED <<tasks, final>>
          /\ checkpoint' = [checkpoint EXCEPT !.task = call[c].task, !.state = state]
      BY <1>4, <2>1 DEF Confirm
    <2>3. state \notin {"none", "dispatch_unknown"} /\ said # "success"
      OBVIOUS
    <2> HIDE DEF said, state
    <2>4. checkpoint'.state = state /\ checkpoint'.head = checkpoint.head
      BY <2>2 DEF TInv, TypeOK, Checkpoint
    <2>5. Steady(checkpoint, checkpoint')
      BY <2>3, <2>4 DEF Steady, Settled
    <2>6. m.pc = "finish" /\ m.said = said
      BY DEF Memory
    <2> HIDE DEF m
    <2>7. Sound(m, checkpoint', tasks)
      BY <2>3, <2>6 DEF Sound, Posting, Observing
    <2> QED
      BY <2>2, <2>5, <2>7, BecomeEarned
  <1> QED
    BY <1>1, <1>2, <1>3, <1>4

\* An observation writes back the head it read, and collects only a task that it
\* saw completed.
LEMMA WatchEarned ==
  ASSUME Bounded, TInv, ReserveInv, EarnedInv, NEW c \in Calls,
         Monitor(c) \/ PollFails(c) \/ Begin(c) \/ Get(c) \/ Put(c) \/ Collect(c)
  PROVE  EarnedInv'
  <1> USE Known
  <1>0. Sound(call[c], checkpoint, tasks)
    BY DEF EarnedInv
  <1>1. CASE Monitor(c)
    BY <1>0, <1>1 DEF Monitor, Sound
  <1>2. CASE PollFails(c)
    BY <1>2, AnswerEarned, SteadyRefl DEF PollFails, Answers
  <1>3. ASSUME NEW state \in CheckpointStates \ {"dispatch_unknown"}, SetCheckpointState(c, state),
               call[c].pc \in Observing
        PROVE  Steady(checkpoint, checkpoint') /\ Settled(checkpoint') /\ checkpoint'.head = call[c].head
    BY <1>0, <1>3 DEF SetCheckpointState, Steady, Settled, Sound, CheckpointStates
  <1>4. CASE Begin(c)
    <2> DEFINE m == [call[c] EXCEPT !.pc = "get"]
    <2>1. Become(c, m) /\ UNCHANGED <<tasks, final>>
      BY <1>4 DEF Begin, Goto
    <2>2. Steady(checkpoint, checkpoint') /\ Settled(checkpoint') /\ checkpoint'.head = call[c].head
      BY <1>3, <1>4 DEF Begin, CheckpointStates, Observing
    <2>3. m.pc = "get" /\ m.head = call[c].head
      BY DEF Memory
    <2> HIDE DEF m
    <2>4. Sound(m, checkpoint', tasks)
      BY <2>2, <2>3 DEF Sound
    <2> QED
      BY <2>1, <2>2, <2>4, BecomeEarned
  <1>5. CASE Get(c)
    <2> DEFINE m == [call[c] EXCEPT !.pc = "put", !.seen = TaskOf(c).state]
    <2>1. Become(c, m) /\ UNCHANGED <<tasks, checkpoint, final>>
      BY <1>5 DEF Get
    <2>2. m.pc = "put" /\ m.seen = tasks[call[c].task].state /\ m.task = call[c].task /\ m.head = call[c].head
      BY DEF Memory, TaskOf
    <2>3. call[c].task \in DOMAIN tasks
      BY <1>5 DEF Get, GoodMemory, HasTask, TInv, TypeOK
    <2>4. call[c].head = checkpoint.head /\ Settled(checkpoint)
      BY <1>0, <1>5 DEF Get, Sound, Observing
    <2> HIDE DEF m
    <2>5. Sound(m, checkpoint', tasks)
      BY <2>1, <2>2, <2>3, <2>4 DEF Sound, Completed
    <2> QED
      BY <2>1, <2>5, SteadyRefl, BecomeEarned
  <1>6. CASE Put(c)
    <2>1. StateAfter(call[c].seen) \in CheckpointStates \ {"dispatch_unknown"}
      BY DEF StateAfter, CheckpointStates
    <2>2. Steady(checkpoint, checkpoint') /\ Settled(checkpoint') /\ checkpoint'.head = call[c].head
      BY <1>3, <1>6, <2>1 DEF Put, Observing
    <2>3. UNCHANGED <<tasks, final>>
      BY <1>6 DEF Put
    <2>4. CASE Answer(c, "pending") \/ Answer(c, "error")
      BY <2>2, <2>3, <2>4, AnswerEarned DEF Answers
    <2>5. CASE Goto(c, "collect")
      <3> DEFINE m == [call[c] EXCEPT !.pc = "collect"]
      <3>1. Become(c, m)
        BY <2>5 DEF Goto
      <3>2. m.pc = "collect" /\ m.head = call[c].head /\ m.seen = call[c].seen /\ m.task = call[c].task
        BY DEF Memory
      <3>3. call[c].seen = "completed" => Completed(call[c].task, tasks)
        BY <1>0, <1>6 DEF Put, Sound
      <3> HIDE DEF m
      <3>4. Sound(m, checkpoint', tasks)
        BY <2>2, <3>2, <3>3 DEF Sound
      <3> QED
        BY <2>2, <2>3, <3>1, <3>4, BecomeEarned
    <2> QED
      BY <1>6, <2>4, <2>5 DEF Put
  <1>7. CASE Collect(c)
    <2>1. UNCHANGED <<tasks, checkpoint, final>> /\ Steady(checkpoint, checkpoint')
      BY <1>7, SteadyRefl DEF Collect
    <2>2. CASE Answer(c, "error")
      BY <2>1, <2>2, AnswerEarned DEF Answers
    <2>3. CASE Acceptable(c) /\ Answer(c, "success")
      <3> DEFINE m == [call[c] EXCEPT !.pc = "finish", !.said = "success"]
      <3>1. Become(c, m)
        BY <2>3 DEF Answer
      <3>2. m.pc = "finish" /\ m.head = call[c].head /\ m.task = call[c].task
        BY DEF Memory
      <3>3. Earned(call[c].task, call[c].head, checkpoint, tasks)
        BY <1>0, <1>7, <2>3 DEF Collect, Acceptable, Sound, Observing, Earned
      <3> HIDE DEF m
      <3>4. Sound(m, checkpoint', tasks)
        BY <2>1, <3>2, <3>3 DEF Sound, Posting, Observing
      <3> QED
        BY <2>1, <3>1, <3>4, BecomeEarned
    <2> QED
      BY <1>7, <2>2, <2>3 DEF Collect
  <1> QED
    BY <1>1, <1>2, <1>4, <1>5, <1>6, <1>7

LEMMA FinishEarned ==
  ASSUME TInv, ReserveInv, EarnedInv, NEW c \in Calls, Finish(c) \/ WriteFinal(c) \/ Interrupt(c) \/ Crash(c)
  PROVE  EarnedInv'
  <1> USE Known
  <1>0. Sound(call[c], checkpoint, tasks)
    BY DEF EarnedInv
  <1> DEFINE over == [Fresh EXCEPT !.pc = "over", !.mode = call[c].mode, !.said = call[c].said]
  <1>1. over.pc = "over" /\ [Fresh EXCEPT !.pc = "over", !.mode = call[c].mode].pc = "over"
    BY DEF Fresh
  <1>2. CASE Finish(c)
    <2>1. UNCHANGED <<tasks, checkpoint, final>> /\ Steady(checkpoint, checkpoint')
      BY <1>2, SteadyRefl DEF Finish
    <2>2. CASE End(c)
      BY <1>1, <2>1, <2>2, EndEarned DEF End
    <2>3. CASE Goto(c, "write")
      <3> DEFINE m == [call[c] EXCEPT !.pc = "write"]
      <3>1. Become(c, m)
        BY <2>3 DEF Goto
      <3>2. m.pc = "write" /\ m.said = call[c].said /\ m.head = call[c].head /\ m.task = call[c].task
        BY DEF Memory
      <3> HIDE DEF m
      <3>3. Sound(m, checkpoint', tasks)
        BY <1>0, <1>2, <2>1, <3>2 DEF Sound, Finish, Posting, Observing
      <3> QED
        BY <2>1, <3>1, <3>3, BecomeEarned
    <2> QED
      BY <1>2, <2>2, <2>3 DEF Finish
  <1>3. CASE WriteFinal(c)
    <2>1. UNCHANGED <<tasks, checkpoint>> /\ Become(c, over)
          /\ final' = [status |-> call[c].said, task |-> call[c].task, head |-> call[c].head]
      BY <1>3 DEF WriteFinal, End
    <2>2. final'.status = "success" => Earned(final'.task, final'.head, checkpoint', tasks')
      BY <1>0, <1>3, <2>1 DEF WriteFinal, Sound
    <2>3. \A d \in Calls : call'[d] = IF d = c THEN over ELSE call[d]
      BY <2>1 DEF TInv, TypeOK, Become
    <2> HIDE DEF over
    <2>4. Sound(over, checkpoint', tasks')
      BY <1>1 DEF Sound, Posting, Observing
    <2> QED
      BY <2>1, <2>2, <2>3, <2>4 DEF EarnedInv
  <1>4. CASE Interrupt(c)
    <2>1. PICK said \in {"interrupted", "not_started"} : Answer(c, said)
      BY <1>4 DEF Interrupt
    <2> QED
      BY <1>4, <2>1, AnswerEarned, SteadyRefl DEF Interrupt, Answers
  <1>5. CASE Crash(c)
    BY <1>1, <1>5, EndEarned DEF Crash
  <1> QED
    BY <1>2, <1>3, <1>4, <1>5

LEMMA WorldEarned ==
  ASSUME TInv, ReserveInv, EarnedInv, (\E t \in DOMAIN tasks : TaskEnds(t)) \/ HeadMoves \/ TreeChanges
  PROVE  EarnedInv'
  <1>1. UNCHANGED <<checkpoint, final, call>>
    BY DEF TaskEnds, HeadMoves, TreeChanges
  <1>2. CASE UNCHANGED tasks
    BY <1>1, <1>2 DEF EarnedInv
  <1>3. ASSUME NEW t \in DOMAIN tasks, TaskEnds(t) PROVE EarnedInv'
    <2>1. PICK state \in TaskStates : tasks' = [tasks EXCEPT ![t].state = state, ![t].endedAt = head]
      BY <1>3 DEF TaskEnds
    <2>2. tasks \in Seq(HostedTask) /\ tasks[t] \in HostedTask /\ tasks[t].state # "completed" /\ tasks # <<>>
      <3>1. tasks \in Seq(HostedTask)
        BY DEF TInv, TypeOK
      <3>2. t \in 1..Len(tasks) /\ tasks # <<>>
        BY <1>3, <3>1
      <3>3. tasks[t] \in HostedTask
        BY <3>1, <3>2
      <3>4. tasks[t].state # "completed"
        BY <1>3 DEF TaskEnds
      <3> QED
        BY <3>1, <3>2, <3>3, <3>4
    <2>3. /\ DOMAIN tasks' = DOMAIN tasks
          /\ \A s \in DOMAIN tasks : s # t => tasks'[s] = tasks[s]
          /\ tasks'[t].head = tasks[t].head
      BY <2>1, <2>2 DEF HostedTask
    <2>4. Grows(tasks, tasks')
      BY <2>2, <2>3 DEF Grows
    <2>5. \A d \in Calls : Sound(call'[d], checkpoint', tasks')
      <3> TAKE d \in Calls
      <3>1. Sound(call[d], checkpoint, tasks) /\ (call[d].pc \in Posting => checkpoint.state # "none")
        BY DEF EarnedInv, ReserveInv
      <3> QED
        BY <1>1, <2>4, <3>1, SteadyRefl, SoundStays
    <2>6. tasks'[1].head = checkpoint'.head
      <3>1. 1 \in DOMAIN tasks
        BY <2>2
      <3> QED
        BY <1>1, <2>2, <2>3, <3>1 DEF EarnedInv
    <2>7. final'.status = "success" => Earned(final'.task, final'.head, checkpoint', tasks')
      BY <1>1, <2>4, SteadyRefl, EarnedStays DEF EarnedInv
    <2> QED
      BY <2>5, <2>6, <2>7 DEF EarnedInv
  <1> QED
    BY <1>2, <1>3 DEF HeadMoves, TreeChanges

\* Whatever staged calls run at once and wherever they die, a result file says
\* success only of a completed task, the one of the checkpoint, that started from the head
\* that the result reports.
THEOREM StagedSuccessIsEarned == Bounded => (Spec => []SuccessIsEarned)
  <1> SUFFICES ASSUME Bounded PROVE Spec => []SuccessIsEarned
    OBVIOUS
  <1> DEFINE IInv == TInv /\ ReserveInv /\ EarnedInv
  <1>1. Init => IInv
    <2>1. Init => EarnedInv
      BY DEF Init, EarnedInv, Sound, Posting, Observing, Fresh, NoFinal
    <2> QED
      BY <2>1, InitTypes, InitReserve
  <1>2. IInv /\ [Next]_vars => IInv'
    <2> SUFFICES ASSUME TInv, ReserveInv, EarnedInv, [Next]_vars PROVE EarnedInv'
      BY NextTypes, NextReserve
    <2>1. CASE UNCHANGED vars
      BY <2>1 DEF vars, EarnedInv
    <2>2. CASE \E c \in Calls : Start(c) \/ StartObserve(c) \/ Step(c) \/ PollFails(c) \/ Interrupt(c) \/ Crash(c)
      BY <2>2, StartEarned, CreateEarned, WatchEarned, FinishEarned DEF Step
    <2>3. CASE (\E t \in DOMAIN tasks : TaskEnds(t)) \/ HeadMoves \/ TreeChanges
      BY <2>3, WorldEarned
    <2> QED
      BY <2>1, <2>2, <2>3 DEF Next
  <1>3. IInv => SuccessIsEarned
    <2> SUFFICES ASSUME TInv, ReserveInv, EarnedInv, final.status = "success" PROVE SuccessIsEarned
      BY DEF SuccessIsEarned
    <2>1. Settled(checkpoint) /\ Completed(final.task, tasks) /\ final.head = checkpoint.head
      BY DEF EarnedInv, Earned
    <2>2. tasks \in Seq(HostedTask) /\ Len(tasks) <= 1 /\ final.task \in 1..Len(tasks)
      BY <2>1 DEF TInv, TypeOK, ReserveInv, OneTask, Completed
    <2>3. final.task = 1 /\ tasks # <<>>
      BY <2>2
    <2>4. checkpoint.task \in 1..Len(tasks)
      BY <2>1 DEF TInv, GoodCheckpoint, Settled
    <2>5. checkpoint.task = 1
      BY <2>2, <2>4
    <2>6. tasks[1].head = checkpoint.head
      BY <2>3 DEF EarnedInv
    <2> QED
      BY <2>1, <2>3, <2>5, <2>6 DEF SuccessIsEarned, Completed
  <1> QED
    BY <1>1, <1>2, <1>3, PTL DEF Spec

-----------------------------------------------------------------------------
\* A pending answer, for calls that run one after the other.  What the call
\* that runs says and will leave behind.
CanObserve(cp, fin, known) ==
  cp.state = "dispatched" /\ fin = NoFinal /\ cp.task \in DOMAIN known

Looking == {"begin", "get", "put"}
Creating == {"prepare", "reserve", "post", "answer", "confirm"}

Promises(m, cp, fin, known) ==
  /\ m.pc \in Looking => m.mode = "observe" /\ fin = NoFinal
  /\ m.pc \in Creating => m.mode = "plain" \/ (m.mode = "dispatch" /\ fin = NoFinal)
  /\ m.said = "pending" =>
       /\ m.pc = "finish" /\ CanObserve(cp, fin, known)
       /\ m.mode = "dispatch" \/ (m.mode = "observe" /\ m.seen = "active")

PendingInv ==
  /\ \A c, d \in Running : c = d
  /\ \A c \in Running : Promises(call[c], checkpoint, final, tasks)
  /\ PendingCanBeObserved

\* Of a call that works on, only its own promises have to be shown: it is alone.
LEMMA WorksOn ==
  ASSUME TInv, PendingInv, NEW c \in Calls, c \in Running \/ Running = {},
         NEW m, Become(c, m), m.pc \in Working, Promises(m, checkpoint', final', tasks')
  PROVE  PendingInv'
  <1>1. \A d \in Calls : call'[d] = IF d = c THEN m ELSE call[d]
    BY DEF TInv, TypeOK, Become
  <1>2. Running' = {c}
    BY <1>1 DEF Running, PendingInv
  <1> QED
    BY <1>1, <1>2 DEF PendingInv, PendingCanBeObserved

\* A call that answers anything but pending promises nothing.
LEMMA AnswersOther ==
  ASSUME TInv, PendingInv, NEW c \in Running, NEW said \in Answers \ {"pending"}, Answer(c, said)
  PROVE  PendingInv'
  <1> DEFINE m == [call[c] EXCEPT !.pc = "finish", !.said = said]
  <1>1. c \in Calls /\ Become(c, m)
    BY DEF Running, Answer
  <1>2. m.pc = "finish" /\ m.said = said
    BY <1>1, Known DEF Memory
  <1> HIDE DEF m
  <1> QED
    BY <1>1, <1>2, WorksOn DEF Promises, Looking, Creating, Working

\* When a call ends, nobody runs, and it is the last.
LEMMA EndsPending ==
  ASSUME TInv, PendingInv, NEW c \in Running, NEW m, Become(c, m), m.pc = "over", last' = c,
         m.said = "pending" => CanObserve(checkpoint', final', tasks')
  PROVE  PendingInv'
  <1>1. c \in Calls
    BY DEF Running
  <1>2. \A d \in Calls : call'[d] = IF d = c THEN m ELSE call[d]
    BY <1>1 DEF TInv, TypeOK, Become
  <1>3. Running' = {}
    BY <1>1, <1>2 DEF Running, PendingInv, Working
  <1> QED
    BY <1>1, <1>2, <1>3 DEF PendingInv, PendingCanBeObserved, CanObserve

LEMMA StartsPending ==
  ASSUME Serial, TInv, PendingInv, NEW c \in Calls, Start(c) \/ StartObserve(c)
  PROVE  PendingInv'
  <1>1. CASE Start(c)
    <2> DEFINE free == Bounded => Unused
               m == [call[c] EXCEPT !.mode = IF Bounded THEN "dispatch" ELSE "plain", !.head = head,
                       !.pc = IF free THEN "prepare" ELSE "finish",
                       !.said = IF free THEN "none" ELSE "error"]
    <2>1. Become(c, m) /\ Running = {} /\ UNCHANGED final
      BY <1>1 DEF Start
    <2>2. /\ m.pc = (IF free THEN "prepare" ELSE "finish")
          /\ m.said \in {"none", "error"}
          /\ m.mode = IF Bounded THEN "dispatch" ELSE "plain"
      BY Known DEF Memory
    <2>3. m.pc = "prepare" /\ Bounded => final = NoFinal
      BY <2>2 DEF Unused
    <2> HIDE DEF m, free
    <2> QED
      BY <2>1, <2>2, <2>3, WorksOn DEF Promises, Looking, Creating, Working
  <1>2. CASE StartObserve(c)
    <2> DEFINE fit == Observable /\ checkpoint.tree = tree
               m == [call[c] EXCEPT !.mode = "observe", !.known = fit,
                       !.pc = IF fit THEN "begin" ELSE "finish",
                       !.said = IF fit THEN "none" ELSE "error",
                       !.task = checkpoint.task, !.head = checkpoint.head, !.tree = checkpoint.tree]
    <2>1. Become(c, m) /\ Running = {} /\ UNCHANGED final
      BY <1>2 DEF StartObserve
    <2>2. /\ m.pc = (IF fit THEN "begin" ELSE "finish")
          /\ m.said \in {"none", "error"} /\ m.mode = "observe"
      BY Known DEF Memory
    <2>3. fit => final = NoFinal
      BY DEF Observable
    <2> HIDE DEF m, fit
    <2> QED
      BY <2>1, <2>2, <2>3, WorksOn DEF Promises, Looking, Creating, Working
  <1> QED
    BY <1>1, <1>2

LEMMA CreatesPending ==
  ASSUME TInv, PendingInv, NEW c \in Calls, Prepare(c) \/ Reserve(c) \/ Post(c) \/ Replied(c) \/ Confirm(c)
  PROVE  PendingInv'
  <1>0. /\ c \in Running /\ call[c].pc \in Creating /\ UNCHANGED final
        /\ call[c] \in Memory /\ GoodMemory(call[c], Len(tasks))
        /\ Promises(call[c], checkpoint, final, tasks)
    BY Known DEF Prepare, Reserve, Post, Replied, Confirm, Running, Working, Creating, PendingInv
  <1>1. ASSUME Answer(c, "error") PROVE PendingInv'
    BY <1>0, <1>1, AnswersOther DEF Answers
  \* a step that leaves the call in the middle of creating its task, or monitoring
  <1>2. ASSUME NEW m, Become(c, m), m.pc \in Creating \cup {"monitor"},
               m.mode = call[c].mode, m.said = call[c].said
        PROVE  PendingInv'
    <2>1. m.said # "pending"
      BY <1>0, <1>2 DEF Promises, Creating
    <2>2. Promises(m, checkpoint', final', tasks')
      BY <1>0, <1>2, <2>1 DEF Promises, Creating, Looking
    <2> QED
      BY <1>0, <1>2, <2>2, WorksOn DEF Creating, Working
  <1>3. ASSUME NEW pc \in Creating, Goto(c, pc) PROVE PendingInv'
    <2> DEFINE m == [call[c] EXCEPT !.pc = pc]
    <2>1. Become(c, m) /\ m.pc = pc /\ m.mode = call[c].mode /\ m.said = call[c].said
      BY <1>0, <1>3 DEF Goto, Memory
    <2> HIDE DEF m
    <2> QED
      BY <1>2, <2>1
  <1>4. CASE Prepare(c)
    <2> DEFINE m == [call[c] EXCEPT !.pc = "reserve", !.tree = tree]
    <2>1. Become(c, m) \/ Answer(c, "error")
      BY <1>4 DEF Prepare
    <2>2. m.pc = "reserve" /\ m.mode = call[c].mode /\ m.said = call[c].said
      BY <1>0 DEF Memory
    <2> HIDE DEF m
    <2> QED
      BY <1>1, <1>2, <2>1, <2>2 DEF Creating
  <1>5. CASE Reserve(c)
    BY <1>1, <1>3, <1>5 DEF Reserve, Creating
  <1>6. CASE Post(c)
    <2>1. PICK reply, task : Become(c, [call[c] EXCEPT !.pc = "answer", !.reply = reply, !.tries = @ + 1, !.task = task])
      BY <1>6 DEF Post
    <2> DEFINE m == [call[c] EXCEPT !.pc = "answer", !.reply = reply, !.tries = @ + 1, !.task = task]
    <2>2. Become(c, m) /\ m.pc = "answer" /\ m.mode = call[c].mode /\ m.said = call[c].said
      BY <1>0, <2>1 DEF Memory
    <2> HIDE DEF m
    <2> QED
      BY <1>2, <2>2 DEF Creating
  <1>7. CASE Replied(c)
    BY <1>1, <1>3, <1>7 DEF Replied, Creating
  <1>8. CASE Confirm(c)
    <2>1. CASE call[c].mode = "plain"
      <3> DEFINE m == [call[c] EXCEPT !.pc = "monitor", !.known = TRUE]
      <3>1. Become(c, m) /\ m.pc = "monitor" /\ m.mode = call[c].mode /\ m.said = call[c].said
        BY <1>0, <1>8, <2>1 DEF Confirm, Memory
      <3> HIDE DEF m
      <3> QED
        BY <1>2, <3>1
    <2>2. CASE call[c].mode # "plain"
      <3> DEFINE active == TaskOf(c).state = "active"
                 said == IF active THEN "pending" ELSE "error"
                 m == [call[c] EXCEPT !.pc = "finish", !.known = TRUE, !.seen = TaskOf(c).state, !.said = said]
      <3>1. /\ Become(c, m) /\ tasks' = tasks
            /\ checkpoint' = [checkpoint EXCEPT !.task = call[c].task,
                                 !.state = IF active THEN "dispatched" ELSE "terminal_error"]
        BY <1>8, <2>2 DEF Confirm
      <3>2. m.pc = "finish" /\ m.said = said /\ m.mode = "dispatch" /\ final = NoFinal
        BY <1>0, <2>2 DEF Memory, Promises
      <3>3. call[c].task \in DOMAIN tasks
        BY <1>0, <1>8 DEF Confirm, GoodMemory, HasTask, TInv, TypeOK
      <3>4. said = "pending" => checkpoint'.state = "dispatched" /\ checkpoint'.task = call[c].task
        BY <3>1 DEF TInv, TypeOK, Checkpoint
      <3> HIDE DEF m, said
      <3>5. Promises(m, checkpoint', final', tasks')
        BY <1>0, <3>1, <3>2, <3>3, <3>4 DEF Promises, CanObserve, Looking, Creating
      <3> QED
        BY <1>0, <3>1, <3>2, <3>5, WorksOn DEF Working
    <2> QED
      BY <2>1, <2>2
  <1> QED
    BY <1>4, <1>5, <1>6, <1>7, <1>8

LEMMA LooksPending ==
  ASSUME TInv, PendingInv, NEW c \in Calls, Monitor(c) \/ PollFails(c) \/ Begin(c) \/ Get(c) \/ Put(c) \/ Collect(c)
  PROVE  PendingInv'
  <1>0. /\ c \in Running /\ call[c].pc # "finish" /\ UNCHANGED <<final, tasks>>
        /\ call[c] \in Memory /\ GoodMemory(call[c], Len(tasks))
        /\ Promises(call[c], checkpoint, final, tasks)
    BY Known DEF Monitor, PollFails, Begin, Get, Put, Collect, Running, Working, PendingInv
  <1>1. ASSUME NEW said \in Answers \ {"pending"}, Answer(c, said) PROVE PendingInv'
    BY <1>0, <1>1, AnswersOther
  <1>2. ASSUME NEW m, Become(c, m), m.pc \in {"monitor", "collect", "get", "put", "finish"}, m.said # "pending",
               m.pc \in {"get", "put"} => call[c].pc \in Looking /\ m.mode = call[c].mode
        PROVE  PendingInv'
    <2>1. Promises(m, checkpoint', final', tasks')
      BY <1>0, <1>2 DEF Promises, Looking, Creating
    <2> QED
      BY <1>0, <1>2, <2>1, WorksOn DEF Working
  <1>3. ASSUME NEW pc \in {"get", "collect"}, Goto(c, pc), pc = "get" => call[c].pc \in Looking PROVE PendingInv'
    <2> DEFINE m == [call[c] EXCEPT !.pc = pc]
    <2>1. Become(c, m) /\ m.pc = pc /\ m.mode = call[c].mode /\ m.said = call[c].said
      BY <1>0, <1>3 DEF Goto, Memory
    <2>2. m.said # "pending"
      BY <1>0, <2>1 DEF Promises
    <2> HIDE DEF m
    <2> QED
      BY <1>2, <1>3, <2>1, <2>2
  <1>4. CASE Monitor(c)
    <2> DEFINE pc == CASE TaskOf(c).state = "active" -> "monitor"
                       [] TaskOf(c).state = "stopped" -> "finish"
                       [] OTHER -> "collect"
               said == IF TaskOf(c).state = "stopped" THEN "error" ELSE "none"
               m == [call[c] EXCEPT !.seen = TaskOf(c).state, !.pc = pc, !.said = said]
    <2>1. Become(c, m)
      BY <1>4 DEF Monitor
    <2>2. pc \in {"monitor", "finish", "collect"} /\ said # "pending"
      OBVIOUS
    <2> HIDE DEF pc, said
    <2>3. m.pc = pc /\ m.said = said
      BY <1>0 DEF Memory
    <2> HIDE DEF m
    <2> QED
      BY <1>2, <2>1, <2>2, <2>3
  <1>5. CASE PollFails(c)
    BY <1>1, <1>5 DEF PollFails, Answers
  <1>6. CASE Begin(c)
    BY <1>3, <1>6 DEF Begin, Looking
  <1>7. CASE Get(c)
    <2> DEFINE m == [call[c] EXCEPT !.pc = "put", !.seen = TaskOf(c).state]
    <2>1. Become(c, m) /\ call[c].pc \in Looking
      BY <1>7 DEF Get, Looking
    <2>2. m.pc = "put" /\ m.mode = call[c].mode /\ m.said = call[c].said
      BY <1>0 DEF Memory
    <2>3. m.said # "pending"
      BY <1>0, <2>2 DEF Promises
    <2> HIDE DEF m
    <2> QED
      BY <1>2, <2>1, <2>2, <2>3
  <1>8. CASE Put(c)
    <2>1. CASE call[c].seen = "active"
      <3> DEFINE m == [call[c] EXCEPT !.pc = "finish", !.said = "pending"]
      <3>1. /\ Become(c, m)
            /\ checkpoint' = [state |-> "dispatched", task |-> call[c].task,
                              head |-> call[c].head, tree |-> call[c].tree]
        BY <1>8, <2>1 DEF Put, Answer, SetCheckpointState, StateAfter
      <3>2. m.pc = "finish" /\ m.mode = "observe" /\ m.seen = "active" /\ final = NoFinal
        BY <1>0, <1>8, <2>1 DEF Memory, Promises, Put, Looking
      <3>3. call[c].task \in DOMAIN tasks
        BY <1>0, <1>8 DEF Put, GoodMemory, HasTask, TInv, TypeOK
      <3> HIDE DEF m
      <3>4. Promises(m, checkpoint', final', tasks')
        BY <1>0, <3>1, <3>2, <3>3 DEF Promises, CanObserve, Looking, Creating
      <3> QED
        BY <1>0, <3>1, <3>2, <3>4, WorksOn DEF Working
    <2>2. CASE call[c].seen = "stopped"
      BY <1>1, <1>8, <2>2 DEF Put, Answers
    <2>3. CASE call[c].seen \notin {"active", "stopped"}
      BY <1>3, <1>8, <2>3 DEF Put
    <2> QED
      BY <2>1, <2>2, <2>3
  <1>9. CASE Collect(c)
    BY <1>1, <1>9 DEF Collect, Answers
  <1> QED
    BY <1>4, <1>5, <1>6, <1>7, <1>8, <1>9

LEMMA FinishesPending ==
  ASSUME TInv, PendingInv, NEW c \in Calls, Finish(c) \/ WriteFinal(c) \/ Interrupt(c) \/ Crash(c)
  PROVE  PendingInv'
  <1>0. c \in Running /\ call[c] \in Memory /\ Promises(call[c], checkpoint, final, tasks)
    BY Known DEF Finish, WriteFinal, Interrupt, Crash, Running, Working, PendingInv
  <1> DEFINE over == [Fresh EXCEPT !.pc = "over", !.mode = call[c].mode, !.said = call[c].said]
             died == [Fresh EXCEPT !.pc = "over", !.mode = call[c].mode]
  <1>1. over.pc = "over" /\ over.said = call[c].said /\ died.pc = "over" /\ died.said = "none"
    BY DEF Fresh
  <1>2. ASSUME End(c), call[c].said = "pending" => UNCHANGED <<checkpoint, final, tasks>> PROVE PendingInv'
    <2>1. Become(c, over) /\ last' = c
      BY <1>2 DEF End
    <2> HIDE DEF over
    <2> QED
      BY <1>0, <1>1, <1>2, <2>1, EndsPending DEF Promises
  <1>3. CASE Finish(c)
    <2>1. CASE Writes(c)
      <3> DEFINE m == [call[c] EXCEPT !.pc = "write"]
      <3>1. Become(c, m) /\ m.pc = "write" /\ m.said = call[c].said
        BY <1>0, <1>3, <2>1 DEF Finish, Goto, Memory
      <3>2. call[c].said # "pending"
        BY <1>0, <2>1 DEF Writes, Promises
      <3> HIDE DEF m
      <3>3. Promises(m, checkpoint', final', tasks')
        BY <3>1, <3>2 DEF Promises, Looking, Creating
      <3> QED
        BY <1>0, <3>1, <3>3, WorksOn DEF Working
    <2>2. CASE ~Writes(c)
      BY <1>2, <1>3, <2>2 DEF Finish
    <2> QED
      BY <2>1, <2>2
  <1>4. CASE WriteFinal(c)
    <2>1. call[c].said # "pending"
      BY <1>0, <1>4 DEF WriteFinal, Promises
    <2> QED
      BY <1>2, <1>4, <2>1 DEF WriteFinal
  <1>5. CASE Interrupt(c)
    BY <1>0, <1>5, AnswersOther DEF Interrupt, Answers
  <1>6. CASE Crash(c)
    <2>1. Become(c, died) /\ last' = c
      BY <1>6 DEF Crash
    <2> HIDE DEF died
    <2> QED
      BY <1>0, <1>1, <2>1, EndsPending
  <1> QED
    BY <1>3, <1>4, <1>5, <1>6

LEMMA WorldPending ==
  ASSUME TInv, PendingInv, (\E t \in DOMAIN tasks : TaskEnds(t)) \/ HeadMoves \/ TreeChanges
  PROVE  PendingInv'
  <1>1. UNCHANGED <<checkpoint, final, call, last>> /\ Running' = Running
    BY DEF TaskEnds, HeadMoves, TreeChanges, Running
  <1>2. DOMAIN tasks' = DOMAIN tasks
    BY DEF TaskEnds, HeadMoves, TreeChanges
  <1> QED
    BY <1>1, <1>2 DEF PendingInv, PendingCanBeObserved, Promises, CanObserve

\* Calls of one result path that run one after the other: whichever of them failed,
\* was interrupted or died, an answer "pending" leaves a checkpoint that the next
\* observation takes up, of a task that exists, with no result in its way.
THEOREM PendingIsKept == Serial => (Spec => []PendingCanBeObserved)
  <1> SUFFICES ASSUME Serial PROVE Spec => []PendingCanBeObserved
    OBVIOUS
  <1>1. Init => TInv /\ PendingInv
    <2> SUFFICES ASSUME Init PROVE PendingInv
      BY InitTypes
    <2>1. Running = {}
      BY DEF Init, Running, Fresh, Working
    <2> QED
      BY <2>1 DEF Init, PendingInv, PendingCanBeObserved
  <1>2. TInv /\ PendingInv /\ [Next]_vars => (TInv /\ PendingInv)'
    <2> SUFFICES ASSUME TInv, PendingInv, [Next]_vars PROVE PendingInv'
      BY NextTypes
    <2>1. CASE UNCHANGED vars
      BY <2>1 DEF vars, PendingInv, PendingCanBeObserved, Running
    <2>2. ASSUME NEW c \in Calls,
                 Start(c) \/ StartObserve(c) \/ Step(c) \/ PollFails(c) \/ Interrupt(c) \/ Crash(c)
          PROVE  PendingInv'
      BY <2>2, StartsPending, CreatesPending, LooksPending, FinishesPending DEF Step
    <2>3. CASE (\E t \in DOMAIN tasks : TaskEnds(t)) \/ HeadMoves \/ TreeChanges
      BY <2>3, WorldPending
    <2> QED
      BY <2>1, <2>2, <2>3 DEF Next
  <1>3. PendingInv => PendingCanBeObserved
    BY DEF PendingInv
  <1> QED
    BY <1>1, <1>2, <1>3, PTL DEF Spec

==============================================================================
