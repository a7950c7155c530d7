-------------------------- MODULE PrPipelineProofs --------------------------
(***************************************************************************)
(* Theorems about PrPipeline, for any number of calls, stages, pushes and  *)
(* failures: types on both routes; of the bounded route, that it implements*)
(* PipelineSweeps and completes one conflict attempt at most; and what a   *)
(* run concludes: "complete" is of one clean head, a second sweep is of a  *)
(* change, and no tip is lost.                                             *)
(***************************************************************************)
EXTENDS PrPipeline, FiniteSetTheorems, TLAPS

\* Where a call has a stage in hand, and where it has none left.
Executing == {"launch", "running", "settle", "after"}
AtStage == {"stage", "stage_sync", "inspect"} \cup Executing
AtEnd == {"final", "final_sync", "judge"}

\* A sweep that has not started is at its first stage.
GoodCursor(at) ==
  /\ at \in Cursor
  /\ ~at.initialized => at.index = 1

GoodMemory(m) ==
  /\ m \in Memory
  /\ GoodCursor(m.at)
  /\ m.pc \in AtStage => m.at.index <= NumStages /\ m.at.initialized
  /\ m.pc \in AtEnd => m.at.index = NumStages + 1 /\ m.at.initialized

TInv ==
  /\ TypeOK
  /\ GoodCursor(file.cursor)
  /\ \A c \in Callers : GoodMemory(caller[c])

\* The calls that hold step.lock.
Holding == InPipeline \cup {"load", "unlock"}
Exclusion ==
  /\ \A c \in Callers : caller[c].pc \in Holding => lock
  /\ \A c, d \in Callers : caller[c].pc \in Holding /\ caller[d].pc \in Holding => c = d

Going == {"active", "waiting"}
Position(at) == <<at.sweep, at.index>>

\* What the state file says of the stages that were started: those before the
\* cursor, and the one at it exactly when it is under way.
FileAgrees ==
  /\ file.status = "none" => launched = {} /\ running = Nothing /\ verdict.result = "none"
  /\ file.status \in Going =>
       LET v == Position(file.cursor)
           phase == file.cursor.pending.phase
       IN /\ verdict.result = "none"
          /\ \A u \in launched : Sweeps!After(u, v) \/ u = v
          /\ running \in {Nothing, v}
          /\ running = v <=> v \in launched
          /\ phase = "none" => running = Nothing
          /\ phase = "waiting" => running = v
          /\ phase # "none" => file.cursor.index <= NumStages

\* A call in the pipeline is where the file says it is.
CallAgrees(m, f, visit) ==
  m.pc \in InPipeline =>
    /\ f.status \in Going
    /\ Position(m.at) = Position(f.cursor)
    /\ m.at.pending = f.cursor.pending
    /\ m.at.resolved = f.cursor.resolved
    /\ m.pc \in Executing <=> m.at.pending.phase = "executing"
    /\ m.pc \in {"running", "settle", "after"} => visit = Position(f.cursor)

TurnInv ==
  /\ Exclusion
  /\ FileAgrees
  /\ \A c \in Callers : CallAgrees(caller[c], file, running)

\* While the conflict stage has completed no attempt the count is zero; once it
\* has, the file knows, or the call that ran the stage has yet to record it.
FileAttempts(f, record) ==
  LET attempt == record[Conflict].attempt
      pending == f.cursor.pending
  IN /\ attempt \in {0, 1}
     /\ f.status = "none" => attempt = 0
     /\ f.status \in Going /\ attempt = 1 =>
          f.cursor.resolved \/ (f.cursor.index = Conflict /\ pending.phase = "executing")
     /\ f.status \in Going /\ f.cursor.index = Conflict /\ pending.phase # "none" =>
          pending.attempt = 0 /\ ~f.cursor.resolved

CallAttempts(m, record) ==
  /\ m.pc \in {"launch", "running"} /\ m.at.index = Conflict => record[Conflict].attempt = 0
  /\ m.pc \in {"settle", "after"} /\ m.at.index = Conflict /\ record[Conflict].attempt = 1 =>
       record[Conflict].outcome = "completed"

AttemptInv ==
  /\ FileAttempts(file, stage)
  /\ \A c \in Callers : CallAttempts(caller[c], stage)

\* What of a call's cursor only a save to the file may change.
SamePlace(m, k) ==
  /\ m.at.sweep = k.at.sweep /\ m.at.index = k.at.index
  /\ m.at.pending = k.at.pending /\ m.at.resolved = k.at.resolved

-----------------------------------------------------------------------------
(* Types *)

LEMMA Constants ==
  /\ SomeBase \in Bases
  /\ (CHOOSE k \in Checks : TRUE) \in Checks
  /\ MaxSweeps = 2
  /\ \A u \in Sweeps!Visits : u # Nothing
  BY PrPipelineAssumption DEF SomeBase, MaxSweeps, Nothing, Sweeps!Nothing, Sweeps!Visits

LEMMA NewCursorTypes ==
  ASSUME NEW b \in Bases
  PROVE  GoodCursor(NewCursor(b))
  BY PrPipelineAssumption DEF GoodCursor, NewCursor, Cursor, MaxSweeps, NoPending, Pending

LEMMA FreshTypes ==
  ASSUME NEW ok \in BOOLEAN, NEW more \in BOOLEAN, NEW pc \in {"idle", "dead", "unlock", "seal", "sweep"}
  PROVE  /\ GoodMemory(Fresh)
         /\ GoodMemory([Fresh EXCEPT !.pc = pc])
         /\ GoodMemory([Fresh EXCEPT !.pc = pc, !.more = more])
         /\ GoodMemory([Fresh EXCEPT !.pc = pc, !.ok = ok, !.more = more])
  <1>1. GoodCursor(NewCursor(SomeBase)) /\ SomeBase \in Bases
    BY Constants, NewCursorTypes
  <1>2. PICK cursor : cursor = NewCursor(SomeBase)
    OBVIOUS
  <1>3. Fresh = [pc |-> "idle", at |-> cursor, base |-> SomeBase, ok |-> TRUE, more |-> FALSE]
    BY <1>2 DEF Fresh
  <1>4. Fresh \in Memory /\ GoodCursor(Fresh.at) /\ GoodMemory(Fresh)
    BY <1>1, <1>2, <1>3 DEF Memory, GoodCursor, GoodMemory, AtStage, AtEnd, Executing
  <1>5. PICK k, m, n : /\ k = [Fresh EXCEPT !.pc = pc]
                       /\ m = [Fresh EXCEPT !.pc = pc, !.more = more]
                       /\ n = [Fresh EXCEPT !.pc = pc, !.ok = ok, !.more = more]
    OBVIOUS
  <1>6. /\ k \in Memory /\ k.at = Fresh.at /\ k.pc = pc
        /\ m \in Memory /\ m.at = Fresh.at /\ m.pc = pc
        /\ n \in Memory /\ n.at = Fresh.at /\ n.pc = pc
    BY <1>4, <1>5 DEF Memory, Working, InPipeline
  <1> QED
    BY <1>4, <1>5, <1>6 DEF GoodMemory, AtStage, AtEnd, Executing

LEMMA LeavingTypes ==
  ASSUME NEW ok \in BOOLEAN, NEW more \in BOOLEAN
  PROVE  GoodMemory(Leaving(ok, more))
  BY FreshTypes DEF Leaving

LEMMA InitTypes == Init => TInv
  <1> SUFFICES ASSUME Init PROVE TInv
    OBVIOUS
  <1>1. GoodCursor(NewCursor(SomeBase)) /\ SomeBase \in Bases
    BY Constants, NewCursorTypes
  <1>2. GoodMemory(Fresh)
    BY FreshTypes
  <1>3. pr.checks \in Checks
    BY Constants DEF Init
  <1>4. stage \in [1..NumStages -> StageRecord]
    BY <1>1, <1>3, PrPipelineAssumption DEF Init, StageRecord, Outcomes
  <1>5. PICK cursor, fresh : cursor = NewCursor(SomeBase) /\ fresh = Fresh
    OBVIOUS
  <1>6. /\ file = [status |-> "none", cursor |-> cursor] /\ caller = [c \in Callers |-> fresh]
        /\ GoodCursor(cursor) /\ GoodMemory(fresh)
    BY <1>1, <1>2, <1>5 DEF Init
  <1>7. pr \in [open : BOOLEAN, head : Heads, base : Bases, checks : Checks]
    BY <1>1, Constants DEF Init
  <1>8. TypeOK
    <2>1. /\ tree \in [local : Heads, dirty : BOOLEAN, kept : SUBSET Heads]
          /\ prior \in [who : Callers \cup {Nobody}, says : {"open", "good", "bad"}]
          /\ left \in [moves : 0..MaxMoves, waits : 0..MaxWaits]
      BY PrPipelineAssumption DEF Init
    <2>2. verdict \in [result : Sweeps!Verdicts \cup {"none"}, why : {"none", "two_sweeps_finished", "stages_not_clear"},
                       head : Heads \cup {NoHead}, base : Bases]
      BY <1>1 DEF Init
    <2>3. /\ launched \subseteq Sweeps!Visits /\ running \in Sweeps!Visits \cup {Nothing}
          /\ lock \in BOOLEAN
      BY DEF Init
    <2>4. /\ file \in [status : {"none", "active", "waiting", "blocked", "complete"}, cursor : Cursor]
          /\ caller \in [Callers -> Memory]
      BY <1>6 DEF GoodCursor, GoodMemory
    <2> QED
      BY <1>4, <1>7, <2>1, <2>2, <2>3, <2>4 DEF TypeOK
  <1> QED
    BY <1>6, <1>8 DEF TInv

\* A step of one call keeps the types if its new memory is good, and what it
\* writes has its type.
LEMMA BecomeTypes ==
  ASSUME TInv, NEW c \in Callers, NEW m, Become(c, m), GoodMemory(m),
         pr' \in [open : BOOLEAN, head : Heads, base : Bases, checks : Checks],
         tree' \in [local : Heads, dirty : BOOLEAN, kept : SUBSET Heads],
         stage' \in [1..NumStages -> StageRecord],
         file' \in [status : {"none", "active", "waiting", "blocked", "complete"}, cursor : Cursor],
         GoodCursor(file'.cursor),
         lock' \in BOOLEAN,
         prior' \in [who : Callers \cup {Nobody}, says : {"open", "good", "bad"}],
         launched' \subseteq Sweeps!Visits,
         running' \in Sweeps!Visits \cup {Nothing},
         verdict' \in [result : Sweeps!Verdicts \cup {"none"}, why : {"none", "two_sweeps_finished", "stages_not_clear"},
                       head : Heads \cup {NoHead}, base : Bases],
         left' \in [moves : 0..MaxMoves, waits : 0..MaxWaits]
  PROVE  TInv'
  <1>1. caller \in [Callers -> Memory] /\ m \in Memory
    BY DEF TInv, TypeOK, GoodMemory
  <1>2. caller' \in [Callers -> Memory] /\ \A d \in Callers : caller'[d] = IF d = c THEN m ELSE caller[d]
    BY <1>1 DEF Become
  <1>3. \A d \in Callers : GoodMemory(caller'[d])
    BY <1>2 DEF TInv
  <1>4. TypeOK'
    BY <1>2 DEF TypeOK
  <1>5. GoodCursor(file.cursor)' /\ (\A d \in Callers : GoodMemory(caller[d]))'
    BY <1>3 DEF GoodCursor, GoodMemory
  <1> QED
    BY <1>4, <1>5 DEF TInv

\* The steps of a call that only change what it remembers, and the worktree.
LEMMA QuietTypes ==
  ASSUME TInv, NEW c \in Callers, NEW m, Become(c, m), GoodMemory(m),
         tree' \in [local : Heads, dirty : BOOLEAN, kept : SUBSET Heads],
         UNCHANGED <<pr, stage, file, lock, prior, launched, running, verdict, left>>
  PROVE  TInv'
  BY BecomeTypes DEF TInv, TypeOK

LEMMA Known ==
  ASSUME TInv, NEW c \in Callers
  PROVE  GoodMemory(caller[c]) /\ caller[c] \in Memory /\ GoodCursor(caller[c].at)
  BY DEF TInv, GoodMemory

\* A call goes on at pc with the cursor it had.
MovesTo(m, pc, new) ==
  \/ new = [m EXCEPT !.pc = pc]
  \/ \E b \in Bases : new = [m EXCEPT !.pc = pc, !.base = b]
  \/ \E ok \in BOOLEAN : new = [m EXCEPT !.pc = pc, !.ok = ok]

LEMMA MoveTypes ==
  ASSUME NEW m, GoodMemory(m), NEW pc \in Working, NEW new, MovesTo(m, pc, new),
         pc \in AtStage => m.at.index <= NumStages /\ m.at.initialized,
         pc \in AtEnd => m.at.index = NumStages + 1 /\ m.at.initialized
  PROVE  GoodMemory(new) /\ new.at = m.at /\ new.pc = pc
  <1>1. new \in Memory /\ new.at = m.at /\ new.pc = pc
    BY DEF MovesTo, GoodMemory, Memory
  <1> QED
    BY <1>1 DEF GoodMemory

LEMMA GotoTypes ==
  ASSUME TInv, NEW c \in Callers, NEW pc \in Working, Goto(c, pc),
         pc \in AtStage => caller[c].at.index <= NumStages /\ caller[c].at.initialized,
         pc \in AtEnd => caller[c].at.index = NumStages + 1 /\ caller[c].at.initialized
  PROVE  \E m : Become(c, m) /\ GoodMemory(m) /\ m.at = caller[c].at /\ m.pc = pc
  <1>1. PICK k, m : k = caller[c] /\ m = [k EXCEPT !.pc = pc]
    OBVIOUS
  <1>2. GoodMemory(k) /\ MovesTo(k, pc, m)
    BY <1>1, Known DEF MovesTo
  <1>3. GoodMemory(m) /\ m.at = k.at /\ m.pc = pc
    BY <1>1, <1>2, MoveTypes
  <1> QED
    BY <1>1, <1>3 DEF Goto

LEMMA ConcludeTypes ==
  ASSUME TInv, NEW c \in Callers, NEW result \in Sweeps!Verdicts, NEW head \in Heads \cup {NoHead},
         NEW why \in {"none", "two_sweeps_finished", "stages_not_clear"}, Conclude(c, result, why, head)
  PROVE  TInv'
  <1>1. caller[c].base \in Bases /\ SomeBase \in Bases
    BY Known, Constants DEF Memory
  <1>2. verdict' \in [result : Sweeps!Verdicts \cup {"none"}, why : {"none", "two_sweeps_finished", "stages_not_clear"},
                      head : Heads \cup {NoHead}, base : Bases]
    BY <1>1 DEF Conclude
  <1>3. /\ file' \in [status : {"none", "active", "waiting", "blocked", "complete"}, cursor : Cursor]
        /\ GoodCursor(file'.cursor)
    BY DEF Conclude, TInv, TypeOK
  <1>4. PICK m : Become(c, m) /\ GoodMemory(m)
    BY LeavingTypes DEF Conclude
  <1> QED
    BY <1>2, <1>3, <1>4, BecomeTypes DEF Conclude, TInv, TypeOK

LEMMA BlockTypes ==
  ASSUME TInv, NEW c \in Callers, Block(c)
  PROVE  TInv'
  BY ConcludeTypes DEF Block, Sweeps!Verdicts

LEMMA SaveTypes ==
  ASSUME TInv, NEW c \in Callers, NEW status \in {"active", "waiting"}, NEW cursor, GoodCursor(cursor),
         SaveCursor(c, status, cursor)
  PROVE  /\ file' \in [status : {"none", "active", "waiting", "blocked", "complete"}, cursor : Cursor]
         /\ GoodCursor(file'.cursor)
         /\ prior' \in [who : Callers \cup {Nobody}, says : {"open", "good", "bad"}]
  BY DEF SaveCursor, GoodCursor, TInv, TypeOK

LEMMA SuspendTypes ==
  ASSUME TInv, NEW c \in Callers, NEW status \in {"active", "waiting"}, NEW cursor, GoodCursor(cursor),
         Suspend(c, status, cursor),
         pr' \in [open : BOOLEAN, head : Heads, base : Bases, checks : Checks],
         tree' \in [local : Heads, dirty : BOOLEAN, kept : SUBSET Heads],
         running' \in Sweeps!Visits \cup {Nothing},
         left' \in [moves : 0..MaxMoves, waits : 0..MaxWaits],
         UNCHANGED <<stage, lock, launched, verdict>>
  PROVE  TInv'
  <1>1. /\ file' \in [status : {"none", "active", "waiting", "blocked", "complete"}, cursor : Cursor]
        /\ GoodCursor(file'.cursor)
        /\ prior' \in [who : Callers \cup {Nobody}, says : {"open", "good", "bad"}]
    BY SaveTypes DEF Suspend
  <1>2. PICK m : Become(c, m) /\ GoodMemory(m)
    BY LeavingTypes DEF Suspend
  <1> QED
    BY <1>1, <1>2, BecomeTypes DEF TInv, TypeOK

LEMMA CheckoutTypes ==
  ASSUME TInv, NEW to \in Heads, Checkout(to)
  PROVE  tree' \in [local : Heads, dirty : BOOLEAN, kept : SUBSET Heads]
  BY DEF Checkout, TInv, TypeOK

\* The cursor after a stage.
LEMMA CursorTypes ==
  ASSUME NEW at, GoodCursor(at), at.initialized, at.index <= NumStages
  PROVE  /\ GoodCursor([at EXCEPT !.index = @ + 1, !.pending = NoPending])
         /\ [at EXCEPT !.index = @ + 1, !.pending = NoPending].initialized
         /\ [at EXCEPT !.index = @ + 1, !.pending = NoPending].index = at.index + 1
  <1>1. NoPending \in Pending
    BY DEF NoPending, Pending
  <1>2. at \in Cursor /\ at.index + 1 \in 1..(NumStages + 1)
    BY PrPipelineAssumption DEF GoodCursor, Cursor
  <1>3. PICK done, p : done = [at EXCEPT !.index = @ + 1, !.pending = NoPending] /\ p = NoPending
    OBVIOUS
  <1>4. done = [at EXCEPT !.index = @ + 1, !.pending = p]
    BY <1>3
  <1>5. done \in Cursor /\ done.initialized = at.initialized /\ done.index = at.index + 1
    BY <1>1, <1>2, <1>3, <1>4 DEF Cursor
  <1> QED
    BY <1>3, <1>5 DEF GoodCursor

LEMMA NextStageTypes ==
  ASSUME TInv, NEW c \in Callers, NEW at, GoodCursor(at), at.initialized, at.index <= NumStages,
         NextStage(c, at)
  PROVE  TInv'
  <1> DEFINE done == [at EXCEPT !.index = @ + 1, !.pending = NoPending]
             pc == IF done.index > NumStages THEN "final" ELSE "stage"
  <1>1. /\ GoodCursor(done) /\ done.initialized
        /\ pc \in AtStage => done.index <= NumStages
        /\ pc \in AtEnd => done.index = NumStages + 1
    <2>1. GoodCursor(done) /\ done.initialized
      BY CursorTypes
    <2>2. done.index = at.index + 1
      BY CursorTypes
    <2>3. at.index \in Nat
      BY PrPipelineAssumption DEF GoodCursor, Cursor
    <2> HIDE DEF done
    <2> QED
      BY <2>1, <2>2, <2>3, PrPipelineAssumption DEF AtStage, AtEnd, Executing
  <1>2. CASE Bounded
    BY <1>1, <1>2, SuspendTypes DEF NextStage, TInv, TypeOK
  <1>3. CASE ~Bounded
    <2>1. pc \in Working /\ pc \in AtStage \cup AtEnd
      BY DEF Working, InPipeline, AtStage, AtEnd
    <2>2. PICK d, p : d = done /\ p = pc
      OBVIOUS
    <2>3. GoodMemory([caller[c] EXCEPT !.at = d, !.pc = p])
      <3>1. PICK m : m = caller[c]
        OBVIOUS
      <3>2. /\ [m EXCEPT !.at = d, !.pc = p] \in Memory
            /\ [m EXCEPT !.at = d, !.pc = p].at = d /\ [m EXCEPT !.at = d, !.pc = p].pc = p
        BY <1>1, <2>1, <2>2, <3>1, Known DEF Memory, GoodCursor
      <3> QED
        BY <1>1, <2>1, <2>2, <3>1, <3>2 DEF GoodMemory
    <2>4. Become(c, [caller[c] EXCEPT !.at = d, !.pc = p]) /\ UNCHANGED <<file, prior>>
      BY <1>3, <2>2 DEF NextStage
    <2> QED
      BY <2>3, <2>4, BecomeTypes DEF NextStage, TInv, TypeOK
  <1> QED
    BY <1>2, <1>3

-----------------------------------------------------------------------------
(* Types: every step *)

LEMMA CallTypes ==
  ASSUME TInv, NEW c \in Callers, Run(c) \/ Start(c) \/ TakeLock(c) \/ Unlock(c) \/ Seal(c) \/ Crash(c)
  PROVE  TInv'
  <1>1. CASE Run(c)
    <2>1. PICK m : m = [Fresh EXCEPT !.pc = "sweep"] /\ Become(c, m)
      BY <1>1 DEF Run
    <2>2. GoodMemory(m)
      BY <2>1, FreshTypes
    <2> QED
      BY <1>1, <2>1, <2>2, QuietTypes DEF Run, TInv, TypeOK
  <1>2. CASE Start(c)
    <2>1. PICK m : m = [Fresh EXCEPT !.pc = "seal", !.more = TRUE] /\ Become(c, m)
      BY <1>2 DEF Start
    <2>2. GoodMemory(m)
      BY <2>1, FreshTypes
    <2>4. /\ file' \in [status : {"none", "active", "waiting", "blocked", "complete"}, cursor : Cursor]
          /\ GoodCursor(file'.cursor)
          /\ prior' \in [who : Callers \cup {Nobody}, says : {"open", "good", "bad"}]
      BY <1>2, Constants, NewCursorTypes, SaveTypes DEF Start
    <2> QED
      BY <1>2, <2>1, <2>2, <2>4, BecomeTypes DEF Start, TInv, TypeOK
  <1>3. CASE TakeLock(c)
    <2>1. \E m : Become(c, m) /\ GoodMemory(m)
      BY <1>3, GotoTypes DEF TakeLock, Working, AtStage, AtEnd, Executing
    <2> QED
      BY <1>3, <2>1, BecomeTypes DEF TakeLock, TInv, TypeOK
  <1>4. CASE Unlock(c)
    <2>1. \E m : Become(c, m) /\ GoodMemory(m)
      BY <1>4, GotoTypes DEF Unlock, Working, AtStage, AtEnd, Executing
    <2>2. lock' \in BOOLEAN /\ UNCHANGED <<pr, tree, stage, file, prior, launched, running, verdict, left>>
      BY <1>4 DEF Unlock
    <2> QED
      BY <1>4, <2>1, <2>2, BecomeTypes DEF Unlock, TInv, TypeOK
  <1>5. CASE Seal(c)
    <2>1. GoodMemory(Fresh) /\ Become(c, Fresh)
      BY <1>5, FreshTypes DEF Seal
    <2>2. prior' \in [who : Callers \cup {Nobody}, says : {"open", "good", "bad"}]
      BY <1>5 DEF Seal, TInv, TypeOK
    <2> QED
      BY <1>5, <2>1, <2>2, BecomeTypes DEF Seal, TInv, TypeOK
  <1>6. CASE Crash(c)
    <2>1. PICK m : m = [Fresh EXCEPT !.pc = "dead"] /\ Become(c, m)
      BY <1>6 DEF Crash
    <2>2. GoodMemory(m)
      BY <2>1, FreshTypes
    <2>4. prior' \in [who : Callers \cup {Nobody}, says : {"open", "good", "bad"}]
      BY <1>6 DEF Crash, TInv, TypeOK
    <2> QED
      BY <1>6, <2>1, <2>2, <2>4, BecomeTypes DEF Crash, TInv, TypeOK
  <1> QED
    BY <1>1, <1>2, <1>3, <1>4, <1>5, <1>6

LEMMA LoadTypes ==
  ASSUME TInv, NEW c \in Callers, Load(c)
  PROVE  TInv'
  <1>1. \E m : Become(c, m) /\ GoodMemory(m)
    <2>1. CASE file.status \in {"active", "waiting"} /\ FinishedStep /\ file.cursor.pending.phase # "executing"
      <3>1. PICK m, at : m = caller[c] /\ at = file.cursor
        OBVIOUS
      <3>2. m \in Memory /\ GoodCursor(at)
        BY <3>1, Known DEF TInv
      <3>3. /\ [m EXCEPT !.pc = "sweep", !.at = at] \in Memory
            /\ [m EXCEPT !.pc = "sweep", !.at = at].at = at /\ [m EXCEPT !.pc = "sweep", !.at = at].pc = "sweep"
        BY <3>2 DEF Memory, GoodCursor, Working, InPipeline
      <3>4. Become(c, [m EXCEPT !.pc = "sweep", !.at = at])
        BY <2>1, <3>1 DEF Load
      <3> QED
        BY <3>2, <3>3, <3>4 DEF GoodMemory, AtStage, AtEnd, Executing
    <2>2. CASE ~(file.status \in {"active", "waiting"} /\ FinishedStep /\ file.cursor.pending.phase # "executing")
      BY <2>2, LeavingTypes DEF Load
    <2> QED
      BY <2>1, <2>2
  <1>2. /\ file' \in [status : {"none", "active", "waiting", "blocked", "complete"}, cursor : Cursor]
        /\ file'.cursor = file.cursor
        /\ running' \in Sweeps!Visits \cup {Nothing}
    BY DEF Load, TInv, TypeOK
  <1>3. verdict' \in [result : Sweeps!Verdicts \cup {"none"}, why : {"none", "two_sweeps_finished", "stages_not_clear"},
                      head : Heads \cup {NoHead}, base : Bases]
    BY DEF Load, TInv, TypeOK, Sweeps!Verdicts
  <1> QED
    BY <1>1, <1>2, <1>3, BecomeTypes DEF Load, TInv, TypeOK

LEMMA FailsTypes ==
  ASSUME TInv, NEW c \in Callers, Fails(c)
  PROVE  TInv'
  <1>1. \E m : Become(c, m) /\ GoodMemory(m)
    BY LeavingTypes DEF Fails
  <1>2. /\ file' \in [status : {"none", "active", "waiting", "blocked", "complete"}, cursor : Cursor]
        /\ file'.cursor = file.cursor
        /\ running' \in Sweeps!Visits \cup {Nothing}
    BY DEF Fails, TInv, TypeOK
  <1>3. verdict' \in [result : Sweeps!Verdicts \cup {"none"}, why : {"none", "two_sweeps_finished", "stages_not_clear"},
                      head : Heads \cup {NoHead}, base : Bases]
    BY DEF Fails, TInv, TypeOK, Sweeps!Verdicts
  <1> QED
    BY <1>1, <1>2, <1>3, BecomeTypes DEF Fails, TInv, TypeOK

LEMMA ReadMemory ==
  ASSUME TInv, NEW c \in Callers, Read(c)
  PROVE  \/ Block(c)
         \/ /\ \E m : /\ Become(c, m) /\ GoodMemory(m) /\ SamePlace(m, caller[c])
                      /\ m.pc \in {"sweep_sync", "stage_sync", "final_sync"}
            /\ UNCHANGED <<pr, tree, stage, file, lock, prior, launched, running, verdict, left>>
  <1> SUFFICES ASSUME pr.open \/ caller[c].pc = "final"
               PROVE  \E m : /\ Become(c, m) /\ GoodMemory(m) /\ SamePlace(m, caller[c])
                             /\ m.pc \in {"sweep_sync", "stage_sync", "final_sync"}
    BY DEF Read
  <1>1. PICK pc, m : pc = SyncOf(caller[c].pc) /\ m = [caller[c] EXCEPT !.pc = pc, !.base = pr.base]
    OBVIOUS
  <1>2. /\ pc \in {"sweep_sync", "stage_sync", "final_sync"}
        /\ pc \in AtStage => caller[c].pc = "stage"
        /\ pc \in AtEnd => caller[c].pc = "final"
    BY <1>1 DEF Read, SyncOf, AtStage, AtEnd, Executing
  <1>3. pr.base \in Bases /\ GoodMemory(caller[c]) /\ pc \in Working
    BY <1>2, Known DEF TInv, TypeOK, Working, InPipeline
  <1>4. /\ pc \in AtStage => caller[c].at.index <= NumStages /\ caller[c].at.initialized
        /\ pc \in AtEnd => caller[c].at.index = NumStages + 1 /\ caller[c].at.initialized
    BY <1>2, <1>3 DEF GoodMemory, AtStage, AtEnd
  <1>5. GoodMemory(m) /\ m.at = caller[c].at /\ m.pc = pc
    <2>1. MovesTo(caller[c], pc, m)
      BY <1>1, <1>3 DEF MovesTo
    <2> QED
      BY <1>3, <1>4, <2>1, MoveTypes
  <1>6. Become(c, m)
    BY <1>1 DEF Read
  <1> QED
    BY <1>2, <1>5, <1>6 DEF SamePlace

LEMMA ReadTypes ==
  ASSUME TInv, NEW c \in Callers, Read(c)
  PROVE  TInv'
  BY ReadMemory, BlockTypes, QuietTypes DEF TInv, TypeOK

LEMMA EnterSweepTypes ==
  ASSUME TInv, NEW c \in Callers, NEW head \in Heads, caller[c].pc = "sweep_sync", EnterSweep(c, head)
  PROVE  \E m : Become(c, m) /\ GoodMemory(m) /\ SamePlace(m, caller[c]) /\ m.pc \in {"stage", "final"}
  <1>1. PICK m, at : m = caller[c] /\ at = m.at
    OBVIOUS
  <1>2. m \in Memory /\ GoodCursor(at) /\ at \in Cursor /\ m.base \in Bases
    BY <1>1, Known DEF GoodCursor, Memory
  <1>3. PICK fresh, same :
          /\ fresh = [at EXCEPT !.initialized = TRUE, !.startHead = head, !.startBase = m.base,
                                !.headChanged = FALSE, !.baseChanged = FALSE, !.known = head,
                                !.heads = {head}, !.bases = {m.base}]
          /\ same = [at EXCEPT !.headChanged = @ \/ head # at.known, !.known = head, !.heads = @ \cup {head}]
    OBVIOUS
  <1>4. fresh \in Cursor /\ fresh.initialized = TRUE /\ fresh.index = at.index
        /\ fresh.sweep = at.sweep /\ fresh.pending = at.pending /\ fresh.resolved = at.resolved
    BY <1>2, <1>3 DEF Cursor
  <1>5. same \in Cursor /\ same.initialized = at.initialized /\ same.index = at.index
        /\ same.sweep = at.sweep /\ same.pending = at.pending /\ same.resolved = at.resolved
    <2>1. (at.headChanged \/ head # at.known) \in BOOLEAN /\ at.heads \cup {head} \in SUBSET Heads
      BY <1>2 DEF Cursor
    <2>2. PICK b, h : b = (at.headChanged \/ head # at.known) /\ h = at.heads \cup {head}
      OBVIOUS
    <2>3. same = [at EXCEPT !.headChanged = b, !.known = head, !.heads = h]
      BY <1>3, <2>2
    <2> QED
      BY <1>2, <2>1, <2>2, <2>3 DEF Cursor
  <1>6. at.index \in 1..(NumStages + 1) /\ NumStages \in Nat \ {0}
    BY <1>2, PrPipelineAssumption DEF Cursor
  <1>7. CASE at.initialized
    <2>1. PICK pc : pc = IF at.index > NumStages THEN "final" ELSE "stage"
      OBVIOUS
    <2>2. /\ pc \in Working
          /\ pc \in AtStage => at.index <= NumStages
          /\ pc \in AtEnd => at.index = NumStages + 1
      BY <1>6, <2>1 DEF Working, InPipeline, AtStage, AtEnd, Executing
    <2>3. /\ [m EXCEPT !.at = same, !.pc = pc] \in Memory
          /\ [m EXCEPT !.at = same, !.pc = pc].at = same /\ [m EXCEPT !.at = same, !.pc = pc].pc = pc
      BY <1>2, <1>5, <2>2 DEF Memory
    <2>4. Become(c, [m EXCEPT !.at = same, !.pc = pc])
      BY <1>1, <1>3, <1>7, <2>1 DEF EnterSweep
    <2> QED
      BY <1>1, <1>5, <1>7, <2>1, <2>2, <2>3, <2>4 DEF GoodMemory, GoodCursor, SamePlace
  <1>8. CASE ~at.initialized
    <2>1. PICK new : new = [m EXCEPT !.at = fresh, !.pc = "stage"]
      OBVIOUS
    <2>2. new \in Memory /\ new.at = fresh /\ new.pc = "stage"
      BY <1>2, <1>4, <2>1 DEF Memory, Working, InPipeline
    <2>3. Become(c, new)
      BY <1>1, <1>3, <1>8, <2>1 DEF EnterSweep
    <2>4. at.index = 1
      BY <1>2, <1>8 DEF GoodCursor
    <2> QED
      BY <1>1, <1>4, <1>6, <2>2, <2>3, <2>4 DEF GoodMemory, GoodCursor, AtEnd, SamePlace
  <1> QED
    BY <1>7, <1>8

LEMMA NoteMovesTypes ==
  ASSUME TInv, NEW c \in Callers, NEW head \in Heads, NEW against, NEW pc,
         \/ caller[c].pc = "stage_sync" /\ pc = "inspect"
         \/ caller[c].pc = "final_sync" /\ pc = "judge",
         NoteMoves(c, head, against, pc)
  PROVE  \E m : Become(c, m) /\ GoodMemory(m) /\ SamePlace(m, caller[c]) /\ m.pc = pc
  <1>1. PICK m, at : m = caller[c] /\ at = m.at
    OBVIOUS
  <1>2. m \in Memory /\ GoodMemory(m) /\ GoodCursor(at) /\ at \in Cursor /\ m.base \in Bases
    BY <1>1, Known DEF GoodCursor, Memory
  <1>3. PICK h, b, hs, bs : /\ h = (at.headChanged \/ head # against)
                            /\ b = (at.baseChanged \/ m.base # at.startBase)
                            /\ hs = at.heads \cup {head} /\ bs = at.bases \cup {m.base}
    OBVIOUS
  <1>4. h \in BOOLEAN /\ b \in BOOLEAN /\ hs \in SUBSET Heads /\ bs \in SUBSET Bases
    BY <1>2, <1>3 DEF Cursor
  <1>5. PICK new : new = [m EXCEPT !.pc = pc, !.at.headChanged = h, !.at.baseChanged = b,
                                   !.at.known = head, !.at.heads = hs, !.at.bases = bs]
    OBVIOUS
  <1>6. PICK nat : nat = [at EXCEPT !.headChanged = h, !.baseChanged = b, !.known = head, !.heads = hs, !.bases = bs]
    OBVIOUS
  <1>7. nat \in Cursor /\ nat.initialized = at.initialized /\ nat.index = at.index
        /\ nat.sweep = at.sweep /\ nat.pending = at.pending /\ nat.resolved = at.resolved
    BY <1>2, <1>4, <1>6 DEF Cursor
  <1>8. new = [m EXCEPT !.pc = pc, !.at = nat]
    BY <1>1, <1>2, <1>5, <1>6 DEF Memory, Cursor
  <1>9. new \in Memory /\ new.at = nat /\ new.pc = pc
    BY <1>2, <1>7, <1>8 DEF Memory, Working, InPipeline
  <1>10. Become(c, new)
    BY <1>1, <1>3, <1>5 DEF NoteMoves
  <1> QED
    BY <1>1, <1>2, <1>7, <1>9, <1>10 DEF GoodMemory, GoodCursor, AtStage, AtEnd, Executing, SamePlace

LEMMA SyncMemory ==
  ASSUME TInv, NEW c \in Callers, Sync(c), ~tree.dirty
  PROVE  /\ Checkout(pr.head)
         /\ \E m : /\ Become(c, m) /\ GoodMemory(m) /\ SamePlace(m, caller[c])
                   /\ m.pc \in {"stage", "inspect", "final", "judge"}
         /\ UNCHANGED <<pr, stage, file, lock, prior, launched, running, verdict, left>>
  <1>1. pr.head \in Heads
    BY DEF TInv, TypeOK
  <1>2. CASE caller[c].pc = "sweep_sync"
    BY <1>1, <1>2, EnterSweepTypes DEF Sync
  <1>3. CASE caller[c].pc = "stage_sync"
    BY <1>1, <1>3, NoteMovesTypes DEF Sync
  <1>4. CASE caller[c].pc = "final_sync"
    BY <1>1, <1>4, NoteMovesTypes DEF Sync
  <1> QED
    BY <1>2, <1>3, <1>4 DEF Sync

LEMMA SyncTypes ==
  ASSUME TInv, NEW c \in Callers, Sync(c)
  PROVE  TInv'
  <1>1. pr.head \in Heads
    BY DEF TInv, TypeOK
  <1>2. CASE tree.dirty
    BY <1>2, BlockTypes DEF Sync
  <1>3. CASE ~tree.dirty
    BY <1>1, <1>3, SyncMemory, CheckoutTypes, QuietTypes
  <1> QED
    BY <1>2, <1>3

\* The cursor with a stage in hand.
LEMMA PendingTypes ==
  ASSUME NEW at, GoodCursor(at), NEW pending \in Pending
  PROVE  /\ GoodCursor([at EXCEPT !.pending = pending])
         /\ [at EXCEPT !.pending = pending].index = at.index
         /\ [at EXCEPT !.pending = pending].sweep = at.sweep
         /\ [at EXCEPT !.pending = pending].resolved = at.resolved
         /\ [at EXCEPT !.pending = pending].pending = pending
         /\ [at EXCEPT !.pending = pending].initialized = at.initialized
  <1>1. PICK new : new = [at EXCEPT !.pending = pending]
    OBVIOUS
  <1>2. /\ new \in Cursor /\ new.index = at.index /\ new.sweep = at.sweep /\ new.resolved = at.resolved
        /\ new.pending = pending /\ new.initialized = at.initialized
    BY <1>1 DEF GoodCursor, Cursor
  <1> QED
    BY <1>1, <1>2 DEF GoodCursor

\* The stage that a call runs.
LEMMA StageKnown ==
  ASSUME TInv, NEW c \in Callers, caller[c].pc \in AtStage
  PROVE  /\ caller[c].at.index \in 1..NumStages
         /\ caller[c].at.index <= NumStages /\ caller[c].at.initialized
         /\ caller[c].at \in Cursor /\ GoodCursor(caller[c].at)
         /\ stage[caller[c].at.index].attempt \in Nat
  <1>1. caller[c].at.index <= NumStages /\ caller[c].at \in Cursor /\ caller[c].at.initialized
        /\ GoodCursor(caller[c].at)
    BY Known DEF GoodMemory, GoodCursor
  <1>2. caller[c].at.index \in 1..NumStages
    BY <1>1, PrPipelineAssumption DEF Cursor
  <1> QED
    BY <1>1, <1>2 DEF TInv, TypeOK, StageRecord

\* What Inspect records of the stage it is about to start.
InspectPending(c, pending) ==
  LET at == caller[c].at IN
  pending = IF Bounded /\ at.pending.phase = "waiting"
            THEN [at.pending EXCEPT !.phase = "executing"]
            ELSE [phase |-> "executing", started |-> at.known, attempt |-> stage[at.index].attempt]

LEMMA InspectCases ==
  ASSUME NEW c \in Callers, Inspect(c), NEW m, m = caller[c], NEW at, at = m.at
  PROVE  \E pending :
           /\ InspectPending(c, pending)
           /\ \/ Block(c)
              \/ NextStage(c, at)
              \/ /\ SaveCursor(c, "active", [at EXCEPT !.pending = pending])
                 /\ Become(c, [m EXCEPT !.at.pending = pending, !.pc = "launch"])
                 /\ UNCHANGED <<pr, tree, stage, lock, launched, running, verdict, left>>
  BY DEF Inspect, InspectPending

LEMMA InspectGoesOn ==
  ASSUME Bounded, NEW c \in Callers, Inspect(c), NEW m, m = caller[c], NEW at, at = m.at
  PROVE  \E pending :
           /\ InspectPending(c, pending)
           /\ \/ Block(c)
              \/ NextStage(c, at)
              \/ /\ SaveCursor(c, "active", [at EXCEPT !.pending = pending])
                 /\ Become(c, [m EXCEPT !.at.pending = pending, !.pc = "launch"])
                 /\ UNCHANGED <<pr, tree, stage, lock, launched, running, verdict, left>>
                 /\ at.index = Conflict => ~at.resolved \/ at.pending.phase = "waiting"
  BY DEF Inspect, InspectPending

LEMMA InspectPendingTypes ==
  ASSUME TInv, NEW c \in Callers, caller[c].pc \in AtStage, NEW pending, InspectPending(c, pending)
  PROVE  pending \in Pending /\ pending.phase = "executing"
  <1>1. PICK at, p : at = caller[c].at /\ p = at.pending
    OBVIOUS
  <1>2. p \in Pending /\ at.known \in Heads \cup {NoHead} /\ stage[at.index].attempt \in Nat
    BY <1>1, StageKnown DEF Cursor
  <1> QED
    BY <1>1, <1>2 DEF InspectPending, Pending

LEMMA InspectTypes ==
  ASSUME TInv, NEW c \in Callers, Inspect(c)
  PROVE  TInv'
  <1>1. PICK m, at : m = caller[c] /\ at = m.at
    OBVIOUS
  <1>2. /\ m \in Memory /\ GoodMemory(m) /\ GoodCursor(at) /\ at \in Cursor
        /\ m.pc = "inspect" /\ at.index <= NumStages /\ at.initialized
    BY <1>1, Known DEF GoodCursor, GoodMemory, AtStage, Inspect
  <1>3. PICK pending : /\ InspectPending(c, pending)
                       /\ \/ Block(c)
                          \/ NextStage(c, at)
                          \/ /\ SaveCursor(c, "active", [at EXCEPT !.pending = pending])
                             /\ Become(c, [m EXCEPT !.at.pending = pending, !.pc = "launch"])
                             /\ UNCHANGED <<pr, tree, stage, lock, launched, running, verdict, left>>
    BY <1>1, InspectCases
  <1>4. pending \in Pending
    BY <1>1, <1>2, <1>3, InspectPendingTypes DEF AtStage
  <1>5. ASSUME SaveCursor(c, "active", [at EXCEPT !.pending = pending]),
               Become(c, [m EXCEPT !.at.pending = pending, !.pc = "launch"]),
               UNCHANGED <<pr, tree, stage, lock, launched, running, verdict, left>>
        PROVE  TInv'
    <2>1. PICK new, nat : /\ nat = [at EXCEPT !.pending = pending]
                          /\ new = [m EXCEPT !.at.pending = pending, !.pc = "launch"]
      OBVIOUS
    <2>2. GoodCursor(nat) /\ nat.index = at.index /\ nat.initialized = at.initialized
      BY <1>2, <1>4, <2>1, PendingTypes
    <2>3. new = [m EXCEPT !.at = nat, !.pc = "launch"]
      BY <1>1, <1>2, <2>1 DEF Memory, Cursor
    <2>4. new \in Memory /\ new.at = nat /\ new.pc = "launch"
      BY <1>2, <2>2, <2>3 DEF Memory, GoodCursor, Working, InPipeline
    <2>5. GoodMemory(new) /\ Become(c, new)
      BY <1>2, <1>5, <2>1, <2>2, <2>4 DEF GoodMemory, AtEnd
    <2>6. /\ file' \in [status : {"none", "active", "waiting", "blocked", "complete"}, cursor : Cursor]
          /\ GoodCursor(file'.cursor)
          /\ prior' \in [who : Callers \cup {Nobody}, says : {"open", "good", "bad"}]
      BY <1>5, <2>1, <2>2, SaveTypes
    <2> QED
      BY <1>5, <2>5, <2>6, BecomeTypes DEF TInv, TypeOK
  <1> QED
    BY <1>2, <1>3, <1>5, BlockTypes, NextStageTypes

LEMMA LaunchTypes ==
  ASSUME TInv, NEW c \in Callers, Launch(c)
  PROVE  TInv'
  <1>1. GoodMemory(caller[c]) /\ caller[c].pc = "launch"
    BY Known DEF Launch
  <1>2. caller[c].at.index <= NumStages /\ caller[c].at.initialized /\ caller[c].at \in Cursor
    BY <1>1 DEF GoodMemory, GoodCursor, AtStage, Executing
  <1>3. <<caller[c].at.sweep, caller[c].at.index>> \in Sweeps!Visits
    BY <1>2, PrPipelineAssumption DEF Cursor, Sweeps!Visits
  <1>4. \E m : Become(c, m) /\ GoodMemory(m)
    BY <1>2, GotoTypes DEF Launch, Working, InPipeline, AtEnd
  <1> QED
    BY <1>3, <1>4, BecomeTypes DEF Launch, TInv, TypeOK

LEMMA RecordTypes ==
  ASSUME TInv, NEW s \in 1..NumStages, NEW outcome \in Outcomes, NEW attempt \in Nat,
         pr' \in [open : BOOLEAN, head : Heads, base : Bases, checks : Checks],
         Record(s, outcome, attempt)
  PROVE  stage' \in [1..NumStages -> StageRecord]
  <1>1. PICK record : record = [outcome |-> outcome, head |-> pr'.head, base |-> pr.base,
                                checks |-> pr.checks, attempt |-> attempt]
    OBVIOUS
  <1>2. record \in StageRecord
    BY <1>1 DEF StageRecord, TInv, TypeOK
  <1> QED
    BY <1>1, <1>2 DEF Record, TInv, TypeOK

LEMMA StageMemory ==
  ASSUME TInv, NEW c \in Callers, StageWorks(c) \/ StageStumbles(c)
  PROVE  \E m : Become(c, m) /\ GoodMemory(m) /\ SamePlace(m, caller[c]) /\ m.pc = "settle"
  <1>1. caller[c].pc = "running"
    BY DEF StageWorks, StageStumbles
  <1>2. /\ caller[c].at.index <= NumStages /\ caller[c].at.initialized
        /\ GoodMemory(caller[c]) /\ caller[c].base \in Bases
    BY <1>1, Known, StageKnown DEF AtStage, Executing, Memory
  <1>3. PICK m : m = [caller[c] EXCEPT !.pc = "settle", !.ok = FALSE]
    OBVIOUS
  <1>4. GoodMemory(m) /\ m.at = caller[c].at /\ m.pc = "settle"
    <2>1. MovesTo(caller[c], "settle", m)
      BY <1>3 DEF MovesTo
    <2>2. "settle" \in Working /\ "settle" \notin AtEnd
      BY DEF Working, InPipeline, AtEnd
    <2> QED
      BY <1>2, <2>1, <2>2, MoveTypes
  <1>5. Goto(c, "settle") => \E n : Become(c, n) /\ GoodMemory(n) /\ n.at = caller[c].at /\ n.pc = "settle"
    BY <1>2, GotoTypes DEF Working, InPipeline, AtEnd
  <1>6. Become(c, m) \/ Goto(c, "settle")
    BY <1>3 DEF StageWorks, StageStumbles
  <1> QED
    BY <1>4, <1>5, <1>6 DEF SamePlace

LEMMA StageTypes ==
  ASSUME TInv, NEW c \in Callers, StageWorks(c) \/ StageStumbles(c)
  PROVE  TInv'
  <1>1. PICK s : s = caller[c].at.index
    OBVIOUS
  <1>2. /\ s \in 1..NumStages /\ s = StageOf(c) /\ caller[c].pc = "running"
        /\ stage[s].attempt \in Nat /\ stage[s].attempt + 1 \in Nat
        /\ caller[c].at.index <= NumStages /\ caller[c].at.initialized
    <2>1. caller[c].pc = "running"
      BY DEF StageWorks, StageStumbles
    <2> QED
      BY <1>1, <2>1, StageKnown DEF StageOf, AtStage, Executing
  <1>3. CASE StageWorks(c)
    <2>1. PICK h \in Heads, local \in {"stays", "follows"}, outcome \in {"cleared", "uncleared", "completed"} :
            /\ pr' = [pr EXCEPT !.head = h]
            /\ tree' = IF local = "follows" THEN [tree EXCEPT !.local = h] ELSE tree
            /\ Record(s, outcome, IF outcome = "completed" THEN stage[s].attempt + 1 ELSE stage[s].attempt)
      BY <1>2, <1>3 DEF StageWorks
    <2>2. pr' \in [open : BOOLEAN, head : Heads, base : Bases, checks : Checks]
      BY <2>1 DEF TInv, TypeOK
    <2>3. tree' \in [local : Heads, dirty : BOOLEAN, kept : SUBSET Heads]
      BY <2>1 DEF TInv, TypeOK
    <2>4. stage' \in [1..NumStages -> StageRecord]
      BY <1>2, <2>1, <2>2, RecordTypes DEF Outcomes
    <2>5. \E m : Become(c, m) /\ GoodMemory(m)
      BY StageMemory
    <2> QED
      BY <1>3, <2>2, <2>3, <2>4, <2>5, BecomeTypes DEF StageWorks, TInv, TypeOK
  <1>4. CASE StageStumbles(c)
    <2>1. pr' \in [open : BOOLEAN, head : Heads, base : Bases, checks : Checks]
      BY <1>4 DEF StageStumbles, TInv, TypeOK
    <2>2. tree' \in [local : Heads, dirty : BOOLEAN, kept : SUBSET Heads]
      BY <1>4 DEF StageStumbles, TInv, TypeOK
    <2>3. \/ \E outcome \in Outcomes : Record(s, outcome, stage[s].attempt)
          \/ UNCHANGED stage
      BY <1>2, <1>4 DEF StageStumbles, Outcomes
    <2>4. stage' \in [1..NumStages -> StageRecord]
      BY <1>2, <2>1, <2>3, RecordTypes DEF TInv, TypeOK
    <2>5. \E m : Become(c, m) /\ GoodMemory(m)
      BY StageMemory
    <2> QED
      BY <1>4, <2>1, <2>2, <2>4, <2>5, BecomeTypes DEF StageStumbles, TInv, TypeOK
  <1> QED
    BY <1>3, <1>4

LEMMA StageWaitsTypes ==
  ASSUME TInv, NEW c \in Callers, StageWaits(c)
  PROVE  TInv'
  <1>1. PICK at, pending : at = caller[c].at /\ pending = [at.pending EXCEPT !.phase = "waiting"]
    OBVIOUS
  <1>2. GoodCursor(at) /\ at \in Cursor /\ caller[c].pc = "running"
    BY <1>1, Known DEF GoodCursor, StageWaits
  <1>3. pending \in Pending
    BY <1>1, <1>2 DEF Cursor, Pending
  <1>4. PICK waiting : waiting = [at EXCEPT !.pending.phase = "waiting"]
    OBVIOUS
  <1>5. waiting = [at EXCEPT !.pending = pending]
    BY <1>1, <1>2, <1>4 DEF Cursor, Pending
  <1>6. GoodCursor(waiting)
    BY <1>2, <1>3, <1>5, PendingTypes
  <1>7. /\ pr' \in [open : BOOLEAN, head : Heads, base : Bases, checks : Checks]
        /\ tree' \in [local : Heads, dirty : BOOLEAN, kept : SUBSET Heads]
    BY DEF StageWaits, TInv, TypeOK
  <1>8. left' \in [moves : 0..MaxMoves, waits : 0..MaxWaits]
    <2>1. left \in [moves : 0..MaxMoves, waits : 0..MaxWaits] /\ left.waits > 0
      BY DEF StageWaits, TInv, TypeOK
    <2>2. left.waits - 1 \in 0..MaxWaits
      BY <2>1, PrPipelineAssumption
    <2> QED
      BY <2>1, <2>2 DEF StageWaits
  <1>9. Suspend(c, "waiting", waiting) /\ UNCHANGED <<stage, lock, launched, running, verdict>>
    BY <1>1, <1>4 DEF StageWaits
  <1> QED
    BY <1>6, <1>7, <1>8, <1>9, SuspendTypes DEF TInv, TypeOK

LEMMA SettleMemory ==
  ASSUME TInv, NEW c \in Callers, Settle(c)
  PROVE  \/ Block(c)
         \/ /\ Checkout(pr.head)
            /\ \E m : Become(c, m) /\ GoodMemory(m) /\ SamePlace(m, caller[c]) /\ m.pc = "after"
            /\ UNCHANGED <<pr, stage, file, lock, prior, launched, running, verdict, left>>
  <1>1. PICK m, at : m = caller[c] /\ at = m.at
    OBVIOUS
  <1>2. /\ m \in Memory /\ GoodMemory(m) /\ GoodCursor(at) /\ at \in Cursor
        /\ m.pc = "settle" /\ at.index <= NumStages /\ at.initialized
        /\ pr.head \in Heads
    BY <1>1, Known DEF GoodCursor, GoodMemory, AtStage, Executing, Settle, TInv, TypeOK
  <1>3. PICK h, hs : h = (at.headChanged \/ pr.head # at.pending.started) /\ hs = at.heads \cup {pr.head}
    OBVIOUS
  <1>4. PICK new, nat : /\ new = [m EXCEPT !.pc = "after", !.at.known = pr.head, !.at.headChanged = h, !.at.heads = hs]
                        /\ nat = [at EXCEPT !.known = pr.head, !.headChanged = h, !.heads = hs]
    OBVIOUS
  <1>5. \/ Block(c)
        \/ /\ Checkout(pr.head) /\ Become(c, new)
           /\ UNCHANGED <<pr, stage, file, lock, prior, launched, running, verdict, left>>
    BY <1>1, <1>3, <1>4 DEF Settle
  <1>6. h \in BOOLEAN /\ hs \in SUBSET Heads
    BY <1>2, <1>3 DEF Cursor
  <1>7. nat \in Cursor /\ nat.initialized = at.initialized /\ nat.index = at.index
        /\ nat.sweep = at.sweep /\ nat.pending = at.pending /\ nat.resolved = at.resolved
    BY <1>2, <1>4, <1>6 DEF Cursor
  <1>8. new = [m EXCEPT !.pc = "after", !.at = nat]
    BY <1>1, <1>2, <1>4 DEF Memory, Cursor
  <1>9. new \in Memory /\ new.at = nat /\ new.pc = "after"
    BY <1>2, <1>7, <1>8 DEF Memory, Working, InPipeline
  <1>10. GoodMemory(new)
    BY <1>2, <1>7, <1>9 DEF GoodMemory, GoodCursor, AtEnd
  <1>11. SamePlace(new, caller[c])
    BY <1>1, <1>7, <1>9 DEF SamePlace
  <1> QED
    BY <1>5, <1>9, <1>10, <1>11

LEMMA SettleTypes ==
  ASSUME TInv, NEW c \in Callers, Settle(c)
  PROVE  TInv'
  <1>1. pr.head \in Heads
    BY DEF TInv, TypeOK
  <1> QED
    BY <1>1, SettleMemory, BlockTypes, CheckoutTypes, QuietTypes

LEMMA AfterStageTypes ==
  ASSUME TInv, NEW c \in Callers, AfterStage(c)
  PROVE  TInv'
  <1>1. PICK at, resolved :
          /\ at = caller[c].at
          /\ resolved = IF at.index = Conflict /\ stage[at.index].outcome = "completed"
                        THEN stage[at.index].attempt # at.pending.attempt
                        ELSE at.resolved
    OBVIOUS
  <1>2. /\ GoodCursor(at) /\ at \in Cursor /\ at.index <= NumStages /\ at.initialized
    BY <1>1, Known DEF GoodCursor, GoodMemory, AtStage, Executing, AfterStage
  <1>3. resolved \in BOOLEAN
    BY <1>1, <1>2 DEF Cursor
  <1>4. Block(c) \/ NextStage(c, [at EXCEPT !.resolved = resolved])
    BY <1>1 DEF AfterStage
  <1>5. PICK new : new = [at EXCEPT !.resolved = resolved]
    OBVIOUS
  <1>6. GoodCursor(new) /\ new.initialized /\ new.index <= NumStages
    BY <1>2, <1>3, <1>5 DEF GoodCursor, Cursor
  <1> QED
    BY <1>4, <1>5, <1>6, BlockTypes, NextStageTypes

\* The cursor of the second sweep.
LEMMA AgainTypes ==
  ASSUME NEW at, GoodCursor(at), at.sweep # MaxSweeps, NEW b \in Bases, NEW again,
         again = [at EXCEPT !.sweep = @ + 1, !.index = 1, !.initialized = FALSE, !.startHead = at.known,
                            !.startBase = b, !.headChanged = FALSE, !.baseChanged = FALSE,
                            !.heads = {}, !.bases = {}]
  PROVE  /\ GoodCursor(again)
         /\ again.sweep = at.sweep + 1 /\ again.index = 1
         /\ again.pending = at.pending /\ again.resolved = at.resolved
  <1>1. at \in Cursor /\ at.sweep + 1 \in 1..MaxSweeps /\ 1 \in 1..(NumStages + 1) /\ at.known \in Heads \cup {NoHead}
    BY PrPipelineAssumption DEF GoodCursor, Cursor, MaxSweeps
  <1>2. /\ again \in Cursor /\ again.sweep = at.sweep + 1 /\ again.index = 1
        /\ again.pending = at.pending /\ again.resolved = at.resolved
    BY <1>1 DEF Cursor
  <1> QED
    BY <1>2 DEF GoodCursor

LEMMA JudgeTypes ==
  ASSUME TInv, NEW c \in Callers, Judge(c)
  PROVE  TInv'
  <1>1. PICK m, at : m = caller[c] /\ at = m.at
    OBVIOUS
  <1>2. m \in Memory /\ GoodCursor(at) /\ at \in Cursor /\ m.base \in Bases /\ at.known \in Heads \cup {NoHead}
    BY <1>1, Known DEF GoodCursor, Memory, Cursor
  <1>3. PICK again :
          again = [at EXCEPT !.sweep = @ + 1, !.index = 1, !.initialized = FALSE, !.startHead = at.known,
                             !.startBase = m.base, !.headChanged = FALSE, !.baseChanged = FALSE,
                             !.heads = {}, !.bases = {}]
    OBVIOUS
  <1>4. \/ Conclude(c, "complete", "none", at.known)
        \/ Conclude(c, "incomplete", "two_sweeps_finished", NoHead)
        \/ Conclude(c, "incomplete", "stages_not_clear", NoHead)
        \/ /\ at.sweep # MaxSweeps
           /\ IF Bounded THEN Suspend(c, "active", again)
              ELSE Become(c, [m EXCEPT !.at = again, !.pc = "sweep"]) /\ UNCHANGED <<file, prior>>
           /\ UNCHANGED <<pr, tree, stage, lock, launched, running, verdict, left>>
    BY <1>1, <1>3 DEF Judge
  <1>5. ASSUME at.sweep # MaxSweeps,
               IF Bounded THEN Suspend(c, "active", again)
               ELSE Become(c, [m EXCEPT !.at = again, !.pc = "sweep"]) /\ UNCHANGED <<file, prior>>,
               UNCHANGED <<pr, tree, stage, lock, launched, running, verdict, left>>
        PROVE  TInv'
    <2>1. GoodCursor(again)
      BY <1>2, <1>3, <1>5, AgainTypes
    <2>2. CASE Bounded
      BY <1>5, <2>1, <2>2, SuspendTypes DEF TInv, TypeOK
    <2>3. CASE ~Bounded
      <3>1. PICK new : new = [m EXCEPT !.at = again, !.pc = "sweep"]
        OBVIOUS
      <3>2. new \in Memory /\ new.at = again /\ new.pc = "sweep"
        BY <1>2, <2>1, <3>1 DEF GoodCursor, Memory, Working, InPipeline
      <3>3. GoodMemory(new) /\ Become(c, new)
        BY <1>5, <2>1, <2>3, <3>1, <3>2 DEF GoodMemory, AtStage, AtEnd, Executing
      <3> QED
        BY <1>5, <2>3, <3>3, BecomeTypes DEF TInv, TypeOK
    <2> QED
      BY <2>2, <2>3
  <1> QED
    BY <1>2, <1>4, <1>5, ConcludeTypes DEF Sweeps!Verdicts

LEMMA MovesTypes ==
  ASSUME TInv, Moves
  PROVE  TInv'
  <1>1. pr' \in [open : BOOLEAN, head : Heads, base : Bases, checks : Checks]
    <2>1. pr \in [open : BOOLEAN, head : Heads, base : Bases, checks : Checks]
      BY DEF TInv, TypeOK
    <2>2. \/ \E h \in Heads : pr' = [pr EXCEPT !.head = h]
          \/ \E b \in Bases : pr' = [pr EXCEPT !.base = b]
          \/ \E k \in Checks : pr' = [pr EXCEPT !.checks = k]
          \/ pr' = [pr EXCEPT !.open = FALSE]
      BY DEF Moves
    <2> QED
      BY <2>1, <2>2
  <1>2. left' \in [moves : 0..MaxMoves, waits : 0..MaxWaits]
    <2>1. left \in [moves : 0..MaxMoves, waits : 0..MaxWaits] /\ left.moves > 0
      BY DEF Moves, TInv, TypeOK
    <2>2. left.moves - 1 \in 0..MaxMoves
      BY <2>1, PrPipelineAssumption
    <2> QED
      BY <2>1, <2>2 DEF Moves
  <1>3. TypeOK'
    BY <1>1, <1>2 DEF Moves, TInv, TypeOK
  <1> QED
    BY <1>3 DEF Moves, TInv, GoodCursor, GoodMemory

LEMMA NextTypes == TInv /\ [Next]_vars => TInv'
  <1> SUFFICES ASSUME TInv, [Next]_vars PROVE TInv'
    OBVIOUS
  <1>1. ASSUME NEW c \in Callers, Step(c) PROVE TInv'
    BY <1>1, CallTypes, LoadTypes, ReadTypes, SyncTypes, InspectTypes, LaunchTypes, StageTypes,
       StageWaitsTypes, SettleTypes, AfterStageTypes, JudgeTypes DEF Step
  <1>2. CASE UNCHANGED vars
    BY <1>2 DEF vars, TInv, TypeOK, GoodCursor, GoodMemory
  <1> QED
    BY <1>1, <1>2, CallTypes, FailsTypes, MovesTypes DEF Next

\* Every variable keeps its type, on both routes: above all, no sweep after the
\* second, no stage past the last, and one pending record for each cursor.
THEOREM TypeCorrect == Spec => []TypeOK
  <1>1. TInv => TypeOK
    BY DEF TInv
  <1> QED
    BY <1>1, InitTypes, NextTypes, PTL DEF Spec

-----------------------------------------------------------------------------
(* The bounded route: where the calls, the file and the history are *)

LEMMA InitTurn == Init => TurnInv
  BY DEF Init, TurnInv, Exclusion, FileAgrees, CallAgrees, Fresh, Holding, InPipeline, Going

LEMMA Facts ==
  ASSUME TInv, NEW c \in Callers
  PROVE  /\ \A m : \A d \in Callers : Become(c, m) => caller'[d] = IF d = c THEN m ELSE caller[d]
         /\ Sweeps!Visits = (1..2) \X (1..NumStages)
         /\ Nothing = <<0, 0>>
         /\ file.cursor.sweep \in 1..2 /\ file.cursor.index \in 1..(NumStages + 1) /\ NumStages \in Nat \ {0}
         /\ Position(file.cursor) # Nothing
  <1>1. file.cursor \in Cursor /\ NumStages \in Nat \ {0}
    BY PrPipelineAssumption DEF TInv, GoodCursor
  <1>2. file.cursor.sweep \in 1..2 /\ file.cursor.index \in 1..(NumStages + 1)
    BY <1>1 DEF Cursor, MaxSweeps
  <1>3. \A m : \A d \in Callers : Become(c, m) => caller'[d] = IF d = c THEN m ELSE caller[d]
    BY DEF Become, TInv, TypeOK
  <1> QED
    BY <1>1, <1>2, <1>3 DEF Position, Nothing, Sweeps!Nothing, Sweeps!Visits, MaxSweeps

\* A call that has the lock has it to itself, and one that has it not does not
\* work.
LEMMA Alone ==
  ASSUME TInv, TurnInv, NEW c \in Callers, NEW d \in Callers, d # c, caller[c].pc \in Holding
  PROVE  caller[d].pc \notin Holding /\ caller[d].pc \notin InPipeline
  BY DEF TurnInv, Exclusion, Holding

\* A call that holds the lock goes on with it.
LEMMA KeepsLock ==
  ASSUME TInv, TurnInv, NEW c \in Callers, NEW m, Become(c, m), UNCHANGED lock,
         m.pc \in Holding => caller[c].pc \in Holding
  PROVE  Exclusion'
  <1>1. \A d \in Callers : caller'[d].pc \in Holding => caller[d].pc \in Holding
    BY Facts
  <1> QED
    BY <1>1 DEF TurnInv, Exclusion

\* A step of the only call in the pipeline, or of one beside it.
LEMMA TurnBecome ==
  ASSUME TInv, TurnInv, NEW c \in Callers, NEW m, Become(c, m), Exclusion', FileAgrees', CallAgrees(m, file', running'),
         caller[c].pc \in Holding \/ UNCHANGED <<file, running>>
  PROVE  TurnInv'
  <1>1. \A d \in Callers : CallAgrees(caller'[d], file', running')
    <2> TAKE d \in Callers
    <2>1. CASE d = c
      BY <2>1, Facts
    <2>2. CASE d # c /\ caller[c].pc \in Holding
      <3>1. caller'[d] = caller[d] /\ caller[d].pc \notin InPipeline
        BY <2>2, Facts, Alone
      <3> QED
        BY <3>1 DEF CallAgrees
    <2>3. CASE d # c /\ UNCHANGED <<file, running>>
      <3>1. caller'[d] = caller[d] /\ CallAgrees(caller[d], file, running)
        BY <2>3, Facts DEF TurnInv
      <3> QED
        BY <2>3, <3>1 DEF CallAgrees
    <2> QED
      BY <2>1, <2>2, <2>3
  <1>2. (\A d \in Callers : CallAgrees(caller[d], file, running))'
    BY <1>1
  <1> QED
    BY <1>2 DEF TurnInv

\* A call in the pipeline goes on without a word to the file.
LEMMA TurnQuiet ==
  ASSUME TInv, TurnInv, NEW c \in Callers, NEW m, Become(c, m), SamePlace(m, caller[c]),
         caller[c].pc \in InPipeline, m.pc \in InPipeline,
         m.pc \in Executing <=> caller[c].pc \in Executing,
         m.pc \in {"running", "settle", "after"} => caller[c].pc \in {"running", "settle", "after"},
         UNCHANGED <<file, lock, launched, running, verdict>>
  PROVE  TurnInv'
  <1>1. Exclusion'
    BY KeepsLock DEF Holding
  <1>2. FileAgrees'
    BY DEF TurnInv, FileAgrees
  <1>3. CallAgrees(m, file', running')
    BY DEF TurnInv, CallAgrees, SamePlace, Position
  <1> QED
    BY <1>1, <1>2, <1>3, TurnBecome

\* A call leaves the pipeline.
LEMMA LeavingFacts ==
  ASSUME Bounded, NEW ok \in BOOLEAN, NEW more \in BOOLEAN
  PROVE  Leaving(ok, more).pc = "unlock" /\ Leaving(ok, more).pc \notin InPipeline
  <1>1. Leaving(ok, more).pc = "unlock"
    BY DEF Leaving, Fresh
  <1> QED
    BY <1>1 DEF InPipeline

LEMMA TurnLeaves ==
  ASSUME TInv, TurnInv, Bounded, NEW c \in Callers, NEW ok \in BOOLEAN, NEW more \in BOOLEAN,
         Become(c, Leaving(ok, more)), caller[c].pc \in InPipeline \cup {"load"}, UNCHANGED lock, FileAgrees'
  PROVE  TurnInv'
  <1>1. Exclusion'
    BY LeavingFacts, KeepsLock DEF Holding
  <1>2. CallAgrees(Leaving(ok, more), file', running')
    BY LeavingFacts DEF CallAgrees
  <1> QED
    BY <1>1, <1>2, TurnBecome DEF Holding

LEMMA TurnConclude ==
  ASSUME TInv, TurnInv, Bounded, NEW c \in Callers, NEW result, NEW why, NEW head, Conclude(c, result, why, head),
         caller[c].pc \in InPipeline
  PROVE  TurnInv'
  <1>1. file'.status \in {"complete", "blocked"}
    BY DEF Conclude, TInv, TypeOK
  <1>2. FileAgrees'
    BY <1>1 DEF FileAgrees, Going
  <1> QED
    BY <1>2, TurnLeaves DEF Conclude

-----------------------------------------------------------------------------
(* The bounded route: every step keeps the invariant and is one of           *)
(* PipelineSweeps, or none                                                   *)

TurnStep == Sweeps!Next \/ UNCHANGED Sweeps!vars

LEMMA StutterStep ==
  ASSUME UNCHANGED <<launched, running, verdict>>
  PROVE  TurnStep
  BY DEF TurnStep, Sweeps!vars

\* What the file says while a call is in the pipeline.
LEMMA InPipelineFacts ==
  ASSUME TInv, TurnInv, NEW c \in Callers, caller[c].pc \in InPipeline
  PROVE  LET v == Position(file.cursor)
             phase == file.cursor.pending.phase
         IN /\ file.status \in Going /\ verdict.result = "none"
            /\ caller[c].at.sweep = file.cursor.sweep /\ caller[c].at.index = file.cursor.index
            /\ caller[c].at.pending = file.cursor.pending /\ caller[c].at.resolved = file.cursor.resolved
            /\ \A u \in launched : Sweeps!After(u, v) \/ u = v
            /\ running \in {Nothing, v}
            /\ running = v <=> v \in launched
            /\ phase = "none" => running = Nothing
            /\ phase = "waiting" => running = v
            /\ phase # "none" => file.cursor.index <= NumStages
            /\ caller[c].pc \in Executing <=> phase = "executing"
            /\ caller[c].pc \in {"running", "settle", "after"} => running = v
            /\ phase \in {"none", "executing", "waiting"}
  <1>1. file.cursor.pending.phase \in {"none", "executing", "waiting"}
    BY DEF TInv, GoodCursor, Cursor, Pending
  <1>2. CallAgrees(caller[c], file, running) /\ FileAgrees
    BY DEF TurnInv
  <1> QED
    BY <1>1, <1>2 DEF CallAgrees, FileAgrees, Position

LEMMA ConcludeStep ==
  ASSUME TInv, TurnInv, Bounded, NEW c \in Callers, NEW result \in Sweeps!Verdicts, NEW why, NEW head,
         Conclude(c, result, why, head), caller[c].pc \in InPipeline,
         result \in {"complete", "incomplete"} => running = Nothing
  PROVE  TurnInv' /\ TurnStep
  <1>1. TurnInv'
    BY TurnConclude
  <1>2. verdict.result = "none" /\ verdict'.result = result /\ running' = Nothing /\ launched' = launched
    BY InPipelineFacts DEF Conclude
  <1>3. Sweeps!Judge(result)
    BY <1>2 DEF Sweeps!Judge, Nothing
  <1> QED
    BY <1>1, <1>3 DEF TurnStep, Sweeps!Next

LEMMA BlockStep ==
  ASSUME TInv, TurnInv, Bounded, NEW c \in Callers, Block(c), caller[c].pc \in InPipeline
  PROVE  TurnInv' /\ TurnStep
  BY ConcludeStep DEF Block, Sweeps!Verdicts

LEMMA SuspendFacts ==
  ASSUME Bounded, NEW c \in Callers, NEW status, NEW cursor, Suspend(c, status, cursor)
  PROVE  file' = [status |-> status, cursor |-> cursor] /\ Become(c, Leaving(TRUE, TRUE))
  BY DEF Suspend, SaveCursor

LEMMA NextStageStep ==
  ASSUME TInv, TurnInv, Bounded, NEW c \in Callers, caller[c].pc \in {"inspect", "after"},
         NEW at, GoodCursor(at), at.initialized,
         at.sweep = caller[c].at.sweep, at.index = caller[c].at.index, at.index <= NumStages, NextStage(c, at)
  PROVE  TurnInv' /\ TurnStep
  <1>1. PICK done : done = [at EXCEPT !.index = @ + 1, !.pending = NoPending]
    OBVIOUS
  <1>2. done.sweep = at.sweep /\ done.index = at.index + 1 /\ done.pending.phase = "none"
    BY <1>1 DEF GoodCursor, Cursor, NoPending
  <1>3. /\ Suspend(c, "active", done) /\ running' = Nothing
        /\ UNCHANGED <<pr, tree, stage, lock, launched, verdict, left>>
    BY <1>1 DEF NextStage
  <1>4. file' = [status |-> "active", cursor |-> done] /\ Become(c, Leaving(TRUE, TRUE))
    BY <1>3, SuspendFacts
  <1>5. caller[c].pc \in InPipeline
    BY DEF InPipeline
  <1>6. /\ verdict.result = "none" /\ running \in {Nothing, Position(file.cursor)}
        /\ \A u \in launched : Sweeps!After(u, Position(file.cursor)) \/ u = Position(file.cursor)
        /\ Position(file.cursor) = <<at.sweep, at.index>>
        /\ at.sweep \in 1..2 /\ at.index \in 1..(NumStages + 1)
    BY <1>5, InPipelineFacts, Facts DEF Position
  <1>7. \A u \in launched : Sweeps!After(u, Position(done)) /\ u # Position(done)
    <2> SUFFICES ASSUME NEW u \in launched PROVE Sweeps!After(u, Position(done)) /\ u # Position(done)
      OBVIOUS
    <2>1. Position(done) = <<at.sweep, at.index + 1>>
      BY <1>2 DEF Position
    <2>2. PICK i, j : u = <<i, j>> /\ i \in 1..2 /\ j \in 1..NumStages
      BY Facts DEF TInv, TypeOK
    <2>3. i < at.sweep \/ (i = at.sweep /\ j < at.index) \/ (i = at.sweep /\ j = at.index)
      BY <1>6, <2>2 DEF Sweeps!After
    <2>4. NumStages \in Nat
      BY PrPipelineAssumption
    <2> QED
      BY <1>6, <2>1, <2>2, <2>3, <2>4 DEF Sweeps!After
  <1>8. Position(done) # Nothing
    BY <1>2, <1>6, Facts DEF Position
  <1>9. FileAgrees'
    BY <1>2, <1>3, <1>4, <1>6, <1>7, <1>8 DEF FileAgrees, Going
  <1>10. TurnInv'
    BY <1>3, <1>4, <1>5, <1>9, TurnLeaves
  <1>11. Sweeps!End \/ UNCHANGED Sweeps!vars
    BY <1>3 DEF Sweeps!End, Sweeps!vars, Nothing
  <1> QED
    BY <1>10, <1>11 DEF TurnStep, Sweeps!Next

LEMMA LaunchStep ==
  ASSUME TInv, TurnInv, Bounded, NEW c \in Callers, Launch(c)
  PROVE  TurnInv' /\ TurnStep
  <1>1. PICK v : v = <<caller[c].at.sweep, caller[c].at.index>>
    OBVIOUS
  <1>2. /\ caller[c].pc = "launch" /\ launched' = launched \cup {v} /\ running' = v /\ Goto(c, "running")
        /\ UNCHANGED <<pr, tree, stage, file, lock, prior, verdict, left>>
    BY <1>1 DEF Launch
  <1>3. caller[c].pc \in InPipeline /\ caller[c].pc \in Executing /\ caller[c].pc \in AtStage
    BY <1>2 DEF InPipeline, Executing, AtStage
  <1>4. /\ v = Position(file.cursor) /\ v # Nothing /\ v \in Sweeps!Visits
        /\ file.status \in Going /\ verdict.result = "none"
        /\ \A u \in launched : Sweeps!After(u, v) \/ u = v
        /\ running \in {Nothing, v} /\ (running = v <=> v \in launched)
        /\ file.cursor.pending.phase = "executing"
        /\ file.cursor.index <= NumStages
    <2>1. v = Position(file.cursor) /\ v # Nothing
      BY <1>1, <1>3, InPipelineFacts, Facts DEF Position
    <2>2. file.cursor.pending.phase = "executing" /\ file.cursor.index <= NumStages
      BY <1>3, InPipelineFacts
    <2>3. v \in Sweeps!Visits
      BY <2>1, <2>2, Facts DEF Position
    <2> QED
      BY <1>3, <2>1, <2>2, <2>3, InPipelineFacts
  <1>5. FileAgrees'
    BY <1>2, <1>4 DEF FileAgrees, Going
  <1>6. PICK m : Become(c, m) /\ GoodMemory(m) /\ m.at = caller[c].at /\ m.pc = "running"
    BY <1>2, <1>3, StageKnown, GotoTypes DEF Working, InPipeline, AtEnd
  <1>7. CallAgrees(m, file', running')
    BY <1>2, <1>3, <1>4, <1>6, InPipelineFacts DEF CallAgrees, Executing, Position
  <1>8. Exclusion'
    BY <1>2, <1>3, <1>6, KeepsLock DEF Holding
  <1>9. TurnInv'
    BY <1>3, <1>5, <1>6, <1>7, <1>8, TurnBecome DEF Holding
  <1>10. TurnStep
    <2>1. CASE running = Nothing
      <3>1. \A u \in launched : Sweeps!After(u, v)
        BY <1>4, <2>1
      <3>2. Sweeps!Begin(v)
        BY <1>2, <1>4, <2>1, <3>1 DEF Sweeps!Begin, Nothing
      <3> QED
        BY <1>4, <3>2 DEF TurnStep, Sweeps!Next
    <2>2. CASE running = v
      <3>1. launched' = launched /\ running' = running
        BY <1>2, <1>4, <2>2
      <3> QED
        BY <1>2, <3>1, StutterStep
    <2> QED
      BY <1>4, <2>1, <2>2
  <1> QED
    BY <1>9, <1>10

LEMMA InspectStep ==
  ASSUME TInv, TurnInv, Bounded, NEW c \in Callers, Inspect(c)
  PROVE  TurnInv' /\ TurnStep
  <1>1. PICK m, at : m = caller[c] /\ at = m.at
    OBVIOUS
  <1>2. /\ m \in Memory /\ GoodCursor(at) /\ at \in Cursor
        /\ m.pc = "inspect" /\ at.index <= NumStages /\ at.initialized
        /\ caller[c].pc \in InPipeline
    BY <1>1, Known DEF GoodCursor, GoodMemory, AtStage, Inspect, InPipeline
  <1>3. PICK pending : /\ InspectPending(c, pending)
                       /\ \/ Block(c)
                          \/ NextStage(c, at)
                          \/ /\ SaveCursor(c, "active", [at EXCEPT !.pending = pending])
                             /\ Become(c, [m EXCEPT !.at.pending = pending, !.pc = "launch"])
                             /\ UNCHANGED <<pr, tree, stage, lock, launched, running, verdict, left>>
    BY <1>1, InspectCases
  <1>4. pending \in Pending /\ pending.phase = "executing"
    BY <1>1, <1>2, <1>3, InspectPendingTypes DEF AtStage
  <1>5. ASSUME SaveCursor(c, "active", [at EXCEPT !.pending = pending]),
               Become(c, [m EXCEPT !.at.pending = pending, !.pc = "launch"]),
               UNCHANGED <<pr, tree, stage, lock, launched, running, verdict, left>>
        PROVE  TurnInv' /\ TurnStep
    <2>1. PICK new, nat : /\ nat = [at EXCEPT !.pending = pending]
                          /\ new = [m EXCEPT !.at.pending = pending, !.pc = "launch"]
      OBVIOUS
    <2>2. /\ nat.index = at.index /\ nat.sweep = at.sweep /\ nat.resolved = at.resolved /\ nat.pending = pending
          /\ nat \in Cursor
      BY <1>2, <1>4, <2>1, PendingTypes DEF GoodCursor
    <2>3. new.at = nat /\ new.pc = "launch"
      BY <1>1, <1>2, <2>1 DEF Memory, Cursor
    <2>4. file' = [status |-> "active", cursor |-> nat] /\ Become(c, new)
      BY <1>5, <2>1 DEF SaveCursor
    <2>5. Position(nat) = Position(file.cursor)
      BY <1>1, <1>2, <2>2, InPipelineFacts DEF Position
    <2>6. FileAgrees'
      BY <1>2, <1>4, <1>5, <2>2, <2>4, <2>5, InPipelineFacts DEF FileAgrees, Going
    <2>7. CallAgrees(new, file', running')
      BY <1>4, <2>2, <2>3, <2>4 DEF CallAgrees, Executing, Going, Position
    <2>8. Exclusion'
      BY <1>2, <1>5, <2>4, KeepsLock DEF Holding
    <2> QED
      BY <1>2, <1>5, <2>4, <2>6, <2>7, <2>8, TurnBecome, StutterStep DEF Holding
  <1> QED
    BY <1>1, <1>2, <1>3, <1>5, BlockStep, NextStageStep

LEMMA QuietStep ==
  ASSUME TInv, TurnInv, Bounded, NEW c \in Callers,
         Read(c) \/ Sync(c) \/ StageWorks(c) \/ StageStumbles(c) \/ Settle(c)
  PROVE  TurnInv' /\ TurnStep
  <1>1. CASE Read(c)
    <2>1. caller[c].pc \in {"sweep", "stage", "final"}
      BY <1>1 DEF Read
    <2>2. ASSUME NEW m, Become(c, m), SamePlace(m, caller[c]), m.pc \in {"sweep_sync", "stage_sync", "final_sync"},
                 UNCHANGED <<pr, tree, stage, file, lock, prior, launched, running, verdict, left>>
          PROVE  TurnInv' /\ TurnStep
      BY <2>1, <2>2, TurnQuiet, StutterStep DEF InPipeline, Executing
    <2> QED
      BY <1>1, <2>1, <2>2, ReadMemory, BlockStep DEF InPipeline
  <1>2. CASE Sync(c)
    <2>1. caller[c].pc \in {"sweep_sync", "stage_sync", "final_sync"} /\ (tree.dirty => Block(c))
      BY <1>2 DEF Sync
    <2>2. ASSUME NEW m, Become(c, m), SamePlace(m, caller[c]), m.pc \in {"stage", "inspect", "final", "judge"},
                 UNCHANGED <<pr, stage, file, lock, prior, launched, running, verdict, left>>
          PROVE  TurnInv' /\ TurnStep
      BY <2>1, <2>2, TurnQuiet, StutterStep DEF InPipeline, Executing
    <2> QED
      BY <1>2, <2>1, <2>2, SyncMemory, BlockStep DEF InPipeline
  <1>3. CASE StageWorks(c) \/ StageStumbles(c)
    <2>1. caller[c].pc = "running" /\ UNCHANGED <<file, lock, prior, launched, running, verdict, left>>
      BY <1>3 DEF StageWorks, StageStumbles
    <2>2. PICK m : Become(c, m) /\ SamePlace(m, caller[c]) /\ m.pc = "settle"
      BY <1>3, StageMemory
    <2> QED
      BY <2>1, <2>2, TurnQuiet, StutterStep DEF InPipeline, Executing
  <1>4. CASE Settle(c)
    <2>1. caller[c].pc = "settle"
      BY <1>4 DEF Settle
    <2>2. ASSUME NEW m, Become(c, m), SamePlace(m, caller[c]), m.pc = "after",
                 UNCHANGED <<pr, stage, file, lock, prior, launched, running, verdict, left>>
          PROVE  TurnInv' /\ TurnStep
      BY <2>1, <2>2, TurnQuiet, StutterStep DEF InPipeline, Executing
    <2> QED
      BY <1>4, <2>1, <2>2, SettleMemory, BlockStep DEF InPipeline
  <1> QED
    BY <1>1, <1>2, <1>3, <1>4

LEMMA StageWaitsStep ==
  ASSUME TInv, TurnInv, Bounded, NEW c \in Callers, StageWaits(c)
  PROVE  TurnInv' /\ TurnStep
  <1>1. PICK at, waiting : at = caller[c].at /\ waiting = [at EXCEPT !.pending.phase = "waiting"]
    OBVIOUS
  <1>2. /\ caller[c].pc = "running" /\ at \in Cursor /\ Suspend(c, "waiting", waiting)
        /\ UNCHANGED <<stage, lock, launched, running, verdict>>
    BY <1>1, Known DEF GoodCursor, StageWaits
  <1>3. waiting.sweep = at.sweep /\ waiting.index = at.index /\ waiting.pending.phase = "waiting"
    BY <1>1, <1>2 DEF Cursor, Pending
  <1>4. caller[c].pc \in InPipeline /\ caller[c].pc \in Executing
    BY <1>2 DEF InPipeline, Executing
  <1>5. file' = [status |-> "waiting", cursor |-> waiting] /\ Become(c, Leaving(TRUE, TRUE))
    BY <1>2, SuspendFacts
  <1>6. Position(waiting) = Position(file.cursor) /\ running = Position(file.cursor)
    BY <1>1, <1>2, <1>3, <1>4, InPipelineFacts DEF Position
  <1>7. file.cursor.pending.phase = "executing" /\ at.index = file.cursor.index
    BY <1>1, <1>4, InPipelineFacts
  <1>8. FileAgrees'
    BY <1>2, <1>3, <1>4, <1>5, <1>6, <1>7, InPipelineFacts DEF FileAgrees, Going
  <1> QED
    BY <1>2, <1>4, <1>5, <1>8, TurnLeaves, StutterStep

LEMMA AfterStageStep ==
  ASSUME TInv, TurnInv, Bounded, NEW c \in Callers, AfterStage(c)
  PROVE  TurnInv' /\ TurnStep
  <1>1. PICK at, resolved :
          /\ at = caller[c].at
          /\ resolved = IF at.index = Conflict /\ stage[at.index].outcome = "completed"
                        THEN stage[at.index].attempt # at.pending.attempt
                        ELSE at.resolved
    OBVIOUS
  <1>2. /\ GoodCursor(at) /\ at \in Cursor /\ at.index <= NumStages /\ at.initialized
        /\ caller[c].pc = "after" /\ caller[c].pc \in InPipeline
    BY <1>1, Known DEF GoodCursor, GoodMemory, AtStage, Executing, AfterStage, InPipeline
  <1>3. resolved \in BOOLEAN
    BY <1>1, <1>2 DEF Cursor
  <1>4. Block(c) \/ NextStage(c, [at EXCEPT !.resolved = resolved])
    BY <1>1 DEF AfterStage
  <1>5. PICK new : new = [at EXCEPT !.resolved = resolved]
    OBVIOUS
  <1>6. GoodCursor(new) /\ new.initialized /\ new.index = at.index /\ new.sweep = at.sweep
    BY <1>2, <1>3, <1>5 DEF GoodCursor, Cursor
  <1> QED
    BY <1>1, <1>2, <1>4, <1>5, <1>6, BlockStep, NextStageStep

LEMMA JudgeStep ==
  ASSUME TInv, TurnInv, Bounded, NEW c \in Callers, Judge(c)
  PROVE  TurnInv' /\ TurnStep
  <1>1. PICK m, at : m = caller[c] /\ at = m.at
    OBVIOUS
  <1>2. /\ m \in Memory /\ GoodMemory(m) /\ GoodCursor(at) /\ at \in Cursor /\ m.base \in Bases
        /\ m.pc = "judge" /\ caller[c].pc \in InPipeline
    BY <1>1, Known DEF GoodMemory, GoodCursor, Memory, Judge, InPipeline
  <1>3. PICK again :
          again = [at EXCEPT !.sweep = @ + 1, !.index = 1, !.initialized = FALSE, !.startHead = at.known,
                             !.startBase = m.base, !.headChanged = FALSE, !.baseChanged = FALSE,
                             !.heads = {}, !.bases = {}]
    OBVIOUS
  <1>4. \/ Conclude(c, "complete", "none", at.known)
        \/ Conclude(c, "incomplete", "two_sweeps_finished", NoHead)
        \/ Conclude(c, "incomplete", "stages_not_clear", NoHead)
        \/ /\ at.sweep # MaxSweeps /\ Suspend(c, "active", again)
           /\ UNCHANGED <<pr, tree, stage, lock, launched, running, verdict, left>>
    BY <1>1, <1>3 DEF Judge
  <1>5. /\ at.index = NumStages + 1 /\ at.index = file.cursor.index /\ at.sweep = file.cursor.sweep
        /\ at.pending = file.cursor.pending /\ file.cursor.pending.phase = "none" /\ running = Nothing
    <2>1. at.index = NumStages + 1 /\ NumStages \in Nat
      BY <1>1, <1>2, PrPipelineAssumption DEF GoodMemory, AtEnd
    <2>2. ~(at.index <= NumStages)
      BY <2>1
    <2> QED
      BY <1>1, <1>2, <2>1, <2>2, InPipelineFacts
  <1>6. ASSUME at.sweep # MaxSweeps, Suspend(c, "active", again),
               UNCHANGED <<pr, tree, stage, lock, launched, running, verdict, left>>
        PROVE  TurnInv' /\ TurnStep
    <2>1. again.sweep = at.sweep + 1 /\ again.index = 1 /\ again.pending = at.pending
      <3>1. PICK b \in Bases : b = m.base
        BY <1>2
      <3>2. again = [at EXCEPT !.sweep = @ + 1, !.index = 1, !.initialized = FALSE, !.startHead = at.known,
                               !.startBase = b, !.headChanged = FALSE, !.baseChanged = FALSE,
                               !.heads = {}, !.bases = {}]
        BY <1>3, <3>1
      <3> QED
        BY <1>2, <1>6, <3>2 DEF Cursor
    <2>2. file' = [status |-> "active", cursor |-> again] /\ Become(c, Leaving(TRUE, TRUE))
      BY <1>6, SuspendFacts
    <2>3. \A u \in launched : Sweeps!After(u, Position(again)) /\ u # Position(again)
      <3> SUFFICES ASSUME NEW u \in launched
                   PROVE  Sweeps!After(u, Position(again)) /\ u # Position(again)
        OBVIOUS
      <3>1. PICK i, j : u = <<i, j>> /\ i \in 1..2 /\ j \in 1..NumStages
        BY Facts DEF TInv, TypeOK
      <3>2. Position(again) = <<at.sweep + 1, 1>> /\ at.sweep \in 1..2
        BY <1>5, <2>1, Facts DEF Position
      <3>3. Sweeps!After(u, Position(file.cursor)) \/ u = Position(file.cursor)
        BY <1>2, InPipelineFacts
      <3>4. i <= at.sweep
        BY <1>5, <3>1, <3>2, <3>3 DEF Position, Sweeps!After
      <3> QED
        BY <3>1, <3>2, <3>4 DEF Sweeps!After
    <2>4. Position(again) # Nothing
      BY <1>5, <2>1, Facts DEF Position
    <2>5. FileAgrees'
      BY <1>2, <1>5, <1>6, <2>1, <2>2, <2>3, <2>4, InPipelineFacts DEF FileAgrees, Going
    <2> QED
      BY <1>2, <1>6, <2>2, <2>5, TurnLeaves, StutterStep
  <1> QED
    BY <1>2, <1>4, <1>5, <1>6, ConcludeStep DEF Sweeps!Verdicts

LEMMA LoadStep ==
  ASSUME TInv, TurnInv, Bounded, NEW c \in Callers, Load(c)
  PROVE  TurnInv' /\ TurnStep
  <1>1. caller[c].pc = "load" /\ UNCHANGED <<pr, tree, stage, lock, prior, launched, left>>
    BY DEF Load
  <1>2. CASE file.status \in Going /\ ~FinishedStep
    <2>1. /\ file'.status = "blocked" /\ Become(c, Leaving(FALSE, FALSE)) /\ running' = Nothing
          /\ verdict' = IF verdict.result = "none" THEN [verdict EXCEPT !.result = "error"] ELSE verdict
      BY <1>2 DEF Load, Going, TInv, TypeOK
    <2>2. FileAgrees'
      BY <2>1 DEF FileAgrees, Going
    <2>3. verdict.result = "none" /\ verdict'.result = "error"
      BY <1>2, <2>1 DEF TurnInv, FileAgrees, TInv, TypeOK
    <2>4. Sweeps!Judge("error")
      BY <1>1, <2>1, <2>3 DEF Sweeps!Judge, Nothing
    <2> QED
      BY <1>1, <2>1, <2>2, <2>4, TurnLeaves DEF TurnStep, Sweeps!Next, Sweeps!Verdicts
  <1>3. CASE file.status \in Going /\ FinishedStep /\ file.cursor.pending.phase # "executing"
    <2>1. UNCHANGED <<file, verdict, running>>
      BY <1>3 DEF Load
    <2>2. PICK m, at : m = caller[c] /\ at = file.cursor
      OBVIOUS
    <2>3. PICK new : new = [m EXCEPT !.pc = "sweep", !.at = at]
      OBVIOUS
    <2>4. new.at = file.cursor /\ new.pc = "sweep"
      BY <2>2, <2>3, Known DEF Memory
    <2>5. Become(c, new)
      BY <1>3, <2>2, <2>3 DEF Load, Going
    <2>6. FileAgrees'
      BY <1>1, <2>1 DEF TurnInv, FileAgrees
    <2>7. CallAgrees(new, file', running')
      BY <1>3, <2>1, <2>4 DEF CallAgrees, Executing
    <2>8. Exclusion'
      BY <1>1, <2>5, KeepsLock DEF Holding
    <2> QED
      BY <1>1, <2>1, <2>5, <2>6, <2>7, <2>8, TurnBecome, StutterStep DEF Holding
  <1>4. CASE ~(file.status \in Going /\ ~FinishedStep)
             /\ ~(file.status \in Going /\ FinishedStep /\ file.cursor.pending.phase # "executing")
    <2>1. UNCHANGED <<file, verdict, running>> /\ Become(c, Leaving(FALSE, FALSE))
      BY <1>4 DEF Load, Going
    <2>2. FileAgrees'
      BY <1>1, <2>1 DEF TurnInv, FileAgrees
    <2> QED
      BY <1>1, <2>1, <2>2, TurnLeaves, StutterStep
  <1> QED
    BY <1>2, <1>3, <1>4

LEMMA FailsStep ==
  ASSUME TInv, TurnInv, Bounded, NEW c \in Callers, Fails(c)
  PROVE  TurnInv' /\ TurnStep
  <1>1. /\ caller[c].pc \in InPipeline /\ Become(c, Leaving(FALSE, FALSE))
        /\ UNCHANGED <<pr, tree, stage, lock, prior, launched, left>>
    BY DEF Fails
  <1>2. CASE UNCHANGED <<verdict, running, file>>
    <2>1. FileAgrees'
      BY <1>1, <1>2 DEF TurnInv, FileAgrees
    <2> QED
      BY <1>1, <1>2, <2>1, TurnLeaves, StutterStep
  <1>3. CASE /\ verdict' = [verdict EXCEPT !.result = "error"] /\ running' = Nothing
             /\ file' = [file EXCEPT !.status = "blocked"]
    <2>1. file'.status = "blocked" /\ verdict'.result = "error"
      BY <1>3 DEF TInv, TypeOK
    <2>2. FileAgrees'
      BY <2>1 DEF FileAgrees, Going
    <2>3. Sweeps!Judge("error")
      BY <1>1, <1>3, <2>1, InPipelineFacts DEF Sweeps!Judge, Nothing
    <2> QED
      BY <1>1, <2>2, <2>3, TurnLeaves DEF TurnStep, Sweeps!Next, Sweeps!Verdicts
  <1> QED
    BY <1>2, <1>3 DEF Fails

LEMMA CallStep ==
  ASSUME TInv, TurnInv, Bounded, NEW c \in Callers,
         Start(c) \/ TakeLock(c) \/ Unlock(c) \/ Seal(c) \/ Crash(c)
  PROVE  TurnInv' /\ TurnStep
  <1>1. UNCHANGED <<launched, running, verdict>> /\ TurnStep
    BY StutterStep DEF Start, TakeLock, Unlock, Seal, Crash
  <1>2. CASE Start(c)
    <2>1. PICK cursor, m : /\ cursor = NewCursor(SomeBase) /\ file' = [status |-> "active", cursor |-> cursor]
                           /\ m = [Fresh EXCEPT !.pc = "seal", !.more = TRUE] /\ Become(c, m)
      BY <1>2 DEF Start, SaveCursor
    <2>2. m.pc = "seal"
      BY <2>1, FreshTypes DEF Fresh
    <2>3. file.status = "none" /\ launched = {} /\ running = Nothing /\ verdict.result = "none" /\ UNCHANGED lock
      BY <1>2 DEF Start, TurnInv, FileAgrees
    <2>4. cursor.pending.phase = "none" /\ Position(cursor) = <<1, 1>>
      BY <2>1 DEF NewCursor, NoPending, Position
    <2>5. FileAgrees'
      BY <1>1, <2>1, <2>3, <2>4 DEF FileAgrees, Going, Nothing, Sweeps!Nothing
    <2>6. Exclusion'
      BY <2>1, <2>2, <2>3, KeepsLock DEF Holding, InPipeline
    <2>7. \A d \in Callers : CallAgrees(caller'[d], file', running')
      <3>1. \A d \in Callers : caller[d].pc \notin InPipeline
        BY <2>3 DEF TurnInv, CallAgrees, Going
      <3>2. \A d \in Callers : caller'[d] = IF d = c THEN m ELSE caller[d]
        BY <2>1, Facts
      <3> QED
        BY <2>2, <3>1, <3>2 DEF CallAgrees, InPipeline
    <2>8. (\A d \in Callers : CallAgrees(caller[d], file, running))'
      BY <2>7
    <2> QED
      BY <1>1, <2>5, <2>6, <2>8 DEF TurnInv
  <1>3. CASE TakeLock(c)
    <2>1. ~lock /\ lock' = TRUE /\ UNCHANGED file
      BY <1>3 DEF TakeLock
    <2>2. PICK m : Become(c, m) /\ m.pc = "load"
      BY <1>3, GotoTypes DEF TakeLock, Working, AtStage, AtEnd, Executing
    <2>3. \A d \in Callers : caller'[d].pc \in Holding => d = c
      BY <2>1, <2>2, Facts DEF TurnInv, Exclusion
    <2>4. Exclusion'
      BY <2>1, <2>3 DEF Exclusion
    <2>5. FileAgrees' /\ CallAgrees(m, file', running')
      BY <1>1, <2>1, <2>2 DEF TurnInv, FileAgrees, CallAgrees, InPipeline
    <2> QED
      BY <1>1, <2>1, <2>2, <2>4, <2>5, TurnBecome
  <1>4. CASE Unlock(c)
    <2>1. caller[c].pc = "unlock" /\ UNCHANGED file
      BY <1>4 DEF Unlock
    <2>2. PICK m : Become(c, m) /\ m.pc = "seal"
      BY <1>4, GotoTypes DEF Unlock, Working, AtStage, AtEnd, Executing
    <2>3. \A d \in Callers : caller'[d].pc \notin Holding
      <3> TAKE d \in Callers
      <3>1. CASE d = c
        BY <2>2, <3>1, Facts DEF Holding, InPipeline
      <3>2. CASE d # c
        BY <2>1, <2>2, <3>2, Facts, Alone DEF Holding
      <3> QED
        BY <3>1, <3>2
    <2>4. Exclusion'
      BY <2>3 DEF Exclusion
    <2>5. FileAgrees' /\ CallAgrees(m, file', running')
      BY <1>1, <2>1, <2>2 DEF TurnInv, FileAgrees, CallAgrees, InPipeline
    <2> QED
      BY <1>1, <2>1, <2>2, <2>4, <2>5, TurnBecome
  <1>5. CASE Seal(c) \/ Crash(c)
    <2>1. PICK m : Become(c, m) /\ m.pc \in {"idle", "dead"} /\ UNCHANGED <<file, lock>>
      <3>1. PICK k : k = [Fresh EXCEPT !.pc = "dead"]
        OBVIOUS
      <3>2. k.pc = "dead" /\ Fresh.pc = "idle"
        BY <3>1, FreshTypes DEF Fresh
      <3> QED
        BY <1>5, <3>1, <3>2 DEF Seal, Crash
    <2>2. FileAgrees' /\ CallAgrees(m, file', running')
      BY <1>1, <2>1 DEF TurnInv, FileAgrees, CallAgrees, InPipeline
    <2>3. Exclusion'
      BY <2>1, KeepsLock DEF Holding, InPipeline
    <2> QED
      BY <1>1, <2>1, <2>2, <2>3, TurnBecome
  <1> QED
    BY <1>2, <1>3, <1>4, <1>5

LEMMA NextTurn ==
  ASSUME Bounded
  PROVE  TInv /\ TurnInv /\ [Next]_vars => TurnInv' /\ TurnStep
  <1> SUFFICES ASSUME TInv, TurnInv, [Next]_vars PROVE TurnInv' /\ TurnStep
    OBVIOUS
  <1>1. ASSUME NEW c \in Callers, Step(c) PROVE TurnInv' /\ TurnStep
    BY <1>1, LoadStep, CallStep, QuietStep, InspectStep, LaunchStep, StageWaitsStep, AfterStageStep, JudgeStep
       DEF Step
  <1>2. ASSUME NEW c \in Callers, Run(c) PROVE FALSE
    BY <1>2 DEF Run
  <1>3. CASE Moves \/ UNCHANGED vars
    <2>1. UNCHANGED <<file, lock, caller, launched, running, verdict>>
      BY <1>3 DEF Moves, vars
    <2>2. TurnInv'
      BY <2>1 DEF TurnInv, Exclusion, FileAgrees, CallAgrees
    <2> QED
      BY <2>1, <2>2, StutterStep
  <1> QED
    BY <1>1, <1>2, <1>3, CallStep, FailsStep DEF Next

\* The bounded route implements PipelineSweeps: however many calls run at any
\* time, fail or die, stages start one at a time, in order, once in a sweep, and
\* never after the verdict.
THEOREM BoundedStagesRunInTurn ==
  ASSUME Bounded
  PROVE  Spec => StagesRunInTurn
  <1>1. Init => Sweeps!Init
    BY DEF Init, Sweeps!Init, Nothing
  <1>2. TInv /\ TurnInv /\ [Next]_vars => [Sweeps!Next]_(Sweeps!vars)
    BY NextTurn DEF TurnStep
  <1>3. TInv /\ TurnInv /\ [Next]_vars => TurnInv'
    BY NextTurn
  <1> QED
    BY <1>1, <1>2, <1>3, InitTypes, NextTypes, InitTurn, PTL DEF Spec, StagesRunInTurn, Sweeps!Spec

-----------------------------------------------------------------------------
(* The bounded route: the conflict stage completes one attempt *)

LEMMA InitAttempt == Init => AttemptInv
  <1> SUFFICES ASSUME Init PROVE AttemptInv
    OBVIOUS
  <1>1. stage[Conflict].attempt = 0 /\ file.status = "none" /\ \A c \in Callers : caller[c].pc = "idle"
    BY PrPipelineAssumption DEF Init, Fresh
  <1> QED
    BY <1>1 DEF AttemptInv, FileAttempts, CallAttempts, Going

\* A step of the only call in the pipeline, or of one that leaves the stages'
\* records alone.
LEMMA AttemptBecome ==
  ASSUME TInv, TurnInv, AttemptInv, NEW c \in Callers, NEW m, Become(c, m),
         FileAttempts(file', stage'), CallAttempts(m, stage'),
         caller[c].pc \in Holding \/ UNCHANGED stage
  PROVE  AttemptInv'
  <1>1. \A d \in Callers : CallAttempts(caller'[d], stage')
    <2> TAKE d \in Callers
    <2>1. CASE d = c
      BY <2>1, Facts
    <2>2. CASE d # c /\ caller[c].pc \in Holding
      BY <2>2, Facts, Alone DEF CallAttempts, InPipeline
    <2>3. CASE d # c /\ UNCHANGED stage
      BY <2>3, Facts DEF AttemptInv
    <2> QED
      BY <2>1, <2>2, <2>3
  <1>2. FileAttempts(file, stage)' /\ (\A d \in Callers : CallAttempts(caller[d], stage))'
    BY <1>1
  <1> QED
    BY <1>2 DEF AttemptInv

\* A call outside the stages, or one that moves on with a stage in hand.
LEMMA AttemptQuiet ==
  ASSUME TInv, TurnInv, AttemptInv, NEW c \in Callers, NEW m, Become(c, m), UNCHANGED <<file, stage>>,
         \/ m.pc \notin Executing
         \/ m.at.index = caller[c].at.index /\ m.pc = "running" /\ caller[c].pc = "launch"
         \/ m.at.index = caller[c].at.index /\ m.pc = "after" /\ caller[c].pc = "settle"
  PROVE  AttemptInv'
  <1>1. CallAttempts(m, stage')
    BY DEF AttemptInv, CallAttempts, Executing
  <1> QED
    BY <1>1, AttemptBecome DEF AttemptInv

\* A call that leaves with the run over.
LEMMA AttemptOver ==
  ASSUME TInv, TurnInv, AttemptInv, Bounded, NEW c \in Callers, NEW ok \in BOOLEAN, NEW more \in BOOLEAN,
         Become(c, Leaving(ok, more)), file'.status \in {"blocked", "complete"}, UNCHANGED stage
  PROVE  AttemptInv'
  <1>1. CallAttempts(Leaving(ok, more), stage')
    BY LeavingFacts DEF CallAttempts
  <1>2. FileAttempts(file', stage')
    BY DEF AttemptInv, FileAttempts, Going
  <1> QED
    BY <1>1, <1>2, AttemptBecome

LEMMA AttemptConclude ==
  ASSUME TInv, TurnInv, AttemptInv, Bounded, NEW c \in Callers, NEW result, NEW why, NEW head,
         Conclude(c, result, why, head)
  PROVE  AttemptInv'
  <1>1. file'.status \in {"complete", "blocked"}
    BY DEF Conclude, TInv, TypeOK
  <1> QED
    BY <1>1, AttemptOver DEF Conclude

LEMMA AttemptBlock ==
  ASSUME TInv, TurnInv, AttemptInv, Bounded, NEW c \in Callers, Block(c)
  PROVE  AttemptInv'
  BY AttemptConclude DEF Block

\* A call that leaves with more to do.
LEMMA AttemptSuspend ==
  ASSUME TInv, TurnInv, AttemptInv, Bounded, NEW c \in Callers, NEW status, NEW cursor,
         Suspend(c, status, cursor), UNCHANGED stage,
         FileAttempts([status |-> status, cursor |-> cursor], stage)
  PROVE  AttemptInv'
  <1>1. file' = [status |-> status, cursor |-> cursor] /\ Become(c, Leaving(TRUE, TRUE))
    BY SuspendFacts
  <1>2. CallAttempts(Leaving(TRUE, TRUE), stage')
    BY LeavingFacts DEF CallAttempts
  <1> QED
    BY <1>1, <1>2, AttemptBecome

\* On to the next stage, once the file can say that the attempt is completed.
LEMMA AttemptNextStage ==
  ASSUME TInv, TurnInv, AttemptInv, Bounded, NEW c \in Callers,
         NEW at, GoodCursor(at), NextStage(c, at), stage[Conflict].attempt = 1 => at.resolved
  PROVE  AttemptInv'
  <1>1. PICK done : done = [at EXCEPT !.index = @ + 1, !.pending = NoPending]
    OBVIOUS
  <1>2. done.pending.phase = "none" /\ done.resolved = at.resolved
    BY <1>1 DEF GoodCursor, Cursor, NoPending
  <1>3. Suspend(c, "active", done) /\ UNCHANGED stage
    BY <1>1 DEF NextStage
  <1>4. FileAttempts([status |-> "active", cursor |-> done], stage)
    BY <1>2 DEF AttemptInv, FileAttempts, Going
  <1> QED
    BY <1>3, <1>4, AttemptSuspend

\* What the count says to a call in the pipeline.
LEMMA AttemptFacts ==
  ASSUME TInv, TurnInv, AttemptInv, NEW c \in Callers, caller[c].pc \in InPipeline
  PROVE  /\ stage[Conflict].attempt \in {0, 1}
         /\ caller[c].pc \notin Executing /\ stage[Conflict].attempt = 1 => caller[c].at.resolved
         /\ caller[c].at.index # Conflict /\ stage[Conflict].attempt = 1 => caller[c].at.resolved
         /\ caller[c].at.index = Conflict /\ caller[c].at.pending.phase # "none" =>
              caller[c].at.pending.attempt = 0 /\ ~caller[c].at.resolved
  BY InPipelineFacts DEF AttemptInv, FileAttempts

LEMMA AttemptInspect ==
  ASSUME TInv, TurnInv, AttemptInv, Bounded, NEW c \in Callers, Inspect(c)
  PROVE  AttemptInv'
  <1>1. PICK m, at : m = caller[c] /\ at = m.at
    OBVIOUS
  <1>2. /\ m \in Memory /\ GoodCursor(at) /\ at \in Cursor /\ m.pc = "inspect"
        /\ caller[c].pc \in InPipeline /\ caller[c].pc \notin Executing /\ caller[c].pc \in AtStage
    BY <1>1, Known DEF GoodCursor, Inspect, InPipeline, Executing, AtStage
  <1>3. PICK pending : /\ InspectPending(c, pending)
                       /\ \/ Block(c)
                          \/ NextStage(c, at)
                          \/ /\ SaveCursor(c, "active", [at EXCEPT !.pending = pending])
                             /\ Become(c, [m EXCEPT !.at.pending = pending, !.pc = "launch"])
                             /\ UNCHANGED <<pr, tree, stage, lock, launched, running, verdict, left>>
                             /\ at.index = Conflict => ~at.resolved \/ at.pending.phase = "waiting"
    BY <1>1, InspectGoesOn
  <1>4. pending \in Pending /\ pending.phase = "executing"
    BY <1>2, <1>3, InspectPendingTypes
  <1>5. ASSUME SaveCursor(c, "active", [at EXCEPT !.pending = pending]),
               Become(c, [m EXCEPT !.at.pending = pending, !.pc = "launch"]),
               UNCHANGED <<pr, tree, stage, lock, launched, running, verdict, left>>,
               at.index = Conflict => ~at.resolved \/ at.pending.phase = "waiting"
        PROVE  AttemptInv'
    <2>1. PICK new, nat : /\ nat = [at EXCEPT !.pending = pending]
                          /\ new = [m EXCEPT !.at.pending = pending, !.pc = "launch"]
      OBVIOUS
    <2>2. nat.index = at.index /\ nat.resolved = at.resolved /\ nat.pending = pending
      BY <1>2, <1>4, <2>1, PendingTypes
    <2>3. new.at = nat /\ new.pc = "launch"
      BY <1>1, <1>2, <2>1 DEF Memory, Cursor
    <2>4. file' = [status |-> "active", cursor |-> nat] /\ Become(c, new)
      BY <1>5, <2>1 DEF SaveCursor
    <2>5. stage[Conflict].attempt \in {0, 1} /\ (stage[Conflict].attempt = 1 => at.resolved)
      BY <1>1, <1>2, AttemptFacts
    <2>6. at.index = Conflict => ~at.resolved /\ stage[Conflict].attempt = 0
      BY <1>1, <1>2, <1>5, <2>5, AttemptFacts
    <2>7. at.index = Conflict => pending.attempt = 0
      <3>1. ASSUME at.index = Conflict PROVE pending.attempt = 0
        <4>1. CASE at.pending.phase = "waiting"
          <5>1. PICK p : p = at.pending
            OBVIOUS
          <5>2. p.attempt = 0 /\ p \in Pending
            BY <1>1, <1>2, <3>1, <4>1, <5>1, AttemptFacts DEF Cursor
          <5>3. pending = [p EXCEPT !.phase = "executing"]
            BY <1>1, <1>3, <4>1, <5>1 DEF InspectPending
          <5> QED
            BY <5>2, <5>3 DEF Pending
        <4>2. CASE at.pending.phase # "waiting"
          BY <1>1, <1>3, <2>6, <3>1, <4>2 DEF InspectPending
        <4> QED
          BY <4>1, <4>2
      <3> QED
        BY <3>1
    <2>8. FileAttempts(file', stage')
      BY <1>4, <1>5, <2>2, <2>4, <2>5, <2>6, <2>7 DEF FileAttempts, Going
    <2>9. CallAttempts(new, stage')
      BY <1>5, <2>2, <2>3, <2>6 DEF CallAttempts
    <2> QED
      BY <1>5, <2>4, <2>8, <2>9, AttemptBecome
  <1>6. stage[Conflict].attempt = 1 => at.resolved
    BY <1>1, <1>2, AttemptFacts
  <1> QED
    BY <1>2, <1>3, <1>5, <1>6, AttemptBlock, AttemptNextStage

LEMMA AttemptStage ==
  ASSUME TInv, TurnInv, AttemptInv, NEW c \in Callers, StageWorks(c) \/ StageStumbles(c)
  PROVE  AttemptInv'
  <1>1. caller[c].pc = "running" /\ UNCHANGED file
    BY DEF StageWorks, StageStumbles
  <1>2. /\ caller[c].pc \in InPipeline /\ caller[c].pc \in Executing /\ caller[c].pc \in AtStage
        /\ caller[c].pc \in Holding
    BY <1>1 DEF InPipeline, Executing, AtStage, Holding
  <1>3. PICK s : s = caller[c].at.index /\ s \in 1..NumStages
    BY <1>2, StageKnown
  <1>4. PICK m : Become(c, m) /\ SamePlace(m, caller[c]) /\ m.pc = "settle"
    BY StageMemory
  <1>5. \/ UNCHANGED stage
        \/ \E outcome \in Outcomes, attempt \in Nat :
             /\ Record(s, outcome, attempt)
             /\ \/ attempt = stage[s].attempt
                \/ s = Conflict /\ outcome = "completed" /\ attempt = stage[s].attempt + 1
    <2>1. stage[s].attempt \in Nat /\ stage[s].attempt + 1 \in Nat
      BY <1>2, <1>3, StageKnown
    <2>2. CASE StageWorks(c)
      <3>1. PICK outcome \in {"cleared", "uncleared", "completed"} :
              /\ outcome = "completed" => s = Conflict
              /\ Record(s, outcome, IF outcome = "completed" THEN stage[s].attempt + 1 ELSE stage[s].attempt)
        BY <1>3, <2>2 DEF StageWorks, StageOf
      <3> QED
        BY <2>1, <3>1 DEF Outcomes
    <2>3. CASE StageStumbles(c)
      BY <1>3, <2>1, <2>3 DEF StageStumbles, StageOf, Outcomes
    <2> QED
      BY <2>2, <2>3
  <1>6. /\ stage[Conflict].attempt \in {0, 1} /\ Conflict \in 1..NumStages
        /\ s = Conflict => stage[Conflict].attempt = 0
    BY <1>1, <1>2, <1>3, AttemptFacts, PrPipelineAssumption DEF AttemptInv, CallAttempts
  <1>7. \/ stage'[Conflict].attempt = stage[Conflict].attempt /\ (s # Conflict => stage'[Conflict] = stage[Conflict])
        \/ s = Conflict /\ stage'[Conflict].attempt = 1 /\ stage'[Conflict].outcome = "completed"
    <2>1. CASE UNCHANGED stage
      BY <2>1
    <2>2. ASSUME NEW outcome \in Outcomes, NEW attempt \in Nat, Record(s, outcome, attempt),
                 \/ attempt = stage[s].attempt
                 \/ s = Conflict /\ outcome = "completed" /\ attempt = stage[s].attempt + 1
          PROVE  <1>7!:
      <3>1. PICK record : record = [outcome |-> outcome, head |-> pr'.head, base |-> pr.base,
                                    checks |-> pr.checks, attempt |-> attempt]
        OBVIOUS
      <3>2. record.outcome = outcome /\ record.attempt = attempt
        BY <3>1
      <3>3. stage' = [stage EXCEPT ![s] = record]
        BY <2>2, <3>1 DEF Record
      <3>4. stage'[Conflict] = IF s = Conflict THEN record ELSE stage[Conflict]
        BY <1>3, <1>6, <3>3 DEF TInv, TypeOK
      <3> QED
        BY <1>6, <2>2, <3>2, <3>4
    <2> QED
      BY <1>5, <2>1, <2>2
  <1>8. file.cursor.index = s /\ file.cursor.pending.phase = "executing" /\ file.status \in Going
    BY <1>2, <1>3, InPipelineFacts
  <1>9. FileAttempts(file', stage')
    BY <1>1, <1>6, <1>7, <1>8 DEF AttemptInv, FileAttempts, Going
  <1>10. CallAttempts(m, stage')
    BY <1>3, <1>4, <1>6, <1>7 DEF CallAttempts, SamePlace
  <1> QED
    BY <1>2, <1>4, <1>9, <1>10, AttemptBecome

LEMMA AttemptWaits ==
  ASSUME TInv, TurnInv, AttemptInv, Bounded, NEW c \in Callers, StageWaits(c)
  PROVE  AttemptInv'
  <1>1. PICK at, waiting : at = caller[c].at /\ waiting = [at EXCEPT !.pending.phase = "waiting"]
    OBVIOUS
  <1>2. /\ caller[c].pc = "running" /\ at \in Cursor /\ Suspend(c, "waiting", waiting) /\ UNCHANGED stage
        /\ caller[c].pc \in InPipeline /\ caller[c].pc \in Executing
    BY <1>1, Known DEF GoodCursor, StageWaits, InPipeline, Executing
  <1>3. /\ waiting.index = at.index /\ waiting.resolved = at.resolved
        /\ waiting.pending.phase = "waiting" /\ waiting.pending.attempt = at.pending.attempt
    BY <1>1, <1>2 DEF Cursor, Pending
  <1>4. at.pending.phase = "executing"
    BY <1>1, <1>2, InPipelineFacts
  <1>5. /\ stage[Conflict].attempt \in {0, 1} /\ (at.index = Conflict => stage[Conflict].attempt = 0)
        /\ stage[Conflict].attempt = 1 => at.resolved
        /\ at.index = Conflict => at.pending.attempt = 0 /\ ~at.resolved
    BY <1>1, <1>2, <1>4, AttemptFacts DEF AttemptInv, CallAttempts
  <1>6. FileAttempts([status |-> "waiting", cursor |-> waiting], stage)
    BY <1>3, <1>5 DEF FileAttempts, Going
  <1> QED
    BY <1>2, <1>6, AttemptSuspend

LEMMA AttemptAfter ==
  ASSUME TInv, TurnInv, AttemptInv, Bounded, NEW c \in Callers, AfterStage(c)
  PROVE  AttemptInv'
  <1>1. PICK at, resolved :
          /\ at = caller[c].at
          /\ resolved = IF at.index = Conflict /\ stage[at.index].outcome = "completed"
                        THEN stage[at.index].attempt # at.pending.attempt
                        ELSE at.resolved
    OBVIOUS
  <1>2. /\ GoodCursor(at) /\ at \in Cursor /\ caller[c].pc = "after"
        /\ caller[c].pc \in InPipeline /\ caller[c].pc \in Executing
    BY <1>1, Known DEF GoodCursor, Executing, AfterStage, InPipeline
  <1>3. resolved \in BOOLEAN
    BY <1>1, <1>2 DEF Cursor
  <1>4. Block(c) \/ NextStage(c, [at EXCEPT !.resolved = resolved])
    BY <1>1 DEF AfterStage
  <1>5. PICK new : new = [at EXCEPT !.resolved = resolved]
    OBVIOUS
  <1>6. GoodCursor(new) /\ new.resolved = resolved
    BY <1>2, <1>3, <1>5 DEF GoodCursor, Cursor
  <1>7. at.pending.phase = "executing"
    BY <1>1, <1>2, InPipelineFacts
  <1>8. stage[Conflict].attempt = 1 => resolved
    <2>1. CASE at.index # Conflict
      BY <1>1, <1>2, <2>1, AttemptFacts
    <2>2. CASE at.index = Conflict
      <3>1. at.pending.attempt = 0
        BY <1>1, <1>2, <1>7, <2>2, AttemptFacts
      <3>2. stage[Conflict].attempt = 1 => stage[Conflict].outcome = "completed"
        BY <1>1, <1>2, <2>2 DEF AttemptInv, CallAttempts
      <3>3. ASSUME stage[Conflict].attempt = 1 PROVE resolved
        <4>1. resolved = (stage[Conflict].attempt # at.pending.attempt)
          BY <1>1, <2>2, <3>2, <3>3
        <4>2. stage[Conflict].attempt # at.pending.attempt
          BY <3>1, <3>3
        <4> QED
          BY <1>3, <4>1, <4>2
      <3> QED
        BY <3>3
    <2> QED
      BY <2>1, <2>2
  <1> QED
    BY <1>4, <1>5, <1>6, <1>8, AttemptBlock, AttemptNextStage

LEMMA AttemptJudge ==
  ASSUME TInv, TurnInv, AttemptInv, Bounded, NEW c \in Callers, Judge(c)
  PROVE  AttemptInv'
  <1>1. PICK m, at, b : m = caller[c] /\ at = m.at /\ b = m.base
    OBVIOUS
  <1>2. /\ m \in Memory /\ GoodMemory(m) /\ GoodCursor(at) /\ at \in Cursor
        /\ m.pc = "judge" /\ caller[c].pc \in InPipeline /\ caller[c].pc \notin Executing
    BY <1>1, Known DEF GoodMemory, GoodCursor, Judge, InPipeline, Executing
  <1>3. PICK again :
          again = [at EXCEPT !.sweep = @ + 1, !.index = 1, !.initialized = FALSE, !.startHead = at.known,
                             !.startBase = b, !.headChanged = FALSE, !.baseChanged = FALSE,
                             !.heads = {}, !.bases = {}]
    OBVIOUS
  <1>4. \/ \E result, why, head : Conclude(c, result, why, head)
        \/ Suspend(c, "active", again) /\ UNCHANGED stage
    BY <1>1, <1>3 DEF Judge
  <1>5. again.index = 1 /\ again.pending = at.pending /\ again.resolved = at.resolved
    BY <1>2, <1>3 DEF Cursor
  <1>6. at.pending.phase = "none"
    <2>1. at.index = NumStages + 1 /\ NumStages \in Nat
      BY <1>1, <1>2, PrPipelineAssumption DEF GoodMemory, AtEnd
    <2>2. ~(at.index <= NumStages)
      BY <2>1
    <2> QED
      BY <1>1, <1>2, <2>2, InPipelineFacts
  <1>7. FileAttempts([status |-> "active", cursor |-> again], stage)
    BY <1>1, <1>2, <1>5, <1>6, AttemptFacts DEF FileAttempts, Going
  <1> QED
    BY <1>4, <1>7, AttemptConclude, AttemptSuspend

LEMMA AttemptCall ==
  ASSUME TInv, TurnInv, AttemptInv, Bounded, NEW c \in Callers,
         \/ Start(c) \/ TakeLock(c) \/ Unlock(c) \/ Seal(c) \/ Crash(c)
         \/ Read(c) \/ Sync(c) \/ Launch(c) \/ Settle(c)
  PROVE  AttemptInv'
  <1>1. CASE Start(c)
    <2>1. PICK cursor, m : /\ cursor = NewCursor(SomeBase) /\ file' = [status |-> "active", cursor |-> cursor]
                           /\ m = [Fresh EXCEPT !.pc = "seal", !.more = TRUE] /\ Become(c, m)
      BY <1>1 DEF Start, SaveCursor
    <2>2. m.pc = "seal"
      BY <2>1, FreshTypes DEF Fresh
    <2>3. stage[Conflict].attempt = 0 /\ UNCHANGED stage
      BY <1>1 DEF Start, AttemptInv, FileAttempts
    <2>4. cursor.pending.phase = "none"
      BY <2>1 DEF NewCursor, NoPending
    <2>5. FileAttempts(file', stage') /\ CallAttempts(m, stage')
      BY <2>1, <2>2, <2>3, <2>4 DEF FileAttempts, CallAttempts, Going
    <2> QED
      BY <2>1, <2>3, <2>5, AttemptBecome
  <1>2. CASE TakeLock(c) \/ Unlock(c)
    <2>1. PICK m : Become(c, m) /\ m.pc \in {"load", "seal"}
      BY <1>2, GotoTypes DEF TakeLock, Unlock, Working, AtStage, AtEnd, Executing
    <2> QED
      BY <1>2, <2>1, AttemptQuiet DEF TakeLock, Unlock, Executing
  <1>3. CASE Seal(c) \/ Crash(c)
    <2>1. PICK m : Become(c, m) /\ m.pc \in {"idle", "dead"} /\ UNCHANGED <<file, stage>>
      <3>1. PICK k : k = [Fresh EXCEPT !.pc = "dead"]
        OBVIOUS
      <3>2. k.pc = "dead" /\ Fresh.pc = "idle"
        BY <3>1, FreshTypes DEF Fresh
      <3> QED
        BY <1>3, <3>1, <3>2 DEF Seal, Crash
    <2> QED
      BY <2>1, AttemptQuiet DEF Executing
  <1>4. CASE Read(c)
    BY <1>4, ReadMemory, AttemptBlock, AttemptQuiet DEF Executing
  <1>5. CASE Sync(c)
    <2>1. CASE tree.dirty
      BY <1>5, <2>1, AttemptBlock DEF Sync
    <2>2. CASE ~tree.dirty
      BY <1>5, <2>2, SyncMemory, AttemptQuiet DEF Executing
    <2> QED
      BY <2>1, <2>2
  <1>6. CASE Launch(c)
    <2>1. caller[c].pc = "launch" /\ caller[c].pc \in AtStage /\ Goto(c, "running") /\ UNCHANGED <<file, stage>>
      BY <1>6 DEF Launch, AtStage, Executing
    <2>2. PICK m : Become(c, m) /\ m.at = caller[c].at /\ m.pc = "running"
      BY <2>1, StageKnown, GotoTypes DEF Working, InPipeline, AtEnd
    <2> QED
      BY <2>1, <2>2, AttemptQuiet
  <1>7. CASE Settle(c)
    <2>1. caller[c].pc = "settle"
      BY <1>7 DEF Settle
    <2> QED
      BY <1>7, <2>1, SettleMemory, AttemptBlock, AttemptQuiet DEF SamePlace
  <1> QED
    BY <1>1, <1>2, <1>3, <1>4, <1>5, <1>6, <1>7

LEMMA AttemptLoad ==
  ASSUME TInv, TurnInv, AttemptInv, Bounded, NEW c \in Callers, Load(c)
  PROVE  AttemptInv'
  <1>1. UNCHANGED stage
    BY DEF Load
  <1>2. CASE file.status \in Going /\ ~FinishedStep
    <2>1. file'.status = "blocked" /\ Become(c, Leaving(FALSE, FALSE))
      BY <1>2 DEF Load, Going, TInv, TypeOK
    <2> QED
      BY <1>1, <2>1, AttemptOver
  <1>3. CASE file.status \in Going /\ FinishedStep /\ file.cursor.pending.phase # "executing"
    <2>1. UNCHANGED file
      BY <1>3 DEF Load
    <2>2. PICK m, at, new : m = caller[c] /\ at = file.cursor /\ new = [m EXCEPT !.pc = "sweep", !.at = at]
      OBVIOUS
    <2>3. new.pc = "sweep"
      BY <2>2, Known DEF Memory
    <2>4. Become(c, new)
      BY <1>3, <2>2 DEF Load, Going
    <2> QED
      BY <1>1, <2>1, <2>3, <2>4, AttemptQuiet DEF Executing
  <1>4. CASE ~(file.status \in Going /\ ~FinishedStep)
             /\ ~(file.status \in Going /\ FinishedStep /\ file.cursor.pending.phase # "executing")
    <2>1. UNCHANGED file /\ Become(c, Leaving(FALSE, FALSE))
      BY <1>4 DEF Load, Going
    <2> QED
      BY <1>1, <2>1, LeavingFacts, AttemptQuiet DEF Executing
  <1> QED
    BY <1>2, <1>3, <1>4

LEMMA AttemptFails ==
  ASSUME TInv, TurnInv, AttemptInv, Bounded, NEW c \in Callers, Fails(c)
  PROVE  AttemptInv'
  <1>1. Become(c, Leaving(FALSE, FALSE)) /\ UNCHANGED stage
    BY DEF Fails
  <1>2. CASE UNCHANGED file
    BY <1>1, <1>2, LeavingFacts, AttemptQuiet DEF Executing
  <1>3. CASE file' = [file EXCEPT !.status = "blocked"]
    <2>1. file'.status = "blocked"
      BY <1>3 DEF TInv, TypeOK
    <2> QED
      BY <1>1, <2>1, AttemptOver
  <1> QED
    BY <1>2, <1>3 DEF Fails

LEMMA NextAttempt ==
  ASSUME Bounded
  PROVE  TInv /\ TurnInv /\ AttemptInv /\ [Next]_vars => AttemptInv'
  <1> SUFFICES ASSUME TInv, TurnInv, AttemptInv, [Next]_vars PROVE AttemptInv'
    OBVIOUS
  <1>1. ASSUME NEW c \in Callers, Step(c) PROVE AttemptInv'
    BY <1>1, AttemptLoad, AttemptCall, AttemptInspect, AttemptStage, AttemptWaits, AttemptAfter, AttemptJudge
       DEF Step
  <1>2. ASSUME NEW c \in Callers, Run(c) PROVE FALSE
    BY <1>2 DEF Run
  <1>3. CASE Moves \/ UNCHANGED vars
    BY <1>3 DEF Moves, vars, AttemptInv
  <1> QED
    BY <1>1, <1>2, <1>3, AttemptCall, AttemptFails DEF Next

\* The bounded route completes at most one conflict attempt in a run, over both
\* sweeps and every call.
THEOREM BoundedConflictOnce ==
  ASSUME Bounded
  PROVE  Spec => []ConflictCompletesOnce
  <1>1. AttemptInv => ConflictCompletesOnce
    BY DEF AttemptInv, FileAttempts, ConflictCompletesOnce
  <1>2. TInv /\ TurnInv /\ [Next]_vars => TurnInv'
    BY NextTurn
  <1>3. TInv /\ TurnInv /\ AttemptInv /\ [Next]_vars => AttemptInv'
    BY NextAttempt
  <1> QED
    BY <1>1, <1>2, <1>3, InitTypes, NextTypes, InitTurn, InitAttempt, PTL DEF Spec

-----------------------------------------------------------------------------
(* What a run concludes, on both routes: "complete" is of one clean head, a  *)
(* second sweep is of a change, and no tip is lost.                          *)

\* The bounded route, or one process of the synchronous route.
OneAtATime == Bounded \/ \A c, d \in Callers : c = d

\* A cursor's two flags say what the sweep has read: whether there was more
\* than one head, and more than one base.  A stage in hand started from one
\* of these heads.
GoodHistory(at) ==
  /\ at.pending.phase # "none" =>
       at.initialized /\ at.index <= NumStages /\ at.pending.started \in at.heads
  /\ at.initialized =>
       /\ at.known \in at.heads /\ at.startHead \in at.heads /\ at.startBase \in at.bases
       /\ IsFiniteSet(at.heads) /\ IsFiniteSet(at.bases)
       /\ at.headChanged <=> at.heads # {at.startHead}
       /\ at.baseChanged <=> at.bases # {at.startBase}

Remembers(m) ==
  /\ GoodHistory(m.at)
  /\ m.pc \in InPipeline \cup {"idle", "load"} => ~m.more
  /\ m.pc \in Executing => m.at.pending.phase # "none"

HistoryInv ==
  /\ GoodHistory(file.cursor)
  /\ \A c \in Callers : Remembers(caller[c])
  /\ verdict.result = "none" => verdict.why = "none"

\* Nobody works after the verdict, and who judges the sweep judges the tree.
ClearInv ==
  /\ \A c \in Callers : caller[c].pc \in InPipeline => verdict.result = "none"
  /\ \A c \in Callers : caller[c].pc = "judge" => tree.local = caller[c].at.known /\ ~tree.dirty
  /\ \A c \in Callers : caller[c].pc = "load" => Bounded
  /\ CompleteIsClear

-----------------------------------------------------------------------------
(* What a sweep has read *)

\* The fields of a cursor that GoodHistory speaks of, but for the pending stage.
SameHistory(a, b) ==
  /\ a.initialized = b.initialized /\ a.known = b.known
  /\ a.startHead = b.startHead /\ a.startBase = b.startBase
  /\ a.heads = b.heads /\ a.bases = b.bases
  /\ a.headChanged = b.headChanged /\ a.baseChanged = b.baseChanged

LEMMA KeepsHistory ==
  ASSUME NEW a, NEW b, GoodHistory(b), SameHistory(a, b),
         \/ a.pending.phase = "none"
         \/ a.initialized /\ a.index <= NumStages /\ a.pending.started \in a.heads
  PROVE  GoodHistory(a)
  BY DEF GoodHistory, SameHistory

\* Another head is read, and noted.
LEMMA NotesHead ==
  ASSUME NEW a, NEW b, GoodHistory(b), b.initialized, a.initialized, NEW head, NEW against,
         against \in {b.known, b.startHead} \/ (b.pending.phase # "none" /\ against = b.pending.started),
         a.known = head, a.startHead = b.startHead, a.startBase = b.startBase,
         a.heads = b.heads \cup {head}, a.headChanged = (b.headChanged \/ head # against),
         \/ a.bases = b.bases /\ a.baseChanged = b.baseChanged
         \/ \E base : /\ a.bases = b.bases \cup {base}
                      /\ a.baseChanged = (b.baseChanged \/ base # b.startBase),
         a.index = b.index, a.pending = b.pending
  PROVE  GoodHistory(a)
  <1>1. against \in b.heads
    BY DEF GoodHistory
  <1>2. IsFiniteSet(a.heads) /\ IsFiniteSet(a.bases)
    BY FS_AddElement DEF GoodHistory
  <1>3. a.headChanged <=> a.heads # {a.startHead}
    BY <1>1 DEF GoodHistory
  <1>4. a.baseChanged <=> a.bases # {a.startBase}
    BY DEF GoodHistory
  <1> QED
    BY <1>2, <1>3, <1>4 DEF GoodHistory

\* A sweep that starts has read one head and one base.
LEMMA StartsHistory ==
  ASSUME NEW a, NEW head, NEW base, a.pending.phase = "none", a.known = head, a.startHead = head, a.startBase = base,
         a.heads = {head}, a.bases = {base}, a.headChanged = FALSE, a.baseChanged = FALSE
  PROVE  GoodHistory(a)
  <1>1. IsFiniteSet(a.heads) /\ IsFiniteSet(a.bases)
    <2>1. IsFiniteSet({head}) /\ IsFiniteSet({base})
      BY FS_Singleton, Zenon
    <2> QED
      BY <2>1
  <1>2. a.known \in a.heads /\ a.startHead \in a.heads /\ a.startBase \in a.bases
    OBVIOUS
  <1>3. (a.headChanged <=> a.heads # {a.startHead}) /\ (a.baseChanged <=> a.bases # {a.startBase})
    OBVIOUS
  <1> QED
    BY <1>1, <1>2, <1>3 DEF GoodHistory

LEMMA NewHistory ==
  ASSUME NEW b
  PROVE  GoodHistory(NewCursor(b))
  BY DEF GoodHistory, NewCursor, NoPending

LEMMA FreshRemembers ==
  ASSUME NEW pc, NEW ok, NEW more
  PROVE  /\ Remembers(Fresh)
         /\ pc \notin Executing => Remembers([Fresh EXCEPT !.pc = pc])
         /\ pc \notin InPipeline \cup {"idle", "load"} =>
              /\ Remembers([Fresh EXCEPT !.pc = pc, !.more = more])
              /\ Remembers([Fresh EXCEPT !.pc = pc, !.ok = ok, !.more = more])
         /\ ~more /\ pc \notin Executing => Remembers([Fresh EXCEPT !.pc = pc, !.ok = ok, !.more = more])
  <1>1. PICK at : at = NewCursor(SomeBase)
    OBVIOUS
  <1>2. GoodHistory(at)
    BY <1>1, NewHistory
  <1>3. Fresh = [pc |-> "idle", at |-> at, base |-> SomeBase, ok |-> TRUE, more |-> FALSE]
    BY <1>1 DEF Fresh
  <1> QED
    BY <1>2, <1>3 DEF Remembers, Executing, InPipeline

LEMMA LeavingRemembers ==
  ASSUME NEW ok, NEW more, Bounded \/ ~more
  PROVE  Remembers(Leaving(ok, more))
  BY FreshRemembers DEF Leaving, InPipeline, Executing

LEMMA HistoryBecome ==
  ASSUME TInv, HistoryInv, NEW c \in Callers, NEW m, Become(c, m), Remembers(m),
         GoodHistory(file'.cursor), verdict'.result = "none" => verdict'.why = "none"
  PROVE  HistoryInv'
  <1>1. \A d \in Callers : caller'[d] = IF d = c THEN m ELSE caller[d]
    BY Facts
  <1>2. \A d \in Callers : Remembers(caller'[d])
    BY <1>1 DEF HistoryInv
  <1>3. GoodHistory(file.cursor)' /\ (\A d \in Callers : Remembers(caller[d]))'
    BY <1>2 DEF Remembers, GoodHistory
  <1> QED
    BY <1>3 DEF HistoryInv

\* A step that leaves the file's cursor and the verdict alone.
LEMMA HistoryQuiet ==
  ASSUME TInv, HistoryInv, NEW c \in Callers, NEW m, Become(c, m), Remembers(m),
         file'.cursor = file.cursor, UNCHANGED verdict
  PROVE  HistoryInv'
  BY HistoryBecome DEF HistoryInv

LEMMA HistoryConclude ==
  ASSUME TInv, HistoryInv, NEW c \in Callers, NEW result, result # "none", NEW why, NEW head,
         Conclude(c, result, why, head)
  PROVE  HistoryInv'
  <1>1. verdict'.result # "none"
    BY DEF Conclude
  <1>2. file'.cursor = file.cursor
    BY DEF Conclude, TInv, TypeOK
  <1>3. PICK m : Become(c, m) /\ Remembers(m)
    BY LeavingRemembers DEF Conclude
  <1> QED
    BY <1>1, <1>2, <1>3, HistoryBecome DEF HistoryInv

LEMMA HistoryBlock ==
  ASSUME TInv, HistoryInv, NEW c \in Callers, Block(c)
  PROVE  HistoryInv'
  BY HistoryConclude DEF Block

LEMMA HistorySuspend ==
  ASSUME Bounded, TInv, HistoryInv, NEW c \in Callers, NEW status, NEW cursor, GoodHistory(cursor),
         Suspend(c, status, cursor), UNCHANGED verdict
  PROVE  HistoryInv'
  <1>1. GoodHistory(file'.cursor)
    BY DEF Suspend, SaveCursor
  <1>2. PICK m : Become(c, m) /\ Remembers(m)
    BY LeavingRemembers DEF Suspend
  <1> QED
    BY <1>1, <1>2, HistoryBecome DEF HistoryInv

\* The call goes on with another cursor.
LEMMA RemembersOn ==
  ASSUME NEW m \in Memory, Remembers(m), m.pc \in InPipeline \cup {"idle", "load"},
         NEW at, GoodHistory(at), NEW pc, pc \in Executing => at.pending.phase # "none", NEW new,
         new = [m EXCEPT !.at = at, !.pc = pc]
  PROVE  Remembers(new)
  <1>1. new.at = at /\ new.pc = pc /\ new.more = m.more
    BY DEF Memory
  <1> QED
    BY <1>1 DEF Remembers

LEMMA HistoryNextStage ==
  ASSUME TInv, HistoryInv, NEW c \in Callers, NEW at, GoodCursor(at), at.initialized, GoodHistory(at),
         caller[c].pc \in InPipeline, NextStage(c, at)
  PROVE  HistoryInv'
  <1> DEFINE done == [at EXCEPT !.index = @ + 1, !.pending = NoPending]
             pc == IF done.index > NumStages THEN "final" ELSE "stage"
  <1>1. SameHistory(done, at) /\ done.pending = NoPending
    BY DEF SameHistory, GoodCursor, Cursor
  <1>2. GoodHistory(done)
    <2> HIDE DEF done
    <2> QED
      BY <1>1, KeepsHistory DEF NoPending
  <1>3. UNCHANGED verdict
    BY DEF NextStage
  <1>4. CASE Bounded
    BY <1>2, <1>3, <1>4, HistorySuspend DEF NextStage
  <1>5. CASE ~Bounded
    <2>1. PICK d, p : d = done /\ p = pc
      OBVIOUS
    <2>2. PICK m : m = [caller[c] EXCEPT !.at = d, !.pc = p] /\ Become(c, m) /\ UNCHANGED file
      BY <1>5, <2>1 DEF NextStage
    <2>3. Remembers(m)
      <3>1. p \notin Executing /\ caller[c] \in Memory /\ Remembers(caller[c])
        BY <2>1, Known DEF Executing, HistoryInv
      <3> QED
        BY <1>2, <2>1, <2>2, <3>1, RemembersOn
    <2> QED
      BY <1>3, <2>2, <2>3, HistoryQuiet
  <1> QED
    BY <1>4, <1>5

LEMMA HistoryCall ==
  ASSUME TInv, HistoryInv, NEW c \in Callers,
         Run(c) \/ Start(c) \/ TakeLock(c) \/ Load(c) \/ Unlock(c) \/ Seal(c) \/ Fails(c) \/ Crash(c)
  PROVE  HistoryInv'
  <1> USE Known
  <1>0. Remembers(caller[c]) /\ caller[c] \in Memory
    BY DEF HistoryInv
  <1>1. CASE Run(c)
    BY <1>1, FreshRemembers, HistoryQuiet DEF Run, Executing
  <1>2. CASE Start(c)
    <2>1. GoodHistory(file'.cursor) /\ UNCHANGED verdict
      BY <1>2, NewHistory DEF Start, SaveCursor
    <2>2. Remembers([Fresh EXCEPT !.pc = "seal", !.more = TRUE])
      BY FreshRemembers DEF InPipeline
    <2> QED
      BY <1>2, <2>1, <2>2, HistoryBecome DEF Start, HistoryInv
  <1>3. CASE TakeLock(c) \/ Unlock(c)
    <2>1. PICK pc \in {"load", "seal"} :
            /\ Goto(c, pc)
            /\ pc = "load" => caller[c].pc = "idle"
      BY <1>3 DEF TakeLock, Unlock
    <2>2. PICK m : m = [caller[c] EXCEPT !.pc = pc]
      OBVIOUS
    <2>3. m.pc = pc /\ m.at = caller[c].at /\ m.more = caller[c].more
      BY <1>0, <2>2 DEF Memory
    <2>4. Remembers(m) /\ Become(c, m)
      BY <1>0, <2>1, <2>2, <2>3 DEF Remembers, Goto, InPipeline, Executing
    <2> QED
      BY <1>3, <2>4, HistoryQuiet DEF TakeLock, Unlock
  <1>4. CASE Load(c)
    <2>1. file'.cursor = file.cursor
      BY <1>4 DEF Load, TInv, TypeOK
    <2>2. verdict'.result = "none" => verdict'.why = "none"
      BY <1>4 DEF Load, TInv, TypeOK, HistoryInv
    <2>3. \E m : Become(c, m) /\ Remembers(m)
      <3>1. PICK at, m : at = file.cursor /\ m = [caller[c] EXCEPT !.at = at, !.pc = "sweep"]
        OBVIOUS
      <3>2. Remembers(m)
        BY <1>0, <1>4, <3>1, RemembersOn DEF Load, HistoryInv, Executing
      <3>3. Become(c, m) \/ Become(c, Leaving(FALSE, FALSE))
        BY <1>0, <1>4, <3>1 DEF Load, Memory
      <3> QED
        BY <3>2, <3>3, LeavingRemembers
    <2> QED
      BY <2>1, <2>2, <2>3, HistoryBecome DEF HistoryInv
  <1>5. CASE Seal(c)
    BY <1>5, FreshRemembers, HistoryQuiet DEF Seal
  <1>6. CASE Fails(c)
    <2>1. file'.cursor = file.cursor
      BY <1>6 DEF Fails, TInv, TypeOK
    <2>2. verdict'.result = "none" => verdict'.why = "none"
      BY <1>6 DEF Fails, TInv, TypeOK, HistoryInv
    <2> QED
      BY <1>6, <2>1, <2>2, LeavingRemembers, HistoryBecome DEF Fails, HistoryInv
  <1>7. CASE Crash(c)
    BY <1>7, FreshRemembers, HistoryQuiet DEF Crash, Executing
  <1> QED
    BY <1>1, <1>2, <1>3, <1>4, <1>5, <1>6, <1>7

\* A call that goes on without a look at the pull request's head.
LEMMA HistoryMoves ==
  ASSUME TInv, HistoryInv, NEW c \in Callers, caller[c].pc \in InPipeline, NEW pc \in InPipeline,
         pc \in Executing => caller[c].pc \in Executing, NEW m, MovesTo(caller[c], pc, m), Become(c, m), UNCHANGED <<file, verdict>>
  PROVE  HistoryInv'
  <1>1. m.at = caller[c].at /\ m.more = caller[c].more /\ m.pc = pc
    BY Known DEF MovesTo, Memory
  <1>2. Remembers(m)
    BY <1>1 DEF Remembers, HistoryInv
  <1> QED
    BY <1>2, HistoryQuiet

LEMMA HistorySync ==
  ASSUME TInv, HistoryInv, NEW c \in Callers, Sync(c)
  PROVE  HistoryInv'
  <1>1. PICK m, at, head : m = caller[c] /\ at = m.at /\ head = pr.head
    OBVIOUS
  <1>2. /\ m \in Memory /\ GoodMemory(m) /\ at \in Cursor /\ Remembers(m) /\ GoodHistory(at)
        /\ m.pc \in {"sweep_sync", "stage_sync", "final_sync"} /\ m.pc \in InPipeline
    BY <1>1, Known DEF GoodCursor, HistoryInv, Remembers, Sync, InPipeline
  <1>3. CASE tree.dirty
    BY <1>3, HistoryBlock DEF Sync
  <1>4. ASSUME ~tree.dirty PROVE UNCHANGED <<file, verdict>>
    BY <1>4 DEF Sync
  <1>5. ASSUME ~tree.dirty, NEW new, Become(c, new), NEW nat, GoodHistory(nat), NEW pc,
               pc \notin Executing, new = [m EXCEPT !.at = nat, !.pc = pc]
        PROVE  HistoryInv'
    <2>1. Remembers(new)
      BY <1>2, <1>5, RemembersOn
    <2> QED
      BY <1>4, <1>5, <2>1, HistoryQuiet
  <1>6. CASE ~tree.dirty /\ m.pc = "sweep_sync"
    <2>1. EnterSweep(c, head)
      BY <1>1, <1>6 DEF Sync
    <2>2. PICK fresh, same :
            /\ fresh = [at EXCEPT !.initialized = TRUE, !.startHead = head, !.startBase = m.base,
                                  !.headChanged = FALSE, !.baseChanged = FALSE, !.known = head,
                                  !.heads = {head}, !.bases = {m.base}]
            /\ same = [at EXCEPT !.headChanged = @ \/ head # at.known, !.known = head, !.heads = @ \cup {head}]
      OBVIOUS
    <2>3. CASE at.initialized
      <3>1. PICK changed, heads : changed = (at.headChanged \/ head # at.known) /\ heads = at.heads \cup {head}
        OBVIOUS
      <3>2. same = [at EXCEPT !.headChanged = changed, !.known = head, !.heads = heads]
        BY <2>2, <3>1
      <3>3. /\ same.initialized = at.initialized /\ same.index = at.index /\ same.pending = at.pending
            /\ same.known = head /\ same.heads = at.heads \cup {head} /\ same.startHead = at.startHead
            /\ same.headChanged = (at.headChanged \/ head # at.known)
            /\ same.bases = at.bases /\ same.baseChanged = at.baseChanged /\ same.startBase = at.startBase
        BY <1>2, <3>1, <3>2 DEF Cursor
      <3>4. GoodHistory(same)
        BY <1>2, <2>3, <3>3, NotesHead
      <3>5. PICK pc : pc = IF at.index > NumStages THEN "final" ELSE "stage"
        OBVIOUS
      <3>6. PICK new : new = [m EXCEPT !.at = same, !.pc = pc] /\ Become(c, new)
        BY <1>1, <2>1, <2>2, <2>3, <3>5 DEF EnterSweep
      <3>7. pc \notin Executing
        BY <3>5 DEF Executing
      <3> QED
        BY <1>5, <1>6, <3>4, <3>6, <3>7
    <2>4. CASE ~at.initialized
      <3>1. /\ fresh.pending = at.pending /\ fresh.known = head /\ fresh.startHead = head
            /\ fresh.startBase = m.base /\ fresh.heads = {head} /\ fresh.bases = {m.base}
            /\ fresh.headChanged = FALSE /\ fresh.baseChanged = FALSE
        BY <1>2, <2>2 DEF Cursor
      <3>2. GoodHistory(fresh)
        BY <1>2, <2>4, <3>1, StartsHistory DEF GoodHistory
      <3>3. PICK new : new = [m EXCEPT !.at = fresh, !.pc = "stage"] /\ Become(c, new)
        BY <1>1, <2>1, <2>2, <2>4 DEF EnterSweep
      <3>4. "stage" \notin Executing
        BY DEF Executing
      <3> QED
        BY <1>5, <1>6, <3>2, <3>3, <3>4
    <2> QED
      BY <2>3, <2>4
  <1>7. ASSUME ~tree.dirty, m.pc # "sweep_sync", NEW against \in {at.known, at.startHead},
               NEW pc \in {"inspect", "judge"}, NoteMoves(c, head, against, pc)
        PROVE  HistoryInv'
    <2>1. at.initialized
      <3>1. m.pc \in AtStage \cup AtEnd
        BY <1>2, <1>7 DEF AtStage, AtEnd
      <3> QED
        BY <1>1, <1>2, <3>1 DEF GoodMemory
    <2>2. PICK h, b, hs, bs : /\ h = (at.headChanged \/ head # against)
                              /\ b = (at.baseChanged \/ m.base # at.startBase)
                              /\ hs = at.heads \cup {head} /\ bs = at.bases \cup {m.base}
      OBVIOUS
    <2>3. PICK new, nat : /\ new = [m EXCEPT !.pc = pc, !.at.headChanged = h, !.at.baseChanged = b,
                                             !.at.known = head, !.at.heads = hs, !.at.bases = bs]
                          /\ nat = [at EXCEPT !.headChanged = h, !.baseChanged = b, !.known = head,
                                              !.heads = hs, !.bases = bs]
      OBVIOUS
    <2>4. /\ nat.initialized = at.initialized /\ nat.index = at.index /\ nat.pending = at.pending
          /\ nat.known = head /\ nat.heads = hs /\ nat.headChanged = h /\ nat.bases = bs /\ nat.baseChanged = b
          /\ nat.startHead = at.startHead /\ nat.startBase = at.startBase
      BY <1>2, <2>3 DEF Cursor
    <2>5. GoodHistory(nat)
      <3>1. nat.headChanged = (at.headChanged \/ head # against) /\ nat.heads = at.heads \cup {head}
        BY <2>2, <2>4
      <3>2. nat.bases = at.bases \cup {m.base} /\ nat.baseChanged = (at.baseChanged \/ m.base # at.startBase)
        BY <2>2, <2>4
      <3>3. against \in {at.known, at.startHead} \/ (at.pending.phase # "none" /\ against = at.pending.started)
        BY <1>7
      <3>4. \E base : nat.bases = at.bases \cup {base} /\ nat.baseChanged = (at.baseChanged \/ base # at.startBase)
        BY <3>2
      <3>5. nat.initialized /\ nat.startHead = at.startHead /\ nat.startBase = at.startBase
        BY <2>1, <2>4
      <3> QED
        BY <1>2, <2>1, <2>4, <3>1, <3>3, <3>4, <3>5, NotesHead
    <2>6. new = [m EXCEPT !.at = nat, !.pc = pc]
      BY <1>1, <1>2, <2>3 DEF Memory, Cursor
    <2>7. Become(c, new)
      BY <1>1, <1>7, <2>2, <2>3 DEF NoteMoves
    <2>8. pc \notin Executing
      BY <1>7 DEF Executing
    <2> QED
      BY <1>5, <1>7, <2>5, <2>6, <2>7, <2>8
  <1>8. CASE ~tree.dirty /\ m.pc = "stage_sync"
    <2>1. NoteMoves(c, head, at.known, "inspect")
      BY <1>1, <1>8 DEF Sync
    <2> QED
      BY <1>7, <1>8, <2>1
  <1>9. CASE ~tree.dirty /\ m.pc = "final_sync"
    <2>1. NoteMoves(c, head, at.startHead, "judge")
      BY <1>1, <1>9 DEF Sync
    <2> QED
      BY <1>7, <1>9, <2>1
  <1> QED
    BY <1>2, <1>3, <1>6, <1>8, <1>9

LEMMA HistoryInspect ==
  ASSUME TInv, HistoryInv, NEW c \in Callers, Inspect(c)
  PROVE  HistoryInv'
  <1>1. PICK m, at : m = caller[c] /\ at = m.at
    OBVIOUS
  <1>2. /\ m \in Memory /\ GoodCursor(at) /\ at \in Cursor /\ Remembers(m) /\ GoodHistory(at)
        /\ m.pc = "inspect" /\ m.pc \in InPipeline /\ at.index <= NumStages /\ at.initialized
    BY <1>1, Known DEF GoodCursor, GoodMemory, AtStage, HistoryInv, Remembers, Inspect, InPipeline
  <1>3. PICK pending : /\ InspectPending(c, pending)
                       /\ \/ Block(c)
                          \/ NextStage(c, at)
                          \/ /\ SaveCursor(c, "active", [at EXCEPT !.pending = pending])
                             /\ Become(c, [m EXCEPT !.at.pending = pending, !.pc = "launch"])
                             /\ UNCHANGED <<pr, tree, stage, lock, launched, running, verdict, left>>
    BY <1>1, InspectCases
  <1>4. ASSUME SaveCursor(c, "active", [at EXCEPT !.pending = pending]),
               Become(c, [m EXCEPT !.at.pending = pending, !.pc = "launch"]), UNCHANGED verdict
        PROVE  HistoryInv'
    <2>1. PICK new, nat : /\ nat = [at EXCEPT !.pending = pending]
                          /\ new = [m EXCEPT !.at.pending = pending, !.pc = "launch"]
      OBVIOUS
    <2>2. SameHistory(nat, at) /\ nat.pending = pending /\ nat.index = at.index
      BY <1>2, <2>1 DEF SameHistory, Cursor
    <2>3. pending.started \in at.heads
      BY <1>1, <1>2, <1>3 DEF InspectPending, GoodHistory, Cursor, Pending
    <2>4. GoodHistory(nat) /\ nat.pending.phase # "none"
      <3>1. pending.phase = "executing"
        BY <1>1, <1>2, <1>3, InspectPendingTypes DEF AtStage
      <3> QED
        BY <1>2, <2>2, <2>3, <3>1, KeepsHistory DEF SameHistory
    <2>5. new = [m EXCEPT !.at = nat, !.pc = "launch"]
      BY <1>1, <1>2, <2>1 DEF Memory, Cursor
    <2>6. Remembers(new) /\ Become(c, new)
      <3>1. Remembers(new)
        BY <1>2, <2>4, <2>5, RemembersOn
      <3> QED
        BY <1>4, <2>1, <3>1
    <2>7. GoodHistory(file'.cursor)
      BY <1>4, <2>1, <2>4 DEF SaveCursor, HistoryInv
    <2> QED
      BY <1>4, <2>6, <2>7, HistoryBecome DEF HistoryInv
  <1> QED
    BY <1>1, <1>2, <1>3, <1>4, HistoryBlock, HistoryNextStage

LEMMA HistoryStage ==
  ASSUME TInv, HistoryInv, NEW c \in Callers, Launch(c) \/ StageWorks(c) \/ StageStumbles(c) \/ StageWaits(c)
  PROVE  HistoryInv'
  <1>1. CASE ~StageWaits(c)
    <2>1. /\ caller[c].pc \in InPipeline \cap Executing /\ UNCHANGED <<file, verdict>>
          /\ \/ Goto(c, "running") \/ Goto(c, "settle")
             \/ Become(c, [caller[c] EXCEPT !.pc = "settle", !.ok = FALSE])
      BY <1>1 DEF Launch, StageWorks, StageStumbles, InPipeline, Executing
    <2>2. \E pc \in InPipeline : \E m : MovesTo(caller[c], pc, m) /\ Become(c, m)
      BY <2>1 DEF MovesTo, Goto, InPipeline
    <2> QED
      BY <2>1, <2>2, HistoryMoves
  <1>2. CASE StageWaits(c)
    <2>1. PICK at, pending, waiting :
            /\ at = caller[c].at /\ pending = [at.pending EXCEPT !.phase = "waiting"]
            /\ waiting = [at EXCEPT !.pending.phase = "waiting"]
      OBVIOUS
    <2>2. at \in Cursor /\ GoodHistory(at) /\ at.pending.phase # "none"
      BY <1>2, <2>1, Known DEF GoodCursor, GoodMemory, Executing, StageWaits, HistoryInv, Remembers
    <2>3. waiting = [at EXCEPT !.pending = pending]
      BY <2>1, <2>2 DEF Cursor, Pending
    <2>4. SameHistory(waiting, at) /\ waiting.pending.started = at.pending.started /\ waiting.index = at.index
      BY <2>1, <2>2, <2>3 DEF SameHistory, Cursor, Pending
    <2>5. GoodHistory(waiting)
      BY <2>2, <2>4, KeepsHistory DEF GoodHistory, SameHistory
    <2> QED
      BY <1>2, <2>1, <2>5, HistorySuspend DEF StageWaits
  <1> QED
    BY <1>1, <1>2

LEMMA HistorySettle ==
  ASSUME TInv, HistoryInv, NEW c \in Callers, Settle(c)
  PROVE  HistoryInv'
  <1>1. PICK m, at : m = caller[c] /\ at = m.at
    OBVIOUS
  <1>2. /\ m \in Memory /\ at \in Cursor /\ Remembers(m) /\ GoodHistory(at) /\ at.initialized
        /\ m.pc = "settle" /\ at.pending.phase # "none" /\ m.pc \in InPipeline
    BY <1>1, Known DEF GoodCursor, GoodMemory, AtStage, Executing, Settle, HistoryInv, Remembers, InPipeline
  <1>3. PICK h, hs : h = (at.headChanged \/ pr.head # at.pending.started) /\ hs = at.heads \cup {pr.head}
    OBVIOUS
  <1>4. PICK new, nat : /\ new = [m EXCEPT !.pc = "after", !.at.known = pr.head, !.at.headChanged = h, !.at.heads = hs]
                        /\ nat = [at EXCEPT !.known = pr.head, !.headChanged = h, !.heads = hs]
    OBVIOUS
  <1>5. Block(c) \/ (Become(c, new) /\ UNCHANGED <<file, verdict>>)
    BY <1>1, <1>3, <1>4 DEF Settle
  <1>6. /\ nat.initialized = at.initialized /\ nat.index = at.index /\ nat.pending = at.pending
        /\ nat.known = pr.head /\ nat.heads = hs /\ nat.headChanged = h
        /\ nat.bases = at.bases /\ nat.baseChanged = at.baseChanged
        /\ nat.startHead = at.startHead /\ nat.startBase = at.startBase
    BY <1>2, <1>4 DEF Cursor
  <1>7. GoodHistory(nat)
    <2>1. nat.headChanged = (at.headChanged \/ pr.head # at.pending.started) /\ nat.heads = at.heads \cup {pr.head}
      BY <1>3, <1>6
    <2> QED
      BY <1>2, <1>6, <2>1, NotesHead
  <1>8. new = [m EXCEPT !.at = nat, !.pc = "after"]
    BY <1>1, <1>2, <1>4 DEF Memory, Cursor
  <1>9. Remembers(new)
    <2>1. nat.pending.phase # "none"
      BY <1>2, <1>6
    <2> QED
      BY <1>2, <1>7, <1>8, <2>1, RemembersOn
  <1> QED
    BY <1>5, <1>9, HistoryBlock, HistoryQuiet

LEMMA HistoryAfter ==
  ASSUME TInv, HistoryInv, NEW c \in Callers, AfterStage(c)
  PROVE  HistoryInv'
  <1>1. PICK at, resolved :
          /\ at = caller[c].at
          /\ resolved = IF at.index = Conflict /\ stage[at.index].outcome = "completed"
                        THEN stage[at.index].attempt # at.pending.attempt
                        ELSE at.resolved
    OBVIOUS
  <1>2. /\ GoodCursor(at) /\ at \in Cursor /\ at.index <= NumStages /\ at.initialized
        /\ GoodHistory(at) /\ caller[c].pc \in InPipeline
    BY <1>1, Known DEF GoodCursor, GoodMemory, AtStage, Executing, AfterStage, HistoryInv, Remembers, InPipeline
  <1>3. PICK new : new = [at EXCEPT !.resolved = resolved]
    OBVIOUS
  <1>4. resolved \in BOOLEAN
    BY <1>1, <1>2 DEF Cursor
  <1>5. GoodCursor(new) /\ SameHistory(new, at) /\ new.pending = at.pending /\ new.index = at.index
    BY <1>2, <1>3, <1>4 DEF GoodCursor, Cursor, SameHistory
  <1>6. GoodHistory(new)
    BY <1>2, <1>5, KeepsHistory DEF GoodHistory, SameHistory
  <1>7. Block(c) \/ NextStage(c, new)
    BY <1>1, <1>3 DEF AfterStage
  <1> QED
    BY <1>2, <1>5, <1>6, <1>7, HistoryBlock, HistoryNextStage DEF SameHistory

\* What judging a sweep can come to.
LEMMA JudgeCases ==
  ASSUME NEW c \in Callers, Judge(c), NEW at, at = caller[c].at, NEW again,
         again = [at EXCEPT !.sweep = @ + 1, !.index = 1, !.initialized = FALSE, !.startHead = at.known,
                            !.startBase = caller[c].base, !.headChanged = FALSE, !.baseChanged = FALSE,
                            !.heads = {}, !.bases = {}]
  PROVE  \/ /\ \A s \in 1..NumStages : Clear(s, at.known, caller[c].base)
            /\ Conclude(c, "complete", "none", at.known)
         \/ Conclude(c, "incomplete", "two_sweeps_finished", NoHead)
         \/ /\ ~at.headChanged /\ ~at.baseChanged
            /\ Conclude(c, "incomplete", "stages_not_clear", NoHead)
         \/ /\ at.headChanged \/ at.baseChanged \/ OnlyCiIsStale(at.known, caller[c].base)
            /\ IF Bounded THEN Suspend(c, "active", again)
               ELSE Become(c, [caller[c] EXCEPT !.at = again, !.pc = "sweep"]) /\ UNCHANGED <<file, prior>>
            /\ UNCHANGED <<pr, tree, stage, lock, launched, running, verdict, left>>
  BY DEF Judge

LEMMA HistoryJudge ==
  ASSUME TInv, HistoryInv, NEW c \in Callers, Judge(c)
  PROVE  HistoryInv'
  <1>1. PICK at, again :
          /\ at = caller[c].at
          /\ again = [at EXCEPT !.sweep = @ + 1, !.index = 1, !.initialized = FALSE, !.startHead = at.known,
                                !.startBase = caller[c].base, !.headChanged = FALSE, !.baseChanged = FALSE,
                                !.heads = {}, !.bases = {}]
    OBVIOUS
  <1>2. /\ at \in Cursor /\ GoodHistory(at) /\ at.index = NumStages + 1 /\ Remembers(caller[c])
        /\ caller[c] \in Memory /\ caller[c].pc \in InPipeline
    BY <1>1, Known DEF GoodCursor, GoodMemory, AtEnd, Judge, HistoryInv, Remembers, InPipeline
  <1>3. at.pending.phase = "none"
    BY <1>2, PrPipelineAssumption DEF GoodHistory
  <1>4. again.initialized = FALSE /\ again.pending = at.pending
    BY <1>1, <1>2 DEF Cursor
  <1>5. GoodHistory(again)
    BY <1>3, <1>4 DEF GoodHistory
  <1>6. ASSUME IF Bounded THEN Suspend(c, "active", again)
               ELSE Become(c, [caller[c] EXCEPT !.at = again, !.pc = "sweep"]) /\ UNCHANGED <<file, prior>>,
               UNCHANGED verdict
        PROVE  HistoryInv'
    <2>1. PICK new : new = [caller[c] EXCEPT !.at = again, !.pc = "sweep"]
      OBVIOUS
    <2>2. "sweep" \notin Executing
      BY DEF Executing
    <2>3. Remembers(new)
      BY <1>2, <1>5, <2>1, <2>2, RemembersOn
    <2> QED
      BY <1>5, <1>6, <2>1, <2>3, HistorySuspend, HistoryQuiet
  <1> QED
    BY <1>1, <1>6, JudgeCases, HistoryConclude

LEMMA HistoryRead ==
  ASSUME TInv, HistoryInv, NEW c \in Callers, Read(c)
  PROVE  HistoryInv'
  <1>1. CASE Block(c)
    BY <1>1, HistoryBlock
  <1>2. CASE ~Block(c)
    <2>1. PICK pc : pc = SyncOf(caller[c].pc)
      OBVIOUS
    <2>2. PICK m : m = [caller[c] EXCEPT !.pc = pc, !.base = pr.base] /\ Become(c, m)
      BY <1>2, <2>1 DEF Read
    <2>3. /\ pc \in {"sweep_sync", "stage_sync", "final_sync"} /\ caller[c].pc \in InPipeline
          /\ UNCHANGED <<file, verdict>> /\ pr.base \in Bases
      BY <1>2, <2>1 DEF Read, SyncOf, InPipeline, TInv, TypeOK
    <2>4. pc \in InPipeline /\ pc \notin Executing /\ MovesTo(caller[c], pc, m)
      BY <2>2, <2>3 DEF InPipeline, Executing, MovesTo
    <2> QED
      BY <2>2, <2>3, <2>4, HistoryMoves
  <1> QED
    BY <1>1, <1>2

LEMMA InitHistory == Init => HistoryInv
  <1> SUFFICES ASSUME Init PROVE HistoryInv
    OBVIOUS
  <1>1. /\ file.cursor = NewCursor(SomeBase) /\ verdict.why = "none"
        /\ \A c \in Callers : caller[c] = Fresh
    BY DEF Init
  <1> QED
    BY <1>1, NewHistory, FreshRemembers DEF HistoryInv

LEMMA NextHistory == TInv /\ HistoryInv /\ [Next]_vars => HistoryInv'
  <1> SUFFICES ASSUME TInv, HistoryInv, [Next]_vars PROVE HistoryInv'
    OBVIOUS
  <1>1. ASSUME NEW c \in Callers, Step(c) \/ Run(c) \/ Start(c) \/ TakeLock(c) \/ Fails(c) \/ Crash(c)
        PROVE  HistoryInv'
    BY <1>1, HistoryCall, HistoryRead, HistorySync, HistoryInspect, HistoryStage, HistorySettle, HistoryAfter,
       HistoryJudge DEF Step
  <1>2. CASE Moves \/ UNCHANGED vars
    <2>1. UNCHANGED <<file, caller, verdict>>
      BY <1>2 DEF Moves, vars
    <2> QED
      BY <2>1 DEF HistoryInv, Remembers, GoodHistory
  <1> QED
    BY <1>1, <1>2 DEF Next

-----------------------------------------------------------------------------
(* Complete is clear *)

\* What keeps two calls apart: the lock, or that there is one.
Apart == OneAtATime /\ (Bounded => TurnInv)

LEMMA OnlyOne ==
  ASSUME TInv, Apart, NEW c \in Callers, NEW d \in Callers, d # c, caller[c].pc \in Holding
  PROVE  caller[d].pc \notin Holding /\ caller[d].pc \notin InPipeline
  BY Alone DEF Apart, OneAtATime

\* A call that is not in the pipeline, and does not enter it.
LEMMA ClearOutside ==
  ASSUME TInv, ClearInv, NEW c \in Callers, NEW m, Become(c, m), m.pc \notin InPipeline,
         m.pc = "load" => Bounded, UNCHANGED <<tree, stage, verdict>>
  PROVE  ClearInv'
  <1>1. \A d \in Callers : caller'[d] = IF d = c THEN m ELSE caller[d]
    BY Facts
  <1>2. "judge" \in InPipeline
    BY DEF InPipeline
  <1>3. CompleteIsClear'
    BY DEF ClearInv, CompleteIsClear
  <1> QED
    BY <1>1, <1>2, <1>3 DEF ClearInv

\* A call with the pipeline to itself goes on.
LEMMA ClearInside ==
  ASSUME TInv, Apart, ClearInv, NEW c \in Callers, NEW m, Become(c, m),
         caller[c].pc \in Holding, verdict.result = "none", UNCHANGED verdict, m.pc # "load",
         m.pc = "judge" => tree'.local = m.at.known /\ ~tree'.dirty
  PROVE  ClearInv'
  <1>1. \A d \in Callers : caller'[d] = IF d = c THEN m ELSE caller[d]
    BY Facts
  <1>2. "judge" \in InPipeline /\ InPipeline \subseteq Holding
    BY DEF InPipeline, Holding
  <1>3. \A d \in Callers : d # c => caller'[d].pc \notin InPipeline
    BY <1>1, OnlyOne
  <1>4. CompleteIsClear'
    BY DEF CompleteIsClear
  <1> QED
    BY <1>1, <1>2, <1>3, <1>4 DEF ClearInv

\* It leaves with a verdict.
LEMMA ClearLeaves ==
  ASSUME TInv, Apart, ClearInv, NEW c \in Callers, NEW ok, NEW more, Become(c, Leaving(ok, more)),
         caller[c].pc \in Holding, CompleteIsClear'
  PROVE  ClearInv'
  <1>1. Leaving(ok, more).pc \in {"unlock", "idle"}
    BY DEF Leaving, Fresh
  <1>2. PICK m : m = Leaving(ok, more) /\ m.pc \in {"unlock", "idle"}
    BY <1>1
  <1>3. \A d \in Callers : caller'[d] = IF d = c THEN m ELSE caller[d]
    BY <1>2, Facts
  <1>4. "judge" \in InPipeline /\ m.pc \notin InPipeline
    BY <1>2 DEF InPipeline
  <1>5. \A d \in Callers : caller'[d].pc \notin InPipeline
    BY <1>3, <1>4, OnlyOne
  <1>6. \A d \in Callers : caller'[d].pc = "load" => Bounded
    BY <1>2, <1>3 DEF ClearInv
  <1> QED
    BY <1>4, <1>5, <1>6 DEF ClearInv

LEMMA ClearConclude ==
  ASSUME TInv, Apart, ClearInv, NEW c \in Callers, NEW result, NEW why, NEW head,
         Conclude(c, result, why, head), result # "complete", caller[c].pc \in InPipeline
  PROVE  ClearInv'
  <1>1. CompleteIsClear'
    BY DEF Conclude, CompleteIsClear
  <1>2. caller[c].pc \in Holding
    BY DEF Holding
  <1> QED
    BY <1>1, <1>2, ClearLeaves DEF Conclude

LEMMA ClearBlock ==
  ASSUME TInv, Apart, ClearInv, NEW c \in Callers, Block(c), caller[c].pc \in InPipeline
  PROVE  ClearInv'
  BY ClearConclude DEF Block

LEMMA ClearSuspend ==
  ASSUME TInv, Apart, ClearInv, NEW c \in Callers, caller[c].pc \in InPipeline,
         NEW status, NEW cursor, Suspend(c, status, cursor), UNCHANGED verdict
  PROVE  ClearInv'
  <1>1. verdict.result = "none" /\ caller[c].pc \in Holding
    BY DEF ClearInv, Holding
  <1>2. CompleteIsClear'
    BY <1>1 DEF CompleteIsClear
  <1> QED
    BY <1>1, <1>2, ClearLeaves DEF Suspend

LEMMA ClearGoesOn ==
  ASSUME TInv, Apart, ClearInv, NEW c \in Callers, caller[c].pc \in InPipeline, NEW m, Become(c, m),
         m.pc # "load", m.pc = "judge" => tree'.local = m.at.known /\ ~tree'.dirty, UNCHANGED verdict
  PROVE  ClearInv'
  BY ClearInside DEF ClearInv, Holding

LEMMA ClearNextStage ==
  ASSUME TInv, Apart, ClearInv, NEW c \in Callers, caller[c].pc \in InPipeline, NEW at, NextStage(c, at)
  PROVE  ClearInv'
  <1>1. UNCHANGED verdict
    BY DEF NextStage
  <1>2. CASE Bounded
    BY <1>1, <1>2, ClearSuspend DEF NextStage
  <1>3. CASE ~Bounded
    <2>1. PICK d, pc : Become(c, [caller[c] EXCEPT !.at = d, !.pc = pc]) /\ pc \in {"final", "stage"}
      BY <1>3 DEF NextStage
    <2>2. PICK m : m = [caller[c] EXCEPT !.at = d, !.pc = pc]
      OBVIOUS
    <2>3. m.pc = pc
      BY <2>2, Known DEF Memory
    <2> QED
      BY <1>1, <2>1, <2>2, <2>3, ClearGoesOn
  <1> QED
    BY <1>2, <1>3

LEMMA ClearCall ==
  ASSUME TInv, Apart, ClearInv, NEW c \in Callers,
         Run(c) \/ Start(c) \/ TakeLock(c) \/ Unlock(c) \/ Seal(c) \/ Crash(c)
  PROVE  ClearInv'
  <1>1. CASE Run(c)
    <2>1. PICK m : m = [Fresh EXCEPT !.pc = "sweep"] /\ Become(c, m)
      BY <1>1 DEF Run
    <2>2. m.pc = "sweep"
      BY <2>1, FreshTypes DEF Fresh
    <2>3. \A d \in Callers : d = c
      BY <1>1 DEF Run, Apart, OneAtATime
    <2>4. caller'[c] = m /\ UNCHANGED verdict /\ verdict.result = "none"
      BY <1>1, <2>1, Facts DEF Run
    <2> QED
      BY <2>2, <2>3, <2>4 DEF ClearInv, CompleteIsClear
  <1>2. CASE Start(c)
    <2>1. PICK m : m = [Fresh EXCEPT !.pc = "seal", !.more = TRUE] /\ Become(c, m)
      BY <1>2 DEF Start
    <2>2. m.pc = "seal"
      BY <2>1, FreshTypes DEF Fresh
    <2> QED
      BY <1>2, <2>1, <2>2, ClearOutside DEF Start, InPipeline
  <1>3. CASE TakeLock(c) \/ Unlock(c)
    <2>1. PICK m : Become(c, m) /\ m.pc \in {"load", "seal"} /\ (m.pc = "load" => Bounded)
      BY <1>3, GotoTypes DEF TakeLock, Unlock, Working, AtStage, AtEnd, Executing
    <2> QED
      BY <1>3, <2>1, ClearOutside DEF TakeLock, Unlock, InPipeline
  <1>4. CASE Seal(c) \/ Crash(c)
    <2>1. PICK m : Become(c, m) /\ m.pc \in {"idle", "dead"}
      <3>1. PICK k : k = [Fresh EXCEPT !.pc = "dead"]
        OBVIOUS
      <3>2. k.pc = "dead" /\ Fresh.pc = "idle"
        BY <3>1, FreshTypes DEF Fresh
      <3> QED
        BY <1>4, <3>1, <3>2 DEF Seal, Crash
    <2> QED
      BY <1>4, <2>1, ClearOutside DEF Seal, Crash, InPipeline
  <1> QED
    BY <1>1, <1>2, <1>3, <1>4

LEMMA ClearLoad ==
  ASSUME TInv, Apart, ClearInv, NEW c \in Callers, Load(c)
  PROVE  ClearInv'
  <1>1. caller[c].pc = "load" /\ caller[c].pc \in Holding /\ Bounded
    BY DEF Load, Holding, ClearInv
  <1>2. CASE Become(c, Leaving(FALSE, FALSE))
    <2>1. UNCHANGED <<tree, stage>> /\ (UNCHANGED verdict \/ verdict'.result = "error")
      BY DEF Load, TInv, TypeOK
    <2>2. CompleteIsClear'
      BY <2>1 DEF ClearInv, CompleteIsClear
    <2> QED
      BY <1>1, <1>2, <2>2, ClearLeaves
  <1>3. CASE ~Become(c, Leaving(FALSE, FALSE))
    <2>1. /\ file.status \in {"active", "waiting"} /\ FinishedStep /\ UNCHANGED verdict
          /\ Become(c, [caller[c] EXCEPT !.pc = "sweep", !.at = file.cursor])
      BY <1>3 DEF Load
    <2>2. verdict.result = "none"
      BY <1>1, <2>1 DEF Apart, TurnInv, FileAgrees, Going
    <2>3. PICK m, at : at = file.cursor /\ m = [caller[c] EXCEPT !.pc = "sweep", !.at = at]
      OBVIOUS
    <2>4. m.pc = "sweep" /\ Become(c, m)
      BY <2>1, <2>3, Known DEF Memory
    <2> QED
      BY <1>1, <2>1, <2>2, <2>4, ClearInside
  <1> QED
    BY <1>2, <1>3

LEMMA ClearFails ==
  ASSUME TInv, Apart, ClearInv, NEW c \in Callers, Fails(c)
  PROVE  ClearInv'
  <1>1. caller[c].pc \in InPipeline /\ caller[c].pc \in Holding /\ verdict.result = "none"
    BY DEF Fails, Holding, ClearInv
  <1>2. verdict'.result \in {"none", "error"}
    BY <1>1 DEF Fails, TInv, TypeOK
  <1>3. CompleteIsClear'
    BY <1>2 DEF CompleteIsClear
  <1> QED
    BY <1>1, <1>3, ClearLeaves DEF Fails

\* What the end of a sweep is judged by is where the worktree now is.
LEMMA NotesKnown ==
  ASSUME TInv, NEW c \in Callers, NEW head, NEW against, NEW pc, NoteMoves(c, head, against, pc)
  PROVE  \E m : Become(c, m) /\ m.at.known = head /\ m.pc = pc
  <1>1. PICK m, at : m = caller[c] /\ at = m.at
    OBVIOUS
  <1>2. m \in Memory /\ at \in Cursor
    BY <1>1, Known DEF GoodCursor
  <1>3. PICK h, b, hs, bs : /\ h = (at.headChanged \/ head # against)
                            /\ b = (at.baseChanged \/ m.base # at.startBase)
                            /\ hs = at.heads \cup {head} /\ bs = at.bases \cup {m.base}
    OBVIOUS
  <1>4. PICK new : new = [m EXCEPT !.pc = pc, !.at.headChanged = h, !.at.baseChanged = b,
                                   !.at.known = head, !.at.heads = hs, !.at.bases = bs]
    OBVIOUS
  <1>5. new.at.known = head /\ new.pc = pc
    BY <1>1, <1>2, <1>4 DEF Memory, Cursor
  <1>6. Become(c, new)
    BY <1>1, <1>3, <1>4 DEF NoteMoves
  <1> QED
    BY <1>5, <1>6

LEMMA ClearSync ==
  ASSUME TInv, Apart, ClearInv, NEW c \in Callers, Sync(c)
  PROVE  ClearInv'
  <1>1. caller[c].pc \in {"sweep_sync", "stage_sync", "final_sync"} /\ caller[c].pc \in InPipeline
    BY DEF Sync, InPipeline
  <1>2. CASE tree.dirty
    BY <1>1, <1>2, ClearBlock DEF Sync
  <1>3. CASE ~tree.dirty
    <2>1. UNCHANGED verdict /\ tree'.local = pr.head /\ ~tree'.dirty
      BY <1>3 DEF Sync, Checkout, TInv, TypeOK
    <2>2. PICK m : Become(c, m) /\ m.pc # "load" /\ (m.pc = "judge" => m.at.known = pr.head)
      <3>1. CASE caller[c].pc = "sweep_sync"
        <4>1. EnterSweep(c, pr.head) /\ pr.head \in Heads
          BY <1>3, <3>1 DEF Sync, TInv, TypeOK
        <4> QED
          BY <3>1, <4>1, EnterSweepTypes
      <3>2. CASE caller[c].pc = "stage_sync"
        <4>1. NoteMoves(c, pr.head, caller[c].at.known, "inspect")
          BY <1>3, <3>2 DEF Sync
        <4> QED
          BY <4>1, NotesKnown
      <3>3. CASE caller[c].pc = "final_sync"
        <4>1. NoteMoves(c, pr.head, caller[c].at.startHead, "judge")
          BY <1>3, <3>3 DEF Sync
        <4> QED
          BY <4>1, NotesKnown
      <3> QED
        BY <1>1, <3>1, <3>2, <3>3
    <2> QED
      BY <1>1, <2>1, <2>2, ClearGoesOn
  <1> QED
    BY <1>2, <1>3

LEMMA ClearStage ==
  ASSUME TInv, Apart, ClearInv, NEW c \in Callers,
         \/ Read(c) \/ Inspect(c) \/ Launch(c) \/ StageWorks(c) \/ StageStumbles(c) \/ StageWaits(c)
         \/ Settle(c) \/ AfterStage(c)
  PROVE  ClearInv'
  <1>1. caller[c].pc \in InPipeline
    BY DEF Read, Inspect, Launch, StageWorks, StageStumbles, StageWaits, Settle, AfterStage, InPipeline
  <1>2. CASE Read(c)
    BY <1>1, <1>2, ReadMemory, ClearBlock, ClearGoesOn
  <1>3. CASE Inspect(c)
    <2>1. PICK m, at : m = caller[c] /\ at = m.at
      OBVIOUS
    <2>2. PICK pending : \/ Block(c)
                         \/ NextStage(c, at)
                         \/ /\ Become(c, [m EXCEPT !.at.pending = pending, !.pc = "launch"])
                            /\ UNCHANGED verdict
      BY <1>3, <2>1, InspectCases
    <2>3. PICK new : new = [m EXCEPT !.at.pending = pending, !.pc = "launch"]
      OBVIOUS
    <2>4. new.pc = "launch"
      BY <2>1, <2>3, Known DEF Memory
    <2> QED
      BY <1>1, <2>2, <2>3, <2>4, ClearBlock, ClearNextStage, ClearGoesOn
  <1>4. CASE Launch(c)
    <2>1. PICK m : m = [caller[c] EXCEPT !.pc = "running"] /\ Become(c, m) /\ UNCHANGED verdict
      BY <1>4 DEF Launch, Goto
    <2>2. m.pc = "running"
      BY <2>1, Known DEF Memory
    <2> QED
      BY <1>1, <2>1, <2>2, ClearGoesOn
  <1>5. CASE StageWorks(c) \/ StageStumbles(c)
    <2>1. UNCHANGED verdict
      BY <1>5 DEF StageWorks, StageStumbles
    <2> QED
      BY <1>1, <1>5, <2>1, StageMemory, ClearGoesOn
  <1>6. CASE StageWaits(c)
    BY <1>1, <1>6, ClearSuspend DEF StageWaits
  <1>7. CASE Settle(c)
    BY <1>1, <1>7, SettleMemory, ClearBlock, ClearGoesOn
  <1>8. CASE AfterStage(c)
    BY <1>1, <1>8, ClearBlock, ClearNextStage DEF AfterStage
  <1> QED
    BY <1>2, <1>3, <1>4, <1>5, <1>6, <1>7, <1>8

LEMMA ClearJudge ==
  ASSUME TInv, Apart, ClearInv, NEW c \in Callers, Judge(c)
  PROVE  ClearInv'
  <1>1. PICK at, again, base :
          /\ at = caller[c].at /\ base = caller[c].base
          /\ again = [at EXCEPT !.sweep = @ + 1, !.index = 1, !.initialized = FALSE, !.startHead = at.known,
                                !.startBase = caller[c].base, !.headChanged = FALSE, !.baseChanged = FALSE,
                                !.heads = {}, !.bases = {}]
    OBVIOUS
  <1>2. /\ caller[c].pc = "judge" /\ caller[c].pc \in InPipeline /\ caller[c].pc \in Holding
        /\ tree.local = at.known /\ ~tree.dirty /\ tree.local \in Heads
    BY <1>1 DEF Judge, InPipeline, Holding, ClearInv, TInv, TypeOK
  <1>3. CASE /\ \A s \in 1..NumStages : Clear(s, at.known, base)
             /\ Conclude(c, "complete", "none", at.known)
    <2>1. at.known # NoHead
      BY <1>2, PrPipelineAssumption DEF NoHead
    <2>2. verdict' = [result |-> "complete", why |-> "none", head |-> at.known, base |-> base]
      BY <1>1, <1>3, <2>1 DEF Conclude
    <2>3. UNCHANGED <<tree, stage>> /\ verdict'.head = at.known /\ verdict'.base = base
      BY <1>3, <2>2 DEF Conclude
    <2>4. CompleteIsClear'
      BY <1>2, <1>3, <2>3 DEF CompleteIsClear, Clear
    <2> QED
      BY <1>2, <1>3, <2>4, ClearLeaves DEF Conclude
  <1>4. CASE \E why \in {"two_sweeps_finished", "stages_not_clear"} : Conclude(c, "incomplete", why, NoHead)
    BY <1>2, <1>4, ClearConclude
  <1>5. ASSUME IF Bounded THEN Suspend(c, "active", again)
               ELSE Become(c, [caller[c] EXCEPT !.at = again, !.pc = "sweep"]) /\ UNCHANGED <<file, prior>>,
               UNCHANGED verdict
        PROVE  ClearInv'
    <2>1. PICK new : new = [caller[c] EXCEPT !.at = again, !.pc = "sweep"]
      OBVIOUS
    <2>2. new.pc = "sweep"
      BY <2>1, Known DEF Memory
    <2> QED
      BY <1>2, <1>5, <2>1, <2>2, ClearSuspend, ClearGoesOn
  <1> QED
    BY <1>1, <1>3, <1>4, <1>5, JudgeCases

LEMMA InitClear == Init => ClearInv
  BY DEF Init, Fresh, ClearInv, CompleteIsClear, InPipeline

LEMMA NextClear == TInv /\ Apart /\ ClearInv /\ [Next]_vars => ClearInv'
  <1> SUFFICES ASSUME TInv, Apart, ClearInv, [Next]_vars PROVE ClearInv'
    OBVIOUS
  <1>1. ASSUME NEW c \in Callers, Step(c) \/ Run(c) \/ Start(c) \/ TakeLock(c) \/ Fails(c) \/ Crash(c)
        PROVE  ClearInv'
    BY <1>1, ClearCall, ClearLoad, ClearFails, ClearSync, ClearStage, ClearJudge DEF Step
  <1>2. CASE Moves \/ UNCHANGED vars
    <2>1. UNCHANGED <<tree, stage, caller, verdict>>
      BY <1>2 DEF Moves, vars
    <2> QED
      BY <2>1 DEF ClearInv, CompleteIsClear
  <1> QED
    BY <1>1, <1>2 DEF Next

\* On both routes a run ends as "complete" only with a clean worktree at the
\* head every stage is cleared at; the last look, the worktree and the verdict
\* are of the same head, whoever pushes.
THEOREM CompleteRunIsClear ==
  ASSUME OneAtATime
  PROVE  Spec => []CompleteIsClear
  <1>1. Init => TInv /\ Apart /\ ClearInv
    BY InitTypes, InitTurn, InitClear DEF Apart
  <1>2. TInv /\ Apart /\ ClearInv /\ [Next]_vars => TInv' /\ Apart' /\ ClearInv'
    BY NextTypes, NextTurn, NextClear DEF Apart, OneAtATime
  <1>3. ClearInv => CompleteIsClear
    BY DEF ClearInv
  <1> QED
    BY <1>1, <1>2, <1>3, PTL DEF Spec

-----------------------------------------------------------------------------
(* A second sweep is of a change *)

LEMMA TwoRead ==
  ASSUME NEW at, GoodHistory(at), at.initialized
  PROVE  Changed(at) <=> at.headChanged \/ at.baseChanged
  <1>1. ASSUME NEW S, NEW x, x \in S, IsFiniteSet(S) PROVE Cardinality(S) > 1 <=> S # {x}
    <2>1. Cardinality({x}) = 1 /\ IsFiniteSet({x})
      BY FS_Singleton, Zenon
    <2>2. CASE S = {x}
      BY <2>1, <2>2
    <2>3. CASE S # {x}
      <3>1. Cardinality({x}) <= Cardinality(S) /\ (Cardinality({x}) = Cardinality(S) => {x} = S)
        BY <1>1, FS_Subset
      <3>2. Cardinality(S) \in Nat
        BY <1>1, FS_CardinalityType
      <3> QED
        BY <2>1, <2>3, <3>1, <3>2
    <2> QED
      BY <2>2, <2>3
  <1>2. /\ IsFiniteSet(at.heads) /\ IsFiniteSet(at.bases)
        /\ at.startHead \in at.heads /\ at.startBase \in at.bases
        /\ at.headChanged <=> at.heads # {at.startHead}
        /\ at.baseChanged <=> at.bases # {at.startBase}
    BY DEF GoodHistory
  <1>3. Cardinality(at.heads) > 1 <=> at.heads # {at.startHead}
    BY <1>1, <1>2
  <1>4. Cardinality(at.bases) > 1 <=> at.bases # {at.startBase}
    BY <1>1, <1>2
  <1> QED
    BY <1>2, <1>3, <1>4 DEF Changed

\* What SecondSweepIffChanged asks of a step, for one call.
SweepsRightly(c) ==
  caller[c].pc = "judge" =>
    /\ verdict'.why = "stages_not_clear" => ~Changed(caller[c].at)
    /\ SweepsAgain(c) => Changed(caller[c].at) \/ OnlyCiIsStale(caller[c].at.known, caller[c].base)

\* A call that stays, or leaves, without a reason and without more work.
LEMMA NoSweep ==
  ASSUME NEW c \in Callers, verdict'.why # "stages_not_clear", ~caller'[c].more, caller'[c].pc # "sweep"
  PROVE  SweepsRightly(c)
  BY DEF SweepsRightly, SweepsAgain

LEMMA LeavesQuietly ==
  ASSUME TInv, NEW c \in Callers, NEW ok, NEW more, Become(c, Leaving(ok, more))
  PROVE  caller'[c].more = more /\ caller'[c].pc # "sweep"
  <1>1. PICK m, at : /\ m = Leaving(ok, more) /\ at = NewCursor(SomeBase)
                     /\ Fresh = [pc |-> "idle", at |-> at, base |-> SomeBase, ok |-> TRUE, more |-> FALSE]
    BY DEF Fresh
  <1>2. m.more = more /\ m.pc # "sweep"
    BY <1>1 DEF Leaving
  <1> QED
    BY <1>1, <1>2, Facts

LEMMA JudgeSweeps ==
  ASSUME TInv, HistoryInv, ClearInv, NEW c \in Callers, Judge(c)
  PROVE  SweepsRightly(c)
  <1>1. PICK at, again :
          /\ at = caller[c].at
          /\ again = [at EXCEPT !.sweep = @ + 1, !.index = 1, !.initialized = FALSE, !.startHead = at.known,
                                !.startBase = caller[c].base, !.headChanged = FALSE, !.baseChanged = FALSE,
                                !.heads = {}, !.bases = {}]
    OBVIOUS
  <1>2. caller[c].pc = "judge" /\ caller[c].pc \in InPipeline /\ caller[c].pc \in AtEnd
    BY DEF Judge, InPipeline, AtEnd
  <1>3. verdict.why = "none"
    BY <1>2 DEF ClearInv, HistoryInv
  <1>4. Changed(at) <=> at.headChanged \/ at.baseChanged
    <2>1. at.initialized /\ GoodHistory(at)
      BY <1>1, <1>2, Known DEF GoodMemory, HistoryInv, Remembers
    <2> QED
      BY <2>1, TwoRead
  <1>5. ASSUME NEW result, NEW why, NEW head, Conclude(c, result, why, head)
        PROVE  verdict'.why = why /\ ~SweepsAgain(c)
    BY <1>5, LeavesQuietly DEF Conclude, SweepsAgain
  <1>6. CASE Conclude(c, "complete", "none", at.known) \/ Conclude(c, "incomplete", "two_sweeps_finished", NoHead)
    BY <1>5, <1>6 DEF SweepsRightly
  <1>7. CASE ~at.headChanged /\ ~at.baseChanged /\ Conclude(c, "incomplete", "stages_not_clear", NoHead)
    BY <1>1, <1>4, <1>5, <1>7 DEF SweepsRightly
  <1>8. CASE /\ at.headChanged \/ at.baseChanged \/ OnlyCiIsStale(at.known, caller[c].base)
             /\ UNCHANGED verdict
    BY <1>1, <1>3, <1>4, <1>8 DEF SweepsRightly
  <1> QED
    BY <1>1, <1>6, <1>7, <1>8, JudgeCases

LEMMA NextSweeps ==
  ASSUME TInv, Apart, HistoryInv, ClearInv, [Next]_vars, NEW c \in Callers
  PROVE  SweepsRightly(c)
  <1> SUFFICES ASSUME caller[c].pc = "judge" PROVE SweepsRightly(c)
    BY DEF SweepsRightly
  <1>1. /\ caller[c].pc \in InPipeline /\ caller[c].pc \in Holding
        /\ verdict.result = "none" /\ verdict.why = "none" /\ ~caller[c].more
    BY DEF InPipeline, Holding, ClearInv, HistoryInv, Remembers
  <1>2. ASSUME NEW d \in Callers, d # c, Step(d) \/ Run(d) \/ Start(d) \/ TakeLock(d) \/ Fails(d) \/ Crash(d)
        PROVE  SweepsRightly(c)
    <2>1. caller[d].pc \notin Holding
      BY <1>1, <1>2, OnlyOne
    <2>2. Run(d) \/ Start(d) \/ TakeLock(d) \/ Seal(d) \/ Crash(d)
      <3>1. Step(d) => Seal(d)
        BY <2>1 DEF Step, Load, Unlock, Read, Sync, Inspect, Launch, StageWorks, StageStumbles, StageWaits, Settle,
           AfterStage, Judge, Holding, InPipeline
      <3>2. ~Fails(d)
        BY <2>1 DEF Fails, Holding
      <3> QED
        BY <1>2, <3>1, <3>2
    <2>3. UNCHANGED verdict /\ \E m : Become(d, m)
      BY <2>2 DEF Run, Start, TakeLock, Seal, Crash, Goto
    <2>4. caller'[c] = caller[c]
      BY <1>2, <2>3, Facts
    <2> QED
      BY <1>1, <2>3, <2>4, NoSweep
  <1>3. ASSUME Step(c) \/ Run(c) \/ Start(c) \/ TakeLock(c) \/ Fails(c) \/ Crash(c)
        PROVE  SweepsRightly(c)
    <2>1. Judge(c) \/ Fails(c) \/ Crash(c)
      BY <1>3 DEF Step, Load, Unlock, Seal, Read, Sync, Inspect, Launch, StageWorks, StageStumbles, StageWaits, Settle,
         AfterStage, Run, Start, TakeLock
    <2>2. CASE Fails(c)
      <3>1. verdict'.why = "none"
        BY <1>1, <2>2 DEF Fails, TInv, TypeOK
      <3>2. ~caller'[c].more /\ caller'[c].pc # "sweep"
        BY <2>2, LeavesQuietly DEF Fails
      <3> QED
        BY <3>1, <3>2, NoSweep
    <2>3. CASE Crash(c)
      <3>1. PICK m, at : /\ m = [Fresh EXCEPT !.pc = "dead"] /\ Become(c, m)
                         /\ Fresh = [pc |-> "idle", at |-> at, base |-> SomeBase, ok |-> TRUE, more |-> FALSE]
        BY <2>3 DEF Crash, Fresh
      <3>2. m.pc = "dead" /\ ~m.more /\ UNCHANGED verdict
        BY <2>3, <3>1 DEF Crash
      <3>3. caller'[c] = m
        BY <3>1, Facts
      <3> QED
        BY <1>1, <3>2, <3>3, NoSweep
    <2> QED
      BY <2>1, <2>2, <2>3, JudgeSweeps
  <1>4. CASE Moves \/ UNCHANGED vars
    <2>1. UNCHANGED <<caller, verdict>>
      BY <1>4 DEF Moves, vars
    <2> QED
      BY <1>1, <2>1, NoSweep
  <1> QED
    BY <1>2, <1>3, <1>4 DEF Next

\* A run sweeps again when the sweep read more than one head or base, in
\* whichever of its calls, or when CI alone went stale; and it gives up for
\* "stages_not_clear" only on one head and one base.
THEOREM SecondSweepIsOfAChange ==
  ASSUME OneAtATime
  PROVE  Spec => SecondSweepIffChanged
  <1>1. Init => TInv /\ Apart /\ HistoryInv /\ ClearInv
    BY InitTypes, InitTurn, InitHistory, InitClear DEF Apart
  <1>2. TInv /\ Apart /\ HistoryInv /\ ClearInv /\ [Next]_vars => TInv' /\ Apart' /\ HistoryInv' /\ ClearInv'
    BY NextTypes, NextTurn, NextHistory, NextClear DEF Apart, OneAtATime
  <1>3. TInv /\ Apart /\ HistoryInv /\ ClearInv /\ [Next]_vars =>
          [\A c \in Callers : caller[c].pc = "judge" =>
             /\ verdict'.why = "stages_not_clear" => ~Changed(caller[c].at)
             /\ SweepsAgain(c) => Changed(caller[c].at) \/ OnlyCiIsStale(caller[c].at.known, caller[c].base)]_vars
    BY NextSweeps DEF SweepsRightly
  <1> QED
    BY <1>1, <1>2, <1>3, PTL DEF Spec, SecondSweepIffChanged

-----------------------------------------------------------------------------
(* No tip is lost *)

KeepsTip ==
  tree'.local # tree.local /\ (\A c \in Callers : caller[c].pc # "running") =>
    IsAncestor(tree.local, tree'.local) \/ tree.local \in tree'.kept

LEMMA CheckoutKeepsTip ==
  ASSUME TInv, NEW to, Checkout(to)
  PROVE  KeepsTip
  <1>1. tree'.local = to /\ tree'.kept = IF IsAncestor(tree.local, to) THEN tree.kept ELSE tree.kept \cup {tree.local}
    BY DEF Checkout, TInv, TypeOK
  <1> QED
    BY <1>1 DEF KeepsTip

LEMMA NextKeepsTip ==
  ASSUME TInv, [Next]_vars
  PROVE  KeepsTip
  <1>1. ASSUME NEW c \in Callers, Step(c) PROVE KeepsTip
    <2>1. CASE StageWorks(c) \/ StageStumbles(c) \/ StageWaits(c)
      BY <2>1 DEF StageWorks, StageStumbles, StageWaits, KeepsTip
    <2>2. CASE Sync(c)
      BY <2>2, CheckoutKeepsTip DEF Sync, Block, Conclude, KeepsTip
    <2>3. CASE Settle(c)
      BY <2>3, CheckoutKeepsTip DEF Settle, Block, Conclude, KeepsTip
    <2>4. CASE \/ Load(c) \/ Unlock(c) \/ Seal(c) \/ Read(c) \/ Launch(c) \/ AfterStage(c)
      BY <2>4 DEF Load, Unlock, Seal, Read, Launch, AfterStage, Block, Conclude, NextStage, KeepsTip
    <2>5. CASE Inspect(c)
      <3>1. UNCHANGED tree
        BY <2>5, InspectCases DEF Block, Conclude, NextStage
      <3> QED
        BY <3>1 DEF KeepsTip
    <2>6. CASE Judge(c)
      <3>1. UNCHANGED tree
        BY <2>6, JudgeCases DEF Conclude
      <3> QED
        BY <3>1 DEF KeepsTip
    <2> QED
      BY <1>1, <2>1, <2>2, <2>3, <2>4, <2>5, <2>6 DEF Step
  <1>2. ASSUME NEW c \in Callers, Run(c) \/ Start(c) \/ TakeLock(c) \/ Fails(c) \/ Crash(c) PROVE KeepsTip
    BY <1>2 DEF Run, Start, TakeLock, Fails, Crash, KeepsTip
  <1>3. CASE Moves \/ UNCHANGED vars
    BY <1>3 DEF Moves, vars, KeepsTip
  <1> QED
    BY <1>1, <1>2, <1>3 DEF Next

\* Only a stage may leave the worktree anywhere it likes: whenever the pipeline
\* itself moves it, the new tip contains the old one or a recovery ref does.
THEOREM NoTipIsLost == Spec => NoTipLost
  <1>1. TInv /\ [Next]_vars =>
          [tree'.local # tree.local /\ (\A c \in Callers : caller[c].pc # "running")
             => IsAncestor(tree.local, tree'.local) \/ tree.local \in tree'.kept]_vars
    BY NextKeepsTip DEF KeepsTip
  <1> QED
    BY <1>1, InitTypes, NextTypes, PTL DEF Spec, NoTipLost

=============================================================================
