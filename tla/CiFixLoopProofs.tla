--------------------------- MODULE CiFixLoopProofs ---------------------------
(***************************************************************************)
(* Theorems about ci_fix_loop.py: CiFixLoop, for the loop and for the      *)
(* bounded pipeline, any limit of iterations, any number of stable         *)
(* readings, of sweeps and of changes by others; and CiRepair and CiStack, *)
(* instances over the same variables, for every value of their constants.  *)
(***************************************************************************)
EXTENDS CiFixLoop, FiniteSetTheorems, TLAPS

CONSTANTS Checks, Baseline, Guarded, MaxRuns, MaxCommits, N

Classes == {"failed", "passed", "stuck"}
RetryStatuses == {"requesting", "requested", "request_failed", "retry_observed", "completed"}
RunRecord == [class : {"running"} \cup Classes, attempt : Nat, lag : BOOLEAN]
GateRecord == [snap : Snapshot, polls : 0..StabilityPolls]
Request == [sweep : 1..MaxSweeps, snap : Snapshot]
RetryRecord == [head : Seq(Nat), source : Nat, status : RetryStatuses]

Memory == [pc : Working \cup {"idle"}, snap : Snapshot, gate : GateRecord, result : Results \cup {"none"},
           asked : BOOLEAN, advanced : BOOLEAN, lost : BOOLEAN]
File == [task : [status : Statuses, snap : Snapshot], sweep : 1..MaxSweeps, spent : 0..MaxIterations,
         charged : Snapshot, processed : SUBSET Snapshot, retries : SUBSET RetryRecord,
         outcome : {"none", "green", "warning", "escalated"}, pending : {"none", "open", "done"},
         terminal : Results \cup {"none"}, gate : GateRecord]

\* The types in full.
TInv ==
  /\ github \in [head : Seq(Nat), base : Nat, run : RunRecord]
  /\ local \in Seq(Nat)
  /\ hosted \in [active : Nat, file : Answers \cup {"none"}, asked : SUBSET Request, reruns : SUBSET Seq(Nat)]
  /\ state \in File
  /\ proc \in Memory
  /\ budget \in 0..MaxMoves

Free == {"confirm", "task", "clear", "advance", "retry", "post", "posted"}
Asking == {"dispatch", "launch"}
Judging == {"verify", "admit", "import", "push", "confirm_push", "finish", "conclude"}
Cleared == {"green", "warning"}

\* Whose the task is: one at most, none while the last attempt may be followed
\* by another, and its answer is read when it has ended.
Owned ==
  /\ hosted.active # 0 => /\ hosted.active = 1 /\ hosted.file = "none"
                          /\ state.task.status \in {"running", "bounded_pending", "failed"}
                          /\ proc.pc \notin Asking
  /\ proc.pc \in Free => state.task.status \in Supersedable
  /\ proc.pc \in Asking => state.task.status \notin Supersedable /\ hosted.file = "none"
  /\ proc.pc = "launch" => state.task.status = IF Bounded THEN "bounded_pending" ELSE "running"
  /\ proc.pc = "wait" => state.task.status = "running"
  /\ proc.pc = "resume" => state.task.status = "bounded_pending"
  /\ proc.pc \in Judging => state.task.status \notin Supersedable /\ hosted.file # "none"
  /\ proc.pc \in Judging \ {"verify"} => hosted.file # "failed"

\* What the file says of the outcome while something is still to be done.
Unsettled ==
  /\ state.task.status \notin Supersedable => state.outcome \notin Cleared
  /\ state.pending # "none" => /\ Bounded /\ state.task.status \in Supersedable
                               /\ state.outcome \notin Cleared
                               /\ proc.pc \in {"idle", "retry", "post", "posted"}
  /\ Bounded /\ proc.pc \in {"retry", "post", "posted"} => state.pending # "none"
  /\ proc.pc = "advance" /\ proc.result = "rerun" => state.outcome \notin Cleared

\* Every rerun that was asked for has its record.
Recorded ==
  /\ \A head \in hosted.reruns : \E r \in state.retries : r.head = head
  /\ proc.pc = "post" => /\ proc.snap.head \notin hosted.reruns
                         /\ \E r \in state.retries : r.head = proc.snap.head

\* What was seen of the pull request, in the order in which it can be seen: a
\* head is rewritten with a mark of its own, or extended.
Initial(head, later) == Len(head) <= Len(later) /\ \A i \in 1..Len(head) : head[i] = later[i]
Before(a, b) ==
  \/ a.head[1] < b.head[1]
  \/ a.head[1] = b.head[1] /\ Initial(a.head, b.head) /\ a.head # b.head
  \/ /\ a.head = b.head /\ a.base <= b.base /\ a.attempt <= b.attempt
     /\ a.attempt = b.attempt => a.class \in {b.class, "running"}

Seen(snap) == snap.head # <<>>

\* The snapshots that were paid for are in order, and the last is the one in the file.
Ordered ==
  /\ Seen(View) /\ github.head[1] <= MaxMoves - budget + 1
  /\ Seen(state.charged) => Before(state.charged, View)
  /\ \A a \in hosted.asked : /\ a.sweep <= state.sweep
                             /\ a.sweep = state.sweep => /\ Seen(a.snap) /\ Seen(state.charged)
                                                         /\ Before(a.snap, state.charged)
  /\ proc.pc = "confirm" => Gate.snap.class \in Classes
  /\ proc.pc = "task" => /\ Seen(proc.snap) /\ proc.snap.class \in Classes /\ Before(proc.snap, View)
                         /\ Seen(state.charged) => Before(state.charged, proc.snap)
  /\ proc.pc \in Asking => /\ Seen(proc.snap) /\ state.charged = proc.snap
                           /\ [sweep |-> state.sweep, snap |-> proc.snap] \notin hosted.asked

AskedIn(sweep) == {a \in hosted.asked : a.sweep = sweep}

\* What a sweep spent covers what it asked.
Paid ==
  /\ IsFiniteSet(hosted.asked)
  /\ \A sweep \in 1..MaxSweeps : Cardinality(AskedIn(sweep)) <= MaxIterations
  /\ Cardinality(AskedIn(state.sweep)) <= state.spent
  /\ proc.pc \in Asking => Cardinality(AskedIn(state.sweep)) < state.spent

Inv == TInv /\ Owned /\ Unsettled /\ Recorded /\ Ordered /\ Paid
-----------------------------------------------------------------------------
(* What the parts of a step do to the file and to the memory *)

\* What the budget and the record of the reruns rest on.
Kept(s, t) == t.sweep = s.sweep /\ t.spent = s.spent /\ t.charged = s.charged /\ t.retries = s.retries

LEMMA Empty ==
  ASSUME CiFixLoopAssumption
  PROVE  /\ NoSnapshot \in Snapshot /\ ~Seen(NoSnapshot)
         /\ NoGate \in GateRecord
         /\ Resting \in Memory /\ Resting.pc = "idle" /\ Resting.snap = NoSnapshot
         /\ Observing \in Memory /\ Observing.pc = "observe"
         /\ Again \in Memory /\ Again.pc \in {"idle", "observe"}
  <1>1. NoSnapshot \in Snapshot /\ ~Seen(NoSnapshot)
    BY DEF NoSnapshot, Snapshot, Seen
  <1>2. PICK snap : snap = NoSnapshot
    OBVIOUS
  <1>3. 0 \in 0..StabilityPolls
    BY DEF CiFixLoopAssumption
  <1>4. NoGate = [snap |-> snap, polls |-> 0]
    BY <1>2 DEF NoGate
  <1>5. NoGate \in GateRecord
    BY <1>1, <1>2, <1>3, <1>4 DEF GateRecord
  <1>6. PICK gate : gate = NoGate
    OBVIOUS
  <1>7. Resting = [pc |-> "idle", snap |-> snap, gate |-> gate, result |-> "none", asked |-> FALSE,
                   advanced |-> FALSE, lost |-> FALSE]
    BY <1>2, <1>6 DEF Resting
  <1>8. Resting \in Memory /\ Resting.pc = "idle" /\ Resting.snap = NoSnapshot
    BY <1>1, <1>2, <1>5, <1>6, <1>7 DEF Memory
  <1>9. PICK resting : resting = Resting
    OBVIOUS
  <1>10. Observing = [resting EXCEPT !.pc = "observe"]
    BY <1>9 DEF Observing
  <1>11. Observing \in Memory /\ Observing.pc = "observe"
    BY <1>8, <1>9, <1>10 DEF Memory, Working
  <1> QED
    BY <1>1, <1>5, <1>8, <1>11 DEF Again

LEMMA GoneTo ==
  ASSUME NEW m \in Memory, NEW pc \in Working, NEW new, new = [m EXCEPT !.pc = pc]
  PROVE  /\ new \in Memory /\ new.pc = pc /\ new.snap = m.snap /\ new.gate = m.gate /\ new.result = m.result
         /\ new.asked = m.asked /\ new.advanced = m.advanced
  BY DEF Memory

LEMMA ConcludedFacts ==
  ASSUME NEW m \in Memory, NEW result \in Results, NEW asked \in BOOLEAN, NEW new, new = Concluded(m, result, asked)
  PROVE  new \in Memory /\ new.pc = "advance" /\ new.result = result /\ new.snap = m.snap
  BY DEF Memory, Concluded, Working

LEMMA WithFacts ==
  ASSUME NEW s \in File, NEW status \in Statuses, NEW t, t = With(s, status)
  PROVE  /\ t \in File /\ t.task.status = status /\ t.task.snap = s.task.snap /\ Kept(s, t)
         /\ t.outcome = s.outcome /\ t.pending = s.pending /\ t.gate = s.gate /\ t.processed = s.processed
         /\ t.terminal = s.terminal
  <1>1. s.task \in [status : Statuses, snap : Snapshot]
    BY DEF File
  <1>2. PICK task : task = [s.task EXCEPT !.status = status]
    OBVIOUS
  <1>3. task \in [status : Statuses, snap : Snapshot] /\ task.status = status /\ task.snap = s.task.snap
    BY <1>1, <1>2
  <1>4. t = [s EXCEPT !.task = task]
    BY <1>2 DEF With, File
  <1> QED
    BY <1>3, <1>4 DEF File, Kept

LEMMA OutcomeFacts ==
  ASSUME NEW s \in File, NEW outcome \in {"none", "green", "warning", "escalated"}, NEW t,
         t = [s EXCEPT !.outcome = outcome]
  PROVE  /\ t \in File /\ t.task = s.task /\ Kept(s, t) /\ t.outcome = outcome /\ t.pending = s.pending
         /\ t.gate = s.gate
  BY DEF File, Kept

LEMMA FailFacts ==
  ASSUME CiFixLoopAssumption, NEW s \in File, Fail(s)
  PROVE  /\ state' \in File /\ state'.task = s.task /\ Kept(s, state') /\ state'.pending = s.pending
         /\ state'.outcome \in {s.outcome, "escalated"}
         /\ proc' \in Memory /\ proc'.pc = "idle"
  <1>1. proc' \in Memory /\ proc'.pc = "idle"
    BY Empty DEF Fail
  <1>2. state' = s \/ state' = [s EXCEPT !.outcome = "escalated"]
    BY DEF Fail
  <1>3. CASE state' = s
    BY <1>1, <1>3 DEF Kept
  <1>4. CASE state' = [s EXCEPT !.outcome = "escalated"]
    BY <1>1, <1>4, OutcomeFacts
  <1> QED
    BY <1>2, <1>3, <1>4

\* An attempt that ends in an error.
LEMMA FailedFacts ==
  ASSUME CiFixLoopAssumption, TInv, NEW status \in Statuses, Fail(With(state, status))
  PROVE  /\ state' \in File /\ state'.task.status = status /\ Kept(state, state') /\ state'.pending = state.pending
         /\ state'.outcome \in {state.outcome, "escalated"}
         /\ proc' \in Memory /\ proc'.pc = "idle"
  <1>1. PICK t : t = With(state, status)
    OBVIOUS
  <1>2. t \in File /\ t.task.status = status /\ Kept(state, t) /\ t.pending = state.pending /\ t.outcome = state.outcome
    BY <1>1, WithFacts DEF TInv
  <1>3. Fail(t)
    BY <1>1
  <1> QED
    BY <1>2, <1>3, FailFacts DEF Kept

LEMMA FailTaskFacts ==
  ASSUME CiFixLoopAssumption, TInv, FailTask
  PROVE  /\ state' \in File /\ state'.task.status \in {"failed", "failed_after_import", "failed_after_publication"}
         /\ Kept(state, state') /\ state'.pending = state.pending
         /\ state'.outcome \in {state.outcome, "escalated"}
         /\ proc' \in Memory /\ proc'.pc = "idle"
  <1>1. \E status \in {"failed", "failed_after_import", "failed_after_publication"} : Fail(With(state, status))
    BY DEF FailTask
  <1>2. {"failed", "failed_after_import", "failed_after_publication"} \subseteq Statuses
    BY DEF Statuses
  <1> QED
    BY <1>1, <1>2, FailedFacts

LEMMA DiscardFacts ==
  ASSUME TInv, DiscardTask
  PROVE  /\ state' \in File /\ state'.task.status = "completed" /\ Kept(state, state')
         /\ state'.pending = state.pending /\ state'.outcome = "none"
         /\ proc' \in Memory /\ proc'.pc = "advance" /\ proc'.result = "ci_changed"
  <1>1. PICK t : t = With(state, "completed")
    OBVIOUS
  <1>2. t \in File /\ t.task.status = "completed" /\ Kept(state, t) /\ t.pending = state.pending
    BY <1>1, WithFacts DEF TInv, Statuses, Supersedable
  <1>3. state' = [t EXCEPT !.outcome = "none"]
    BY <1>1 DEF DiscardTask
  <1>4. state' \in File /\ state'.task = t.task /\ Kept(t, state') /\ state'.outcome = "none" /\ state'.pending = t.pending
    BY <1>2, <1>3, OutcomeFacts
  <1>5. proc' \in Memory /\ proc'.pc = "advance" /\ proc'.result = "ci_changed"
    BY DEF DiscardTask, TInv, Concluded, Memory, Working, Results
  <1> QED
    BY <1>2, <1>4, <1>5 DEF Kept

\* A step of the process that asks for nothing and confirms nothing.
LEMMA QuietKeeps ==
  ASSUME Inv, UNCHANGED <<github, hosted, budget>>, Kept(state, state'),
         proc'.pc \notin {"post", "task"} \cup Asking, proc'.pc = "confirm" => Gate'.snap.class \in Classes
  PROVE  Recorded' /\ Ordered' /\ Paid'
  <1>1. Recorded'
    BY DEF Inv, Recorded, Kept
  <1>2. View' = View
    BY DEF View
  <1>3. Ordered'
    BY <1>2 DEF Inv, Ordered, Kept
  <1>4. \A sweep : AskedIn(sweep)' = AskedIn(sweep)
    BY DEF AskedIn
  <1>5. Paid'
    BY <1>4 DEF Inv, Paid, Kept
  <1> QED
    BY <1>1, <1>3, <1>5

\* The types after such a step.
LEMMA QuietTypes ==
  ASSUME TInv, UNCHANGED <<github, hosted, budget>>, local' \in Seq(Nat), state' \in File, proc' \in Memory
  PROVE  TInv'
  BY DEF TInv
-----------------------------------------------------------------------------
(* The order of what can be seen *)

LEMMA InitialOrder ==
  ASSUME NEW a \in Seq(Nat), NEW b \in Seq(Nat), NEW c \in Seq(Nat), Initial(a, b)
  PROVE  /\ Initial(a, a)
         /\ Initial(b, c) => Initial(a, c)
         /\ Initial(b, a) => a = b
  <1>1. Initial(a, a)
    BY DEF Initial
  <1>2. ASSUME Initial(b, c) PROVE Initial(a, c)
    BY <1>2 DEF Initial
  <1>3. ASSUME Initial(b, a) PROVE a = b
    <2>1. Len(a) = Len(b) /\ \A i \in 1..Len(a) : a[i] = b[i]
      BY <1>3 DEF Initial
    <2> QED
      BY <2>1
  <1> QED
    BY <1>1, <1>2, <1>3

LEMMA FirstMark ==
  ASSUME NEW snap \in Snapshot, Seen(snap)
  PROVE  snap.head \in Seq(Nat) /\ snap.head[1] \in Nat /\ snap.base \in Nat /\ snap.attempt \in Nat
         /\ 1 \in 1..Len(snap.head)
  BY DEF Snapshot, Seen

LEMMA BeforeItself ==
  ASSUME NEW a \in Snapshot
  PROVE  Before(a, a)
  BY DEF Before, Snapshot

\* Three snapshots, one before the other.
LEMMA BeforeTransitive ==
  ASSUME NEW a \in Snapshot, NEW b \in Snapshot, NEW c \in Snapshot, Seen(a), Seen(b), Seen(c),
         Before(a, b), Before(b, c)
  PROVE  Before(a, c)
  <1> DEFINE k == a.head[1]  l == b.head[1]  m == c.head[1]
  <1>1. k \in Nat /\ l \in Nat /\ m \in Nat
    BY FirstMark
  <1>2. a.head \in Seq(Nat) /\ b.head \in Seq(Nat) /\ c.head \in Seq(Nat)
    BY FirstMark
  <1>3. k <= l /\ l <= m
    BY <1>1 DEF Before
  <1>4. CASE k < l \/ l < m
    <2>1. k < m
      BY <1>1, <1>4, <1>3
    <2> QED
      BY <2>1 DEF Before
  <1>5. CASE k = l /\ l = m
    <2>1. CASE a.head = b.head /\ b.head = c.head
      <3>1. /\ a.base <= b.base /\ a.attempt <= b.attempt /\ (a.attempt = b.attempt => a.class \in {b.class, "running"})
            /\ b.base <= c.base /\ b.attempt <= c.attempt /\ (b.attempt = c.attempt => b.class \in {c.class, "running"})
        BY <1>1, <1>5, <2>1 DEF Before
      <3>2. a.base <= c.base /\ a.attempt <= c.attempt /\ (a.attempt = c.attempt => a.class \in {c.class, "running"})
        BY <3>1, FirstMark
      <3> QED
        BY <2>1, <3>2 DEF Before
    <2>2. CASE a.head = b.head /\ b.head # c.head
      BY <1>1, <1>5, <2>2 DEF Before
    <2>3. CASE a.head # b.head /\ b.head = c.head
      BY <1>1, <1>5, <2>3 DEF Before
    <2>4. CASE a.head # b.head /\ b.head # c.head
      <3>1. Initial(a.head, b.head) /\ Initial(b.head, c.head)
        BY <1>1, <1>5, <2>4 DEF Before
      <3>2. Initial(a.head, c.head)
        BY <1>2, <3>1, InitialOrder
      <3>3. a.head # c.head
        BY <1>2, <2>4, <3>1, InitialOrder
      <3> QED
        BY <1>5, <3>2, <3>3 DEF Before
    <2> QED
      BY <2>1, <2>2, <2>3, <2>4
  <1> QED
    BY <1>1, <1>4, <1>5, <1>3

\* Two snapshots are not before each other.
LEMMA BeforeOnce ==
  ASSUME NEW a \in Snapshot, NEW b \in Snapshot, Seen(a), Seen(b), Before(a, b), Before(b, a)
  PROVE  a = b
  <1>1. a.head[1] \in Nat /\ b.head[1] \in Nat /\ a.head \in Seq(Nat) /\ b.head \in Seq(Nat)
    BY FirstMark
  <1>2. a.head[1] = b.head[1]
    BY <1>1 DEF Before
  <1>3. a.head = b.head
    <2>1. ASSUME a.head # b.head PROVE FALSE
      <3>1. Initial(a.head, b.head) /\ Initial(b.head, a.head)
        BY <1>1, <1>2, <2>1 DEF Before
      <3> QED
        BY <1>1, <2>1, <3>1, InitialOrder
    <2> QED
      BY <2>1
  <1>4. /\ a.base <= b.base /\ a.attempt <= b.attempt /\ (a.attempt = b.attempt => a.class \in {b.class, "running"})
        /\ b.base <= a.base /\ b.attempt <= a.attempt /\ (b.attempt = a.attempt => b.class \in {a.class, "running"})
    BY <1>1, <1>2, <1>3 DEF Before
  <1>5. a.base = b.base /\ a.attempt = b.attempt
    BY <1>4, FirstMark
  <1>6. a.class = b.class
    BY <1>4, <1>5
  <1> QED
    BY <1>3, <1>5, <1>6 DEF Snapshot

LEMMA ViewTyped ==
  ASSUME TInv
  PROVE  /\ View \in Snapshot /\ View.head = github.head /\ View.base = github.base
         /\ View.class = github.run.class /\ View.attempt = github.run.attempt
  BY DEF TInv, View, Snapshot, RunRecord, Classes

\* GitHub moves on, and with it what was seen stays in order.
LEMMA Advances ==
  ASSUME CiFixLoopAssumption, Inv, TInv', UNCHANGED <<hosted, state>>,
         Seen(View'), Before(View, View'), github'.head[1] <= MaxMoves - budget' + 1,
         proc'.snap = proc.snap, proc'.gate = proc.gate, proc'.pc = proc.pc \/ proc'.pc = "confirm_push"
  PROVE  Ordered'
  <1>1. View \in Snapshot /\ View' \in Snapshot /\ state.charged \in Snapshot /\ proc.snap \in Snapshot
    BY DEF Inv, TInv, File, Memory, View, Snapshot, RunRecord, Classes
  <1>2. Seen(View)
    BY DEF Inv, Ordered
  <1>3. Seen(state.charged) => Before(state.charged, View')
    BY <1>1, <1>2, BeforeTransitive DEF Inv, Ordered
  <1>4. proc.pc = "task" => Before(proc.snap, View')
    BY <1>1, <1>2, BeforeTransitive DEF Inv, Ordered
  <1>5. Gate' = Gate
    BY DEF Gate
  <1> QED
    BY <1>3, <1>4, <1>5 DEF Inv, Ordered, Asking
-----------------------------------------------------------------------------
(* The invariant, step by step: up to a confirmed snapshot *)

LEMMA InvTypes ==
  ASSUME Inv
  PROVE  /\ TInv /\ state \in File /\ proc \in Memory /\ github.head \in Seq(Nat) /\ local \in Seq(Nat)
         /\ state.task \in [status : Statuses, snap : Snapshot] /\ state.task.snap \in Snapshot
         /\ proc.snap \in Snapshot /\ state.charged \in Snapshot /\ state.sweep \in 1..MaxSweeps
  BY DEF Inv, TInv, File, Memory

LEMMA InitInv ==
  ASSUME CiFixLoopAssumption, Init
  PROVE  Inv
  <1>1. PICK none, gate : none = NoSnapshot /\ gate = NoGate
    OBVIOUS
  <1>2. none \in Snapshot /\ ~Seen(none) /\ gate \in GateRecord /\ proc \in Memory /\ proc.pc = "idle"
    BY <1>1, Empty DEF Init
  <1>3. state = [task |-> [status |-> "none", snap |-> none], sweep |-> 1, spent |-> 0, charged |-> none,
                 processed |-> {}, retries |-> {}, outcome |-> "none", pending |-> "none", terminal |-> "none",
                 gate |-> gate]
    BY <1>1 DEF Init
  <1>4. state \in File
    BY <1>2, <1>3 DEF File, Statuses, Supersedable, CiFixLoopAssumption
  <1>5. TInv
    BY <1>2, <1>4 DEF Init, TInv, NewRun, RunRecord, Answers, CiFixLoopAssumption
  <1>6. Owned /\ Unsettled /\ Recorded
    BY <1>2, <1>3 DEF Init, Owned, Unsettled, Recorded, Free, Asking, Judging, Supersedable, Cleared
  <1>7. Ordered
    <2>1. View.head = <<1>> /\ github.head[1] = 1 /\ budget = MaxMoves
      BY DEF Init, View
    <2> QED
      BY <1>2, <1>3, <2>1 DEF Init, Ordered, Seen, Asking, CiFixLoopAssumption
  <1>8. Paid
    <2>1. hosted.asked = {} /\ \A sweep : AskedIn(sweep) = {}
      BY DEF Init, AskedIn
    <2> QED
      BY <1>2, <1>3, <2>1, FS_EmptySet DEF Paid, Asking, CiFixLoopAssumption
  <1> QED
    BY <1>5, <1>6, <1>7, <1>8 DEF Inv

LEMMA NewSweepKeeps ==
  ASSUME CiFixLoopAssumption, Inv, NewSweep
  PROVE  Inv'
  <1>1. PICK none, gate : none = NoSnapshot /\ gate = NoGate
    OBVIOUS
  <1>2. none \in Snapshot /\ ~Seen(none) /\ gate \in GateRecord /\ proc' \in Memory /\ proc'.pc = "observe"
    BY <1>1, Empty DEF NewSweep
  <1>3. state' = [state EXCEPT !.sweep = @ + 1, !.spent = 0, !.charged = none, !.processed = {}, !.gate = gate,
                               !.terminal = "none"]
    BY <1>1 DEF NewSweep
  <1>4. /\ state' \in File /\ state'.task = state.task /\ state'.sweep = state.sweep + 1 /\ state'.spent = 0
        /\ state'.charged = none /\ state'.retries = state.retries /\ state'.outcome = state.outcome
        /\ state'.pending = "none" /\ state'.sweep \in 1..MaxSweeps
    <2>1. state.pending = "none" /\ state.sweep + 1 \in 1..MaxSweeps /\ 0 \in 0..MaxIterations
      BY InvTypes DEF NewSweep, CiFixLoopAssumption
    <2> QED
      BY <1>2, <1>3, <2>1, InvTypes DEF File
  <1>5. TInv'
    BY <1>2, <1>4, InvTypes, QuietTypes DEF NewSweep
  <1>6. Owned' /\ Unsettled' /\ Recorded'
    BY <1>2, <1>4 DEF NewSweep, Inv, Owned, Unsettled, Recorded, Free, Asking, Judging
  <1>7. \A a \in hosted.asked : a.sweep < state'.sweep
    BY <1>4, InvTypes DEF Inv, TInv, Ordered, Request
  <1>8. Ordered'
    <2>1. View' = View /\ UNCHANGED <<github, hosted, budget>>
      BY DEF NewSweep, View
    <2>2. \A a \in hosted'.asked : a.sweep <= state'.sweep /\ a.sweep # state'.sweep
      BY <1>7, <2>1, InvTypes, <1>4 DEF Inv, TInv, Request
    <2> QED
      BY <1>2, <1>4, <2>1, <2>2 DEF Inv, Ordered, Asking
  <1>9. Paid'
    <2>1. \A sweep : AskedIn(sweep)' = AskedIn(sweep)
      BY DEF NewSweep, AskedIn
    <2>2. AskedIn(state.sweep)' = {}
      BY <1>7, <1>4, InvTypes DEF NewSweep, AskedIn, Inv, TInv, Request
    <2>3. IsFiniteSet(hosted'.asked) /\ \A sweep \in 1..MaxSweeps : Cardinality(AskedIn(sweep)') <= MaxIterations
      BY <2>1 DEF NewSweep, Inv, Paid
    <2>4. Cardinality(AskedIn(state.sweep))' = 0
      BY <2>2, FS_EmptySet
    <2>5. proc'.pc \notin Asking /\ 0 <= state'.spent
      BY <1>2, <1>4 DEF Asking
    <2> QED
      BY <1>4, <2>3, <2>4, <2>5 DEF Paid
  <1> QED
    BY <1>5, <1>6, <1>8, <1>9 DEF Inv

LEMMA BeginKeeps ==
  ASSUME CiFixLoopAssumption, Inv, Begin
  PROVE  Inv'
  <1>1. PICK resting, snap : resting = Resting /\ snap = state.task.snap
    OBVIOUS
  <1>2. resting \in Memory /\ snap \in Snapshot /\ Observing \in Memory /\ Observing.pc = "observe"
    BY <1>1, Empty, InvTypes
  <1>3. \/ proc' = Observing /\ (~Bounded \/ state.pending = "none")
        \/ proc' = proc /\ proc.pc = "idle"
        \/ proc' = [resting EXCEPT !.pc = "resume", !.snap = snap] /\ state.task.status = "bounded_pending"
        \/ proc' = [resting EXCEPT !.pc = "retry", !.snap = snap] /\ state.pending # "none"
    BY <1>1 DEF Begin
  <1>4. /\ proc' \in Memory
        /\ \/ proc'.pc = "observe" /\ (~Bounded \/ state.pending = "none")
           \/ proc'.pc = "idle"
           \/ proc'.pc = "resume" /\ state.task.status = "bounded_pending"
           \/ proc'.pc = "retry" /\ state.pending # "none"
    BY <1>2, <1>3, InvTypes DEF Memory, Working
  <1>5. TInv'
    BY <1>4, InvTypes, QuietTypes DEF Begin
  <1>6. state.pending # "none" => state.task.status \in Supersedable
    BY DEF Inv, Unsettled
  <1>7. Owned'
    BY <1>4, <1>6 DEF Begin, Inv, Owned, Free, Asking, Judging
  <1>8. Unsettled'
    BY <1>4, <1>6 DEF Begin, Inv, Unsettled, Supersedable
  <1>9. Recorded' /\ Ordered' /\ Paid'
    BY <1>4, QuietKeeps DEF Begin, Kept, Asking
  <1> QED
    BY <1>5, <1>7, <1>8, <1>9 DEF Inv

LEMMA KeepGateFacts ==
  ASSUME CiFixLoopAssumption, Inv, NEW gate \in GateRecord, NEW next \in {"observe", "confirm"}, KeepGate(gate, next)
  PROVE  /\ state' \in File /\ state'.task = state.task /\ Kept(state, state') /\ state'.outcome = state.outcome
         /\ state'.pending = state.pending
         /\ proc' \in Memory /\ proc'.pc \in {"idle", "observe", "confirm"}
         /\ proc'.pc = "confirm" => next = "confirm" /\ Gate' = gate
  <1>1. CASE Bounded
    <2>1. state' = [state EXCEPT !.gate = gate]
      BY <1>1 DEF KeepGate
    <2>2. /\ state' \in File /\ state'.task = state.task /\ Kept(state, state') /\ state'.outcome = state.outcome
          /\ state'.pending = state.pending /\ state'.gate = gate
      BY <2>1, InvTypes DEF File, Kept
    <2>3. CASE next = "observe"
      <3>1. proc' \in Memory /\ proc'.pc = "idle"
        BY <1>1, <2>3, Empty DEF KeepGate
      <3> QED
        BY <2>2, <3>1
    <2>4. CASE next = "confirm"
      <3>1. proc' \in Memory /\ proc'.pc = "confirm"
        BY <1>1, <2>4, InvTypes DEF KeepGate, Memory, Working
      <3> QED
        BY <1>1, <2>2, <2>4, <3>1 DEF Gate
    <2> QED
      BY <2>3, <2>4
  <1>2. CASE ~Bounded
    <2>1. proc' = [proc EXCEPT !.gate = gate, !.pc = next] /\ UNCHANGED state
      BY <1>2 DEF KeepGate
    <2>2. proc' \in Memory /\ proc'.pc = next /\ proc'.gate = gate
      BY <2>1, InvTypes DEF Memory, Working
    <2> QED
      BY <1>2, <2>1, <2>2, InvTypes DEF Gate, Kept
  <1> QED
    BY <1>1, <1>2

\* A reading that is kept, and a checkout that follows the head.
LEMMA KeptGateKeeps ==
  ASSUME CiFixLoopAssumption, Inv, NEW gate \in GateRecord, NEW next \in {"observe", "confirm"}, KeepGate(gate, next),
         next = "confirm" => gate.snap.class \in Classes, proc.pc \in {"observe", "confirm"},
         state.task.status \in Supersedable, local' = github.head, UNCHANGED <<github, hosted, budget>>
  PROVE  Inv'
  <1>1. /\ state' \in File /\ state'.task = state.task /\ Kept(state, state') /\ state'.outcome = state.outcome
        /\ state'.pending = state.pending
        /\ proc' \in Memory /\ proc'.pc \in {"idle", "observe", "confirm"}
        /\ proc'.pc = "confirm" => next = "confirm" /\ Gate' = gate
    BY KeepGateFacts
  <1>2. TInv'
    BY <1>1, InvTypes, QuietTypes
  <1>3. Owned'
    BY <1>1 DEF Inv, Owned, Free, Asking, Judging
  <1>4. Unsettled'
    BY <1>1 DEF Inv, Unsettled
  <1>5. Recorded' /\ Ordered' /\ Paid'
    BY <1>1, QuietKeeps DEF Asking
  <1> QED
    BY <1>2, <1>3, <1>4, <1>5 DEF Inv

LEMMA GateTyped ==
  ASSUME Inv
  PROVE  Gate \in GateRecord /\ Gate.polls \in 0..StabilityPolls
  BY InvTypes DEF Gate, File, Memory, GateRecord

LEMMA ObserveKeeps ==
  ASSUME CiFixLoopAssumption, Inv, Observe
  PROVE  Inv'
  <1>1. PICK view, was : view = View /\ was = Gate
    OBVIOUS
  <1>2. view \in Snapshot /\ was \in GateRecord /\ was.polls \in 0..StabilityPolls
    BY <1>1, GateTyped, ViewTyped, InvTypes
  <1>3. CASE Fail(state) /\ UNCHANGED local
    <2>1. /\ state' \in File /\ state'.task = state.task /\ Kept(state, state') /\ state'.pending = state.pending
          /\ state'.outcome \in {state.outcome, "escalated"}
          /\ proc' \in Memory /\ proc'.pc = "idle"
      BY <1>3, FailFacts, InvTypes
    <2>2. UNCHANGED <<github, hosted, budget>>
      BY DEF Observe
    <2>3. TInv'
      BY <1>3, <2>1, <2>2, InvTypes, QuietTypes
    <2>4. Owned' /\ Unsettled'
      BY <2>1, <2>2 DEF Inv, Owned, Unsettled, Free, Asking, Judging, Cleared
    <2>5. Recorded' /\ Ordered' /\ Paid'
      BY <2>1, <2>2, QuietKeeps DEF Asking
    <2> QED
      BY <2>3, <2>4, <2>5 DEF Inv
  <1>4. CASE ~(Fail(state) /\ UNCHANGED local)
    <2>1. PICK polls : polls = IF was.snap = view THEN was.polls + 1 ELSE 1
      OBVIOUS
    <2>2. PICK gate : gate = [snap |-> view, polls |-> IF polls > StabilityPolls THEN StabilityPolls ELSE polls]
      OBVIOUS
    <2>3. gate \in GateRecord /\ gate.snap = view
      BY <1>2, <2>1, <2>2 DEF GateRecord, CiFixLoopAssumption
    <2>4. /\ state.task.status \in Supersedable /\ local' = github.head /\ proc.pc = "observe"
          /\ UNCHANGED <<github, hosted, budget>>
          /\ IF Eligible(view)
             THEN KeepGate(gate, IF gate.polls = StabilityPolls THEN "confirm" ELSE "observe")
             ELSE KeepGate(IF Bounded THEN gate ELSE NoGate, "observe")
      BY <1>1, <1>4, <2>1, <2>2 DEF Observe
    <2>5. CASE Eligible(view)
      <3>1. gate.snap.class \in Classes
        BY <2>3, <2>5 DEF Eligible, Classes
      <3>2. PICK next \in {"observe", "confirm"} : KeepGate(gate, next)
        BY <2>4, <2>5
      <3> QED
        BY <2>3, <2>4, <3>1, <3>2, KeptGateKeeps
    <2>6. CASE ~Eligible(view)
      <3>1. PICK g \in GateRecord : KeepGate(g, "observe")
        BY <2>3, <2>4, <2>6, Empty
      <3> QED
        BY <2>4, <3>1, KeptGateKeeps
    <2> QED
      BY <2>5, <2>6
  <1> QED
    BY <1>3, <1>4

LEMMA ConfirmKeeps ==
  ASSUME CiFixLoopAssumption, Inv, Confirm
  PROVE  Inv'
  <1>1. PICK view, resting : view = View /\ resting = Resting
    OBVIOUS
  <1>2. /\ view \in Snapshot /\ resting \in Memory /\ proc.pc = "confirm" /\ local' = github.head
        /\ UNCHANGED <<github, hosted, budget>> /\ state.task.status \in Supersedable
    BY <1>1, ViewTyped, Empty, InvTypes DEF Confirm, Inv, Owned, Free
  <1>3. CASE Gate.snap = View
    <2>1. proc' = [resting EXCEPT !.pc = "task", !.snap = view] /\ UNCHANGED state
      BY <1>1, <1>3 DEF Confirm
    <2>2. proc' \in Memory /\ proc'.pc = "task" /\ proc'.snap = view
      BY <1>2, <2>1 DEF Memory, Working
    <2>3. TInv'
      BY <1>2, <2>1, <2>2, InvTypes, QuietTypes
    <2>4. Owned' /\ Unsettled' /\ Recorded'
      BY <1>2, <2>1, <2>2 DEF Inv, Owned, Unsettled, Recorded, Free, Asking, Judging
    <2>5. view.class \in Classes
      BY <1>1, <1>2, <1>3 DEF Inv, Ordered
    <2>6. View' = view /\ Before(view, view)
      BY <1>1, <1>2, BeforeItself DEF View
    <2>7. Ordered'
      BY <1>1, <1>2, <2>1, <2>2, <2>5, <2>6 DEF Inv, Ordered, Asking
    <2>8. Paid'
      <3>1. \A sweep : AskedIn(sweep)' = AskedIn(sweep)
        BY <1>2 DEF AskedIn
      <3> QED
        BY <1>2, <2>1, <2>2, <3>1 DEF Inv, Paid, Asking
    <2> QED
      BY <2>3, <2>4, <2>7, <2>8 DEF Inv
  <1>4. CASE Gate.snap # View
    <2>1. KeepGate(NoGate, "observe") /\ NoGate \in GateRecord
      BY <1>4, Empty DEF Confirm
    <2> QED
      BY <1>2, <2>1, KeptGateKeeps
  <1> QED
    BY <1>3, <1>4
-----------------------------------------------------------------------------
(* The invariant, step by step: an iteration *)

\* The step of a call that leaves GitHub, the hosted tasks and the budget alone.
LEMMA QuietInv ==
  ASSUME Inv, UNCHANGED <<github, hosted, budget>>, local' \in Seq(Nat), state' \in File, proc' \in Memory,
         Kept(state, state'), proc'.pc \notin {"post", "confirm", "task"} \cup Asking, Owned', Unsettled'
  PROVE  Inv'
  BY QuietTypes, QuietKeeps, InvTypes DEF Inv

\* An attempt that ends in an error, and one whose result is discarded.
LEMMA FailedKeeps ==
  ASSUME CiFixLoopAssumption, Inv, UNCHANGED <<github, hosted, budget>>, local' \in Seq(Nat),
         state.task.status \notin Supersedable, hosted.active = 0 \/ state'.task.status = "failed",
         \/ Fail(With(state, "failed"))
         \/ FailTask
  PROVE  Inv'
  <1>1. /\ state' \in File /\ state'.task.status \in {"failed", "failed_after_import", "failed_after_publication"}
        /\ Kept(state, state') /\ state'.pending = state.pending
        /\ state'.outcome \in {state.outcome, "escalated"}
        /\ proc' \in Memory /\ proc'.pc = "idle"
    BY FailTaskFacts, FailedFacts, InvTypes DEF Statuses
  <1>2. Owned' /\ Unsettled'
    BY <1>1 DEF Inv, Owned, Unsettled, Free, Asking, Judging, Supersedable, Cleared
  <1> QED
    BY <1>1, <1>2, QuietInv DEF Asking

LEMMA DiscardKeeps ==
  ASSUME CiFixLoopAssumption, Inv, UNCHANGED <<github, local, hosted, budget>>,
         state.task.status \notin Supersedable, hosted.active = 0, DiscardTask
  PROVE  Inv'
  <1>1. /\ state' \in File /\ state'.task.status = "completed" /\ Kept(state, state')
        /\ state'.pending = state.pending /\ state'.outcome = "none"
        /\ proc' \in Memory /\ proc'.pc = "advance" /\ proc'.result = "ci_changed"
    BY DiscardFacts, InvTypes
  <1>2. Owned' /\ Unsettled'
    BY <1>1 DEF Inv, Owned, Unsettled, Free, Asking, Judging, Supersedable, Cleared
  <1> QED
    BY <1>1, <1>2, InvTypes, QuietInv DEF Asking

LEMMA PrepareKeeps ==
  ASSUME CiFixLoopAssumption, Inv, Prepare, proc.pc = "task", ~Exhausted, ~Charged(proc.snap),
         UNCHANGED <<github, local, budget>>
  PROVE  Inv'
  <1>1. PICK snap, task : snap = proc.snap /\ task = [status |-> "preparing", snap |-> snap]
    OBVIOUS
  <1>2. task \in [status : Statuses, snap : Snapshot] /\ snap \in Snapshot /\ task.status = "preparing"
    BY <1>1, InvTypes DEF Statuses
  <1>3. state' = [state EXCEPT !.task = task, !.outcome = "none", !.spent = @ + 1, !.charged = snap]
    BY <1>1 DEF Prepare
  <1>4. state.spent + 1 \in 0..MaxIterations
    BY InvTypes DEF Exhausted, File, CiFixLoopAssumption
  <1>5. /\ state' \in File /\ state'.task = task /\ state'.outcome = "none" /\ state'.spent = state.spent + 1
        /\ state'.charged = snap /\ state'.sweep = state.sweep /\ state'.retries = state.retries
        /\ state'.pending = state.pending
    BY <1>2, <1>3, <1>4, InvTypes DEF File
  <1>6. proc' \in Memory /\ proc'.pc = "dispatch" /\ proc'.snap = snap
    BY <1>1, GoneTo, InvTypes DEF Prepare, Goto, Working
  <1>7. hosted' = [hosted EXCEPT !.file = "none"]
    BY DEF Prepare
  <1>8. /\ hosted' \in [active : Nat, file : Answers \cup {"none"}, asked : SUBSET Request, reruns : SUBSET Seq(Nat)]
        /\ hosted'.active = hosted.active /\ hosted'.asked = hosted.asked /\ hosted'.reruns = hosted.reruns
        /\ hosted'.file = "none"
    BY <1>7, InvTypes DEF TInv
  <1>9. TInv'
    BY <1>5, <1>6, <1>8, InvTypes DEF TInv
  <1>10. state.task.status \in Supersedable /\ hosted.active = 0 /\ state.pending = "none"
    BY DEF Inv, Owned, Free, Unsettled, Supersedable
  <1>11. Owned' /\ Unsettled' /\ Recorded'
    BY <1>2, <1>5, <1>6, <1>8, <1>10 DEF Inv, Owned, Unsettled, Recorded, Free, Asking, Judging, Supersedable, Cleared
  <1>12. View' = View /\ View \in Snapshot /\ Seen(snap) /\ Before(snap, View)
    BY <1>1, ViewTyped, InvTypes DEF View, Inv, Ordered
  <1>13. \A a \in hosted.asked : a.sweep = state.sweep => Seen(a.snap) /\ Before(a.snap, snap) /\ a.snap # snap
    <2> SUFFICES ASSUME NEW a \in hosted.asked, a.sweep = state.sweep
                 PROVE  Seen(a.snap) /\ Before(a.snap, snap) /\ a.snap # snap
      OBVIOUS
    <2>1. a.snap \in Snapshot /\ state.charged \in Snapshot
      BY InvTypes DEF TInv, Request
    <2>2. Seen(a.snap) /\ Seen(state.charged) /\ Before(a.snap, state.charged) /\ Before(state.charged, snap)
      BY <1>1 DEF Inv, Ordered
    <2>3. Before(a.snap, snap)
      BY <1>2, <1>12, <2>1, <2>2, BeforeTransitive
    <2>4. a.snap # snap
      BY <1>1, <1>2, <1>12, <2>1, <2>2, BeforeOnce DEF Charged
    <2> QED
      BY <2>2, <2>3, <2>4
  <1>14. [sweep |-> state.sweep, snap |-> snap] \notin hosted.asked
    BY <1>13
  <1>15. Ordered'
    BY <1>5, <1>6, <1>8, <1>12, <1>13, <1>14 DEF Inv, Ordered, Asking
  <1>16. Paid'
    <2>1. \A sweep : AskedIn(sweep)' = AskedIn(sweep)
      BY <1>8 DEF AskedIn
    <2>2. state.spent \in Nat /\ Cardinality(AskedIn(state.sweep)) <= state.spent
          /\ Cardinality(AskedIn(state.sweep)) \in Nat
      <3>1. IsFiniteSet(hosted.asked) /\ AskedIn(state.sweep) \subseteq hosted.asked
        BY DEF Inv, Paid, AskedIn
      <3> QED
        BY <3>1, FS_Subset, FS_CardinalityType, InvTypes DEF Inv, Paid, File
    <2>3. Cardinality(AskedIn(state.sweep)') < state'.spent
      BY <1>5, <2>1, <2>2
    <2> QED
      BY <1>5, <1>8, <2>1, <2>2, <2>3 DEF Inv, Paid
  <1> QED
    BY <1>9, <1>11, <1>15, <1>16 DEF Inv

LEMMA TaskKeeps ==
  ASSUME CiFixLoopAssumption, Inv, Task
  PROVE  Inv'
  <1>1. proc.pc = "task" /\ UNCHANGED <<github, local, budget>> /\ proc \in Memory /\ local' \in Seq(Nat)
        /\ state.task.status \in Supersedable /\ state.pending = "none" /\ hosted.active = 0
    BY InvTypes DEF Task, Inv, Owned, Unsettled, Free, Supersedable
  <1>2. CASE \E result \in {"ci_changed", "snapshot_already_processed"} :
               proc' = Concluded(proc, result, FALSE) /\ UNCHANGED <<state, hosted>>
    <2>1. PICK result \in {"ci_changed", "snapshot_already_processed"} :
            proc' = Concluded(proc, result, FALSE) /\ UNCHANGED <<state, hosted>>
      BY <1>2
    <2>2. proc' \in Memory /\ proc'.pc = "advance" /\ proc'.result # "rerun"
      BY <1>1, <2>1 DEF Concluded, Memory, Working, Results
    <2>3. Owned' /\ Unsettled'
      BY <1>1, <2>1, <2>2 DEF Inv, Owned, Unsettled, Free, Asking, Judging
    <2> QED
      BY <1>1, <2>1, <2>2, <2>3, InvTypes, QuietInv DEF Kept, Asking
  <1>3. CASE Goto("clear") /\ UNCHANGED <<state, hosted>>
    <2>1. proc' \in Memory /\ proc'.pc = "clear"
      BY <1>1, <1>3, GoneTo DEF Goto, Working
    <2>2. Owned' /\ Unsettled'
      BY <1>1, <1>3, <2>1 DEF Inv, Owned, Unsettled, Free, Asking, Judging
    <2> QED
      BY <1>1, <1>3, <2>1, <2>2, InvTypes, QuietInv DEF Kept, Asking
  <1>4. CASE /\ state' = [state EXCEPT !.outcome = "escalated"] /\ UNCHANGED hosted
             /\ \E result \in {"escalate", "max_iterations_reached"} : proc' = Concluded(proc, result, FALSE)
    <2>1. /\ state' \in File /\ state'.task = state.task /\ Kept(state, state') /\ state'.outcome = "escalated"
          /\ state'.pending = state.pending
      BY <1>4, OutcomeFacts, InvTypes
    <2>2. PICK result \in {"escalate", "max_iterations_reached"} : proc' = Concluded(proc, result, FALSE)
      BY <1>4
    <2>3. proc' \in Memory /\ proc'.pc = "advance" /\ proc'.result # "rerun"
      BY <1>1, <2>2 DEF Concluded, Memory, Working, Results
    <2>4. Owned' /\ Unsettled'
      BY <1>1, <1>4, <2>1, <2>3 DEF Inv, Owned, Unsettled, Free, Asking, Judging
    <2> QED
      BY <1>1, <1>4, <2>1, <2>3, <2>4, QuietInv DEF Asking
  <1>5. CASE Prepare /\ ~Exhausted /\ ~Charged(proc.snap)
    BY <1>1, <1>5, PrepareKeeps
  <1>6. proc.snap.class \in Classes
    BY <1>1 DEF Inv, Ordered
  <1>7. CASE LiveMatches(proc.snap)
    <2>1. Decide
      BY <1>7 DEF Task
    <2>2. CASE proc.snap.class = "passed"
      BY <1>3, <2>1, <2>2 DEF Decide
    <2>3. CASE proc.snap.class = "stuck" \/ (proc.snap.class = "failed" /\ Exhausted)
      <3>1. /\ state' = [state EXCEPT !.outcome = "escalated"] /\ UNCHANGED hosted
            /\ proc' = Concluded(proc, IF proc.snap.class = "stuck" THEN "escalate" ELSE "max_iterations_reached", FALSE)
        BY <2>1, <2>3 DEF Decide
      <3>2. \E result \in {"escalate", "max_iterations_reached"} : proc' = Concluded(proc, result, FALSE)
        BY <3>1
      <3> QED
        BY <1>4, <3>1, <3>2
    <2>4. CASE proc.snap.class = "failed" /\ ~Exhausted
      BY <1>2, <1>5, <2>1, <2>4 DEF Decide
    <2> QED
      BY <1>6, <2>2, <2>3, <2>4 DEF Classes
  <1>8. CASE ~LiveMatches(proc.snap)
    BY <1>2, <1>8 DEF Task
  <1> QED
    BY <1>7, <1>8

LEMMA ClearKeeps ==
  ASSUME CiFixLoopAssumption, Inv, Clear
  PROVE  Inv'
  <1>1. proc.pc = "clear" /\ UNCHANGED <<github, local, hosted, budget>> /\ local' \in Seq(Nat)
        /\ state.task.status \in Supersedable /\ state.pending = "none" /\ hosted.active = 0
    BY InvTypes DEF Clear, Inv, Owned, Unsettled, Free, Supersedable
  <1>2. /\ state' \in File /\ state'.task = state.task /\ Kept(state, state') /\ state'.pending = state.pending
        /\ proc' \in Memory /\ proc'.pc \in {"advance", "idle"} /\ (proc'.pc = "advance" => proc'.result = "green")
    <2>1. CASE Fail(state)
      BY <2>1, FailFacts, InvTypes
    <2>2. CASE state' = [state EXCEPT !.outcome = "green"] /\ proc' = Concluded(proc, "green", FALSE)
      <3>1. proc' \in Memory /\ proc'.pc = "advance" /\ proc'.result = "green"
        BY <2>2, InvTypes DEF Concluded, Memory, Working, Results
      <3>2. /\ state' \in File /\ state'.task = state.task /\ Kept(state, state') /\ state'.pending = state.pending
        BY <2>2, OutcomeFacts, InvTypes
      <3> QED
        BY <3>1, <3>2
    <2> QED
      BY <2>1, <2>2 DEF Clear
  <1>3. Owned' /\ Unsettled'
    BY <1>1, <1>2 DEF Inv, Owned, Unsettled, Free, Asking, Judging
  <1> QED
    BY <1>1, <1>2, <1>3, QuietInv DEF Asking

LEMMA DispatchKeeps ==
  ASSUME CiFixLoopAssumption, Inv, Dispatch
  PROVE  Inv'
  <1>1. proc.pc = "dispatch" /\ UNCHANGED <<github, local, hosted, budget>> /\ local' \in Seq(Nat)
        /\ state.task.status \notin Supersedable /\ hosted.active = 0 /\ hosted.file = "none"
    BY InvTypes DEF Dispatch, Inv, Owned, Asking
  <1>2. CASE Fail(With(state, "failed"))
    BY <1>1, <1>2, FailedKeeps
  <1>3. CASE state' = With(state, IF Bounded THEN "bounded_pending" ELSE "running") /\ Goto("launch")
    <2>1. PICK status \in {"bounded_pending", "running"} :
            status = (IF Bounded THEN "bounded_pending" ELSE "running") /\ state' = With(state, status)
      BY <1>3
    <2>2. /\ state' \in File /\ state'.task.status = status /\ Kept(state, state') /\ state'.outcome = state.outcome
          /\ state'.pending = state.pending
      BY <2>1, WithFacts, InvTypes DEF Statuses
    <2>3. proc' \in Memory /\ proc'.pc = "launch" /\ proc'.snap = proc.snap
      BY <1>3, GoneTo, InvTypes DEF Goto, Working
    <2>4. TInv'
      BY <1>1, <2>2, <2>3, InvTypes, QuietTypes
    <2>5. Owned' /\ Unsettled' /\ Recorded'
      BY <1>1, <2>1, <2>2, <2>3 DEF Inv, Owned, Unsettled, Recorded, Free, Asking, Judging, Supersedable, Kept
    <2>6. View' = View
      BY <1>1 DEF View
    <2>7. Ordered'
      BY <1>1, <2>2, <2>3, <2>6 DEF Inv, Ordered, Asking, Kept
    <2>8. \A sweep : AskedIn(sweep)' = AskedIn(sweep)
      BY <1>1 DEF AskedIn
    <2>9. Paid'
      BY <1>1, <2>2, <2>3, <2>8 DEF Inv, Paid, Asking, Kept
    <2> QED
      BY <2>4, <2>5, <2>7, <2>9 DEF Inv
  <1> QED
    BY <1>2, <1>3 DEF Dispatch

LEMMA LaunchKeeps ==
  ASSUME CiFixLoopAssumption, Inv, Launch
  PROVE  Inv'
  <1>1. /\ proc.pc = "launch" /\ UNCHANGED <<github, local, budget>> /\ local' \in Seq(Nat)
        /\ state.task.status = (IF Bounded THEN "bounded_pending" ELSE "running")
        /\ state.task.status \notin Supersedable /\ hosted.active = 0 /\ hosted.file = "none"
    BY InvTypes DEF Launch, Inv, Owned, Asking, Supersedable
  <1>2. PICK request : request = [sweep |-> state.sweep, snap |-> proc.snap]
    OBVIOUS
  <1>3. request \in Request /\ request \notin hosted.asked /\ request.sweep = state.sweep /\ request.snap = state.charged
    BY <1>1, <1>2, InvTypes DEF Request, Inv, Ordered, Asking
  <1>4. \/ hosted' = hosted /\ Fail(With(state, "failed"))
        \/ /\ hosted' = [hosted EXCEPT !.active = @ + 1, !.asked = @ \cup {request}]
           /\ \/ Fail(With(state, "failed"))
              \/ Bounded /\ proc' = Resting /\ UNCHANGED state
              \/ ~Bounded /\ Goto("wait") /\ UNCHANGED state
    BY <1>2 DEF Launch, Goto
  <1>5. CASE hosted' = hosted /\ Fail(With(state, "failed"))
    BY <1>1, <1>5, FailedKeeps
  <1>6. CASE /\ hosted' = [hosted EXCEPT !.active = @ + 1, !.asked = @ \cup {request}]
             /\ \/ Fail(With(state, "failed"))
                \/ Bounded /\ proc' = Resting /\ UNCHANGED state
                \/ ~Bounded /\ Goto("wait") /\ UNCHANGED state
    <2>1. /\ state' \in File /\ proc' \in Memory /\ Kept(state, state') /\ state'.pending = state.pending
          /\ state'.outcome \in {state.outcome, "escalated"} /\ state'.task.status \notin Supersedable
          /\ \/ proc'.pc = "idle" /\ state'.task.status \in {"failed", "bounded_pending"}
             \/ proc'.pc = "wait" /\ state'.task.status = "running"
      <3>1. CASE Fail(With(state, "failed"))
        BY <3>1, FailedFacts, InvTypes DEF Statuses, Supersedable
      <3>2. CASE Bounded /\ proc' = Resting /\ UNCHANGED state
        BY <1>1, <3>2, Empty, InvTypes DEF Kept
      <3>3. CASE ~Bounded /\ Goto("wait") /\ UNCHANGED state
        <4>1. proc' \in Memory /\ proc'.pc = "wait"
          BY <3>3, GoneTo, InvTypes DEF Goto, Working
        <4> QED
          BY <1>1, <3>3, <4>1, InvTypes DEF Kept
      <3> QED
        BY <1>6, <3>1, <3>2, <3>3
    <2>2. /\ hosted' \in [active : Nat, file : Answers \cup {"none"}, asked : SUBSET Request, reruns : SUBSET Seq(Nat)]
          /\ hosted'.active = 1 /\ hosted'.asked = hosted.asked \cup {request} /\ hosted'.reruns = hosted.reruns
          /\ hosted'.file = "none"
      <3>1. PICK asked, active : asked = hosted.asked \cup {request} /\ active = hosted.active + 1
        OBVIOUS
      <3>2. hosted' = [hosted EXCEPT !.active = active, !.asked = asked]
        BY <1>6, <3>1, InvTypes DEF TInv
      <3>3. hosted \in [active : Nat, file : Answers \cup {"none"}, asked : SUBSET Request, reruns : SUBSET Seq(Nat)]
            /\ asked \in SUBSET Request /\ active = 1 /\ active \in Nat
        BY <1>1, <1>3, <3>1, InvTypes DEF TInv
      <3> QED
        BY <1>1, <3>1, <3>2, <3>3
    <2>3. TInv'
      BY <1>1, <2>1, <2>2, InvTypes DEF TInv
    <2>4. Owned' /\ Unsettled' /\ Recorded'
      BY <1>1, <2>1, <2>2 DEF Inv, Owned, Unsettled, Recorded, Free, Asking, Judging, Cleared, Kept
    <2>5. View' = View /\ Seen(request.snap) /\ Before(request.snap, state.charged)
      BY <1>1, <1>3, BeforeItself, InvTypes DEF View, Inv, Ordered, Asking
    <2>6. Ordered'
      <3>1. Seen(state.charged) /\ state.sweep <= state.sweep
        BY <1>3, <2>5, InvTypes DEF CiFixLoopAssumption
      <3>2. \A a \in hosted'.asked : /\ a.sweep <= state.sweep
                                     /\ a.sweep = state.sweep => Seen(a.snap) /\ Before(a.snap, state.charged)
        BY <1>3, <2>2, <2>5, <3>1 DEF Inv, Ordered
      <3> QED
        BY <1>1, <2>1, <2>5, <3>1, <3>2 DEF Inv, Ordered, Asking, Kept
    <2>7. Paid'
      <3>1. /\ IsFiniteSet(hosted.asked) /\ Cardinality(AskedIn(state.sweep)) < state.spent
            /\ state.spent \in 0..MaxIterations /\ \A sweep \in 1..MaxSweeps : Cardinality(AskedIn(sweep)) <= MaxIterations
        BY <1>1, InvTypes DEF Inv, Paid, Asking, File
      <3>2. IsFiniteSet(hosted'.asked)
        <4>1. IsFiniteSet(hosted.asked \cup {request})
          BY <3>1, FS_AddElement
        <4> QED
          BY <2>2, <4>1
      <3>3. \A sweep : sweep # state.sweep => AskedIn(sweep)' = AskedIn(sweep)
        BY <1>3, <2>2 DEF AskedIn
      <3>4. AskedIn(state.sweep)' = AskedIn(state.sweep) \cup {request}
        BY <1>3, <2>1, <2>2 DEF AskedIn, Kept
      <3>5. IsFiniteSet(AskedIn(state.sweep)) /\ request \notin AskedIn(state.sweep)
        BY <1>3, <3>1, FS_Subset DEF AskedIn
      <3>6. Cardinality(AskedIn(state.sweep)') = Cardinality(AskedIn(state.sweep)) + 1
            /\ Cardinality(AskedIn(state.sweep)) \in Nat
        BY <3>4, <3>5, FS_AddElement, FS_CardinalityType
      <3>7. Cardinality(AskedIn(state.sweep)') <= state.spent /\ Cardinality(AskedIn(state.sweep)') <= MaxIterations
        BY <3>1, <3>6 DEF CiFixLoopAssumption
      <3>8. \A sweep \in 1..MaxSweeps : Cardinality(AskedIn(sweep)') <= MaxIterations
        <4> TAKE sweep \in 1..MaxSweeps
        <4>1. CASE sweep = state.sweep
          <5>1. AskedIn(sweep)' = AskedIn(state.sweep)'
            BY <2>1, <4>1 DEF AskedIn, Kept
          <5> QED
            BY <3>7, <5>1
        <4>2. CASE sweep # state.sweep
          BY <3>1, <3>3, <4>2
        <4> QED
          BY <4>1, <4>2
      <3>9. proc'.pc \notin Asking
        BY <2>1 DEF Asking
      <3> QED
        BY <2>1, <3>2, <3>7, <3>8, <3>9 DEF Paid, Kept
    <2> QED
      BY <2>3, <2>4, <2>6, <2>7 DEF Inv
  <1> QED
    BY <1>4, <1>5, <1>6

LEMMA WaitKeeps ==
  ASSUME CiFixLoopAssumption, Inv, Wait \/ Resume
  PROVE  Inv'
  <1>1. /\ UNCHANGED <<github, local, hosted, budget>> /\ local' \in Seq(Nat)
        /\ state.task.status \in {"running", "bounded_pending"} /\ state.task.status \notin Supersedable
    BY InvTypes DEF Wait, Resume, Inv, Owned, Supersedable
  <1>2. CASE Fail(With(state, "failed"))
    <2>1. state'.task.status = "failed"
      BY <1>2, FailedFacts, InvTypes DEF Statuses
    <2> QED
      BY <1>1, <1>2, <2>1, FailedKeeps
  <1>3. CASE hosted.file # "none" /\ Goto("verify") /\ UNCHANGED state
    <2>1. proc' \in Memory /\ proc'.pc = "verify"
      BY <1>3, GoneTo, InvTypes DEF Goto, Working
    <2>2. Owned' /\ Unsettled'
      BY <1>1, <1>3, <2>1 DEF Inv, Owned, Unsettled, Free, Asking, Judging, Supersedable
    <2> QED
      BY <1>1, <1>3, <2>1, <2>2, InvTypes, QuietInv DEF Asking, Kept
  <1>4. CASE proc' = Resting /\ UNCHANGED state
    <2>1. proc' \in Memory /\ proc'.pc = "idle"
      BY <1>4, Empty
    <2>2. Owned' /\ Unsettled'
      BY <1>1, <1>4, <2>1 DEF Inv, Owned, Unsettled, Free, Asking, Judging, Supersedable
    <2> QED
      BY <1>1, <1>4, <2>1, <2>2, InvTypes, QuietInv DEF Asking, Kept
  <1> QED
    BY <1>2, <1>3, <1>4 DEF Wait, Resume

-----------------------------------------------------------------------------
(* The invariant, step by step: what the hosted task made *)

LEMMA JudgingFacts ==
  ASSUME Inv, proc.pc \in Judging
  PROVE  /\ state.task.status \notin Supersedable /\ hosted.file # "none" /\ hosted.active = 0
         /\ state.pending = "none" /\ state.outcome \notin Cleared
         /\ proc.pc # "verify" => hosted.file # "failed"
  BY DEF Inv, Owned, Unsettled, Judging, Asking

\* A step from one judgement to the next, under a status that is ours.
LEMMA JudgedKeeps ==
  ASSUME CiFixLoopAssumption, Inv, proc.pc \in Judging, UNCHANGED <<github, hosted, budget>>, local' \in Seq(Nat),
         state' \in File, Kept(state, state'), state'.task.status \notin Supersedable, state'.pending = state.pending,
         state'.outcome = state.outcome, proc' \in Memory, proc'.pc \in Judging \ {"verify"}, hosted.file # "failed"
  PROVE  Inv'
  <1>1. Owned' /\ Unsettled'
    BY JudgingFacts DEF Owned, Unsettled, Free, Asking, Judging
  <1> QED
    BY <1>1, QuietInv DEF Judging, Asking

\* The file as With leaves it.
LEMMA JudgedFacts ==
  ASSUME Inv, NEW status \in Statuses \ Supersedable, state' = With(state, status)
  PROVE  /\ state' \in File /\ Kept(state, state') /\ state'.task.status \notin Supersedable
         /\ state'.pending = state.pending /\ state'.outcome = state.outcome
  BY WithFacts, InvTypes

LEMMA VerifyKeeps ==
  ASSUME CiFixLoopAssumption, Inv, Verify
  PROVE  Inv'
  <1>1. proc.pc \in Judging /\ UNCHANGED <<github, local, hosted, budget>> /\ local' \in Seq(Nat)
    BY InvTypes DEF Verify, Judging
  <1>2. CASE hosted.file = "failed"
    BY <1>1, <1>2, JudgingFacts, FailedKeeps DEF Verify
  <1>3. CASE hosted.file # "failed"
    <2>1. proc' \in Memory /\ proc'.pc = "admit" /\ UNCHANGED state
      BY <1>3, GoneTo, InvTypes DEF Verify, Goto, Working
    <2> QED
      BY <1>1, <1>3, <2>1, JudgingFacts, InvTypes, JudgedKeeps DEF Judging, Kept
  <1> QED
    BY <1>2, <1>3

LEMMA AdmitKeeps ==
  ASSUME CiFixLoopAssumption, Inv, Admit
  PROVE  Inv'
  <1>1. proc.pc \in Judging /\ UNCHANGED <<github, local, hosted, budget>> /\ local' \in Seq(Nat)
        /\ hosted.file # "failed"
    BY InvTypes, JudgingFacts DEF Admit, Judging
  <1>2. CASE FailTask
    BY <1>1, <1>2, JudgingFacts, FailedKeeps
  <1>3. CASE DiscardTask
    BY <1>1, <1>3, JudgingFacts, DiscardKeeps
  <1>4. CASE /\ state' = [With(state, "superseded") EXCEPT !.outcome = "none"]
             /\ proc' = Concluded(proc, "source_changed", TRUE)
    <2>1. PICK t : t = With(state, "superseded")
      OBVIOUS
    <2>2. t \in File /\ t.task.status = "superseded" /\ Kept(state, t) /\ t.pending = state.pending
      BY <2>1, WithFacts, InvTypes DEF Statuses, Supersedable
    <2>3. /\ state' \in File /\ state'.task = t.task /\ Kept(t, state') /\ state'.outcome = "none"
          /\ state'.pending = t.pending
      BY <1>4, <2>1, <2>2, OutcomeFacts
    <2>4. proc' \in Memory /\ proc'.pc = "advance" /\ proc'.result = "source_changed"
      BY <1>4, InvTypes DEF Concluded, Memory, Working, Results
    <2>5. Owned' /\ Unsettled'
      BY <1>1, <2>2, <2>3, <2>4, JudgingFacts DEF Owned, Unsettled, Free, Asking, Judging, Supersedable, Cleared
    <2>6. Kept(state, state')
      BY <2>2, <2>3 DEF Kept
    <2> QED
      BY <1>1, <2>3, <2>4, <2>5, <2>6, QuietInv DEF Asking
  <1>5. CASE /\ state' = With(state, "validated_pending_import")
             /\ proc' = [proc EXCEPT !.pc = "import", !.advanced = github.base # state.task.snap.base]
    <2>1. PICK advanced \in BOOLEAN : proc' = [proc EXCEPT !.pc = "import", !.advanced = advanced]
      BY <1>5
    <2>2. proc' \in Memory /\ proc'.pc = "import"
      BY <2>1, InvTypes DEF Memory, Working
    <2>3. "validated_pending_import" \in Statuses \ Supersedable
      BY DEF Statuses, Supersedable
    <2> QED
      BY <1>1, <1>5, <2>2, <2>3, JudgedFacts, JudgedKeeps DEF Judging
  <1> QED
    BY <1>2, <1>3, <1>4, <1>5 DEF Admit

LEMMA RepairedTyped ==
  ASSUME NEW head \in Seq(Nat)
  PROVE  /\ Repaired(head) \in Seq(Nat) /\ Repaired(head) # head /\ Repaired(head) # <<>>
         /\ Initial(head, Repaired(head))
         /\ IsPrefix(head, Repaired(head))
         /\ head # <<>> => Repaired(head)[1] = head[1]
  <1>1. PICK new : new = Append(head, 0)
    OBVIOUS
  <1>2. /\ new \in Seq(Nat) /\ Len(new) = Len(head) + 1 /\ Len(head) \in Nat
        /\ \A i \in 1..Len(head) : new[i] = head[i]
    BY <1>1
  <1>3. new # head /\ new # <<>> /\ Initial(head, new)
    BY <1>2 DEF Initial
  <1>4. SubSeq(head, 1, Len(head)) = SubSeq(new, 1, Len(head)) /\ Len(head) <= Len(new)
    BY <1>2
  <1>5. head # <<>> => new[1] = head[1]
    BY <1>2
  <1> QED
    BY <1>1, <1>2, <1>3, <1>4, <1>5 DEF Repaired, IsPrefix

LEMMA ImportKeeps ==
  ASSUME CiFixLoopAssumption, Inv, Import
  PROVE  Inv'
  <1>1. proc.pc \in Judging /\ UNCHANGED <<github, hosted, budget>> /\ hosted.file # "failed"
    BY InvTypes, JudgingFacts DEF Import, Judging
  <1>2. "validated" \in Statuses \ Supersedable
    BY DEF Statuses, Supersedable
  <1>3. CASE FailTask /\ UNCHANGED local
    BY <1>1, <1>3, JudgingFacts, InvTypes, FailedKeeps
  <1>4. CASE DiscardTask /\ UNCHANGED local
    BY <1>1, <1>4, JudgingFacts, DiscardKeeps
  <1>5. CASE local' = Repaired(state.task.snap.head) /\ state' = With(state, "validated") /\ Goto("push")
    <2>1. proc' \in Memory /\ proc'.pc = "push"
      BY <1>5, GoneTo, InvTypes DEF Goto, Working
    <2>2. local' \in Seq(Nat)
      BY <1>5, RepairedTyped, InvTypes DEF Snapshot
    <2> QED
      BY <1>1, <1>2, <1>5, <2>1, <2>2, JudgedFacts, JudgedKeeps DEF Judging
  <1>6. CASE /\ state' = With(state, "validated") /\ UNCHANGED local
             /\ \E advanced \in BOOLEAN : proc' = [proc EXCEPT !.pc = "conclude", !.advanced = advanced]
    <2>1. proc' \in Memory /\ proc'.pc = "conclude"
      BY <1>6, InvTypes DEF Memory, Working
    <2> QED
      BY <1>1, <1>2, <1>6, <2>1, InvTypes, JudgedFacts, JudgedKeeps DEF Judging
  <1>7. (proc.advanced \/ github.base # state.task.snap.base) \in BOOLEAN
    BY InvTypes DEF Memory
  <1> QED
    BY <1>3, <1>4, <1>5, <1>6, <1>7 DEF Import

LEMMA PushKeeps ==
  ASSUME CiFixLoopAssumption, Inv, Push
  PROVE  Inv'
  <1>1. proc.pc \in Judging /\ UNCHANGED <<local, hosted, budget>> /\ local' \in Seq(Nat) /\ hosted.file # "failed"
        /\ proc.pc = "push"
    BY InvTypes, JudgingFacts DEF Push, Judging
  <1>2. CASE FailTask /\ UNCHANGED github
    BY <1>1, <1>2, JudgingFacts, FailedKeeps
  <1>3. CASE /\ local = Repaired(state.task.snap.head) /\ github.head = state.task.snap.head
             /\ github' = [github EXCEPT !.head = local, !.run = NewRun]
             /\ Goto("confirm_push") /\ UNCHANGED state
    <2>1. proc' \in Memory /\ proc'.pc = "confirm_push" /\ proc'.snap = proc.snap /\ proc'.gate = proc.gate
      BY <1>3, GoneTo, InvTypes DEF Goto, Working
    <2>2. PICK run : run = NewRun
      OBVIOUS
    <2>3. run \in RunRecord /\ run.class = "running"
      BY <2>2 DEF NewRun, RunRecord
    <2>4. github' = [github EXCEPT !.head = local, !.run = run]
      BY <1>3, <2>2
    <2>5. /\ github' \in [head : Seq(Nat), base : Nat, run : RunRecord]
          /\ github'.head = local /\ github'.base = github.base /\ github'.run = run
      BY <2>3, <2>4, InvTypes DEF TInv
    <2>6. TInv'
      BY <1>1, <1>3, <2>1, <2>5, InvTypes DEF TInv
    <2>7. Owned' /\ Unsettled' /\ Recorded'
      BY <1>1, <1>3, <2>1, JudgingFacts DEF Inv, Owned, Unsettled, Recorded, Free, Asking, Judging
    <2>8. /\ Seen(View) /\ View.head = github.head /\ View'.head = local /\ github.head[1] <= MaxMoves - budget + 1
          /\ github.head # <<>>
      BY <2>5 DEF Inv, Ordered, View, Seen
    <2>9. Initial(github.head, local) /\ github.head # local /\ local[1] = github.head[1] /\ local # <<>>
      BY <1>3, <2>8, RepairedTyped, InvTypes
    <2>10. Before(View, View') /\ Seen(View')
      BY <2>8, <2>9 DEF Before, Seen
    <2>11. Ordered'
      BY <1>1, <1>3, <2>1, <2>5, <2>6, <2>8, <2>9, <2>10, Advances
    <2>12. Paid'
      <3>1. \A sweep : AskedIn(sweep)' = AskedIn(sweep)
        BY <1>1 DEF AskedIn
      <3> QED
        BY <1>1, <1>3, <2>1, <3>1 DEF Inv, Paid, Asking
    <2> QED
      BY <2>6, <2>7, <2>11, <2>12 DEF Inv
  <1> QED
    BY <1>2, <1>3 DEF Push

LEMMA PublishKeeps ==
  ASSUME CiFixLoopAssumption, Inv, ConfirmPush \/ FinishPublication
  PROVE  Inv'
  <1>1. proc.pc \in Judging /\ UNCHANGED <<github, local, hosted, budget>> /\ local' \in Seq(Nat)
        /\ hosted.file # "failed"
    BY InvTypes, JudgingFacts DEF ConfirmPush, FinishPublication, Judging
  <1>2. CASE FailTask
    BY <1>1, <1>2, JudgingFacts, FailedKeeps
  <1>3. CASE \E status \in {"published_pending_verification", "published"}, pc \in {"finish", "conclude"} :
               state' = With(state, status) /\ Goto(pc)
    <2>1. PICK status \in {"published_pending_verification", "published"}, pc \in {"finish", "conclude"} :
            state' = With(state, status) /\ Goto(pc)
      BY <1>3
    <2>2. status \in Statuses \ Supersedable
      BY DEF Statuses, Supersedable
    <2>3. proc' \in Memory /\ proc'.pc = pc
      BY <2>1, GoneTo, InvTypes DEF Goto, Working
    <2> QED
      BY <1>1, <2>1, <2>2, <2>3, JudgedFacts, JudgedKeeps DEF Judging
  <1> QED
    BY <1>2, <1>3 DEF ConfirmPush, FinishPublication

LEMMA ConcludeKeeps ==
  ASSUME CiFixLoopAssumption, Inv, Conclude
  PROVE  Inv'
  <1>1. proc.pc \in Judging /\ UNCHANGED <<github, local, hosted, budget>> /\ local' \in Seq(Nat)
        /\ hosted.file \in {"fix", "rerun", "warning", "unfixable", "no_change"} /\ proc.pc = "conclude"
    BY InvTypes, JudgingFacts DEF Conclude, Judging, Inv, TInv, Answers
  <1>2. CASE DiscardTask
    BY <1>1, <1>2, JudgingFacts, DiscardKeeps
  <1>3. CASE ~DiscardTask
    <2>1. PICK t, outcome : /\ t = With(state, "completed")
                            /\ outcome = CASE hosted.file = "warning" -> "warning"
                                           [] hosted.file = "unfixable" -> "escalated"
                                           [] OTHER -> t.outcome
      OBVIOUS
    <2>2. PICK result : result = CASE hosted.file = "fix" -> "published"
                                   [] hosted.file = "no_change" -> "nothing_to_publish"
                                   [] OTHER -> hosted.file
      OBVIOUS
    <2>3. t \in File /\ t.task.status = "completed" /\ Kept(state, t) /\ t.pending = state.pending
          /\ t.outcome = state.outcome
      BY <2>1, WithFacts, InvTypes DEF Statuses, Supersedable
    <2>4. state' = [t EXCEPT !.outcome = outcome] /\ proc' = Concluded(proc, result, TRUE)
      BY <1>3, <2>1, <2>2 DEF Conclude
    <2>5. result \in Results /\ (result = "rerun" => hosted.file = "rerun")
      BY <1>1, <2>2 DEF Results
    <2>6. outcome \in {"none", "green", "warning", "escalated"} /\ (hosted.file = "rerun" => outcome \notin Cleared)
      BY <1>1, <2>1, <2>3, JudgingFacts, InvTypes DEF File
    <2>7. /\ state' \in File /\ state'.task = t.task /\ Kept(t, state') /\ state'.outcome = outcome
          /\ state'.pending = t.pending
      BY <2>3, <2>4, <2>6, OutcomeFacts
    <2>8. proc' \in Memory /\ proc'.pc = "advance" /\ proc'.result = result
      BY <2>4, <2>5, InvTypes DEF Concluded, Memory, Working
    <2>9. Owned' /\ Unsettled'
      BY <1>1, <2>3, <2>5, <2>6, <2>7, <2>8, JudgingFacts DEF Owned, Unsettled, Free, Asking, Judging, Supersedable
    <2>10. Kept(state, state')
      BY <2>3, <2>7 DEF Kept
    <2> QED
      BY <1>1, <2>7, <2>8, <2>9, <2>10, QuietInv DEF Asking
  <1> QED
    BY <1>2, <1>3
-----------------------------------------------------------------------------
(* The invariant, step by step: what follows from an iteration *)

LEMMA ProcessedFacts ==
  ASSUME Inv, NEW t, t = Processed(state)
  PROVE  /\ t \in File /\ t.task = state.task /\ Kept(state, t) /\ t.outcome = state.outcome /\ t.pending = "none"
  <1>1. PICK processed : processed = state.processed \cup {proc.snap}
    OBVIOUS
  <1>2. processed \in SUBSET Snapshot
    BY <1>1, InvTypes DEF File
  <1>3. t = [state EXCEPT !.processed = processed, !.pending = "none"]
    BY <1>1 DEF Processed
  <1> QED
    BY <1>2, <1>3, InvTypes DEF File, Kept

LEMMA AdvanceKeeps ==
  ASSUME CiFixLoopAssumption, Inv, Advance
  PROVE  Inv'
  <1>1. /\ proc.pc = "advance" /\ UNCHANGED <<github, local, hosted, budget>> /\ local' \in Seq(Nat)
        /\ state.task.status \in Supersedable /\ hosted.active = 0 /\ state.pending = "none"
        /\ proc.result = "rerun" => state.outcome \notin Cleared
    BY InvTypes DEF Advance, Inv, Owned, Unsettled, Free, Supersedable
  <1>2. PICK done : done = IF proc.asked THEN Processed(state) ELSE state
    OBVIOUS
  <1>3. done \in File /\ done.task = state.task /\ Kept(state, done) /\ done.outcome = state.outcome /\ done.pending = "none"
    BY <1>1, <1>2, ProcessedFacts, InvTypes DEF Kept
  <1>4. CASE /\ Goto("retry") /\ proc.result = "rerun"
             /\ state' = IF Bounded THEN [state EXCEPT !.pending = "open"] ELSE done
    <2>1. proc' \in Memory /\ proc'.pc = "retry"
      BY <1>4, GoneTo, InvTypes DEF Goto, Working
    <2>2. /\ state' \in File /\ state'.task = state.task /\ Kept(state, state') /\ state'.outcome = state.outcome
          /\ state'.pending = IF Bounded THEN "open" ELSE "none"
      BY <1>3, <1>4, InvTypes DEF File, Kept
    <2>3. Owned' /\ Unsettled'
      BY <1>1, <1>4, <2>1, <2>2 DEF Inv, Owned, Unsettled, Free, Asking, Judging
    <2> QED
      BY <1>1, <2>1, <2>2, <2>3, QuietInv DEF Asking
  <1>5. CASE proc' \in {Again, Resting} /\ \/ state' = done
                                           \/ state' = [done EXCEPT !.terminal = proc.result]
    <2>1. proc' \in Memory /\ proc'.pc \in {"idle", "observe"}
      BY <1>5, Empty
    <2>2. /\ state' \in File /\ state'.task = state.task /\ Kept(state, state') /\ state'.outcome = state.outcome
          /\ state'.pending = "none"
      <3>1. proc.result \in Results \cup {"none"}
        BY InvTypes DEF Memory
      <3> QED
        BY <1>3, <1>5, <3>1 DEF File, Kept
    <2>3. Owned' /\ Unsettled'
      BY <1>1, <2>1, <2>2 DEF Inv, Owned, Unsettled, Free, Asking, Judging
    <2> QED
      BY <1>1, <2>1, <2>2, <2>3, QuietInv DEF Asking
  <1> QED
    BY <1>2, <1>4, <1>5 DEF Advance

LEMMA RetryingFacts ==
  ASSUME Inv, proc.pc \in {"retry", "post", "posted"}
  PROVE  /\ state.task.status \in Supersedable /\ hosted.active = 0
         /\ Bounded => state.pending # "none" /\ state.outcome \notin Cleared
         /\ ~Bounded => state.pending = "none"
  BY DEF Inv, Owned, Unsettled, Free, Supersedable

\* A new record of a rerun stands for the records of that head.
LEMMA NotedFacts ==
  ASSUME Inv, NEW source \in Nat, NEW status \in RetryStatuses, NEW t, t = Noted(state, source, status)
  PROVE  /\ t \in File /\ t.task = state.task /\ t.sweep = state.sweep /\ t.spent = state.spent
         /\ t.charged = state.charged /\ t.outcome = state.outcome /\ t.pending = state.pending
         /\ \E r \in t.retries : r.head = proc.snap.head
         /\ \A r \in state.retries : \E q \in t.retries : q.head = r.head
  <1>1. PICK record, retries : /\ record = [head |-> proc.snap.head, source |-> source, status |-> status]
                               /\ retries = {r \in state.retries : r.head # proc.snap.head} \cup {record}
    OBVIOUS
  <1>2. record \in RetryRecord /\ record.head = proc.snap.head /\ state.retries \subseteq RetryRecord
    BY <1>1, InvTypes DEF RetryRecord, File, Snapshot
  <1>3. retries \in SUBSET RetryRecord /\ record \in retries
    BY <1>1, <1>2
  <1>4. t = [state EXCEPT !.retries = retries]
    BY <1>1 DEF Noted
  <1>5. /\ t \in File /\ t.task = state.task /\ t.sweep = state.sweep /\ t.spent = state.spent
        /\ t.charged = state.charged /\ t.outcome = state.outcome /\ t.pending = state.pending
        /\ t.retries = retries
    BY <1>3, <1>4, InvTypes DEF File
  <1>6. \A r \in state.retries : \E q \in retries : q.head = r.head
    BY <1>1, <1>2, <1>3
  <1> QED
    BY <1>2, <1>3, <1>5, <1>6

\* A step of the retry, that may add to the records.
LEMMA RetryingKeeps ==
  ASSUME CiFixLoopAssumption, Inv, proc.pc \in {"retry", "posted"},
         UNCHANGED <<github, local, hosted, budget>>, state' \in File, proc' \in Memory,
         state'.task = state.task, state'.sweep = state.sweep, state'.spent = state.spent,
         state'.charged = state.charged, state'.outcome \in {state.outcome, "escalated"},
         Bounded => state'.pending \in {state.pending, "done", "none"}, ~Bounded => state'.pending = "none",
         \A r \in state.retries : \E q \in state'.retries : q.head = r.head,
         \/ proc'.pc = "idle"
         \/ proc'.pc = "observe" /\ ~Bounded
         \/ /\ proc'.pc = "post" /\ state'.pending = state.pending /\ proc'.snap = proc.snap
            /\ proc.snap.head \notin hosted.reruns
            /\ \E r \in state'.retries : r.head = proc.snap.head
  PROVE  Inv'
  <1>1. TInv'
    BY InvTypes, QuietTypes
  <1>2. Owned' /\ Unsettled'
    BY RetryingFacts DEF Inv, Owned, Unsettled, Free, Asking, Judging, Cleared
  <1>3. Recorded'
    BY DEF Inv, Recorded
  <1>4. View' = View /\ proc'.pc \notin {"confirm", "task"} \cup Asking
    BY DEF View, Asking
  <1>5. Ordered'
    BY <1>4 DEF Inv, Ordered
  <1>6. \A sweep : AskedIn(sweep)' = AskedIn(sweep)
    BY DEF AskedIn
  <1>7. Paid'
    BY <1>4, <1>6 DEF Inv, Paid
  <1> QED
    BY <1>1, <1>2, <1>3, <1>5, <1>7 DEF Inv

LEMMA RetriedFacts ==
  ASSUME CiFixLoopAssumption, NEW s \in File, Retried(s)
  PROVE  /\ state' \in File /\ state'.task = s.task /\ Kept(s, state') /\ state'.outcome = s.outcome
         /\ state'.pending = IF Bounded THEN "done" ELSE s.pending
         /\ proc' \in Memory /\ \/ proc'.pc = "idle"
                                \/ proc'.pc = "observe" /\ ~Bounded
  <1>1. proc' = Again
    BY DEF Retried
  <1>2. proc' \in Memory /\ (proc'.pc = "idle" \/ (proc'.pc = "observe" /\ ~Bounded))
    BY <1>1, Empty DEF Again
  <1>3. state' = IF Bounded THEN [s EXCEPT !.pending = "done"] ELSE s
    BY DEF Retried
  <1> QED
    BY <1>2, <1>3 DEF File, Kept

LEMMA RetryKeeps ==
  ASSUME CiFixLoopAssumption, Inv, Retry
  PROVE  Inv'
  <1>1. proc.pc = "retry" /\ UNCHANGED <<github, local, hosted, budget>>
    BY DEF Retry
  <1>2. github.run.attempt \in Nat /\ {"completed", "requesting"} \subseteq RetryStatuses
    BY InvTypes DEF TInv, RunRecord, RetryStatuses
  <1>3. CASE state' = Processed(state) /\ proc' = Again
    <2>1. /\ state' \in File /\ state'.task = state.task /\ Kept(state, state') /\ state'.outcome = state.outcome
          /\ state'.pending = "none"
      BY <1>3, ProcessedFacts
    <2>2. proc' \in Memory /\ (proc'.pc = "idle" \/ (proc'.pc = "observe" /\ ~Bounded))
      BY <1>3, Empty DEF Again
    <2> QED
      BY <1>1, <2>1, <2>2, RetryingKeeps, RetryingFacts DEF Kept
  <1>4. CASE Fail(state)
    <2>1. /\ state' \in File /\ state'.task = state.task /\ Kept(state, state') /\ state'.pending = state.pending
          /\ state'.outcome \in {state.outcome, "escalated"}
          /\ proc' \in Memory /\ proc'.pc = "idle"
      BY <1>4, FailFacts, InvTypes
    <2> QED
      BY <1>1, <2>1, RetryingKeeps, RetryingFacts DEF Kept
  <1>5. CASE Retried(state)
    <2>1. /\ state' \in File /\ state'.task = state.task /\ Kept(state, state') /\ state'.outcome = state.outcome
          /\ state'.pending = IF Bounded THEN "done" ELSE state.pending
          /\ proc' \in Memory /\ (proc'.pc = "idle" \/ (proc'.pc = "observe" /\ ~Bounded))
      BY <1>5, RetriedFacts, InvTypes
    <2> QED
      BY <1>1, <2>1, RetryingKeeps, RetryingFacts DEF Kept
  <1>6. CASE Fail(Noted(state, github.run.attempt, "completed"))
    <2>1. PICK t : t = Noted(state, github.run.attempt, "completed")
      OBVIOUS
    <2>2. /\ t \in File /\ t.task = state.task /\ t.sweep = state.sweep /\ t.spent = state.spent
          /\ t.charged = state.charged /\ t.outcome = state.outcome /\ t.pending = state.pending
          /\ \A r \in state.retries : \E q \in t.retries : q.head = r.head
      BY <1>2, <2>1, NotedFacts
    <2>3. /\ state' \in File /\ state'.task = t.task /\ Kept(t, state') /\ state'.pending = t.pending
          /\ state'.outcome \in {t.outcome, "escalated"}
          /\ proc' \in Memory /\ proc'.pc = "idle"
      BY <1>6, <2>1, <2>2, FailFacts
    <2> QED
      BY <1>1, <2>2, <2>3, RetryingKeeps, RetryingFacts DEF Kept
  <1>7. CASE /\ state' = Noted(state, github.run.attempt, "requesting") /\ Goto("post")
             /\ {r \in state.retries : r.head = proc.snap.head} = {}
    <2>1. /\ state' \in File /\ state'.task = state.task /\ state'.sweep = state.sweep /\ state'.spent = state.spent
          /\ state'.charged = state.charged /\ state'.outcome = state.outcome /\ state'.pending = state.pending
          /\ \E r \in state'.retries : r.head = proc.snap.head
          /\ \A r \in state.retries : \E q \in state'.retries : q.head = r.head
      BY <1>2, <1>7, NotedFacts
    <2>2. proc' \in Memory /\ proc'.pc = "post" /\ proc'.snap = proc.snap
      BY <1>7, GoneTo, InvTypes DEF Goto, Working
    <2>3. proc.snap.head \notin hosted.reruns
      BY <1>7 DEF Inv, Recorded
    <2> QED
      BY <1>1, <2>1, <2>2, <2>3, RetryingKeeps, RetryingFacts
  <1> QED
    BY <1>3, <1>4, <1>5, <1>6, <1>7 DEF Retry

LEMMA PostedKeeps ==
  ASSUME CiFixLoopAssumption, Inv, Posted
  PROVE  Inv'
  <1>1. proc.pc = "posted" /\ UNCHANGED <<github, local, hosted, budget>>
    BY DEF Posted
  <1>2. PICK t : /\ \E status \in RetryStatuses : t = Noted(state, proc.snap.attempt, status)
                 /\ Retried(t) \/ Fail(t)
    BY DEF Posted, RetryStatuses
  <1> proc.snap.attempt \in Nat
    BY InvTypes DEF Snapshot
  <1>3. /\ t \in File /\ t.task = state.task /\ t.sweep = state.sweep /\ t.spent = state.spent
        /\ t.charged = state.charged /\ t.outcome = state.outcome /\ t.pending = state.pending
        /\ \A r \in state.retries : \E q \in t.retries : q.head = r.head
    BY <1>2, NotedFacts
  <1>4. CASE Retried(t)
    <2>1. /\ state' \in File /\ state'.task = t.task /\ Kept(t, state') /\ state'.outcome = t.outcome
          /\ state'.pending = IF Bounded THEN "done" ELSE t.pending
          /\ proc' \in Memory /\ (proc'.pc = "idle" \/ (proc'.pc = "observe" /\ ~Bounded))
      BY <1>3, <1>4, RetriedFacts
    <2> QED
      BY <1>1, <1>3, <2>1, RetryingKeeps, RetryingFacts DEF Kept
  <1>5. CASE Fail(t)
    <2>1. /\ state' \in File /\ state'.task = t.task /\ Kept(t, state') /\ state'.pending = t.pending
          /\ state'.outcome \in {t.outcome, "escalated"}
          /\ proc' \in Memory /\ proc'.pc = "idle"
      BY <1>3, <1>5, FailFacts
    <2> QED
      BY <1>1, <1>3, <2>1, RetryingKeeps, RetryingFacts DEF Kept
  <1> QED
    BY <1>2, <1>4, <1>5

\* The request.
LEMMA PostKeeps ==
  ASSUME CiFixLoopAssumption, Inv, Post
  PROVE  Inv'
  <1>1. proc.pc = "post" /\ UNCHANGED <<local, state, budget>>
    BY DEF Post
  <1>2. PICK lost \in BOOLEAN : proc' = [proc EXCEPT !.pc = "posted", !.lost = lost]
    BY DEF Post
  <1>3. proc' \in Memory /\ proc'.pc = "posted" /\ proc'.snap = proc.snap /\ proc'.gate = proc.gate
    BY <1>2, InvTypes DEF Memory, Working
  <1>4. /\ github' \in [head : Seq(Nat), base : Nat, run : RunRecord]
        /\ hosted' \in [active : Nat, file : Answers \cup {"none"}, asked : SUBSET Request, reruns : SUBSET Seq(Nat)]
        /\ hosted'.active = hosted.active /\ hosted'.file = hosted.file /\ hosted'.asked = hosted.asked
        /\ hosted'.reruns \subseteq hosted.reruns \cup {proc.snap.head}
        /\ View' = View /\ github'.head = github.head
    <2>1. CASE UNCHANGED <<github, hosted>>
      BY <2>1, InvTypes DEF TInv, View
    <2>2. CASE /\ github' = [github EXCEPT !.run.lag = TRUE]
               /\ hosted' = [hosted EXCEPT !.reruns = @ \cup {proc.snap.head}]
      <3>1. PICK run, reruns : run = [github.run EXCEPT !.lag = TRUE] /\ reruns = hosted.reruns \cup {proc.snap.head}
        OBVIOUS
      <3>2. run \in RunRecord /\ run.class = github.run.class /\ run.attempt = github.run.attempt
        BY <3>1, InvTypes DEF TInv, RunRecord
      <3>3. github' = [github EXCEPT !.run = run] /\ hosted' = [hosted EXCEPT !.reruns = reruns]
        BY <2>2, <3>1, InvTypes DEF TInv
      <3>4. reruns \in SUBSET Seq(Nat)
        BY <3>1, InvTypes DEF TInv, Snapshot
      <3>5. github' \in [head : Seq(Nat), base : Nat, run : RunRecord] /\ View' = View /\ github'.head = github.head
        BY <3>2, <3>3, InvTypes DEF TInv, View
      <3>6. /\ hosted' \in [active : Nat, file : Answers \cup {"none"}, asked : SUBSET Request, reruns : SUBSET Seq(Nat)]
            /\ hosted'.active = hosted.active /\ hosted'.file = hosted.file /\ hosted'.asked = hosted.asked
            /\ hosted'.reruns = reruns
        BY <3>3, <3>4, InvTypes DEF TInv
      <3> QED
        BY <3>1, <3>5, <3>6
    <2> QED
      BY <2>1, <2>2 DEF Post
  <1>5. TInv'
    BY <1>1, <1>3, <1>4, InvTypes DEF TInv
  <1>6. Owned' /\ Unsettled'
    BY <1>1, <1>3, <1>4 DEF Inv, Owned, Unsettled, Free, Asking, Judging
  <1>7. Recorded'
    BY <1>1, <1>3, <1>4 DEF Inv, Recorded
  <1>8. Ordered'
    BY <1>1, <1>3, <1>4 DEF Inv, Ordered, Asking
  <1>9. \A sweep : AskedIn(sweep)' = AskedIn(sweep)
    BY <1>4 DEF AskedIn
  <1>10. Paid'
    BY <1>1, <1>3, <1>4, <1>9 DEF Inv, Paid, Asking
  <1> QED
    BY <1>5, <1>6, <1>7, <1>8, <1>10 DEF Inv

-----------------------------------------------------------------------------
(* The invariant, step by step: what the others do *)

LEMMA CrashKeeps ==
  ASSUME CiFixLoopAssumption, Inv, Crash
  PROVE  Inv'
  <1>1. proc' \in Memory /\ proc'.pc = "idle" /\ UNCHANGED <<github, local, hosted, state, budget>>
    BY Empty DEF Crash
  <1>2. Owned' /\ Unsettled'
    BY <1>1 DEF Inv, Owned, Unsettled, Free, Asking, Judging
  <1> QED
    BY <1>1, <1>2, InvTypes, QuietInv DEF Kept, Asking

LEMMA HostedEndsKeeps ==
  ASSUME CiFixLoopAssumption, Inv, HostedEnds
  PROVE  Inv'
  <1>1. PICK answer \in Answers : hosted' = [hosted EXCEPT !.active = @ - 1, !.file = answer]
    BY DEF HostedEnds
  <1>2. hosted.active = 1 /\ hosted.file = "none" /\ proc.pc \notin Asking
        /\ UNCHANGED <<github, local, state, proc, budget>>
    BY InvTypes DEF HostedEnds, Inv, Owned, TInv
  <1>3. /\ hosted' \in [active : Nat, file : Answers \cup {"none"}, asked : SUBSET Request, reruns : SUBSET Seq(Nat)]
        /\ hosted'.active = 0 /\ hosted'.asked = hosted.asked /\ hosted'.reruns = hosted.reruns
    <2>1. PICK active : active = hosted.active - 1
      OBVIOUS
    <2>2. active = 0 /\ active \in Nat
      BY <1>2, <2>1
    <2>3. hosted \in [active : Nat, file : Answers \cup {"none"}, asked : SUBSET Request, reruns : SUBSET Seq(Nat)]
      BY InvTypes DEF TInv
    <2>4. hosted' = [hosted EXCEPT !.active = active, !.file = answer]
      BY <1>1, <2>1, <2>3
    <2> QED
      BY <2>2, <2>3, <2>4
  <1>4. TInv'
    BY <1>2, <1>3, InvTypes DEF TInv
  <1>5. Owned' /\ Unsettled' /\ Recorded'
    BY <1>2, <1>3 DEF Inv, Owned, Unsettled, Recorded, Judging
  <1>6. View' = View /\ Gate' = Gate
    BY <1>2 DEF View, Gate
  <1>7. Ordered'
    BY <1>2, <1>3, <1>6 DEF Inv, Ordered
  <1>8. \A sweep : AskedIn(sweep)' = AskedIn(sweep)
    BY <1>3 DEF AskedIn
  <1>9. Paid'
    BY <1>2, <1>3, <1>8 DEF Inv, Paid
  <1> QED
    BY <1>4, <1>5, <1>7, <1>9 DEF Inv

\* A change of the pull request that is not ours.
LEMMA MoveKeeps ==
  ASSUME CiFixLoopAssumption, Inv, UNCHANGED <<local, hosted, state, proc>>, budget' \in 0..MaxMoves,
         github' \in [head : Seq(Nat), base : Nat, run : RunRecord],
         Seen(View'), Before(View, View'), github'.head[1] <= MaxMoves - budget' + 1
  PROVE  Inv'
  <1>1. TInv'
    BY InvTypes DEF TInv
  <1>2. Owned' /\ Unsettled' /\ Recorded'
    BY DEF Inv, Owned, Unsettled, Recorded
  <1>3. Ordered'
    BY <1>1, Advances
  <1>4. \A sweep : AskedIn(sweep)' = AskedIn(sweep)
    BY DEF AskedIn
  <1>5. Paid'
    BY <1>4 DEF Inv, Paid
  <1> QED
    BY <1>1, <1>2, <1>3, <1>5 DEF Inv

LEMMA GithubFacts ==
  ASSUME Inv
  PROVE  /\ github \in [head : Seq(Nat), base : Nat, run : RunRecord] /\ github.head # <<>>
         /\ github.head[1] \in Nat /\ github.head[1] <= MaxMoves - budget + 1
         /\ github.run \in RunRecord /\ github.run.attempt \in Nat /\ budget \in 0..MaxMoves
  BY DEF Inv, TInv, Ordered, View, Seen, RunRecord

\* The same head, and a run of the checks that comes later.
LEMMA RunKeeps ==
  ASSUME CiFixLoopAssumption, Inv, UNCHANGED <<local, hosted, state, proc>>, budget' \in 0..MaxMoves, budget' <= budget,
         NEW run \in RunRecord, github' = [github EXCEPT !.run = run],
         \/ run.attempt > github.run.attempt
         \/ run.attempt = github.run.attempt /\ github.run.class = "running"
  PROVE  Inv'
  <1>1. /\ github' \in [head : Seq(Nat), base : Nat, run : RunRecord]
        /\ github'.head = github.head /\ github'.base = github.base /\ github'.run = run
    BY GithubFacts
  <1>2. run.attempt \in Nat
    BY DEF RunRecord
  <1>3. Seen(View') /\ Before(View, View')
    BY <1>1, <1>2, GithubFacts DEF View, Seen, Before
  <1>4. github'.head[1] <= MaxMoves - budget' + 1
    <2>1. /\ github.head[1] \in Nat /\ github.head[1] <= MaxMoves - budget + 1
          /\ budget \in Nat /\ budget' \in Nat /\ MaxMoves \in Nat
      BY GithubFacts DEF CiFixLoopAssumption
    <2>2. github'.head[1] = github.head[1]
      BY <1>1
    <2> QED
      BY <2>1, <2>2
  <1> QED
    BY <1>1, <1>3, <1>4, MoveKeeps

\* The checks run again.
LEMMA RunAgain ==
  ASSUME Inv, NEW run, run = [NewRun EXCEPT !.attempt = github.run.attempt + 1]
  PROVE  run \in RunRecord /\ run.attempt > github.run.attempt
  <1>1. PICK attempt : attempt = github.run.attempt + 1
    OBVIOUS
  <1>2. attempt \in Nat /\ attempt > github.run.attempt
    BY <1>1, GithubFacts
  <1>3. run = [NewRun EXCEPT !.attempt = attempt]
    BY <1>1
  <1> QED
    BY <1>2, <1>3 DEF NewRun, RunRecord

LEMMA ChecksMoveKeeps ==
  ASSUME CiFixLoopAssumption, Inv, ChecksMove
  PROVE  Inv'
  <1>1. UNCHANGED <<local, hosted, state, proc, budget>> /\ budget' \in 0..MaxMoves /\ budget' <= budget
    BY GithubFacts DEF ChecksMove
  <1>2. CASE github.run.class = "running" /\ \E class \in {"failed", "passed", "stuck"} : github' = [github EXCEPT !.run.class = class]
    <2>1. PICK class \in {"failed", "passed", "stuck"} : github' = [github EXCEPT !.run.class = class]
      BY <1>2
    <2>2. PICK run : run = [github.run EXCEPT !.class = class]
      OBVIOUS
    <2>3. run \in RunRecord /\ run.attempt = github.run.attempt
      BY <2>2, GithubFacts DEF RunRecord, Classes
    <2>4. github' = [github EXCEPT !.run = run]
      BY <2>1, <2>2, GithubFacts
    <2> QED
      BY <1>1, <1>2, <2>3, <2>4, RunKeeps
  <1>3. CASE github' = [github EXCEPT !.run = [NewRun EXCEPT !.attempt = github.run.attempt + 1]]
    <2>1. PICK run : run = [NewRun EXCEPT !.attempt = github.run.attempt + 1]
      OBVIOUS
    <2>2. run \in RunRecord /\ run.attempt > github.run.attempt
      BY <2>1, RunAgain
    <2> QED
      BY <1>1, <1>3, <2>1, <2>2, RunKeeps
  <1> QED
    BY <1>2, <1>3 DEF ChecksMove

LEMMA OthersMoveKeeps ==
  ASSUME CiFixLoopAssumption, Inv, OthersMove
  PROVE  Inv'
  <1>1. UNCHANGED <<local, hosted, state, proc>> /\ budget > 0 /\ budget' = budget - 1
    BY DEF OthersMove
  <1>2. PICK mark, run, first : mark = MaxMoves - budget + 2 /\ run = NewRun /\ first = github.head[1]
    OBVIOUS
  <1>3. MaxMoves \in Nat /\ budget \in 0..MaxMoves /\ first \in Nat /\ first <= MaxMoves - budget + 1
    BY <1>2, GithubFacts DEF CiFixLoopAssumption
  <1>4. /\ budget' \in 0..MaxMoves /\ budget' <= budget /\ mark \in Nat /\ first < mark
        /\ first <= MaxMoves - budget' + 1 /\ mark <= MaxMoves - budget' + 1
    BY <1>1, <1>2, <1>3
  <1>5. run \in RunRecord
    BY <1>2 DEF NewRun, RunRecord
  <1>6. CASE github' = [github EXCEPT !.head = Append(@, mark), !.run = run]
    <2>1. PICK head : head = Append(github.head, mark)
      OBVIOUS
    <2>2. /\ head \in Seq(Nat) /\ head # <<>> /\ head # github.head /\ head[1] = first /\ github.head[1] = first
          /\ Len(head) = Len(github.head) + 1 /\ Len(github.head) \in Nat
          /\ \A i \in 1..Len(github.head) : head[i] = github.head[i]
      BY <1>2, <1>4, <2>1, GithubFacts
    <2>3. github' = [github EXCEPT !.head = head, !.run = run]
      BY <1>6, <2>1
    <2>4. github' \in [head : Seq(Nat), base : Nat, run : RunRecord] /\ github'.head = head
      BY <1>5, <2>2, <2>3, GithubFacts
    <2>5. Initial(github.head, head)
      BY <2>2 DEF Initial
    <2>6. Seen(View') /\ Before(View, View')
      BY <2>2, <2>4, <2>5 DEF View, Seen, Before
    <2>7. github'.head[1] <= MaxMoves - budget' + 1
      BY <1>4, <2>2, <2>4
    <2> QED
      BY <1>1, <1>4, <2>4, <2>6, <2>7, MoveKeeps
  <1>7. CASE github' = [github EXCEPT !.head = <<mark>>, !.run = run]
    <2>1. PICK head : head = <<mark>>
      OBVIOUS
    <2>2. head \in Seq(Nat) /\ head # <<>> /\ head[1] = mark
      BY <1>4, <2>1
    <2>3. github' = [github EXCEPT !.head = head, !.run = run]
      BY <1>7, <2>1
    <2>4. github' \in [head : Seq(Nat), base : Nat, run : RunRecord] /\ github'.head = head
      BY <1>5, <2>2, <2>3, GithubFacts
    <2>5. Seen(View') /\ Before(View, View')
      BY <1>2, <1>4, <2>2, <2>4 DEF View, Seen, Before
    <2>6. github'.head[1] <= MaxMoves - budget' + 1
      BY <1>4, <2>2, <2>4
    <2> QED
      BY <1>1, <1>4, <2>4, <2>5, <2>6, MoveKeeps
  <1>8. CASE github' = [github EXCEPT !.base = @ + 1]
    <2>1. /\ github' \in [head : Seq(Nat), base : Nat, run : RunRecord]
          /\ github'.head = github.head /\ github'.base = github.base + 1 /\ github'.run = github.run
          /\ github.base \in Nat
      BY <1>8, GithubFacts
    <2>2. Seen(View') /\ Before(View, View')
      BY <2>1, GithubFacts DEF View, Seen, Before
    <2>3. github'.head[1] <= MaxMoves - budget' + 1
      BY <1>2, <1>4, <2>1
    <2> QED
      BY <1>1, <1>4, <2>1, <2>2, <2>3, MoveKeeps
  <1>9. CASE github' = [github EXCEPT !.run = [run EXCEPT !.attempt = github.run.attempt + 1]]
    <2>1. PICK next : next = [run EXCEPT !.attempt = github.run.attempt + 1]
      OBVIOUS
    <2>2. next \in RunRecord /\ next.attempt > github.run.attempt
      BY <1>2, <2>1, RunAgain
    <2> QED
      BY <1>1, <1>9, <1>4, <2>1, <2>2, RunKeeps
  <1> QED
    BY <1>2, <1>6, <1>7, <1>8, <1>9 DEF OthersMove

\* No step leaves the invariant.
LEMMA NextKeeps ==
  ASSUME CiFixLoopAssumption, Inv, [Next]_vars
  PROVE  Inv'
  <1>1. CASE UNCHANGED vars
    <2>1. View' = View /\ Gate' = Gate /\ \A sweep : AskedIn(sweep)' = AskedIn(sweep)
      BY <1>1 DEF vars, View, Gate, AskedIn
    <2> QED
      BY <1>1, <2>1 DEF vars, Inv, TInv, Owned, Unsettled, Recorded, Ordered, Paid
  <1>2. CASE Next
    BY <1>2, NewSweepKeeps, BeginKeeps, ObserveKeeps, ConfirmKeeps, TaskKeeps, ClearKeeps, DispatchKeeps, LaunchKeeps,
       WaitKeeps, VerifyKeeps, AdmitKeeps, ImportKeeps, PushKeeps, PublishKeeps, ConcludeKeeps, AdvanceKeeps,
       RetryKeeps, PostKeeps, PostedKeeps, CrashKeeps, HostedEndsKeeps, ChecksMoveKeeps, OthersMoveKeeps DEF Next
  <1> QED
    BY <1>1, <1>2

LEMMA Invariance == ASSUME CiFixLoopAssumption PROVE Spec => []Inv
  BY InitInv, NextKeeps, PTL DEF Spec

-----------------------------------------------------------------------------
(* Theorems *)

\* Every variable keeps its type.
THEOREM TypesHold == ASSUME CiFixLoopAssumption PROVE Spec => []TypeOK
  <1>1. Inv => TypeOK
    <2> SUFFICES ASSUME Inv PROVE TypeOK
      OBVIOUS
    <2>1. /\ github.head \in Seq(Nat) /\ github.base \in Nat /\ local \in Seq(Nat) /\ budget \in 0..MaxMoves
          /\ github.run \in [class : {"running", "failed", "passed", "stuck"}, attempt : Nat, lag : BOOLEAN]
      BY InvTypes, GithubFacts DEF RunRecord, Classes
    <2>2. /\ hosted.active \in Nat /\ hosted.file \in Answers \cup {"none"}
          /\ hosted.asked \subseteq [sweep : 1..MaxSweeps, snap : Snapshot] /\ hosted.reruns \subseteq Seq(Nat)
      BY InvTypes DEF TInv, Request
    <2>3. state.gate.polls \in 0..StabilityPolls /\ proc.gate.polls \in 0..StabilityPolls
      BY InvTypes DEF File, Memory, GateRecord
    <2>4. /\ state.task \in [status : Statuses, snap : Snapshot] /\ state.sweep \in 1..MaxSweeps
          /\ state.spent \in 0..MaxIterations /\ state.charged \in Snapshot /\ state.processed \subseteq Snapshot
          /\ state.outcome \in {"none", "green", "warning", "escalated"} /\ state.pending \in {"none", "open", "done"}
          /\ state.terminal \in Results \cup {"none"}
      BY InvTypes DEF File
    <2>5. state.retries \subseteq [head : Seq(Nat), source : Nat,
                                   status : {"requesting", "requested", "request_failed", "retry_observed", "completed"}]
      BY InvTypes DEF File, RetryRecord, RetryStatuses
    <2>6. /\ proc.pc \in Working \cup {"idle"} /\ proc.snap \in Snapshot /\ proc.result \in Results \cup {"none"}
          /\ proc.asked \in BOOLEAN /\ proc.advanced \in BOOLEAN /\ proc.lost \in BOOLEAN
      BY InvTypes DEF Memory
    <2> QED
      BY <2>1, <2>2, <2>3, <2>4, <2>5, <2>6 DEF TypeOK
  <1> QED
    BY <1>1, Invariance, PTL

\* A hosted task is only started when none may still run, and a sweep gives a
\* snapshot to one task, although the process may die and others may push between
\* any two steps (fresh_invocation_may_supersede_task, charge_iteration).
THEOREM AsksAlone == ASSUME CiFixLoopAssumption PROVE Spec => [][Alone /\ OncePerSnapshot]_vars
  <1>1. Inv /\ [Next]_vars => [Alone /\ OncePerSnapshot]_vars
    <2> SUFFICES ASSUME Inv, Next, Asks PROVE Alone /\ OncePerSnapshot
      BY DEF Alone, OncePerSnapshot, Asks, vars
    <2>1. hosted.active \in Nat
      BY InvTypes DEF TInv
    <2>2. CASE Launch
      BY <2>2 DEF Launch, Inv, Owned, Ordered, Asking, Alone, OncePerSnapshot
    <2>3. CASE HostedEnds
      <3>1. PICK answer : hosted' = [hosted EXCEPT !.active = @ - 1, !.file = answer]
        BY <2>3 DEF HostedEnds
      <3>2. hosted'.active = hosted.active - 1
        BY <3>1, InvTypes DEF TInv
      <3> QED
        BY <2>1, <3>2 DEF Asks
    <2>4. CASE Task \/ Post
      <3>1. hosted'.active = hosted.active
        BY <2>4, InvTypes DEF Task, Decide, Prepare, Post, TInv
      <3> QED
        BY <2>1, <3>1 DEF Asks
    <2>5. CASE ~Launch /\ ~HostedEnds /\ ~Task /\ ~Post
      <3>1. UNCHANGED hosted
        BY <2>5 DEF Next, NewSweep, Begin, Observe, Confirm, Clear, Dispatch, Wait, Resume, Verify, Admit, Import, Push,
           ConfirmPush, FinishPublication, Conclude, Advance, Retry, Posted, Crash, ChecksMove, OthersMove
      <3> QED
        BY <2>1, <3>1 DEF Asks
    <2> QED
      BY <2>2, <2>3, <2>4, <2>5
  <1> QED
    BY <1>1, Invariance, PTL DEF Spec

\* A sweep pays for every task that it starts, those of calls that died included,
\* and no sweep starts more than the limit (charge_iteration, exhausted_budget).
THEOREM BudgetIsKept == ASSUME CiFixLoopAssumption PROVE Spec => []BudgetHolds
  <1>1. Inv => BudgetHolds
    BY DEF Inv, Paid, AskedIn, BudgetHolds
  <1> QED
    BY <1>1, Invariance, PTL

\* GitHub is asked at most once to run the checks of a head again, although the
\* process may die between the request and its record (retry_diagnosed_ci).
THEOREM RerunsOnce == ASSUME CiFixLoopAssumption PROVE Spec => [][RequestedOnce]_vars
  <1>1. Inv /\ [Next]_vars => [RequestedOnce]_vars
    <2> SUFFICES ASSUME Inv, Next, proc.pc = "post", github'.run.lag, ~github.run.lag PROVE github.head \notin hosted.reruns
      BY DEF RequestedOnce, vars
    <2>1. CASE Post
      <3>1. github.head = proc.snap.head
        BY <2>1 DEF Post
      <3> QED
        BY <3>1 DEF Inv, Recorded
    <2>2. CASE Crash \/ HostedEnds
      BY <2>2 DEF Crash, HostedEnds
    <2>3. CASE ChecksMove \/ OthersMove
      <3>1. \/ \E class : github' = [github EXCEPT !.run.class = class]
            \/ \E head : github' = [github EXCEPT !.head = head, !.run = NewRun]
            \/ \E attempt : github' = [github EXCEPT !.run = [NewRun EXCEPT !.attempt = attempt]]
            \/ \E base : github' = [github EXCEPT !.base = base]
        BY <2>3 DEF ChecksMove, OthersMove
      <3>2. ~github'.run.lag
        <4>1. github \in [head : Seq(Nat), base : Nat, run : RunRecord] /\ github.run \in RunRecord
          BY GithubFacts
        <4>2. CASE \E class : github' = [github EXCEPT !.run.class = class]
          BY <4>1, <4>2 DEF RunRecord
        <4>3. CASE \E head : github' = [github EXCEPT !.head = head, !.run = NewRun]
          BY <4>1, <4>3 DEF NewRun
        <4>4. CASE \E attempt : github' = [github EXCEPT !.run = [NewRun EXCEPT !.attempt = attempt]]
          BY <4>1, <4>4 DEF NewRun
        <4>5. CASE \E base : github' = [github EXCEPT !.base = base]
          BY <4>1, <4>5
        <4> QED
          BY <3>1, <4>2, <4>3, <4>4, <4>5
      <3> QED
        BY <3>2
    <2> QED
      BY <2>1, <2>2, <2>3 DEF Next, NewSweep, Begin, Observe, Confirm, Task, Clear, Dispatch, Launch, Wait, Resume, Verify,
         Admit, Import, Push, ConfirmPush, FinishPublication, Conclude, Advance, Retry, Posted
  <1> QED
    BY <1>1, Invariance, PTL DEF Spec

\* Our push only ever extends the branch that it was made for
\* (apply_verified_candidate_import, git push --force-with-lease).
THEOREM PushExtends == ASSUME CiFixLoopAssumption PROVE Spec => [][Extends]_vars
  <1>1. Inv /\ [Next]_vars => [Extends]_vars
    <2> SUFFICES ASSUME Inv, Next, proc.pc = "push", proc'.pc = "confirm_push" PROVE IsPrefix(github.head, github'.head)
      BY DEF Extends, vars
    <2>1. CASE Push
      <3>1. CASE FailTask
        BY <3>1, FailTaskFacts, InvTypes
      <3>2. CASE ~FailTask
        <4>1. local = Repaired(github.head) /\ github' = [github EXCEPT !.head = local, !.run = NewRun]
          BY <2>1, <3>2 DEF Push
        <4>2. github'.head = local
          BY <4>1, GithubFacts
        <4> QED
          BY <4>1, <4>2, InvTypes, RepairedTyped
      <3> QED
        BY <3>1, <3>2
    <2>2. CASE Crash \/ HostedEnds \/ ChecksMove \/ OthersMove
      BY <2>2, Empty DEF Crash, HostedEnds, ChecksMove, OthersMove
    <2> QED
      BY <2>1, <2>2 DEF Next, NewSweep, Begin, Observe, Confirm, Task, Clear, Dispatch, Launch, Wait, Resume, Verify,
         Admit, Import, ConfirmPush, FinishPublication, Conclude, Advance, Retry, Post, Posted
  <1> QED
    BY <1>1, Invariance, PTL DEF Spec

\* While a clearance is on record no hosted task runs and no rerun is owed
\* (require_green_decision, fresh_invocation_may_supersede_task).
THEOREM ClearancesAreQuiet == ASSUME CiFixLoopAssumption PROVE Spec => []ClearedIsQuiet
  <1>1. Inv => ClearedIsQuiet
    BY DEF Inv, Owned, Unsettled, Supersedable, Cleared, ClearedIsQuiet
  <1> QED
    BY <1>1, Invariance, PTL

-----------------------------------------------------------------------------
(* CiRepair: every push is on record, within the budget, and only extends.  *)
Repair == INSTANCE CiRepair

RepairClasses == {"running", "failed", "passed", "blocked"}
RepairPcs == {"idle", "post", "requested", "fallback", "create", "prepare", "announce", "push_empty", "pushed",
              "confirm_empty", "push", "confirm"}
RepairCheck == [class : RepairClasses, done : 0..MaxRuns, lag : BOOLEAN]
RepairSource == [head : Repair!Heads, checks : [Checks -> RepairCheck]]
RepairRerun == [count : 0..1, method : {"none", "request", "empty_commit"}, head : Repair!Heads, seen : 0..MaxRuns,
                status : {"none", "creating", "prepared", "pushed", "published"}, commit : Repair!Heads]
RepairRun == [status : {"none", "active", "published"}, head : Repair!Heads, charged : BOOLEAN,
              verdict : [Checks -> Repair!Verdicts \cup {"none"}],
              batch : [Checks -> {"none", "planned", "recorded", "skipped"}], commits : SUBSET Repair!Heads]
RepairFile == [run : RepairRun, reruns : [Checks -> RepairRerun], iterations : Nat, charged : Repair!Heads,
               escalation : Repair!Escalations \cup {"none"}, clean : Repair!Heads, pending : Repair!PushRecord,
                 accepted : Seq(Repair!PushRecord)]
RepairProcess == [pc : RepairPcs, check : Checks \cup {"none"}, seen : 0..MaxRuns, local : Repair!Heads, remote :
  Repair!Heads]

\* The types in full.
RepairTypes ==
  /\ github \in RepairSource /\ local \in Repair!Heads /\ state \in RepairFile /\ proc \in RepairProcess
  /\ budget \in 0..MaxMoves

\* The moves of others that are left bring commits that are nowhere yet.
RepairOld(head, b) == \A i \in 1..Len(head) : head[i] < 10 \/ head[i] > b + 9

\* A branch that left a head never comes back to it.
RepairLeft(head, past) == ~Repair!IsPrefix(head, past)

RepairHeads(g, l, s, b) ==
  /\ g.head # Repair!NoHead /\ RepairOld(g.head, b) /\ RepairOld(l, b) /\ RepairOld(s.run.head, b)
  /\ s.run.status # "none" => g.head = s.run.head \/ RepairLeft(g.head, s.run.head)

\* A check that ended is counted; only a failed one is about to run again.
RepairCounted(g) ==
  \A c \in Checks : (g.checks[c].class # "running" => g.checks[c].done >= 1)
                    /\ (g.checks[c].lag => g.checks[c].class = "failed")

RepairGreen(g) == \A c \in Checks : g.checks[c].class = "passed"

\* The last iteration is charged only to a head that is not charged yet; a head
\* that is resolved without one is green.
RepairSpent(s, g) ==
  /\ s.iterations <= MaxIterations
  /\ s.run.status = "active" /\ s.escalation = "none" /\ ~s.run.charged /\ s.charged # s.run.head =>
       s.iterations < MaxIterations \/ (g.head = s.run.head => RepairGreen(g))

\* A verdict is of a check that ended at the head; a rerun was asked for after it did.
RepairJudged(s, g) ==
  \A c \in Checks :
    /\ s.run.status = "active" /\ g.head = s.run.head /\ s.run.verdict[c] # "none" => g.checks[c].done >= 1
    /\ s.reruns[c].count = 1 => /\ s.run.status # "none" /\ s.reruns[c].head = s.run.head
                                /\ g.head = s.run.head => s.reruns[c].seen >= 1

RepairCleared(s) == s.clean # Repair!NoHead => s.run.status = "active" /\ s.clean = s.run.head

\* What was pushed is announced or accepted, and accepted once: the head of an
\* accepted push was left behind.
RepairAccepted(s, g, b) ==
  /\ s.pending # Repair!NoPush => s.pending.head # s.pending.previous
  /\ Guarded /\ Repair!Last(g.head) \in {0, 8, 9} =>
       g.head = s.pending.head \/ \E i \in DOMAIN s.accepted : g.head = s.accepted[i].head
  /\ \A i \in DOMAIN s.accepted :
       LET past == s.accepted[i].previous IN
       RepairOld(past, b) /\ RepairLeft(g.head, past) /\ (s.run.status = "active" => past # s.run.head)
  /\ \A i, j \in DOMAIN s.accepted : s.accepted[i] = s.accepted[j] => i = j

RepairRerunning == {"post", "requested", "fallback", "create", "prepare", "announce", "push_empty", "pushed",
  "confirm_empty"}

\* Where the process stands.
RepairPlaced(p, s, g, l) ==
  /\ p.pc # "idle" => s.run.status = "active"
  /\ p.pc \in RepairRerunning => p.check \in Checks
  /\ p.pc \in {"post", "requested"} /\ g.head = s.run.head => p.seen >= 1
  /\ p.pc = "fallback" /\ g.head = s.run.head => s.reruns[p.check] # Repair!NoRerun \/ p.seen >= 1
  /\ p.pc \in {"push_empty", "pushed", "confirm_empty"} /\ Guarded =>
       s.pending = [kind |-> "ci_rerun", previous |-> s.run.head, head |-> Append(s.run.head, 9)]
  /\ p.pc = "push_empty" => l = Append(s.run.head, 9)
  /\ p.pc \in {"push", "confirm"} => l # s.run.head
  /\ p.pc \in {"push", "confirm"} /\ Guarded => s.pending = [kind |-> "fix", previous |-> s.run.head, head |-> l]

RepairGood(p, s, g, l, b) ==
  /\ RepairHeads(g, l, s, b) /\ RepairCounted(g) /\ RepairSpent(s, g) /\ RepairJudged(s, g) /\ RepairCleared(s)
  /\ RepairAccepted(s, g, b) /\ RepairPlaced(p, s, g, l)

RepairInv == RepairTypes /\ RepairGood(proc, state, github, local, budget)

LEMMA RepairConstants ==
  ASSUME Repair!CiRepairAssumption
  PROVE  /\ Guarded \in BOOLEAN /\ MaxIterations \in Nat /\ MaxRuns \in Nat /\ MaxCommits \in Nat /\ MaxMoves \in Nat
         /\ \A c \in Checks : Baseline[c] \in Repair!Verdicts
         /\ Repair!NoHead = <<>> /\ Repair!NoHead \in Repair!Heads
         /\ Repair!NoPush \in Repair!PushRecord /\ Repair!NoPush.head = Repair!NoHead
         /\ Repair!NoPush.previous = Repair!NoHead
         /\ Repair!NoRerun \in RepairRerun /\ Repair!NoRerun.count = 0
         /\ Repair!NoRun \in RepairRun /\ Repair!NoRun.status = "none" /\ Repair!NoRun.head = Repair!NoHead
         /\ (\A c \in Checks : Repair!NoRun.verdict[c] = "none") /\ ~Repair!NoRun.charged
         /\ Repair!Idle \in RepairProcess /\ Repair!Idle.pc = "idle"
         /\ Repair!NewChecks \in [Checks -> RepairCheck]
         /\ \A c \in Checks : Repair!NewChecks[c] = [class |-> "running", done |-> 0, lag |-> FALSE]
  <1>1. Guarded \in BOOLEAN /\ MaxIterations \in Nat /\ MaxRuns \in Nat /\ MaxCommits \in Nat /\ MaxMoves \in Nat
    BY DEF Repair!CiRepairAssumption
  <1>2. \A c \in Checks : Baseline[c] \in Repair!Verdicts
    BY DEF Repair!CiRepairAssumption, Repair!Verdicts
  <1>3. Repair!NoHead = <<>> /\ Repair!NoHead \in Repair!Heads
    BY DEF Repair!NoHead, Repair!Heads
  <1>4. Repair!NoPush \in Repair!PushRecord /\ Repair!NoPush.head = Repair!NoHead /\
          Repair!NoPush.previous = Repair!NoHead
    BY <1>3 DEF Repair!NoPush, Repair!PushRecord
  <1>5. Repair!NoRerun \in RepairRerun /\ Repair!NoRerun.count = 0
    BY <1>1, <1>3 DEF Repair!NoRerun, RepairRerun
  <1>6. PICK none, run : none = [c \in Checks |-> "none"] /\ run = Repair!NoRun
    OBVIOUS
  <1>7. none \in [Checks -> Repair!Verdicts \cup {"none"}] /\
          none \in [Checks -> {"none", "planned", "recorded", "skipped"}]
        /\ \A c \in Checks : none[c] = "none"
    BY <1>6
  <1>8. run = [status |-> "none", head |-> Repair!NoHead, charged |-> FALSE, verdict |-> none, batch |-> none,
          commits |-> {}]
    BY <1>6 DEF Repair!NoRun
  <1>9. run \in RepairRun /\ run.status = "none" /\ run.head = Repair!NoHead /\ run.verdict = none /\ ~run.charged
    BY <1>3, <1>7, <1>8 DEF RepairRun
  <1>10. Repair!Idle \in RepairProcess /\ Repair!Idle.pc = "idle"
    BY <1>1, <1>3 DEF Repair!Idle, RepairProcess, RepairPcs
  <1>11. Repair!NewChecks \in [Checks -> RepairCheck]
         /\ \A c \in Checks : Repair!NewChecks[c] = [class |-> "running", done |-> 0, lag |-> FALSE]
    BY <1>1 DEF Repair!NewChecks, RepairCheck, RepairClasses
  <1> QED
    BY <1>1, <1>2, <1>3, <1>4, <1>5, <1>6, <1>7, <1>9, <1>10, <1>11

LEMMA RepairReading ==
  ASSUME RepairInv
  PROVE  /\ github \in RepairSource /\ local \in Repair!Heads /\ state \in RepairFile /\ proc \in RepairProcess
         /\ budget \in 0..MaxMoves
         /\ RepairHeads(github, local, state, budget) /\ RepairCounted(github) /\ RepairSpent(state, github)
         /\ RepairJudged(state, github) /\ RepairCleared(state) /\ RepairAccepted(state, github, budget)
         /\ RepairPlaced(proc, state, github, local)
  BY DEF RepairInv, RepairTypes, RepairGood

\* The invariant of the next state, from the values that it has.
LEMMA RepairThen ==
  ASSUME NEW g \in RepairSource, NEW l \in Repair!Heads, NEW s \in RepairFile, NEW p \in RepairProcess,
         NEW b \in 0..MaxMoves,
         github' = g, local' = l, state' = s, proc' = p, budget' = b, RepairGood(p, s, g, l, b)
  PROVE  RepairInv'
  BY DEF RepairInv, RepairTypes, RepairGood, RepairHeads, RepairLeft, RepairOld, RepairCounted, RepairSpent,
    RepairGreen,
         RepairJudged, RepairCleared, RepairAccepted, RepairPlaced

LEMMA RepairInit ==
  ASSUME Repair!CiRepairAssumption, Repair!Init
  PROVE  RepairInv
  <1>1. PICK g, file, run, reruns : /\ g = [head |-> <<1>>, checks |-> Repair!NewChecks] /\ run = Repair!NoRun
                                    /\ reruns = [c \in Checks |-> Repair!NoRerun] /\ file = state
    OBVIOUS
  <1>2. file = [run |-> run, reruns |-> reruns, iterations |-> 0, charged |-> Repair!NoHead,
                escalation |-> "none", clean |-> Repair!NoHead, pending |-> Repair!NoPush, accepted |-> <<>>]
    BY <1>1 DEF Repair!Init
  <1>3. <<1>> \in Repair!Heads /\ Len(<<1>>) = 1 /\ <<1>>[1] = 1 /\ Repair!Last(<<1>>) = 1 /\ <<1>> # <<>>
    BY DEF Repair!Heads, Repair!Last
  <1>4. g \in RepairSource /\ g.head = <<1>> /\ g.checks = Repair!NewChecks
    BY <1>1, <1>3, RepairConstants DEF RepairSource
  <1>5. run \in RepairRun /\ run.status = "none" /\ run.head = Repair!NoHead /\ Repair!NoHead = <<>> /\
          Repair!NoHead \in Repair!Heads
    BY <1>1, RepairConstants
  <1>6. reruns \in [Checks -> RepairRerun] /\ \A c \in Checks : reruns[c].count = 0
    BY <1>1, RepairConstants
  <1>7. Repair!NoPush \in Repair!PushRecord /\ <<>> \in Seq(Repair!PushRecord) /\ DOMAIN <<>> = {}
    BY RepairConstants
  <1>8. file \in RepairFile /\ file.run = run /\ file.reruns = reruns /\ file.iterations = 0 /\
          file.clean = Repair!NoHead
        /\ file.pending = Repair!NoPush /\ file.accepted = <<>>
    BY <1>2, <1>5, <1>6, <1>7 DEF RepairFile
  <1>9. RepairTypes
    <2>1. github = g /\ local = <<1>> /\ proc = Repair!Idle /\ budget = MaxMoves
      BY <1>1 DEF Repair!Init
    <2> QED
      BY <1>1, <1>3, <1>4, <1>8, <2>1, RepairConstants DEF RepairTypes
  <1>10. RepairHeads(g, <<1>>, file, MaxMoves)
    <2>1. RepairOld(<<1>>, MaxMoves)
      BY <1>3 DEF RepairOld
    <2>2. RepairOld(Repair!NoHead, MaxMoves)
      BY <1>5 DEF RepairOld
    <2> QED
      BY <1>3, <1>4, <1>5, <1>8, <2>1, <2>2 DEF RepairHeads
  <1>11. RepairCounted(g)
    BY <1>4, RepairConstants DEF RepairCounted
  <1>12. RepairSpent(file, g) /\ RepairJudged(file, g) /\ RepairCleared(file)
    BY <1>5, <1>6, <1>8, RepairConstants DEF RepairSpent, RepairJudged, RepairCleared
  <1>13. RepairAccepted(file, g, MaxMoves)
    BY <1>3, <1>4, <1>7, <1>8 DEF RepairAccepted
  <1>14. RepairPlaced(Repair!Idle, file, g, <<1>>)
    BY RepairConstants DEF RepairPlaced, RepairRerunning
  <1>15. github = g /\ local = <<1>> /\ proc = Repair!Idle /\ budget = MaxMoves /\ state = file
    BY <1>1 DEF Repair!Init
  <1> QED
    BY <1>9, <1>10, <1>11, <1>12, <1>13, <1>14, <1>15 DEF RepairInv, RepairGood

-----------------------------------------------------------------------------
(* Heads *)

LEMMA RepairSame ==
  ASSUME NEW s \in Repair!Heads, NEW t \in Repair!Heads, Len(s) = Len(t), \A i \in 1..Len(s) : s[i] = t[i]
  PROVE  s = t
  <1>1. DOMAIN s = 1..Len(s) /\ DOMAIN t = 1..Len(t) /\ s \in [1..Len(s) -> Nat] /\ t \in [1..Len(t) -> Nat]
    BY DEF Repair!Heads
  <1>2. s = [i \in 1..Len(s) |-> s[i]] /\ t = [i \in 1..Len(t) |-> t[i]]
    BY <1>1
  <1> QED
    BY <1>2

LEMMA RepairPrefix ==
  ASSUME NEW s \in Repair!Heads, NEW t \in Repair!Heads
  PROVE  Repair!IsPrefix(s, t) <=> Len(s) <= Len(t) /\ \A i \in 1..Len(s) : s[i] = t[i]
  <1>1. s \in Seq(Nat) /\ t \in Seq(Nat)
    BY DEF Repair!Heads
  <1>2. SubSeq(s, 1, Len(s)) = s
    BY <1>1
  <1>3. ASSUME Len(s) <= Len(t)
        PROVE  SubSeq(t, 1, Len(s)) = s <=> \A i \in 1..Len(s) : s[i] = t[i]
    <2>1. PICK u : u = SubSeq(t, 1, Len(s))
      OBVIOUS
    <2>2. u \in Seq(Nat) /\ Len(u) = Len(s) /\ \A i \in 1..Len(s) : u[i] = t[i]
      BY <1>1, <1>3, <2>1
    <2>3. (\A i \in 1..Len(s) : s[i] = u[i]) => s = u
      BY <2>2, RepairSame DEF Repair!Heads
    <2> QED
      BY <2>1, <2>2, <2>3
  <1> QED
    BY <1>2, <1>3 DEF Repair!IsPrefix

LEMMA RepairOnward ==
  ASSUME NEW g \in Repair!Heads, NEW h \in Repair!Heads, NEW past \in Repair!Heads, Repair!IsPrefix(g, h), g # h,
         g = past \/ RepairLeft(g, past)
  PROVE  RepairLeft(h, past)
  <1>1. g \in Seq(Nat) /\ h \in Seq(Nat) /\ past \in Seq(Nat)
    BY DEF Repair!Heads
  <1>2. Len(g) <= Len(h) /\ \A i \in 1..Len(g) : g[i] = h[i]
    BY RepairPrefix
  <1>3. SUFFICES ASSUME Repair!IsPrefix(h, past)
                 PROVE  FALSE
    BY DEF RepairLeft
  <1>4. Len(h) <= Len(past) /\ \A i \in 1..Len(h) : h[i] = past[i]
    BY <1>3, RepairPrefix
  <1>5. Len(g) <= Len(past) /\ \A i \in 1..Len(g) : g[i] = past[i]
    <2>1. Len(g) \in Nat /\ Len(h) \in Nat /\ Len(past) \in Nat
      BY <1>1
    <2>2. \A i \in 1..Len(g) : i \in 1..Len(h)
      BY <1>2, <2>1
    <2> QED
      BY <1>2, <1>4, <2>1, <2>2
  <1>6. Repair!IsPrefix(g, past)
    BY <1>5, RepairPrefix
  <1>7. g = past
    BY <1>6 DEF RepairLeft
  <1>8. Len(g) = Len(h)
    BY <1>1, <1>2, <1>4, <1>7
  <1>9. g = h
    BY <1>2, <1>8, RepairSame
  <1> QED
    BY <1>9

\* A head is not left as long as it is there.
LEMMA RepairThere ==
  ASSUME NEW h \in Repair!Heads
  PROVE  ~RepairLeft(h, h)
  <1>1. Len(h) \in Nat
    BY DEF Repair!Heads
  <1> QED
    BY <1>1, RepairPrefix DEF RepairLeft

LEMMA RepairNews ==
  ASSUME NEW h \in Repair!Heads, NEW past \in Repair!Heads, NEW b \in Nat, RepairOld(past, b), b > 0,
         NEW i \in 1..Len(h), h[i] = b + 9
  PROVE  RepairLeft(h, past)
  <1>1. SUFFICES ASSUME Repair!IsPrefix(h, past)
                 PROVE  FALSE
    BY DEF RepairLeft
  <1>2. Len(h) <= Len(past) /\ h[i] = past[i]
    BY <1>1, RepairPrefix
  <1>3. i \in 1..Len(past)
    <2>1. Len(h) \in Nat /\ Len(past) \in Nat
      BY DEF Repair!Heads
    <2> QED
      BY <1>2, <2>1
  <1>4. past[i] < 10 \/ past[i] > b + 9
    BY <1>3 DEF RepairOld
  <1> QED
    BY <1>2, <1>4

LEMMA RepairAppend ==
  ASSUME NEW h \in Repair!Heads, NEW x \in Nat
  PROVE  /\ Append(h, x) \in Repair!Heads /\ Append(h, x) # Repair!NoHead /\ Append(h, x) # h
         /\ Repair!Last(Append(h, x)) = x
         /\ Len(Append(h, x)) = Len(h) + 1 /\ Append(h, x)[Len(h) + 1] = x /\ Len(h) + 1 \in 1..Len(Append(h, x))
         /\ Repair!IsPrefix(h, Append(h, x))
  <1>1. h \in Seq(Nat) /\ Len(h) \in Nat
    BY DEF Repair!Heads
  <1>2. PICK u : u = Append(h, x)
    OBVIOUS
  <1>3. u \in Seq(Nat) /\ Len(u) = Len(h) + 1 /\ u[Len(h) + 1] = x /\ \A i \in 1..Len(h) : u[i] = h[i]
    BY <1>1, <1>2
  <1>4. u \in Repair!Heads /\ u # <<>> /\ u # h /\ Repair!Last(u) = x
    BY <1>1, <1>3 DEF Repair!Heads, Repair!Last
  <1>5. Repair!IsPrefix(h, u)
    <2>1. Len(h) <= Len(u)
      BY <1>1, <1>3
    <2> QED
      BY <1>3, <1>4, <2>1, RepairPrefix
  <1> QED
    BY <1>1, <1>2, <1>3, <1>4, <1>5 DEF Repair!NoHead

LEMMA RepairOldAppend ==
  ASSUME NEW h \in Repair!Heads, NEW x \in Nat, NEW b \in Nat, NEW b2 \in Nat, RepairOld(h, b), b2 <= b, x < 10 \/
         x > b2 + 9
  PROVE  RepairOld(Append(h, x), b2)
  <1>1. h \in Seq(Nat) /\ Len(h) \in Nat
    BY DEF Repair!Heads
  <1>2. Len(Append(h, x)) = Len(h) + 1 /\ \A i \in 1..(Len(h) + 1) :
          Append(h, x)[i] = IF i = Len(h) + 1 THEN x ELSE h[i]
    BY <1>1
  <1>3. ASSUME NEW i \in 1..Len(h)
        PROVE  h[i] < 10 \/ h[i] > b2 + 9
    <2>1. h[i] \in Nat
      BY <1>1
    <2> QED
      BY <2>1 DEF RepairOld
  <1> QED
    BY <1>1, <1>2, <1>3 DEF RepairOld

LEMMA RepairOlder ==
  ASSUME NEW h \in Repair!Heads, NEW b \in Nat, NEW b2 \in Nat, RepairOld(h, b), b2 <= b
  PROVE  RepairOld(h, b2)
  <1>1. ASSUME NEW i \in 1..Len(h)
        PROVE  h[i] < 10 \/ h[i] > b2 + 9
    <2>1. h[i] \in Nat
      BY DEF Repair!Heads
    <2> QED
      BY <2>1 DEF RepairOld
  <1> QED
    BY <1>1 DEF RepairOld

-----------------------------------------------------------------------------
(* What a move of the branch leaves true, and what a save does. *)

LEMMA RepairMoved ==
  ASSUME Repair!CiRepairAssumption, RepairInv, NEW h \in Repair!Heads, NEW b \in 0..budget, NEW g,
         g = [head |-> h, checks |-> Repair!NewChecks], h # Repair!NoHead, RepairOld(h, b),
         \A past \in Repair!Heads : RepairOld(past, budget) /\ (github.head = past \/ RepairLeft(github.head, past)) =>
           RepairLeft(h, past),
         Guarded /\ Repair!Last(h) \in {0, 8, 9} => h = state.pending.head
  PROVE  /\ g \in RepairSource /\ b \in 0..MaxMoves
         /\ RepairHeads(g, local, state, b) /\ RepairCounted(g) /\ RepairSpent(state, g) /\ RepairJudged(state, g)
         /\ RepairAccepted(state, g, b) /\ (state.run.status # "none" => g.head # state.run.head)
  <1>1. g \in RepairSource /\ g.head = h /\ g.checks = Repair!NewChecks
    BY RepairConstants DEF RepairSource
  <1>2. budget \in 0..MaxMoves /\ MaxMoves \in Nat /\ b \in Nat /\ b <= budget /\ budget \in Nat /\ b \in 0..MaxMoves
    BY RepairReading, RepairConstants
  <1>3. local \in Repair!Heads /\ state.run.head \in Repair!Heads /\ github.head \in Repair!Heads /\
          state.accepted \in Seq(Repair!PushRecord)
    BY RepairReading DEF RepairFile, RepairRun, RepairSource
  <1>4. state.run.status # "none" => RepairLeft(h, state.run.head)
    BY <1>3, RepairReading DEF RepairHeads
  <1>5. state.run.status # "none" => h # state.run.head
    BY <1>4, RepairThere
  <1>6. RepairHeads(g, local, state, b)
    <2>1. RepairOld(local, b) /\ RepairOld(state.run.head, b)
      BY <1>2, <1>3, RepairReading, RepairOlder DEF RepairHeads
    <2> QED
      BY <1>1, <1>4, <2>1 DEF RepairHeads
  <1>7. RepairCounted(g)
    BY <1>1, RepairConstants DEF RepairCounted
  <1>8. RepairSpent(state, g)
    BY <1>1, <1>5, RepairReading DEF RepairSpent
  <1>9. RepairJudged(state, g)
    BY <1>1, <1>5, RepairReading DEF RepairJudged
  <1>10. RepairAccepted(state, g, b)
    <2>1. ASSUME NEW i \in DOMAIN state.accepted
          PROVE  RepairOld(state.accepted[i].previous, b) /\ RepairLeft(h, state.accepted[i].previous)
      <3>1. state.accepted[i] \in Repair!PushRecord
        BY <1>3, <2>1
      <3>2. PICK past : past = state.accepted[i].previous
        OBVIOUS
      <3>3. past \in Repair!Heads
        BY <3>1, <3>2 DEF Repair!PushRecord
      <3>4. RepairOld(past, budget) /\ RepairLeft(github.head, past)
        BY <2>1, <3>2, RepairReading DEF RepairAccepted
      <3>5. RepairOld(past, b)
        BY <1>2, <3>3, <3>4, RepairOlder
      <3> QED
        BY <3>2, <3>3, <3>4, <3>5
    <2>2. RepairAccepted(state, github, budget)
      BY RepairReading
    <2>3. PICK d : d = DOMAIN state.accepted
      OBVIOUS
    <2>4. \A i \in d : state.run.status = "active" => state.accepted[i].previous # state.run.head
      BY <2>2, <2>3 DEF RepairAccepted
    <2>5. \A i, j \in d : state.accepted[i] = state.accepted[j] => i = j
      BY <2>2, <2>3 DEF RepairAccepted
    <2>6. state.pending # Repair!NoPush => state.pending.head # state.pending.previous
      BY <2>2 DEF RepairAccepted
    <2> QED
      BY <1>1, <2>1, <2>3, <2>4, <2>5, <2>6 DEF RepairAccepted
  <1> QED
    BY <1>1, <1>2, <1>5, <1>6, <1>7, <1>8, <1>9, <1>10

\* Of ours: a push only goes onward.
LEMMA RepairPushes ==
  ASSUME Repair!CiRepairAssumption, RepairInv, NEW p \in RepairProcess, local # Repair!NoHead,
         Repair!IsPrefix(github.head, local), github.head # local,
         Guarded => local = state.pending.head,
         github' = [head |-> local, checks |-> Repair!NewChecks], proc' = p, UNCHANGED <<local, state, budget>>,
         \A g : g.head # state.run.head => RepairPlaced(p, state, g, local),
         state.run.status = "active"
  PROVE  RepairInv'
  <1>1. PICK g : g = [head |-> local, checks |-> Repair!NewChecks]
    OBVIOUS
  <1>2. local \in Repair!Heads /\ github.head \in Repair!Heads /\ RepairOld(local, budget) /\ budget \in 0..budget /\
          RepairCleared(state)
        /\ state \in RepairFile
    BY RepairReading, RepairConstants DEF RepairSource, RepairHeads
  <1>3. \A past \in Repair!Heads : github.head = past \/ RepairLeft(github.head, past) => RepairLeft(local, past)
    BY <1>2, RepairOnward
  <1>4. /\ g \in RepairSource /\ budget \in 0..MaxMoves
        /\ RepairHeads(g, local, state, budget) /\ RepairCounted(g) /\ RepairSpent(state, g) /\ RepairJudged(state, g)
        /\ RepairAccepted(state, g, budget) /\ (state.run.status # "none" => g.head # state.run.head)
    BY <1>1, <1>2, <1>3, RepairMoved
  <1>5. RepairPlaced(p, state, g, local)
    BY <1>4
  <1>6. RepairGood(p, state, g, local, budget)
    BY <1>2, <1>4, <1>5 DEF RepairGood
  <1> QED
    BY <1>1, <1>2, <1>4, <1>6, RepairThen

\* A save of what the agent or the checks say leaves the pushes and the head alone.
LEMMA RepairSaved ==
  ASSUME RepairInv, proc.pc = "idle", NEW s \in RepairFile, Repair!Save(s),
         s.run.status = state.run.status, s.run.head = state.run.head, s.pending = state.pending,
         s.accepted = state.accepted, RepairSpent(s, github), RepairJudged(s, github), RepairCleared(s)
  PROVE  RepairInv'
  <1>1. RepairHeads(github, local, s, budget)
    BY RepairReading DEF RepairHeads
  <1>2. RepairAccepted(s, github, budget)
    BY RepairReading DEF RepairAccepted
  <1>3. RepairPlaced(proc, s, github, local)
    BY DEF RepairPlaced, RepairRerunning
  <1>4. RepairGood(proc, s, github, local, budget)
    BY <1>1, <1>2, <1>3, RepairReading DEF RepairGood
  <1> QED
    BY <1>4, RepairReading, RepairThen DEF Repair!Save

\* What finishes a push ends the run; the accepted one is new.
LEMMA RepairFinish ==
  ASSUME Repair!CiRepairAssumption, RepairInv, NEW s \in RepairFile, NEW push \in Repair!PushRecord,
         NEW p \in RepairProcess,
         p.pc = "idle",
         state.run.status = "active", push.previous = state.run.head, push.head = github.head,
           github.head # state.run.head,
         s.run.status = "published", s.run.head = state.run.head, s.accepted = Append(state.accepted, push),
         s.iterations = state.iterations, s.clean = Repair!NoHead,
         s.pending = Repair!NoPush \/ s.pending = state.pending,
         \A c \in Checks : s.reruns[c].count = 1 => /\ state.reruns[c].count = 1
                                                    /\ s.reruns[c].head = state.reruns[c].head
                                                    /\ s.reruns[c].seen = state.reruns[c].seen,
         state' = s, proc' = p, UNCHANGED <<github, local, budget>>
  PROVE  RepairInv'
  <1>1. RepairHeads(github, local, s, budget)
    BY RepairReading DEF RepairHeads
  <1>2. RepairSpent(s, github)
    BY RepairReading DEF RepairSpent
  <1>3. RepairJudged(s, github)
    BY RepairReading DEF RepairJudged
  <1>4. RepairCleared(s)
    BY DEF RepairCleared
  <1>5. PICK acc, d, n : acc = state.accepted /\ d = DOMAIN acc /\ n = Len(acc) + 1
    OBVIOUS
  <1>6. acc \in Seq(Repair!PushRecord) /\ s.accepted = Append(acc, push)
    BY <1>5, RepairReading DEF RepairFile
  <1>7. /\ DOMAIN s.accepted = d \cup {n} /\ n \notin d /\ s.accepted[n] = push
        /\ \A i \in d : s.accepted[i] = acc[i] /\ acc[i] \in Repair!PushRecord
    BY <1>5, <1>6
  <1>8. RepairAccepted(state, github, budget)
    BY RepairReading
  <1>9. RepairOld(push.previous, budget) /\ RepairLeft(github.head, push.previous)
    BY RepairReading DEF RepairHeads
  <1>10. \A i \in d : acc[i].previous # push.previous
    BY <1>5, <1>8 DEF RepairAccepted
  <1>11. \A i \in d : RepairOld(acc[i].previous, budget) /\ RepairLeft(github.head, acc[i].previous)
    BY <1>5, <1>8 DEF RepairAccepted
  <1>12. \A i, j \in d : acc[i] = acc[j] => i = j
    BY <1>5, <1>8 DEF RepairAccepted
  <1>13. s.pending # Repair!NoPush => s.pending.head # s.pending.previous
    BY <1>8 DEF RepairAccepted
  <1>14. ASSUME NEW i \in DOMAIN s.accepted
         PROVE  RepairOld(s.accepted[i].previous, budget) /\ RepairLeft(github.head, s.accepted[i].previous)
    BY <1>7, <1>9, <1>11
  <1>15. ASSUME NEW i \in DOMAIN s.accepted, NEW j \in DOMAIN s.accepted, s.accepted[i] = s.accepted[j]
         PROVE  i = j
    BY <1>7, <1>10, <1>12, <1>15
  <1>16. \E i \in DOMAIN s.accepted : github.head = s.accepted[i].head
    BY <1>7
  <1>17. RepairAccepted(s, github, budget)
    BY <1>13, <1>14, <1>15, <1>16 DEF RepairAccepted
  <1>18. RepairPlaced(p, s, github, local)
    BY RepairConstants DEF RepairPlaced, RepairRerunning
  <1>19. RepairGood(p, s, github, local, budget)
    BY <1>1, <1>2, <1>3, <1>4, <1>17, <1>18, RepairReading DEF RepairGood
  <1> QED
    BY <1>19, RepairReading, RepairConstants, RepairThen

\* The process alone moves.
LEMMA RepairGoes ==
  ASSUME RepairInv, NEW p \in RepairProcess, NEW l \in Repair!Heads, proc' = p, local' = l,
         UNCHANGED <<github, state, budget>>,
         RepairOld(l, budget), RepairPlaced(p, state, github, l)
  PROVE  RepairInv'
  <1>1. RepairHeads(github, l, state, budget)
    BY RepairReading DEF RepairHeads
  <1>2. RepairGood(p, state, github, l, budget)
    BY <1>1, RepairReading DEF RepairGood
  <1> QED
    BY <1>2, RepairReading, RepairThen
\* A check moves on, and never back to where it had not ended.
LEMMA RepairChecked ==
  ASSUME Repair!CiRepairAssumption, RepairInv, NEW p \in RepairProcess, proc' = p, UNCHANGED <<local, state, budget>>,
         NEW c \in Checks, NEW check \in RepairCheck, NEW checks, checks = [github.checks EXCEPT ![c] = check],
         github' = [github EXCEPT !.checks = checks],
         check.done >= github.checks[c].done, github.checks[c].class = "passed" => check.class = "passed",
         check.class # "running" => check.done >= 1, check.lag => check.class = "failed",
         RepairPlaced(p, state, github, local)
  PROVE  RepairInv'
  <1>1. PICK g : g = [github EXCEPT !.checks = checks]
    OBVIOUS
  <1>2. github \in RepairSource /\ github.checks \in [Checks -> RepairCheck]
    BY RepairReading DEF RepairSource
  <1>3. checks \in [Checks -> RepairCheck] /\ checks[c] = check /\ \A d \in Checks \ {c} : checks[d] = github.checks[d]
    BY <1>2
  <1>4. g \in RepairSource /\ g.head = github.head /\ g.checks = checks
    BY <1>1, <1>2, <1>3 DEF RepairSource
  <1>5. RepairHeads(g, local, state, budget)
    BY <1>4, RepairReading DEF RepairHeads
  <1>6. RepairCounted(g)
    BY <1>3, <1>4, RepairReading DEF RepairCounted
  <1>7. RepairGreen(github) => RepairGreen(g)
    BY <1>3, <1>4 DEF RepairGreen
  <1>8. RepairSpent(state, g)
    BY <1>4, <1>7, RepairReading DEF RepairSpent
  <1>9. ASSUME NEW d \in Checks, github.checks[d].done >= 1
        PROVE  checks[d].done >= 1
    <2>1. github.checks[c] \in RepairCheck /\ MaxRuns \in Nat
      BY <1>2, RepairConstants
    <2>2. github.checks[c].done \in Nat /\ check.done \in Nat
      BY <2>1 DEF RepairCheck
    <2> QED
      BY <1>3, <1>9, <2>2
  <1>10. RepairJudged(state, g)
    BY <1>4, <1>9, RepairReading DEF RepairJudged
  <1>11. RepairAccepted(state, g, budget)
    BY <1>4, RepairReading DEF RepairAccepted
  <1>12. RepairPlaced(p, state, g, local)
    BY <1>4 DEF RepairPlaced
  <1>13. RepairGood(p, state, g, local, budget)
    BY <1>5, <1>6, <1>8, <1>10, <1>11, <1>12, RepairReading DEF RepairGood
  <1> QED
    BY <1>1, <1>4, <1>13, RepairReading, RepairThen

-----------------------------------------------------------------------------
(* The commands of one save *)

LEMMA RepairPreflight ==
  ASSUME Repair!CiRepairAssumption, RepairInv, Repair!Preflight
  PROVE  RepairInv'
  <1>1. PICK run, reruns, e, s :
          /\ run = [Repair!NoRun EXCEPT !.status = "active", !.head = github.head] /\ s = state'
          /\ reruns = IF state.run.status # "none" /\ state.run.head # github.head
                      THEN [c \in Checks |-> Repair!NoRerun] ELSE state.reruns
          /\ e = IF state.iterations >= MaxIterations /\ state.charged # github.head
                 THEN "max_iterations_reached" ELSE "none"
    OBVIOUS
  <1>2. s = [state EXCEPT !.run = run, !.reruns = reruns, !.clean = Repair!NoHead, !.escalation = e]
    BY <1>1 DEF Repair!Preflight, Repair!Run
  <1>3. github.head \in Repair!Heads /\ github \in RepairSource /\ state \in RepairFile
    BY RepairReading DEF RepairSource
  <1>4. /\ run \in RepairRun /\ run.status = "active" /\ run.head = github.head /\ ~run.charged
        /\ \A c \in Checks : run.verdict[c] = "none"
    BY <1>1, <1>3, RepairConstants DEF RepairRun
  <1>5. reruns \in [Checks -> RepairRerun]
    BY <1>1, <1>3, RepairConstants DEF RepairFile
  <1>6. e \in Repair!Escalations \cup {"none"}
    BY <1>1 DEF Repair!Escalations
  <1>7. s \in RepairFile
    BY <1>2, <1>3, <1>4, <1>5, <1>6, RepairConstants DEF RepairFile
  <1>8. s.run = run /\ s.reruns = reruns /\ s.clean = Repair!NoHead /\ s.escalation = e /\
          s.iterations = state.iterations
        /\ s.charged = state.charged /\ s.pending = state.pending /\ s.accepted = state.accepted
    BY <1>2, <1>3 DEF RepairFile
  <1>9. state.iterations \in Nat /\ MaxIterations \in Nat
    BY <1>3, RepairConstants DEF RepairFile
  <1>10. RepairHeads(github, github.head, s, budget)
    BY <1>4, <1>8, RepairReading DEF RepairHeads
  <1>11. RepairSpent(s, github)
    BY <1>1, <1>4, <1>8, <1>9, RepairReading DEF RepairSpent
  <1>12. ASSUME NEW c \in Checks, reruns[c].count = 1
         PROVE  reruns[c].head = github.head /\ reruns[c].seen >= 1
    <2>1. state.run.status # "none" => reruns = state.reruns /\ state.run.head = github.head
      BY <1>1, <1>12, RepairConstants
    <2>2. state.run.status = "none" => reruns = state.reruns
      BY <1>1
    <2>3. state.reruns[c].count = 1
      BY <1>12, <2>1, <2>2
    <2>4. state.run.status # "none" /\ state.reruns[c].head = state.run.head
          /\ (github.head = state.run.head => state.reruns[c].seen >= 1)
      BY <2>3, RepairReading DEF RepairJudged
    <2> QED
      BY <2>1, <2>4
  <1>13. RepairJudged(s, github)
    BY <1>4, <1>8, <1>12 DEF RepairJudged
  <1>14. RepairCleared(s)
    BY <1>8 DEF RepairCleared
  <1>15. RepairAccepted(s, github, budget)
    <2>1. RepairAccepted(state, github, budget)
      BY RepairReading
    <2>2. \A i \in DOMAIN state.accepted : state.accepted[i].previous # github.head
      BY <1>3, <2>1, RepairThere DEF RepairAccepted
    <2> QED
      BY <1>4, <1>8, <2>1, <2>2 DEF RepairAccepted
  <1>16. RepairPlaced(proc, s, github, github.head)
    BY DEF RepairPlaced, RepairRerunning, Repair!Preflight
  <1>17. RepairGood(proc, s, github, github.head, budget)
    BY <1>10, <1>11, <1>13, <1>14, <1>15, <1>16, RepairReading DEF RepairGood
  <1>18. github' = github /\ local' = github.head /\ proc' = proc /\ budget' = budget
    BY DEF Repair!Preflight
  <1> QED
    BY <1>1, <1>3, <1>7, <1>17, <1>18, RepairReading, RepairThen

\* What a check says, read with its watermark.
LEMMA RepairSays ==
  ASSUME Repair!CiRepairAssumption, RepairInv, NEW c \in Checks
  PROVE  /\ github.checks[c] \in RepairCheck /\ Repair!Class(c) \in RepairClasses
         /\ Repair!Class(c) \in {"failed", "passed", "blocked"} => Repair!Class(c) = github.checks[c].class
         /\ c \in Repair!Failed => github.checks[c].class = "failed" /\ ~Repair!Stale(c) /\ github.checks[c].done >= 1
         /\ Repair!Attributed(c) \in Repair!Verdicts \cup {"none"}
         /\ Repair!Attributed(c) # "none" => github.checks[c].done >= 1
  <1>1. github.checks[c] \in RepairCheck /\ github.checks[c].class \in RepairClasses
    BY RepairReading DEF RepairSource, RepairCheck
  <1>2. Repair!Class(c) \in RepairClasses /\ (Repair!Class(c) \in {"failed", "passed", "blocked"} =>
          Repair!Class(c) = github.checks[c].class)
    BY <1>1 DEF Repair!Class, RepairClasses
  <1>3. ASSUME c \in Repair!Failed
        PROVE  github.checks[c].class = "failed" /\ ~Repair!Stale(c) /\ github.checks[c].done >= 1
    <2>1. Repair!Class(c) = "failed"
      BY <1>3 DEF Repair!Failed
    <2>2. github.checks[c].class = "failed" /\ ~Repair!Stale(c)
      BY <2>1 DEF Repair!Class
    <2> QED
      BY <2>2, RepairReading DEF RepairCounted
  <1>4. Repair!Attributed(c) \in Repair!Verdicts \cup {"none"}
    <2>1. state.run.verdict[c] \in Repair!Verdicts \cup {"none"} /\ Baseline[c] \in Repair!Verdicts
      BY RepairReading, RepairConstants DEF RepairFile, RepairRun
    <2> QED
      BY <2>1 DEF Repair!Attributed, Repair!Run
  <1>5. Repair!Attributed(c) # "none" => c \in Repair!Failed
    BY DEF Repair!Attributed
  <1> QED
    BY <1>1, <1>2, <1>3, <1>4, <1>5

\* Green is green: no failure, none that runs and none that is blocked.
LEMMA RepairGreens ==
  ASSUME Repair!CiRepairAssumption, RepairInv, Repair!Failed = {}, Repair!Decision = "green"
  PROVE  RepairGreen(github)
  <1>1. ASSUME NEW c \in Checks
        PROVE  github.checks[c].class = "passed"
    <2>1. Repair!Class(c) # "blocked" /\ Repair!Class(c) # "running"
      BY DEF Repair!Decision
    <2>2. Repair!Class(c) # "failed"
      BY DEF Repair!Failed
    <2> QED
      BY <2>1, <2>2, RepairSays DEF RepairClasses
  <1> QED
    BY <1>1 DEF RepairGreen

LEMMA RepairClears ==
  ASSUME Repair!CiRepairAssumption, RepairInv, proc.pc = "idle", state.run.status = "active",
         github.head = state.run.head,
         Repair!Failed = {}, Repair!Decision = "green",
           Repair!Save([state EXCEPT !.clean = Repair!Run.head, !.escalation = "none"])
  PROVE  RepairInv'
  <1>1. PICK s : s = [state EXCEPT !.clean = Repair!Run.head, !.escalation = "none"]
    OBVIOUS
  <1>2. state \in RepairFile /\ state.run.head \in Repair!Heads
    BY RepairReading DEF RepairFile, RepairRun
  <1>3. s \in RepairFile
    BY <1>1, <1>2 DEF RepairFile, Repair!Run
  <1>4. s.run = state.run /\ s.reruns = state.reruns /\ s.clean = state.run.head /\ s.pending = state.pending
        /\ s.accepted = state.accepted /\ s.iterations = state.iterations
    BY <1>1, <1>2 DEF RepairFile, Repair!Run
  <1>5. RepairSpent(s, github)
    BY <1>4, RepairReading, RepairGreens DEF RepairSpent
  <1>6. RepairJudged(s, github)
    BY <1>4, RepairReading DEF RepairJudged
  <1>7. RepairCleared(s)
    BY <1>4 DEF RepairCleared
  <1> QED
    BY <1>1, <1>3, <1>4, <1>5, <1>6, <1>7, RepairSaved

LEMMA RepairEscalates ==
  ASSUME RepairInv, proc.pc = "idle", NEW e \in Repair!Escalations, Repair!Save([state EXCEPT !.escalation = e])
  PROVE  RepairInv'
  <1>1. PICK s : s = [state EXCEPT !.escalation = e]
    OBVIOUS
  <1>2. state \in RepairFile
    BY RepairReading
  <1>3. s \in RepairFile
    BY <1>1, <1>2 DEF RepairFile
  <1>4. s.run = state.run /\ s.reruns = state.reruns /\ s.clean = state.clean /\ s.pending = state.pending
        /\ s.accepted = state.accepted /\ s.iterations = state.iterations /\ s.escalation = e
    BY <1>1, <1>2 DEF RepairFile
  <1>5. RepairSpent(s, github)
    BY <1>4, RepairReading DEF RepairSpent, Repair!Escalations
  <1>6. RepairJudged(s, github) /\ RepairCleared(s)
    BY <1>4, RepairReading DEF RepairJudged, RepairCleared
  <1> QED
    BY <1>1, <1>3, <1>4, <1>5, <1>6, RepairSaved

LEMMA RepairOneMore ==
  ASSUME NEW n \in Nat, NEW m \in Nat, n < m
  PROVE  n + 1 \in Nat /\ n + 1 <= m
  OBVIOUS

\* A failure is attributed, and what follows from it charged or said.
LEMMA RepairAttributes ==
  ASSUME Repair!CiRepairAssumption, RepairInv, Repair!Working, github.head = state.run.head, Repair!Failed # {},
         NEW attributed, attributed = [state EXCEPT !.run.verdict = [c \in Checks |-> Repair!Attributed(c)]],
         NEW s, Repair!Save(s),
         \/ s = Repair!ChargeIteration(attributed)
         \/ s = attributed
         \/ \E e \in Repair!Escalations : s = [attributed EXCEPT !.escalation = e]
  PROVE  RepairInv'
  <1>1. PICK verdict, run : verdict = [c \in Checks |-> Repair!Attributed(c)] /\
          run = [state.run EXCEPT !.verdict = verdict]
    OBVIOUS
  <1>2. attributed = [state EXCEPT !.run = run]
    BY <1>1
  <1>3. proc.pc = "idle" /\ state.run.status = "active" /\ state.escalation = "none" /\ state \in RepairFile
        /\ state.run \in RepairRun
    BY RepairReading DEF Repair!Working, Repair!Active, Repair!Run, RepairFile
  <1>4. verdict \in [Checks -> Repair!Verdicts \cup {"none"}]
        /\ \A c \in Checks : verdict[c] # "none" => github.checks[c].done >= 1
    BY <1>1, RepairSays
  <1>5. run \in RepairRun /\ run.verdict = verdict /\ run.status = state.run.status /\ run.head = state.run.head
        /\ run.charged = state.run.charged
    BY <1>1, <1>3, <1>4 DEF RepairRun
  <1>6. attributed \in RepairFile
    BY <1>2, <1>3, <1>5 DEF RepairFile
  <1>7. attributed.run = run /\ attributed.reruns = state.reruns /\ attributed.clean = state.clean
        /\ attributed.pending = state.pending /\ attributed.accepted = state.accepted
        /\ attributed.iterations = state.iterations /\ attributed.escalation = state.escalation
        /\ attributed.charged = state.charged
    BY <1>2, <1>3 DEF RepairFile
  <1>8. RepairSpent(attributed, github)
    BY <1>5, <1>7, RepairReading DEF RepairSpent
  <1>9. RepairJudged(attributed, github)
    BY <1>4, <1>5, <1>7, RepairReading DEF RepairJudged
  <1>10. RepairCleared(attributed)
    BY <1>5, <1>7, RepairReading DEF RepairCleared
  <1>11. CASE s = attributed
    BY <1>3, <1>5, <1>6, <1>7, <1>8, <1>9, <1>10, <1>11, RepairSaved
  <1>12. CASE \E e \in Repair!Escalations : s = [attributed EXCEPT !.escalation = e]
    <2>1. PICK e \in Repair!Escalations : s = [attributed EXCEPT !.escalation = e]
      BY <1>12
    <2>2. s \in RepairFile
      BY <1>6, <2>1 DEF RepairFile
    <2>3. s.run = run /\ s.reruns = state.reruns /\ s.clean = state.clean /\ s.pending = state.pending
          /\ s.accepted = state.accepted /\ s.iterations = state.iterations /\ s.escalation = e
      BY <1>6, <1>7, <2>1 DEF RepairFile
    <2>4. RepairSpent(s, github)
      BY <2>3, RepairReading DEF RepairSpent, Repair!Escalations
    <2>5. RepairJudged(s, github) /\ RepairCleared(s)
      BY <1>4, <1>5, <2>3, RepairReading DEF RepairJudged, RepairCleared
    <2> QED
      BY <1>3, <1>5, <2>2, <2>3, <2>4, <2>5, RepairSaved
  <1>13. CASE s = Repair!ChargeIteration(attributed)
    <2>1. CASE run.charged \/ state.charged = run.head
      <3>1. s = attributed
        BY <1>7, <1>13, <2>1 DEF Repair!ChargeIteration
      <3> QED
        BY <1>11, <3>1
    <2>2. CASE ~run.charged /\ state.charged # run.head
      <3>1. PICK n : n = state.iterations + 1
        OBVIOUS
      <3>2. PICK charged : charged = [run EXCEPT !.charged = TRUE]
        OBVIOUS
      <3>3. s = [attributed EXCEPT !.run = charged, !.iterations = n, !.charged = run.head]
        BY <1>7, <1>13, <2>2, <3>1, <3>2 DEF Repair!ChargeIteration
      <3>4. charged \in RepairRun /\ charged.charged = TRUE /\ charged.verdict = verdict /\
              charged.status = state.run.status
            /\ charged.head = state.run.head
        BY <1>5, <3>2 DEF RepairRun
      <3>5. state.iterations \in Nat /\ MaxIterations \in Nat /\ state.iterations <= MaxIterations /\
              run.head \in Repair!Heads
        BY <1>3, <1>5, RepairReading, RepairConstants DEF RepairFile, RepairSpent, RepairRun
      <3>6. ~RepairGreen(github)
        <4>1. PICK c \in Repair!Failed : TRUE
          OBVIOUS
        <4>2. c \in Checks
          BY DEF Repair!Failed
        <4> QED
          BY <4>1, <4>2, RepairSays DEF RepairGreen
      <3>7. state.iterations < MaxIterations
        BY <1>3, <1>5, <2>2, <3>6, RepairReading DEF RepairSpent
      <3>8. s \in RepairFile
        <4>1. n \in Nat
          BY <3>1, <3>5, <3>7, RepairOneMore, Zenon
        <4> QED
          BY <1>6, <3>3, <3>4, <3>5, <4>1 DEF RepairFile
      <3>9. s.run = charged /\ s.reruns = state.reruns /\ s.clean = state.clean /\ s.pending = state.pending
            /\ s.accepted = state.accepted /\ s.iterations = n /\ s.escalation = state.escalation
        BY <1>6, <1>7, <3>3 DEF RepairFile
      <3>10. RepairSpent(s, github)
        <4>1. n <= MaxIterations
          BY <3>1, <3>5, <3>7, RepairOneMore, Zenon
        <4> QED
          BY <3>4, <3>9, <4>1 DEF RepairSpent
      <3>11. RepairJudged(s, github)
        BY <1>4, <3>4, <3>9, RepairReading DEF RepairJudged
      <3>12. RepairCleared(s)
        BY <3>4, <3>9, RepairReading DEF RepairCleared
      <3> QED
        BY <1>3, <3>4, <3>8, <3>9, <3>10, <3>11, <3>12, RepairSaved
    <2> QED
      BY <2>1, <2>2
  <1> QED
    BY <1>11, <1>12, <1>13

\* The ends of the decision over failures.
LEMMA RepairEnds ==
  Repair!NextAction \in {"fix", "rerun", "attribute", "waiting"} \cup Repair!Escalations
  BY DEF Repair!NextAction, Repair!Escalations

LEMMA RepairChecks ==
  ASSUME Repair!CiRepairAssumption, RepairInv, Repair!CommandChecks
  PROVE  RepairInv'
  <1>1. proc.pc = "idle" /\ state.run.status = "active" /\ Repair!Working
    BY DEF Repair!CommandChecks, Repair!Working, Repair!Active, Repair!Run
  <1>2. CASE github.head # Repair!Run.head
    <2>1. Repair!Save([state EXCEPT !.escalation = "head_changed"])
      BY <1>2 DEF Repair!CommandChecks
    <2> QED
      BY <1>1, <2>1, RepairEscalates DEF Repair!Escalations
  <1>3. CASE github.head = Repair!Run.head /\ Repair!Failed = {}
    <2>1. Repair!Decision \in {"escalate", "waiting", "green"}
      BY DEF Repair!Decision
    <2>2. CASE Repair!Decision = "escalate"
      <3>1. Repair!Save([state EXCEPT !.escalation = "blocked"])
        BY <1>3, <2>2 DEF Repair!CommandChecks
      <3> QED
        BY <1>1, <3>1, RepairEscalates DEF Repair!Escalations
    <2>3. CASE Repair!Decision = "green"
      <3>1. Repair!Save([state EXCEPT !.clean = Repair!Run.head, !.escalation = "none"])
        BY <1>3, <2>3 DEF Repair!CommandChecks
      <3> QED
        BY <1>1, <1>3, <2>3, <3>1, RepairClears DEF Repair!Run
    <2>4. CASE Repair!Decision = "waiting"
      <3>1. Repair!Save(state)
        BY <1>3, <2>4 DEF Repair!CommandChecks
      <3> QED
        BY <1>1, <3>1, RepairReading, RepairSaved
    <2> QED
      BY <2>1, <2>2, <2>3, <2>4
  <1>4. CASE github.head = Repair!Run.head /\ Repair!Failed # {}
    <2>1. PICK attributed : attributed = [state EXCEPT !.run.verdict = [c \in Checks |-> Repair!Attributed(c)]]
      OBVIOUS
    <2>2. Repair!Save(IF Repair!NextAction \in {"fix", "rerun", "attribute"} THEN Repair!ChargeIteration(attributed)
               ELSE IF Repair!NextAction = "waiting" THEN attributed
               ELSE [attributed EXCEPT !.escalation = Repair!NextAction])
      BY <1>4, <2>1 DEF Repair!CommandChecks
    <2>3. CASE Repair!NextAction \in {"fix", "rerun", "attribute"}
      <3>1. Repair!Save(Repair!ChargeIteration(attributed))
        BY <2>2, <2>3
      <3> QED
        BY <1>1, <1>4, <2>1, <3>1, RepairAttributes DEF Repair!Run
    <2>4. CASE Repair!NextAction = "waiting"
      <3>1. Repair!Save(attributed)
        BY <2>2, <2>4
      <3> QED
        BY <1>1, <1>4, <2>1, <3>1, RepairAttributes DEF Repair!Run
    <2>5. CASE Repair!NextAction \in Repair!Escalations
      <3>1. Repair!Save([attributed EXCEPT !.escalation = Repair!NextAction])
        BY <2>2, <2>5 DEF Repair!Escalations
      <3> QED
        BY <1>1, <1>4, <2>1, <2>5, <3>1, RepairAttributes DEF Repair!Run
    <2> QED
      BY <2>3, <2>4, <2>5, RepairEnds
  <1> QED
    BY <1>2, <1>3, <1>4

LEMMA RepairResolve ==
  ASSUME Repair!CiRepairAssumption, RepairInv, Repair!Resolve
  PROVE  RepairInv'
  BY RepairClears DEF Repair!Resolve, Repair!Active, Repair!Run

\* What the agent writes into the run.
LEMMA RepairWrites ==
  ASSUME Repair!CiRepairAssumption, RepairInv, proc.pc = "idle", NEW run \in RepairRun, NEW e,
         run.status = state.run.status, run.head = state.run.head, run.charged = state.run.charged,
         \A c \in Checks : run.verdict[c] # "none" => state.run.verdict[c] # "none",
         e = state.escalation \/ e \in Repair!Escalations, Repair!Save([state EXCEPT !.run = run, !.escalation = e])
  PROVE  RepairInv'
  <1>1. PICK s : s = [state EXCEPT !.run = run, !.escalation = e]
    OBVIOUS
  <1>2. state \in RepairFile /\ e \in Repair!Escalations \cup {"none"}
    BY RepairReading DEF RepairFile
  <1>3. s \in RepairFile
    BY <1>1, <1>2 DEF RepairFile
  <1>4. s.run = run /\ s.reruns = state.reruns /\ s.clean = state.clean /\ s.pending = state.pending
        /\ s.accepted = state.accepted /\ s.iterations = state.iterations /\ s.escalation = e
        /\ s.charged = state.charged
    BY <1>1, <1>2 DEF RepairFile
  <1>5. RepairSpent(s, github)
    BY <1>4, RepairReading DEF RepairSpent, Repair!Escalations
  <1>6. RepairJudged(s, github)
    BY <1>4, RepairReading DEF RepairJudged
  <1>7. RepairCleared(s)
    BY <1>4, RepairReading DEF RepairCleared
  <1> QED
    BY <1>1, <1>3, <1>4, <1>5, <1>6, <1>7, RepairSaved

LEMMA RepairSame2 ==
  ASSUME RepairInv, NEW run
  PROVE  [state EXCEPT !.run = run] = [state EXCEPT !.run = run, !.escalation = state.escalation]
  <1>1. state \in RepairFile
    BY RepairReading
  <1> QED
    BY <1>1 DEF RepairFile

LEMMA RepairAttribute ==
  ASSUME Repair!CiRepairAssumption, RepairInv, Repair!Attribute
  PROVE  RepairInv'
  <1>1. PICK c \in Checks, v \in Repair!Verdicts :
          state.run.verdict[c] = "unknown" /\ Repair!Save([state EXCEPT !.run.verdict[c] = v])
    BY DEF Repair!Attribute, Repair!Run
  <1>2. PICK verdict : verdict = [state.run.verdict EXCEPT ![c] = v]
    OBVIOUS
  <1>3. PICK run : run = [state.run EXCEPT !.verdict = verdict]
    OBVIOUS
  <1>4. Repair!Save([state EXCEPT !.run = run])
    BY <1>1, <1>2, <1>3
  <1>5. state.run \in RepairRun /\ proc.pc = "idle"
    BY RepairReading DEF RepairFile, Repair!Attribute, Repair!Working, Repair!Active
  <1>6. verdict \in [Checks -> Repair!Verdicts \cup {"none"}]
    BY <1>2, <1>5 DEF RepairRun
  <1>7. \A d \in Checks : verdict[d] # "none" => state.run.verdict[d] # "none"
    BY <1>1, <1>2, <1>5 DEF RepairRun
  <1>8. run \in RepairRun /\ run.verdict = verdict /\ run.status = state.run.status /\ run.head = state.run.head
        /\ run.charged = state.run.charged
    BY <1>3, <1>5, <1>6 DEF RepairRun
  <1>9. Repair!Save([state EXCEPT !.run = run, !.escalation = state.escalation])
    BY <1>4, RepairSame2
  <1> QED
    BY <1>5, <1>7, <1>8, <1>9, RepairWrites

\* A plan, what is recorded of it, or that it is skipped.
LEMMA RepairBatched ==
  ASSUME Repair!CiRepairAssumption, RepairInv, proc.pc = "idle", NEW c \in Checks,
         NEW to \in {"planned", "recorded", "skipped"},
         NEW commits \in SUBSET Repair!Heads, NEW e, e = state.escalation \/ e \in Repair!Escalations,
         NEW batch, batch = [state.run.batch EXCEPT ![c] = to],
         NEW run, run = [state.run EXCEPT !.batch = batch, !.commits = commits],
         Repair!Save([state EXCEPT !.run = run, !.escalation = e])
  PROVE  RepairInv'
  <1>1. state.run \in RepairRun
    BY RepairReading DEF RepairFile
  <1>2. batch \in [Checks -> {"none", "planned", "recorded", "skipped"}]
    BY <1>1 DEF RepairRun
  <1>3. run \in RepairRun /\ run.verdict = state.run.verdict /\ run.status = state.run.status /\
          run.head = state.run.head
        /\ run.charged = state.run.charged
    BY <1>1, <1>2 DEF RepairRun
  <1> QED
    BY <1>3, RepairWrites

LEMMA RepairPlan ==
  ASSUME Repair!CiRepairAssumption, RepairInv, Repair!Plan
  PROVE  RepairInv'
  <1>1. PICK c \in Checks : Repair!Save([state EXCEPT !.run.batch[c] = "planned"])
    BY DEF Repair!Plan
  <1>2. PICK batch, commits : batch = [state.run.batch EXCEPT ![c] = "planned"] /\ commits = state.run.commits
    OBVIOUS
  <1>3. PICK run : run = [state.run EXCEPT !.batch = batch, !.commits = commits]
    OBVIOUS
  <1>4. state.run \in RepairRun /\ proc.pc = "idle"
    BY RepairReading DEF RepairFile, Repair!Plan, Repair!Working, Repair!Active
  <1>5. run = [state.run EXCEPT !.batch = batch] /\ commits \in SUBSET Repair!Heads
    BY <1>2, <1>3, <1>4 DEF RepairRun
  <1>6. Repair!Save([state EXCEPT !.run = run])
    BY <1>1, <1>2, <1>5
  <1>7. Repair!Save([state EXCEPT !.run = run, !.escalation = state.escalation])
    BY <1>6, RepairSame2
  <1> QED
    BY <1>2, <1>3, <1>4, <1>5, <1>7, RepairBatched

LEMMA RepairRecord ==
  ASSUME Repair!CiRepairAssumption, RepairInv, Repair!Record
  PROVE  RepairInv'
  <1>1. PICK c \in Checks, made \in {{}, {local}} :
          Repair!Save([state EXCEPT !.run.batch[c] = "recorded", !.run.commits = @ \cup made])
    BY DEF Repair!Record
  <1>2. PICK batch, commits : batch = [state.run.batch EXCEPT ![c] = "recorded"] /\
          commits = state.run.commits \cup made
    OBVIOUS
  <1>3. PICK run : run = [state.run EXCEPT !.batch = batch, !.commits = commits]
    OBVIOUS
  <1>4. state.run \in RepairRun /\ proc.pc = "idle" /\ local \in Repair!Heads /\ state \in RepairFile
    BY RepairReading DEF RepairFile, Repair!Record, Repair!Working, Repair!Active
  <1>5. commits \in SUBSET Repair!Heads
    BY <1>2, <1>4 DEF RepairRun
  <1>6. [state EXCEPT !.run.batch[c] = "recorded", !.run.commits = @ \cup made] = [state EXCEPT !.run = run]
    BY <1>2, <1>3, <1>4 DEF RepairFile, RepairRun
  <1>7. Repair!Save([state EXCEPT !.run = run, !.escalation = state.escalation])
    BY <1>1, <1>6, RepairSame2
  <1> QED
    BY <1>2, <1>3, <1>4, <1>5, <1>7, RepairBatched

LEMMA RepairSkip ==
  ASSUME Repair!CiRepairAssumption, RepairInv, Repair!Skip
  PROVE  RepairInv'
  <1>1. PICK c \in Checks : Repair!Save([state EXCEPT !.run.batch[c] = "skipped", !.escalation = "unfixable_failure"])
    BY DEF Repair!Skip
  <1>2. PICK batch, commits : batch = [state.run.batch EXCEPT ![c] = "skipped"] /\ commits = state.run.commits
    OBVIOUS
  <1>3. PICK run : run = [state.run EXCEPT !.batch = batch, !.commits = commits]
    OBVIOUS
  <1>4. state.run \in RepairRun /\ proc.pc = "idle"
    BY RepairReading DEF RepairFile, Repair!Skip, Repair!Working, Repair!Active
  <1>5. run = [state.run EXCEPT !.batch = batch] /\ commits \in SUBSET Repair!Heads
    BY <1>2, <1>3, <1>4 DEF RepairRun
  <1>6. Repair!Save([state EXCEPT !.run = run, !.escalation = "unfixable_failure"])
    BY <1>1, <1>2, <1>5
  <1> QED
    BY <1>2, <1>3, <1>4, <1>5, <1>6, RepairBatched DEF Repair!Escalations

-----------------------------------------------------------------------------
(* The push that landed *)

\* An announced push that landed is finished.
LEMMA RepairLanded ==
  ASSUME Repair!CiRepairAssumption, RepairInv, NEW p \in RepairProcess, p.pc = "idle", state.run.status = "active",
         state.pending # Repair!NoPush, Repair!Pinned(state.pending), github.head = state.pending.head,
           github.head # state.run.head,
         state' = Repair!Finalized(state, state.pending), proc' = p, UNCHANGED <<github, local, budget>>
  PROVE  RepairInv'
  <1>1. PICK s : s = state'
    OBVIOUS
  <1>2. PICK run : run = [state.run EXCEPT !.status = "published"]
    OBVIOUS
  <1>3. PICK accepted, reruns : accepted = Append(state.accepted, state.pending) /\
          reruns = [c \in Checks |-> Repair!NoRerun]
    OBVIOUS
  <1>4. state \in RepairFile /\ state.run \in RepairRun /\ state.pending \in Repair!PushRecord /\
          state.accepted \in Seq(Repair!PushRecord)
    BY RepairReading DEF RepairFile
  <1>5. Repair!Published(state, state.pending) = [state EXCEPT !.run = run, !.accepted = accepted,
          !.clean = Repair!NoHead]
    BY <1>2, <1>3 DEF Repair!Published
  <1>6. PICK t : t = [state EXCEPT !.run = run, !.accepted = accepted, !.clean = Repair!NoHead]
    OBVIOUS
  <1>7. s = [t EXCEPT !.pending = Repair!NoPush, !.reruns = reruns]
    BY <1>1, <1>3, <1>5, <1>6 DEF Repair!Finalized
  <1>8. run \in RepairRun /\ run.status = "published" /\ run.head = state.run.head
    BY <1>2, <1>4 DEF RepairRun
  <1>9. accepted \in Seq(Repair!PushRecord)
    BY <1>3, <1>4
  <1>10. reruns \in [Checks -> RepairRerun] /\ \A c \in Checks : reruns[c].count = 0
    BY <1>3, RepairConstants
  <1>11. t \in RepairFile /\ t.run = run /\ t.accepted = accepted /\ t.clean = Repair!NoHead /\
           t.iterations = state.iterations
    BY <1>4, <1>6, <1>8, <1>9, RepairConstants DEF RepairFile
  <1>12. s \in RepairFile /\ s.run = run /\ s.accepted = accepted /\ s.clean = Repair!NoHead /\
           s.iterations = state.iterations
         /\ s.pending = Repair!NoPush /\ s.reruns = reruns
    BY <1>7, <1>10, <1>11, RepairConstants DEF RepairFile
  <1>13. state.pending.previous = state.run.head
    BY DEF Repair!Pinned, Repair!Run
  <1> QED
    BY <1>1, <1>3, <1>4, <1>8, <1>10, <1>12, <1>13, RepairFinish
\* The push is recorded where none was announced.
LEMMA RepairPublishes ==
  ASSUME Repair!CiRepairAssumption, RepairInv, NEW t \in RepairFile, NEW push \in Repair!PushRecord,
         NEW p \in RepairProcess,
         p.pc = "idle", state.run.status = "active", push.previous = state.run.head, push.head = github.head,
         github.head # state.run.head, t.run = state.run, t.accepted = state.accepted, t.pending = state.pending,
         t.iterations = state.iterations,
         \A c \in Checks : t.reruns[c].count = 1 => /\ state.reruns[c].count = 1
                                                    /\ t.reruns[c].head = state.reruns[c].head
                                                    /\ t.reruns[c].seen = state.reruns[c].seen,
         state' = Repair!Published(t, push), proc' = p, UNCHANGED <<github, local, budget>>
  PROVE  RepairInv'
  <1>1. PICK s : s = state'
    OBVIOUS
  <1>2. PICK run, accepted : run = [t.run EXCEPT !.status = "published"] /\ accepted = Append(t.accepted, push)
    OBVIOUS
  <1>3. t.run \in RepairRun /\ t.accepted \in Seq(Repair!PushRecord)
    BY DEF RepairFile
  <1>4. s = [t EXCEPT !.run = run, !.accepted = accepted, !.clean = Repair!NoHead]
    BY <1>1, <1>2 DEF Repair!Published
  <1>5. run \in RepairRun /\ run.status = "published" /\ run.head = state.run.head
    BY <1>2, <1>3 DEF RepairRun
  <1>6. accepted \in Seq(Repair!PushRecord)
    BY <1>2, <1>3
  <1>7. s \in RepairFile /\ s.run = run /\ s.accepted = accepted /\ s.clean = Repair!NoHead /\
          s.iterations = t.iterations
        /\ s.pending = t.pending /\ s.reruns = t.reruns
    BY <1>4, <1>5, <1>6, RepairConstants DEF RepairFile
  <1>8. s.accepted = Append(state.accepted, push)
    BY <1>2, <1>7
  <1> QED
    BY <1>1, <1>5, <1>7, <1>8, RepairFinish

LEMMA RepairLandedMoved ==
  ASSUME RepairInv, Repair!Landed
  PROVE  github.head # state.run.head
  <1>1. state.pending.head # state.pending.previous
    BY RepairReading DEF RepairAccepted, Repair!Landed
  <1> QED
    BY <1>1 DEF Repair!Landed, Repair!Pinned, Repair!Run

LEMMA RepairStackNext ==
  ASSUME Repair!CiRepairAssumption, RepairInv, Repair!StackNext
  PROVE  RepairInv'
  <1>1. proc.pc = "idle" /\ state.run.status = "active"
    BY DEF Repair!StackNext, Repair!Run
  <1>2. CASE Repair!Landed
    <2>1. state' = Repair!Finalized(state, state.pending) /\ UNCHANGED <<github, local, proc, budget>>
      BY <1>2 DEF Repair!StackNext, Repair!Save
    <2>2. proc \in RepairProcess /\ github.head # state.run.head
      BY <1>2, RepairReading, RepairLandedMoved
    <2>3. state.pending # Repair!NoPush /\ Repair!Pinned(state.pending) /\ github.head = state.pending.head
      BY <1>2 DEF Repair!Landed
    <2> QED
      BY <1>1, <2>1, <2>2, <2>3, RepairLanded
  <1>3. CASE ~Repair!Landed
    <2>1. Repair!Save(state)
      BY <1>3 DEF Repair!StackNext
    <2> QED
      BY <1>1, <2>1, RepairReading, RepairSaved
  <1> QED
    BY <1>2, <1>3

-----------------------------------------------------------------------------
(* rerun *)

LEMMA RepairRuns ==
  ASSUME RepairInv, proc.pc # "idle"
  PROVE  state.run.status = "active" /\ (proc.pc \in RepairRerunning => proc.check \in Checks)
  BY RepairReading DEF RepairPlaced

\* The rerun of a check goes on record.
LEMMA RepairNotes ==
  ASSUME Repair!CiRepairAssumption, RepairInv, NEW c \in Checks, NEW entry \in RepairRerun, NEW p \in RepairProcess,
         NEW reruns, reruns = [state.reruns EXCEPT ![c] = entry], NEW s, s = [state EXCEPT !.reruns = reruns],
         entry.count = 1 => /\ state.run.status # "none" /\ entry.head = state.run.head
                            /\ github.head = state.run.head => entry.seen >= 1,
         state' = s, proc' = p, UNCHANGED <<github, local, budget>>,
         RepairPlaced(p, state, github, local), p.pc # "fallback"
  PROVE  RepairInv'
  <1>1. state \in RepairFile /\ state.reruns \in [Checks -> RepairRerun]
    BY RepairReading DEF RepairFile
  <1>2. reruns \in [Checks -> RepairRerun] /\ reruns[c] = entry /\ \A d \in Checks \ {c} : reruns[d] = state.reruns[d]
    BY <1>1
  <1>3. s \in RepairFile
    BY <1>1, <1>2 DEF RepairFile
  <1>4. s.run = state.run /\ s.reruns = reruns /\ s.clean = state.clean /\ s.pending = state.pending
        /\ s.accepted = state.accepted /\ s.iterations = state.iterations /\ s.escalation = state.escalation
        /\ s.charged = state.charged
    BY <1>1 DEF RepairFile
  <1>5. RepairHeads(github, local, s, budget) /\ RepairSpent(s, github) /\ RepairCleared(s)
    BY <1>4, RepairReading DEF RepairHeads, RepairSpent, RepairCleared
  <1>6. RepairJudged(s, github)
    <2>1. ASSUME NEW d \in Checks, s.run.status = "active", github.head = s.run.head, s.run.verdict[d] # "none"
          PROVE  github.checks[d].done >= 1
      BY <1>4, <2>1, RepairReading DEF RepairJudged
    <2>2. ASSUME NEW d \in Checks, reruns[d].count = 1
          PROVE  s.run.status # "none" /\ reruns[d].head = s.run.head /\ (github.head = s.run.head =>
                 reruns[d].seen >= 1)
      <3>1. CASE d = c
        BY <1>2, <1>4, <2>2, <3>1
      <3>2. CASE d # c
        <4>1. reruns[d] = state.reruns[d]
          BY <1>2, <3>2
        <4> QED
          BY <1>4, <2>2, <4>1, RepairReading DEF RepairJudged
      <3> QED
        BY <3>1, <3>2
    <2> QED
      BY <1>4, <2>1, <2>2 DEF RepairJudged
  <1>7. RepairAccepted(s, github, budget)
    BY <1>4, RepairReading DEF RepairAccepted
  <1>8. RepairPlaced(p, s, github, local)
    BY <1>4 DEF RepairPlaced
  <1>9. RepairGood(p, s, github, local, budget)
    BY <1>5, <1>6, <1>7, <1>8, RepairReading DEF RepairGood
  <1> QED
    BY <1>3, <1>9, RepairReading, RepairThen

LEMMA RepairRerun1 ==
  ASSUME Repair!CiRepairAssumption, RepairInv, Repair!Rerun
  PROVE  RepairInv'
  <1>1. proc.pc = "idle" /\ state.run.status = "active"
    BY DEF Repair!Rerun, Repair!Working, Repair!Active, Repair!Run
  <1>2. PICK c \in Checks :
          /\ state.run.verdict[c] = "flake"
          /\ \/ /\ state.reruns[c].method = "empty_commit"
                /\ proc' = [Repair!Idle EXCEPT !.pc = "fallback", !.check = c] /\ UNCHANGED state
             \/ proc' = [Repair!Idle EXCEPT !.pc = "post", !.check = c, !.seen = github.checks[c].done] /\
                  UNCHANGED state
             \/ state' = [state EXCEPT !.escalation = "no_rerun_support"] /\ UNCHANGED proc
    BY DEF Repair!Rerun, Repair!Run
  <1>3. UNCHANGED <<github, local, budget>> /\ local \in Repair!Heads /\ RepairOld(local, budget)
    BY RepairReading DEF Repair!Rerun, RepairHeads
  <1>4. CASE /\ state.reruns[c].method = "empty_commit"
             /\ proc' = [Repair!Idle EXCEPT !.pc = "fallback", !.check = c] /\ UNCHANGED state
    <2>1. PICK p : p = [Repair!Idle EXCEPT !.pc = "fallback", !.check = c]
      OBVIOUS
    <2>2. p \in RepairProcess /\ p.pc = "fallback" /\ p.check = c
      BY <2>1, RepairConstants DEF RepairProcess, RepairPcs
    <2>3. state.reruns[c] # Repair!NoRerun
      BY <1>4 DEF Repair!NoRerun
    <2>4. RepairPlaced(p, state, github, local)
      BY <1>1, <2>2, <2>3 DEF RepairPlaced
    <2> QED
      BY <1>3, <1>4, <2>1, <2>2, <2>4, RepairGoes
  <1>5. CASE proc' = [Repair!Idle EXCEPT !.pc = "post", !.check = c, !.seen = github.checks[c].done] /\ UNCHANGED state
    <2>1. PICK p : p = [Repair!Idle EXCEPT !.pc = "post", !.check = c, !.seen = github.checks[c].done]
      OBVIOUS
    <2>2. github.checks[c].done \in 0..MaxRuns
      BY RepairReading DEF RepairSource, RepairCheck
    <2>3. p \in RepairProcess /\ p.pc = "post" /\ p.check = c /\ p.seen = github.checks[c].done
      BY <2>1, <2>2, RepairConstants DEF RepairProcess, RepairPcs
    <2>4. github.head = state.run.head => github.checks[c].done >= 1
      BY <1>1, <1>2, RepairReading DEF RepairJudged
    <2>5. RepairPlaced(p, state, github, local)
      BY <1>1, <2>3, <2>4 DEF RepairPlaced
    <2> QED
      BY <1>3, <1>5, <2>1, <2>3, <2>5, RepairGoes
  <1>6. CASE state' = [state EXCEPT !.escalation = "no_rerun_support"] /\ UNCHANGED proc
    BY <1>1, <1>3, <1>6, RepairEscalates DEF Repair!Save, Repair!Escalations
  <1> QED
    BY <1>2, <1>4, <1>5, <1>6

LEMMA RepairPost ==
  ASSUME Repair!CiRepairAssumption, RepairInv, Repair!Post
  PROVE  RepairInv'
  <1>1. PICK c : c = proc.check
    OBVIOUS
  <1>2. proc.pc = "post" /\ c \in Checks /\ state.run.status = "active" /\ UNCHANGED <<local, state, budget>>
    BY <1>1, RepairRuns DEF Repair!Post, RepairRerunning
  <1>3. PICK to \in {"requested", "fallback"} : proc' = [proc EXCEPT !.pc = to]
    BY DEF Repair!Post, Repair!Goto
  <1>4. PICK p : p = [proc EXCEPT !.pc = to]
    OBVIOUS
  <1>5. p \in RepairProcess /\ p.pc = to /\ p.check = c /\ p.seen = proc.seen
    BY <1>1, <1>4, RepairReading DEF RepairProcess, RepairPcs
  <1>6. github.head = state.run.head => p.seen >= 1
    BY <1>2, <1>5, RepairReading DEF RepairPlaced
  <1>7. local \in Repair!Heads /\ RepairOld(local, budget)
    BY RepairReading DEF RepairHeads
  <1>8. RepairPlaced(p, state, github, local)
    BY <1>2, <1>5, <1>6 DEF RepairPlaced
  <1>9. CASE github' = github
    BY <1>2, <1>3, <1>4, <1>5, <1>7, <1>8, <1>9, RepairGoes
  <1>10. CASE github' # github
    <2>1. github.checks[c].class = "failed" /\ github' = [github EXCEPT !.checks[c].lag = TRUE]
      BY <1>1, <1>10 DEF Repair!Post
    <2>2. PICK check : check = [github.checks[c] EXCEPT !.lag = TRUE]
      OBVIOUS
    <2>3. PICK checks : checks = [github.checks EXCEPT ![c] = check]
      OBVIOUS
    <2>4. github' = [github EXCEPT !.checks = checks]
      BY <2>1, <2>2, <2>3
    <2>5. github \in RepairSource /\ github.checks[c] \in RepairCheck
      BY <1>2, RepairReading DEF RepairSource
    <2>6. check \in RepairCheck /\ check.class = github.checks[c].class /\ check.done = github.checks[c].done
      BY <2>2, <2>5 DEF RepairCheck
    <2>7. check.done >= 1 /\ check.done >= github.checks[c].done
      <3>1. github.checks[c].done >= 1
        BY <1>2, <2>1, RepairReading DEF RepairCounted
      <3>2. github.checks[c].done \in Nat
        BY <2>5, RepairConstants DEF RepairCheck
      <3> QED
        BY <2>6, <3>1, <3>2
    <2>8. proc' = p /\ check.class = "failed" /\ github.checks[c].class # "passed"
      BY <1>3, <1>4, <2>1, <2>6
    <2>9. p \in RepairProcess /\ c \in Checks /\ check \in RepairCheck
      BY <1>2, <1>5, <2>6
    <2> QED
      BY <1>2, <1>8, <2>3, <2>4, <2>7, <2>8, <2>9, RepairChecked
  <1> QED
    BY <1>9, <1>10

LEMMA RepairRequested ==
  ASSUME Repair!CiRepairAssumption, RepairInv, Repair!Requested
  PROVE  RepairInv'
  <1>1. PICK c : c = proc.check
    OBVIOUS
  <1>2. PICK entry : entry = [Repair!NoRerun EXCEPT !.count = 1, !.method = "request", !.head = state.run.head,
          !.seen = proc.seen]
    OBVIOUS
  <1>3. PICK reruns : reruns = [state.reruns EXCEPT ![c] = entry]
    OBVIOUS
  <1>4. c \in Checks /\ state.run.status = "active" /\ proc.pc = "requested"
    BY <1>1, RepairRuns DEF Repair!Requested, RepairRerunning
  <1>5. state' = [state EXCEPT !.reruns = reruns] /\ proc' = Repair!Idle /\ UNCHANGED <<github, local, budget>>
    BY <1>1, <1>2, <1>3 DEF Repair!Requested, Repair!Run
  <1>6. state.run.head \in Repair!Heads /\ proc.seen \in 0..MaxRuns
    BY RepairReading DEF RepairFile, RepairRun, RepairProcess
  <1>7. entry \in RepairRerun /\ entry.head = state.run.head /\ entry.seen = proc.seen
    <2>1. entry = [count |-> 1, method |-> "request", head |-> state.run.head, seen |-> proc.seen, status |-> "none",
                   commit |-> Repair!NoHead]
      BY <1>2 DEF Repair!NoRerun
    <2> QED
      BY <1>6, <2>1, RepairConstants DEF RepairRerun
  <1>8. github.head = state.run.head => proc.seen >= 1
    BY <1>4, RepairReading DEF RepairPlaced
  <1>9. RepairPlaced(Repair!Idle, state, github, local)
    BY RepairConstants DEF RepairPlaced, RepairRerunning
  <1> QED
    BY <1>3, <1>4, <1>5, <1>7, <1>8, <1>9, RepairNotes, RepairConstants

LEMMA RepairFallback ==
  ASSUME Repair!CiRepairAssumption, RepairInv, Repair!Fallback
  PROVE  RepairInv'
  <1>1. PICK c : c = proc.check
    OBVIOUS
  <1>2. PICK p : p = [proc EXCEPT !.pc = "create", !.local = local, !.remote = github.head]
    OBVIOUS
  <1>3. c \in Checks /\ state.run.status = "active" /\ proc.pc = "fallback" /\ UNCHANGED <<github, local, budget>>
    BY <1>1, RepairRuns DEF Repair!Fallback, RepairRerunning
  <1>4. github.head \in Repair!Heads /\ local \in Repair!Heads /\ state.run.head \in Repair!Heads /\
          proc.seen \in 0..MaxRuns
        /\ RepairOld(local, budget)
    BY RepairReading DEF RepairSource, RepairFile, RepairRun, RepairProcess, RepairHeads
  <1>5. p \in RepairProcess /\ p.pc = "create" /\ p.check = c
    BY <1>1, <1>2, <1>4, RepairReading DEF RepairProcess, RepairPcs
  <1>6. RepairPlaced(p, state, github, local)
    BY <1>3, <1>5 DEF RepairPlaced
  <1>7. CASE Repair!Landed
    <2>1. state' = Repair!Finalized(state, state.pending) /\ proc' = Repair!Idle
      BY <1>7 DEF Repair!Fallback
    <2>2. github.head # state.run.head
      BY <1>7, RepairLandedMoved
    <2>3. state.pending # Repair!NoPush /\ Repair!Pinned(state.pending) /\ github.head = state.pending.head
      BY <1>7 DEF Repair!Landed
    <2> QED
      BY <1>3, <2>1, <2>2, <2>3, RepairLanded, RepairConstants
  <1>8. CASE ~Repair!Landed /\ state.reruns[c] = Repair!NoRerun
    <2>1. PICK entry : entry = [Repair!NoRerun EXCEPT !.count = 1, !.method = "empty_commit", !.head = state.run.head,
                                               !.seen = proc.seen, !.status = "creating"]
      OBVIOUS
    <2>2. PICK reruns : reruns = [state.reruns EXCEPT ![c] = entry]
      OBVIOUS
    <2>3. state' = [state EXCEPT !.reruns = reruns] /\ proc' = p /\ github.head = state.run.head
      BY <1>1, <1>2, <1>8, <2>1, <2>2 DEF Repair!Fallback, Repair!Run
    <2>4. entry \in RepairRerun /\ entry.head = state.run.head /\ entry.seen = proc.seen
      <3>1. entry = [count |-> 1, method |-> "empty_commit", head |-> state.run.head, seen |-> proc.seen,
                     status |-> "creating", commit |-> Repair!NoHead]
        BY <2>1 DEF Repair!NoRerun
      <3> QED
        BY <1>4, <3>1, RepairConstants DEF RepairRerun
    <2>5. proc.seen >= 1
      BY <1>1, <1>3, <1>8, <2>3, RepairReading DEF RepairPlaced
    <2> QED
      BY <1>3, <1>5, <1>6, <2>2, <2>3, <2>4, <2>5, RepairNotes
  <1>9. CASE ~Repair!Landed /\ state.reruns[c] # Repair!NoRerun
    <2>1. state' = state /\ proc' = p
      BY <1>1, <1>2, <1>9 DEF Repair!Fallback
    <2> QED
      BY <1>3, <1>4, <1>5, <1>6, <2>1, RepairGoes
  <1> QED
    BY <1>7, <1>8, <1>9

\* The next step of the same command.
LEMMA RepairStep ==
  ASSUME RepairInv, NEW to \in RepairPcs, Repair!Goto(to)
  PROVE  \E p \in RepairProcess : /\ p = [proc EXCEPT !.pc = to] /\ proc' = p
                                  /\ p.pc = to /\ p.check = proc.check /\ p.remote = proc.remote /\ p.local = proc.local
  <1>1. PICK p : p = [proc EXCEPT !.pc = to]
    OBVIOUS
  <1>2. proc \in RepairProcess
    BY RepairReading
  <1>3. p \in RepairProcess
    BY <1>1, <1>2 DEF RepairProcess
  <1>4. p.pc = to /\ p.check = proc.check /\ p.remote = proc.remote /\ p.local = proc.local
    BY <1>1, <1>2 DEF RepairProcess
  <1>5. proc' = p
    BY <1>1 DEF Repair!Goto
  <1> QED
    BY <1>1, <1>3, <1>4, <1>5

LEMMA RepairCreate ==
  ASSUME Repair!CiRepairAssumption, RepairInv, Repair!Create
  PROVE  RepairInv'
  <1>1. proc.pc = "create" /\ proc.check \in Checks /\ state.run.status = "active" /\
          UNCHANGED <<github, state, budget>>
    BY RepairRuns DEF Repair!Create, RepairRerunning
  <1>2. PICK p \in RepairProcess : proc' = p /\ p.pc = "prepare" /\ p.check = proc.check
    BY RepairStep DEF Repair!Create, RepairPcs
  <1>3. local \in Repair!Heads /\ RepairOld(local, budget) /\ budget \in Nat
    BY RepairReading, RepairConstants DEF RepairHeads
  <1>4. \A l : RepairPlaced(p, state, github, l)
    BY <1>1, <1>2 DEF RepairPlaced
  <1>5. CASE local' = local
    BY <1>1, <1>2, <1>3, <1>4, <1>5, RepairGoes
  <1>6. CASE local' = Repair!EmptyChild(local)
    <2>1. PICK l : l = Append(local, 9)
      OBVIOUS
    <2>2. l \in Repair!Heads /\ RepairOld(l, budget)
      BY <1>3, <2>1, RepairAppend, RepairOldAppend
    <2>3. local' = l
      BY <1>6, <2>1 DEF Repair!EmptyChild
    <2> QED
      BY <1>1, <1>2, <1>4, <2>2, <2>3, RepairGoes
  <1> QED
    BY <1>5, <1>6 DEF Repair!Create

\* What a rerun on record keeps as its commit is noted.
LEMMA RepairRewrites ==
  ASSUME Repair!CiRepairAssumption, RepairInv, NEW c \in Checks, NEW entry \in RepairRerun, NEW p \in RepairProcess,
         entry.count = state.reruns[c].count, entry.head = state.reruns[c].head, entry.seen = state.reruns[c].seen,
         NEW reruns, reruns = [state.reruns EXCEPT ![c] = entry],
         state' = [state EXCEPT !.reruns = reruns], proc' = p, UNCHANGED <<github, local, budget>>,
         RepairPlaced(p, state, github, local), p.pc # "fallback"
  PROVE  RepairInv'
  <1>1. entry.count = 1 => /\ state.run.status # "none" /\ entry.head = state.run.head
                           /\ github.head = state.run.head => entry.seen >= 1
    BY RepairReading DEF RepairJudged
  <1> QED
    BY <1>1, RepairNotes

LEMMA RepairPrepare ==
  ASSUME Repair!CiRepairAssumption, RepairInv, Repair!Prepare
  PROVE  RepairInv'
  <1>1. PICK c : c = proc.check
    OBVIOUS
  <1>2. proc.pc = "prepare" /\ c \in Checks /\ state.run.status = "active" /\ UNCHANGED <<github, local, budget>>
    BY <1>1, RepairRuns DEF Repair!Prepare, RepairRerunning
  <1>3. PICK p \in RepairProcess : proc' = p /\ p.pc = "announce" /\ p.check = c
    BY <1>1, RepairStep DEF Repair!Prepare, RepairPcs
  <1>4. local \in Repair!Heads /\ RepairOld(local, budget) /\ state.reruns[c] \in RepairRerun
    BY <1>2, RepairReading DEF RepairHeads, RepairFile
  <1>5. RepairPlaced(p, state, github, local)
    BY <1>2, <1>3 DEF RepairPlaced
  <1>6. CASE state' = state
    BY <1>2, <1>3, <1>4, <1>5, <1>6, RepairGoes
  <1>7. CASE state' # state
    <2>1. PICK commit : commit = IF state.reruns[c].commit = Repair!NoHead THEN local ELSE state.reruns[c].commit
      OBVIOUS
    <2>2. commit \in Repair!Heads
      BY <1>4, <2>1 DEF RepairRerun
    <2>3. state' = [state EXCEPT !.reruns[c].commit = commit, !.reruns[c].status = "prepared"]
      BY <1>1, <1>7, <2>1 DEF Repair!Prepare
    <2>4. PICK entry : entry = [state.reruns[c] EXCEPT !.commit = commit, !.status = "prepared"]
      OBVIOUS
    <2>5. entry \in RepairRerun /\ entry.count = state.reruns[c].count /\ entry.head = state.reruns[c].head
          /\ entry.seen = state.reruns[c].seen
      BY <1>4, <2>2, <2>4 DEF RepairRerun
    <2>6. PICK reruns : reruns = [state.reruns EXCEPT ![c] = entry]
      OBVIOUS
    <2>7. state \in RepairFile /\ state.reruns \in [Checks -> RepairRerun]
      BY RepairReading DEF RepairFile
    <2>8. state' = [state EXCEPT !.reruns = reruns]
      <3>1. PICK first : first = [state.reruns[c] EXCEPT !.commit = commit]
        OBVIOUS
      <3>2. PICK r1 : r1 = [state.reruns EXCEPT ![c] = first]
        OBVIOUS
      <3>3. r1[c] = first
        BY <1>2, <2>7, <3>2
      <3>4. PICK s1 : s1 = [state EXCEPT !.reruns = r1]
        OBVIOUS
      <3>5. s1.reruns = r1
        BY <2>7, <3>4 DEF RepairFile
      <3>6. s1 = [state EXCEPT !.reruns[c].commit = commit]
        BY <3>1, <3>2, <3>4
      <3>7. state' = [s1 EXCEPT !.reruns[c].status = "prepared"]
        BY <2>3, <3>6
      <3>8. entry = [first EXCEPT !.status = "prepared"]
        BY <2>4, <3>1
      <3>9. [r1 EXCEPT ![c].status = "prepared"] = [r1 EXCEPT ![c] = entry]
        BY <3>3, <3>8
      <3>10. [r1 EXCEPT ![c] = entry] = reruns
        BY <1>2, <2>6, <2>7, <3>2
      <3>11. state' = [s1 EXCEPT !.reruns = reruns]
        BY <3>5, <3>7, <3>9, <3>10
      <3> QED
        BY <2>7, <3>4, <3>11 DEF RepairFile
    <2> QED
      BY <1>2, <1>3, <1>5, <2>5, <2>6, <2>8, RepairRewrites
  <1> QED
    BY <1>6, <1>7

\* A push is announced before it is sent.
LEMMA RepairAnnounces ==
  ASSUME Repair!CiRepairAssumption, RepairInv, NEW push \in Repair!PushRecord, NEW p \in RepairProcess,
         state.run.status = "active",
         push.head # push.previous, Repair!MayAnnounce(push), state' = Repair!Announced(push), proc' = p,
         UNCHANGED <<github, local, budget>>, p.pc \in {"push_empty", "confirm_empty", "push"},
         p.pc # "push" => p.check \in Checks, p.pc = "push_empty" => local = Append(state.run.head, 9),
         p.pc = "push" => local # state.run.head,
         push = IF p.pc = "push" THEN [kind |-> "fix", previous |-> state.run.head, head |-> local]
                ELSE [kind |-> "ci_rerun", previous |-> state.run.head, head |-> Append(state.run.head, 9)]
  PROVE  RepairInv'
  <1>1. PICK s : s = state'
    OBVIOUS
  <1>2. state \in RepairFile /\ Guarded \in BOOLEAN /\ github.head # Repair!NoHead /\ Repair!NoPush.head = Repair!NoHead
    BY RepairReading, RepairConstants DEF RepairHeads
  <1>3. /\ s \in RepairFile /\ s.run = state.run /\ s.reruns = state.reruns /\ s.clean = state.clean
        /\ s.accepted = state.accepted /\ s.iterations = state.iterations /\ s.escalation = state.escalation
        /\ s.charged = state.charged /\ (Guarded => s.pending = push) /\ (~Guarded => s.pending = state.pending)
    <2>1. CASE Guarded
      <3>1. s = [state EXCEPT !.pending = push]
        BY <1>1, <2>1 DEF Repair!Announced
      <3> QED
        BY <1>2, <2>1, <3>1 DEF RepairFile
    <2>2. CASE ~Guarded
      <3>1. s = state
        BY <1>1, <2>2 DEF Repair!Announced
      <3> QED
        BY <1>2, <2>2, <3>1
    <2> QED
      BY <2>1, <2>2
  <1>4. RepairHeads(github, local, s, budget) /\ RepairSpent(s, github) /\ RepairCleared(s) /\ RepairJudged(s, github)
    BY <1>3, RepairReading DEF RepairHeads, RepairSpent, RepairCleared, RepairJudged
  <1>5. RepairAccepted(s, github, budget)
    <2>1. RepairAccepted(state, github, budget)
      BY RepairReading
    <2>2. s.pending # Repair!NoPush => s.pending.head # s.pending.previous
      BY <1>3, <2>1 DEF RepairAccepted
    <2>3. github.head = state.pending.head /\ Guarded => github.head = s.pending.head
      BY <1>2, <1>3 DEF Repair!MayAnnounce
    <2> QED
      BY <1>3, <2>1, <2>2, <2>3 DEF RepairAccepted
  <1>6. RepairPlaced(p, s, github, local)
    BY <1>3 DEF RepairPlaced, RepairRerunning
  <1>7. RepairGood(p, s, github, local, budget)
    BY <1>4, <1>5, <1>6, RepairReading DEF RepairGood
  <1> QED
    BY <1>1, <1>3, <1>7, RepairReading, RepairThen

LEMMA RepairAnnounceEmpty ==
  ASSUME Repair!CiRepairAssumption, RepairInv, Repair!AnnounceEmpty
  PROVE  RepairInv'
  <1>1. proc.pc = "announce" /\ proc.check \in Checks /\ state.run.status = "active" /\
          UNCHANGED <<github, local, budget>>
    BY RepairRuns DEF Repair!AnnounceEmpty, RepairRerunning
  <1>2. PICK to : to = IF proc.remote = state.run.head THEN "push_empty" ELSE "confirm_empty"
    OBVIOUS
  <1>3. Repair!Goto(to) /\ to \in {"push_empty", "confirm_empty"}
    BY <1>2 DEF Repair!AnnounceEmpty, Repair!Run
  <1>4. PICK p \in RepairProcess : proc' = p /\ p.pc = to /\ p.check = proc.check
    BY <1>3, RepairStep DEF RepairPcs
  <1>5. state.run.head \in Repair!Heads
    BY RepairReading DEF RepairFile, RepairRun
  <1>6. PICK push : push = [kind |-> "ci_rerun", previous |-> state.run.head, head |-> Append(state.run.head, 9)]
    OBVIOUS
  <1>7. push = Repair!EmptyPush
    BY <1>6 DEF Repair!EmptyPush, Repair!EmptyChild, Repair!Run
  <1>8. push \in Repair!PushRecord /\ push.head # push.previous
    BY <1>5, <1>6, RepairAppend DEF Repair!PushRecord
  <1>9. to = "push_empty" => local = Append(state.run.head, 9)
    BY <1>2 DEF Repair!AnnounceEmpty, Repair!EmptyPush, Repair!EmptyChild, Repair!Run
  <1>10. Repair!MayAnnounce(push) /\ state' = Repair!Announced(push)
    BY <1>7 DEF Repair!AnnounceEmpty
  <1> QED
    BY <1>1, <1>3, <1>4, <1>6, <1>8, <1>9, <1>10, RepairAnnounces

LEMMA RepairPushEmpty ==
  ASSUME Repair!CiRepairAssumption, RepairInv, Repair!PushEmpty
  PROVE  RepairInv'
  <1>1. proc.pc = "push_empty" /\ proc.check \in Checks /\ state.run.status = "active" /\
          UNCHANGED <<local, state, budget>>
    BY RepairRuns DEF Repair!PushEmpty, RepairRerunning
  <1>2. PICK p \in RepairProcess : proc' = p /\ p.pc = "pushed" /\ p.check = proc.check
    BY RepairStep DEF Repair!PushEmpty, RepairPcs
  <1>3. local = Append(state.run.head, 9)
        /\ (Guarded => state.pending = [kind |-> "ci_rerun", previous |-> state.run.head, head |-> local])
    BY <1>1, RepairReading DEF RepairPlaced
  <1>4. state.run.head \in Repair!Heads /\ local \in Repair!Heads /\ RepairOld(local, budget)
    BY RepairReading DEF RepairFile, RepairRun, RepairHeads
  <1>5. local # Repair!NoHead
    BY <1>3, <1>4, RepairAppend
  <1>6. \A g : RepairPlaced(p, state, g, local)
    BY <1>1, <1>2, <1>3 DEF RepairPlaced, RepairRerunning
  <1>7. CASE github.head = local
    <2>1. github' = github
      BY <1>7 DEF Repair!PushEmpty
    <2> QED
      BY <1>1, <1>2, <1>4, <1>6, <2>1, RepairGoes
  <1>8. CASE github.head # local
    <2>1. github' = [head |-> local, checks |-> Repair!NewChecks] /\ Repair!IsPrefix(github.head, local)
      BY <1>8 DEF Repair!PushEmpty
    <2>2. Guarded => local = state.pending.head
      BY <1>3
    <2> QED
      BY <1>1, <1>2, <1>5, <1>6, <1>8, <2>1, <2>2, RepairPushes
  <1> QED
    BY <1>7, <1>8

LEMMA RepairPushed ==
  ASSUME Repair!CiRepairAssumption, RepairInv, Repair!Pushed
  PROVE  RepairInv'
  <1>1. PICK c : c = proc.check
    OBVIOUS
  <1>2. proc.pc = "pushed" /\ c \in Checks /\ state.run.status = "active" /\ UNCHANGED <<github, local, budget>>
    BY <1>1, RepairRuns DEF Repair!Pushed, RepairRerunning
  <1>3. PICK p \in RepairProcess : proc' = p /\ p.pc = "confirm_empty" /\ p.check = c
    BY <1>1, RepairStep DEF Repair!Pushed, RepairPcs
  <1>4. RepairPlaced(p, state, github, local)
    BY <1>2, <1>3, RepairReading DEF RepairPlaced, RepairRerunning
  <1>5. PICK entry : entry = [state.reruns[c] EXCEPT !.status = "pushed"]
    OBVIOUS
  <1>6. state.reruns[c] \in RepairRerun
    BY <1>2, RepairReading DEF RepairFile
  <1>7. entry \in RepairRerun /\ entry.count = state.reruns[c].count /\ entry.head = state.reruns[c].head
        /\ entry.seen = state.reruns[c].seen
    BY <1>5, <1>6 DEF RepairRerun
  <1>8. PICK reruns : reruns = [state.reruns EXCEPT ![c] = entry]
    OBVIOUS
  <1>9. state' = [state EXCEPT !.reruns = reruns]
    BY <1>1, <1>5, <1>8 DEF Repair!Pushed
  <1> QED
    BY <1>2, <1>3, <1>4, <1>7, <1>8, <1>9, RepairRewrites

LEMMA RepairConfirmEmpty ==
  ASSUME Repair!CiRepairAssumption, RepairInv, Repair!ConfirmEmpty
  PROVE  RepairInv'
  <1>1. PICK c : c = proc.check
    OBVIOUS
  <1>2. /\ proc.pc = "confirm_empty" /\ c \in Checks /\ state.run.status = "active" /\ proc' = Repair!Idle
        /\ UNCHANGED <<github, local, budget>>
    BY <1>1, RepairRuns DEF Repair!ConfirmEmpty, RepairRerunning
  <1>3. PICK push : push = [kind |-> "ci_rerun", previous |-> state.run.head, head |-> Append(state.run.head, 9)]
    OBVIOUS
  <1>4. push = Repair!EmptyPush /\ github.head = push.head
    BY <1>3 DEF Repair!ConfirmEmpty, Repair!EmptyPush, Repair!EmptyChild, Repair!Run
  <1>5. state \in RepairFile /\ state.run \in RepairRun /\ state.run.head \in Repair!Heads /\
          state.reruns \in [Checks -> RepairRerun]
        /\ state.accepted \in Seq(Repair!PushRecord)
    BY RepairReading DEF RepairFile, RepairRun
  <1>6. push \in Repair!PushRecord /\ push.previous = state.run.head /\ github.head # state.run.head
    <2>1. push.head = Append(state.run.head, 9) /\ push.previous = state.run.head
      BY <1>3
    <2>2. Append(state.run.head, 9) \in Repair!Heads /\ Append(state.run.head, 9) # state.run.head
      <3>1. 9 \in Nat /\ state.run.head \in Repair!Heads
        BY <1>5
      <3> QED
        BY <3>1, RepairAppend, Zenon
    <2>3. push \in Repair!PushRecord
      BY <1>3, <1>5, <2>2 DEF Repair!PushRecord
    <2> QED
      BY <1>4, <2>1, <2>2, <2>3
  <1>7. CASE Guarded
    <2>1. state.pending = push /\ push # Repair!NoPush
      BY <1>2, <1>3, <1>7, RepairReading DEF RepairPlaced, Repair!NoPush
    <2>2. state' = Repair!Finalized(state, state.pending)
      BY <1>7 DEF Repair!ConfirmEmpty
    <2>3. Repair!Pinned(state.pending)
      BY <1>6, <2>1 DEF Repair!Pinned, Repair!Run
    <2> QED
      BY <1>2, <1>4, <1>6, <2>1, <2>2, <2>3, RepairLanded, RepairConstants
  <1>8. CASE ~Guarded
    <2>1. state' = Repair!Published([state EXCEPT !.reruns[c].status = "published"], push)
      BY <1>1, <1>4, <1>8 DEF Repair!ConfirmEmpty
    <2>2. PICK entry : entry = [state.reruns[c] EXCEPT !.status = "published"]
      OBVIOUS
    <2>3. PICK reruns : reruns = [state.reruns EXCEPT ![c] = entry]
      OBVIOUS
    <2>4. entry \in RepairRerun /\ entry.count = state.reruns[c].count /\ entry.head = state.reruns[c].head
          /\ entry.seen = state.reruns[c].seen
      BY <1>2, <1>5, <2>2 DEF RepairRerun
    <2>5. reruns \in [Checks -> RepairRerun] /\ reruns[c] = entry /\ \A d \in Checks \ {c} : reruns[d] = state.reruns[d]
      BY <1>2, <1>5, <2>3, <2>4
    <2>6. PICK noted : noted = [state EXCEPT !.reruns = reruns]
      OBVIOUS
    <2>7. state' = Repair!Published(noted, push)
      BY <2>1, <2>2, <2>3, <2>6
    <2>8. noted \in RepairFile /\ noted.run = state.run /\ noted.accepted = state.accepted /\ noted.reruns = reruns
          /\ noted.pending = state.pending /\ noted.iterations = state.iterations
      BY <1>5, <2>5, <2>6 DEF RepairFile
    <2> QED
      BY <1>2, <1>4, <1>6, <2>4, <2>5, <2>7, <2>8, RepairPublishes, RepairConstants
  <1> QED
    BY <1>7, <1>8

-----------------------------------------------------------------------------
(* publish *)

LEMMA RepairLonger ==
  ASSUME NEW g \in Repair!Heads, NEW h \in Repair!Heads, Repair!IsPrefix(g, h), g # Repair!NoHead
  PROVE  h # Repair!NoHead
  <1>1. Len(g) <= Len(h) /\ g \in Seq(Nat) /\ h \in Seq(Nat) /\ g # <<>>
    BY RepairPrefix DEF Repair!Heads, Repair!NoHead
  <1> QED
    BY <1>1 DEF Repair!NoHead

LEMMA RepairPublish ==
  ASSUME Repair!CiRepairAssumption, RepairInv, Repair!Publish
  PROVE  RepairInv'
  <1>1. proc.pc = "idle" /\ state.run.status = "active" /\ UNCHANGED <<github, local, budget>>
    BY DEF Repair!Publish, Repair!Working, Repair!Active, Repair!Run
  <1>2. CASE Repair!Landed
    <2>1. state' = Repair!Finalized(state, state.pending) /\ proc' = proc
      BY <1>2 DEF Repair!Publish
    <2>2. github.head # state.run.head /\ proc \in RepairProcess
      BY <1>2, RepairReading, RepairLandedMoved
    <2>3. state.pending # Repair!NoPush /\ Repair!Pinned(state.pending) /\ github.head = state.pending.head
      BY <1>2 DEF Repair!Landed
    <2> QED
      BY <1>1, <2>1, <2>2, <2>3, RepairLanded
  <1>3. CASE ~Repair!Landed
    <2>1. state.run.commits # {} /\ state.run.commits = Repair!Prefixes(local) \ Repair!Prefixes(state.run.head)
      BY <1>3 DEF Repair!Publish, Repair!Run
    <2>2. local # state.run.head
      BY <2>1
    <2>3. Repair!MayAnnounce(Repair!FixPush) /\ state' = Repair!Announced(Repair!FixPush) /\
            proc' = [Repair!Idle EXCEPT !.pc = "push", !.remote = github.head]
      BY <1>3 DEF Repair!Publish
    <2>4. local \in Repair!Heads /\ state.run.head \in Repair!Heads /\ github.head \in Repair!Heads
      BY RepairReading DEF RepairFile, RepairRun, RepairSource
    <2>5. PICK p : p = [Repair!Idle EXCEPT !.pc = "push", !.remote = github.head]
      OBVIOUS
    <2>6. p \in RepairProcess /\ p.pc = "push"
      BY <2>4, <2>5, RepairConstants DEF RepairProcess, RepairPcs
    <2>7. PICK push : push = [kind |-> "fix", previous |-> state.run.head, head |-> local]
      OBVIOUS
    <2>8. push = Repair!FixPush
      BY <2>7 DEF Repair!FixPush, Repair!Run
    <2>9. push \in Repair!PushRecord /\ push.head # push.previous
      BY <2>2, <2>4, <2>7 DEF Repair!PushRecord
    <2> QED
      BY <1>1, <2>2, <2>3, <2>5, <2>6, <2>7, <2>8, <2>9, RepairAnnounces
  <1> QED
    BY <1>2, <1>3

LEMMA RepairPush ==
  ASSUME Repair!CiRepairAssumption, RepairInv, Repair!Push
  PROVE  RepairInv'
  <1>1. proc.pc = "push" /\ state.run.status = "active" /\ UNCHANGED <<local, state, budget>>
    BY RepairRuns DEF Repair!Push
  <1>2. PICK p \in RepairProcess : proc' = p /\ p.pc = "confirm"
    BY RepairStep DEF Repair!Push, RepairPcs
  <1>3. /\ local # state.run.head
        /\ Guarded => state.pending = [kind |-> "fix", previous |-> state.run.head, head |-> local]
    BY <1>1, RepairReading DEF RepairPlaced
  <1>4. local \in Repair!Heads /\ RepairOld(local, budget) /\ github.head \in Repair!Heads /\
          github.head # Repair!NoHead
    BY RepairReading DEF RepairHeads, RepairSource
  <1>5. \A g : RepairPlaced(p, state, g, local)
    BY <1>1, <1>2, <1>3 DEF RepairPlaced, RepairRerunning
  <1>6. CASE github' = github
    BY <1>1, <1>2, <1>4, <1>5, <1>6, RepairGoes
  <1>7. CASE github' # github
    <2>1. github' = [head |-> local, checks |-> Repair!NewChecks] /\ Repair!IsPrefix(github.head, local) /\
            github.head # local
      BY <1>7 DEF Repair!Push
    <2>2. local # Repair!NoHead
      BY <1>4, <2>1, RepairLonger
    <2>3. Guarded => local = state.pending.head
      BY <1>3
    <2> QED
      BY <1>1, <1>2, <1>5, <2>1, <2>2, <2>3, RepairPushes
  <1> QED
    BY <1>6, <1>7

LEMMA RepairConfirm ==
  ASSUME Repair!CiRepairAssumption, RepairInv, Repair!Confirm
  PROVE  RepairInv'
  <1>1. /\ proc.pc = "confirm" /\ state.run.status = "active" /\ proc' = Repair!Idle /\ github.head = local
        /\ UNCHANGED <<github, local, budget>>
    BY RepairRuns DEF Repair!Confirm
  <1>2. /\ local # state.run.head
        /\ Guarded => state.pending = [kind |-> "fix", previous |-> state.run.head, head |-> local]
    BY <1>1, RepairReading DEF RepairPlaced
  <1>3. local \in Repair!Heads /\ state.run.head \in Repair!Heads /\ state \in RepairFile
    BY RepairReading DEF RepairFile, RepairRun
  <1>4. PICK push : push = [kind |-> "fix", previous |-> state.run.head, head |-> local]
    OBVIOUS
  <1>5. push \in Repair!PushRecord /\ push.previous = state.run.head /\ push.head = local /\ push # Repair!NoPush
    BY <1>3, <1>4 DEF Repair!PushRecord, Repair!NoPush
  <1>6. CASE Guarded
    <2>1. state.pending = push
      BY <1>2, <1>4, <1>6
    <2>2. state' = Repair!Finalized(state, state.pending)
      BY <1>6 DEF Repair!Confirm
    <2>3. Repair!Pinned(state.pending)
      BY <1>5, <2>1 DEF Repair!Pinned, Repair!Run
    <2> QED
      BY <1>1, <1>2, <1>5, <2>1, <2>2, <2>3, RepairLanded, RepairConstants
  <1>7. CASE ~Guarded
    <2>1. PICK reruns : reruns = [c \in Checks |-> Repair!NoRerun]
      OBVIOUS
    <2>2. reruns \in [Checks -> RepairRerun] /\ \A c \in Checks : reruns[c].count = 0
      BY <2>1, RepairConstants
    <2>3. state' = [Repair!Published(state, push) EXCEPT !.reruns = reruns]
      BY <1>4, <1>7, <2>1 DEF Repair!Confirm, Repair!FixPush, Repair!Run
    <2>4. PICK run, accepted : run = [state.run EXCEPT !.status = "published"] /\
            accepted = Append(state.accepted, push)
      OBVIOUS
    <2>5. PICK t : t = [state EXCEPT !.run = run, !.accepted = accepted, !.clean = Repair!NoHead]
      OBVIOUS
    <2>6. PICK s : s = [t EXCEPT !.reruns = reruns]
      OBVIOUS
    <2>7. state' = s
      BY <2>3, <2>4, <2>5, <2>6 DEF Repair!Published
    <2>8. state.run \in RepairRun /\ state.accepted \in Seq(Repair!PushRecord)
      BY <1>3 DEF RepairFile
    <2>9. run \in RepairRun /\ run.status = "published" /\ run.head = state.run.head
      BY <2>4, <2>8 DEF RepairRun
    <2>10. accepted \in Seq(Repair!PushRecord)
      BY <1>5, <2>4, <2>8
    <2>11. t \in RepairFile /\ t.run = run /\ t.accepted = accepted /\ t.clean = Repair!NoHead /\
             t.iterations = state.iterations
           /\ t.pending = state.pending
      BY <1>3, <2>5, <2>9, <2>10, RepairConstants DEF RepairFile
    <2>12. s \in RepairFile /\ s.run = run /\ s.accepted = accepted /\ s.clean = Repair!NoHead /\
             s.iterations = state.iterations
           /\ s.pending = state.pending /\ s.reruns = reruns
      BY <2>2, <2>6, <2>11 DEF RepairFile
    <2>13. s.accepted = Append(state.accepted, push)
      BY <2>4, <2>12
    <2> QED
      BY <1>1, <1>2, <1>5, <2>2, <2>7, <2>9, <2>12, <2>13, RepairFinish, RepairConstants
  <1> QED
    BY <1>6, <1>7

-----------------------------------------------------------------------------
(* The agent, a command that ends early, GitHub, others *)

LEMMA RepairEdit ==
  ASSUME Repair!CiRepairAssumption, RepairInv, Repair!Edit
  PROVE  RepairInv'
  <1>1. proc.pc = "idle" /\ UNCHANGED <<github, state, proc, budget>>
    BY DEF Repair!Edit
  <1>2. local \in Repair!Heads /\ RepairOld(local, budget) /\ github.head \in Repair!Heads /\
          RepairOld(github.head, budget)
        /\ budget \in Nat /\ proc \in RepairProcess
    BY RepairReading, RepairConstants DEF RepairHeads, RepairSource
  <1>3. \A l : RepairPlaced(proc, state, github, l)
    BY <1>1 DEF RepairPlaced, RepairRerunning
  <1>4. CASE local' = Append(local, 0)
    <2>1. PICK l : l = Append(local, 0)
      OBVIOUS
    <2>2. l \in Repair!Heads /\ RepairOld(l, budget)
      BY <1>2, <2>1, RepairAppend, RepairOldAppend
    <2> QED
      BY <1>1, <1>2, <1>3, <1>4, <2>1, <2>2, RepairGoes
  <1>5. CASE local' = [local EXCEPT ![Len(local)] = 8]
    <2>1. PICK l : l = [local EXCEPT ![Len(local)] = 8]
      OBVIOUS
    <2>2. local \in Seq(Nat)
      BY <1>2 DEF Repair!Heads
    <2>3. l \in Seq(Nat) /\ Len(l) = Len(local) /\ \A i \in 1..Len(local) : l[i] = local[i] \/ l[i] = 8
      <3>1. PICK n : n = Len(local)
        OBVIOUS
      <3>2. n \in Nat /\ local \in [1..n -> Nat]
        BY <2>2, <3>1
      <3>3. l = [local EXCEPT ![n] = 8]
        BY <2>1, <3>1
      <3>4. l \in [1..n -> Nat] /\ \A i \in 1..n : l[i] = local[i] \/ l[i] = 8
        BY <3>2, <3>3
      <3>5. l \in Seq(Nat) /\ Len(l) = n
        BY <3>2, <3>4
      <3> QED
        BY <3>1, <3>4, <3>5
    <2>4. RepairOld(l, budget)
      BY <1>2, <2>3 DEF RepairOld
    <2>5. l \in Repair!Heads
      BY <2>3 DEF Repair!Heads
    <2> QED
      BY <1>1, <1>2, <1>3, <1>5, <2>1, <2>4, <2>5, RepairGoes
  <1>6. CASE local' = github.head
    BY <1>1, <1>2, <1>3, <1>6, RepairGoes
  <1> QED
    BY <1>4, <1>5, <1>6 DEF Repair!Edit

LEMMA RepairStop ==
  ASSUME Repair!CiRepairAssumption, RepairInv, Repair!Stop
  PROVE  RepairInv'
  <1>1. proc' = Repair!Idle /\ UNCHANGED <<github, local, state, budget>>
    BY DEF Repair!Stop
  <1>2. Repair!Idle \in RepairProcess /\ RepairPlaced(Repair!Idle, state, github, local)
    BY RepairConstants DEF RepairPlaced, RepairRerunning
  <1>3. local \in Repair!Heads /\ RepairOld(local, budget)
    BY RepairReading DEF RepairHeads
  <1> QED
    BY <1>1, <1>2, <1>3, RepairGoes

LEMMA RepairChecksMove ==
  ASSUME Repair!CiRepairAssumption, RepairInv, Repair!ChecksMove
  PROVE  RepairInv'
  <1>1. UNCHANGED <<local, state, proc, budget>>
    BY DEF Repair!ChecksMove
  <1>2. PICK c \in Checks :
          \/ /\ github.checks[c].class = "running" /\ github.checks[c].done < MaxRuns
             /\ \E class \in {"failed", "passed", "blocked"} :
                  github' = [github EXCEPT !.checks[c].class = class, !.checks[c].done = @ + 1]
          \/ github.checks[c].lag /\ github' = [github EXCEPT !.checks[c].class = "running", !.checks[c].lag = FALSE]
    BY DEF Repair!ChecksMove
  <1>3. PICK old : old = github.checks[c]
    OBVIOUS
  <1>4. github \in RepairSource /\ old \in RepairCheck /\ MaxRuns \in Nat /\ proc \in RepairProcess
        /\ RepairPlaced(proc, state, github, local)
    BY <1>3, RepairReading, RepairConstants DEF RepairSource
  <1>5. (old.class # "running" => old.done >= 1) /\ (old.lag => old.class = "failed")
    BY <1>3, RepairReading DEF RepairCounted
  <1>6. CASE old.class = "running" /\ old.done < MaxRuns /\ \E class \in {"failed", "passed", "blocked"} :
               github' = [github EXCEPT !.checks[c].class = class, !.checks[c].done = @ + 1]
    <2>1. PICK class \in {"failed", "passed", "blocked"} :
            github' = [github EXCEPT !.checks[c].class = class, !.checks[c].done = @ + 1]
      BY <1>6
    <2>2. old.done \in Nat /\ old.done + 1 \in 0..MaxRuns /\ old.done + 1 >= 1 /\ old.done + 1 >= old.done
      BY <1>4, <1>6 DEF RepairCheck
    <2>3. PICK n : n = old.done + 1
      OBVIOUS
    <2>4. PICK check : check = [old EXCEPT !.class = class, !.done = n]
      OBVIOUS
    <2>5. check \in RepairCheck /\ check.class = class /\ check.done = n /\ check.lag = old.lag
      BY <1>4, <2>2, <2>3, <2>4 DEF RepairCheck, RepairClasses
    <2>6. PICK checks : checks = [github.checks EXCEPT ![c] = check]
      OBVIOUS
    <2>7. github' = [github EXCEPT !.checks = checks]
      <3>1. github.checks \in [Checks -> RepairCheck]
        BY <1>4 DEF RepairSource
      <3>2. PICK first : first = [old EXCEPT !.class = class]
        OBVIOUS
      <3>3. PICK c1 : c1 = [github.checks EXCEPT ![c] = first]
        OBVIOUS
      <3>4. c1[c] = first
        BY <1>2, <3>1, <3>3
      <3>5. PICK g1 : g1 = [github EXCEPT !.checks = c1]
        OBVIOUS
      <3>6. g1.checks = c1
        BY <1>4, <3>5 DEF RepairSource
      <3>7. g1 = [github EXCEPT !.checks[c].class = class]
        BY <1>3, <3>2, <3>3, <3>5
      <3>8. first.done = old.done
        BY <1>4, <3>2 DEF RepairCheck
      <3>9. github' = [g1 EXCEPT !.checks[c].done = n]
        BY <2>1, <2>3, <3>4, <3>6, <3>7, <3>8
      <3>10. check = [first EXCEPT !.done = n]
        BY <2>4, <3>2
      <3>11. [c1 EXCEPT ![c].done = n] = [c1 EXCEPT ![c] = check]
        BY <3>4, <3>10
      <3>12. [c1 EXCEPT ![c] = check] = checks
        BY <2>6, <3>1, <3>3
      <3>13. github' = [g1 EXCEPT !.checks = checks]
        BY <3>6, <3>9, <3>11, <3>12
      <3> QED
        BY <1>4, <3>5, <3>13 DEF RepairSource
    <2>8. ~old.lag
      BY <1>5, <1>6
    <2>9. check.done >= 1 /\ check.done >= old.done /\ ~check.lag
      BY <2>2, <2>3, <2>5, <2>8
    <2> QED
      BY <1>1, <1>3, <1>4, <1>6, <2>5, <2>6, <2>7, <2>9, RepairChecked
  <1>7. CASE old.lag /\ github' = [github EXCEPT !.checks[c].class = "running", !.checks[c].lag = FALSE]
    <2>1. PICK check : check = [old EXCEPT !.class = "running", !.lag = FALSE]
      OBVIOUS
    <2>2. check \in RepairCheck /\ check.class = "running" /\ check.done = old.done /\ check.lag = FALSE
      BY <1>4, <2>1 DEF RepairCheck, RepairClasses
    <2>3. PICK checks : checks = [github.checks EXCEPT ![c] = check]
      OBVIOUS
    <2>4. github' = [github EXCEPT !.checks = checks]
      BY <1>2, <1>3, <1>4, <1>7, <2>1, <2>3 DEF RepairSource, RepairCheck
    <2>5. old.class # "passed" /\ old.done \in Nat
      BY <1>4, <1>5, <1>7 DEF RepairCheck
    <2>6. check.done >= old.done
      BY <2>2, <2>5
    <2> QED
      BY <1>1, <1>3, <1>4, <2>2, <2>3, <2>4, <2>5, <2>6, RepairChecked
  <1> QED
    BY <1>2, <1>3, <1>6, <1>7

LEMMA RepairOthersMove ==
  ASSUME Repair!CiRepairAssumption, RepairInv, Repair!OthersMove
  PROVE  RepairInv'
  <1>1. PICK h : /\ h \in {Append(github.head, budget + 9), <<budget + 9>>}
                 /\ github' = [head |-> h, checks |-> Repair!NewChecks]
    BY DEF Repair!OthersMove
  <1>2. budget > 0 /\ budget' = budget - 1 /\ UNCHANGED <<local, state, proc>>
    BY DEF Repair!OthersMove
  <1>3. budget \in Nat /\ github.head \in Repair!Heads /\ RepairOld(github.head, budget) /\ proc \in RepairProcess /\
          local \in Repair!Heads
        /\ state \in RepairFile
    BY RepairReading, RepairConstants DEF RepairSource, RepairHeads
  <1>4. PICK b, x : b = budget - 1 /\ x = budget + 9
    OBVIOUS
  <1>5. b \in Nat /\ b <= budget /\ b \in 0..budget /\ x \in Nat /\ x > b + 9 /\ x > 9
    BY <1>2, <1>3, <1>4
  <1>6. /\ h \in Repair!Heads /\ RepairOld(h, b) /\ Repair!Last(h) = x /\ h # Repair!NoHead
        /\ \E i \in 1..Len(h) : h[i] = budget + 9
    <2>1. CASE h = Append(github.head, x)
      <3>1. h \in Repair!Heads /\ RepairOld(h, b) /\ Repair!Last(h) = x /\ h # Repair!NoHead
        BY <1>3, <1>5, <2>1, RepairAppend, RepairOldAppend
      <3>2. Len(github.head) + 1 \in 1..Len(h) /\ h[Len(github.head) + 1] = budget + 9
        BY <1>3, <1>4, <1>5, <2>1, RepairAppend
      <3> QED
        BY <3>1, <3>2
    <2>2. CASE h = <<x>>
      <3>1. h \in Repair!Heads /\ Len(h) = 1 /\ h[1] = x /\ h # <<>>
        BY <1>5, <2>2 DEF Repair!Heads
      <3>2. Repair!Last(h) = x /\ RepairOld(h, b)
        BY <1>5, <3>1 DEF Repair!Last, RepairOld
      <3>3. 1 \in 1..Len(h) /\ h[1] = budget + 9
        BY <1>4, <3>1
      <3> QED
        BY <3>1, <3>2, <3>3 DEF Repair!NoHead
    <2> QED
      BY <1>1, <1>4, <2>1, <2>2
  <1>7. \A past \in Repair!Heads : RepairOld(past, budget) => RepairLeft(h, past)
    BY <1>2, <1>3, <1>6, RepairNews
  <1>8. Repair!Last(h) \notin {0, 8, 9}
    BY <1>5, <1>6
  <1>9. PICK g : g = [head |-> h, checks |-> Repair!NewChecks]
    OBVIOUS
  <1>10. /\ g \in RepairSource /\ b \in 0..MaxMoves
         /\ RepairHeads(g, local, state, b) /\ RepairCounted(g) /\ RepairSpent(state, g) /\ RepairJudged(state, g)
         /\ RepairAccepted(state, g, b) /\ (state.run.status # "none" => g.head # state.run.head)
    BY <1>5, <1>6, <1>7, <1>8, <1>9, RepairMoved
  <1>11. RepairPlaced(proc, state, g, local)
    <2>1. RepairPlaced(proc, state, github, local)
      BY RepairReading
    <2>2. proc.pc # "idle" => g.head # state.run.head
      BY <1>10, <2>1 DEF RepairPlaced
    <2> QED
      BY <2>1, <2>2 DEF RepairPlaced
  <1>12. RepairGood(proc, state, g, local, b)
    BY <1>10, <1>11, RepairReading DEF RepairGood
  <1> QED
    BY <1>1, <1>2, <1>3, <1>4, <1>9, <1>10, <1>12, RepairThen

LEMMA RepairStays ==
  ASSUME Repair!CiRepairAssumption, RepairInv, [Repair!Next]_Repair!vars
  PROVE  RepairInv'
  <1>1. CASE UNCHANGED Repair!vars
    <2>1. UNCHANGED <<github, local, state, proc, budget>> /\ local \in Repair!Heads /\ RepairOld(local, budget)
      BY <1>1, RepairReading DEF Repair!vars, RepairHeads
    <2> QED
      BY <2>1, RepairReading, RepairGoes
  <1>2. CASE Repair!Preflight \/ Repair!CommandChecks \/ Repair!Resolve \/ Repair!Attribute \/ Repair!Plan \/
          Repair!Record \/ Repair!Skip
    BY <1>2, RepairPreflight, RepairChecks, RepairResolve, RepairAttribute, RepairPlan, RepairRecord, RepairSkip
  <1>3. CASE Repair!Rerun \/ Repair!Post \/ Repair!Requested \/ Repair!Fallback \/ Repair!Create \/ Repair!Prepare \/
          Repair!AnnounceEmpty
    BY <1>3, RepairRerun1, RepairPost, RepairRequested, RepairFallback, RepairCreate, RepairPrepare, RepairAnnounceEmpty
  <1>4. CASE Repair!PushEmpty \/ Repair!Pushed \/ Repair!ConfirmEmpty \/ Repair!Publish \/ Repair!Push \/
          Repair!Confirm \/ Repair!StackNext
    BY <1>4, RepairPushEmpty, RepairPushed, RepairConfirmEmpty, RepairPublish, RepairPush, RepairConfirm,
      RepairStackNext
  <1>5. CASE Repair!Edit \/ Repair!Stop \/ Repair!ChecksMove \/ Repair!OthersMove
    BY <1>5, RepairEdit, RepairStop, RepairChecksMove, RepairOthersMove
  <1> QED
    BY <1>1, <1>2, <1>3, <1>4, <1>5 DEF Repair!Next

-----------------------------------------------------------------------------
(* Theorems *)

\* In every reachable state a branch never comes back to a head it left, the last
\* iteration is not charged twice, verdicts and reruns are of checks that ended at
\* their head, and what is pushed is announced or accepted, once.
THEOREM RepairInvariance == ASSUME Repair!CiRepairAssumption PROVE Repair!Spec => []RepairInv
  <1>1. Repair!Init => RepairInv
    BY RepairInit
  <1>2. RepairInv /\ [Repair!Next]_Repair!vars => RepairInv'
    BY RepairStays
  <1> QED
    BY <1>1, <1>2, PTL DEF Repair!Spec

\* Every variable keeps its type.
THEOREM RepairIsTyped == ASSUME Repair!CiRepairAssumption PROVE Repair!Spec => []Repair!TypeOK
  <1>1. ASSUME RepairInv PROVE Repair!TypeOK
    <2>1. github.head \in Repair!Heads /\ local \in Repair!Heads
          /\ github.checks \in [Checks -> [class : {"running", "failed", "passed", "blocked"}, done : 0..MaxRuns, lag :
               BOOLEAN]]
      BY <1>1, RepairReading DEF RepairSource, RepairCheck, RepairClasses
    <2>2. /\ state.run \in RepairRun /\ state.iterations \in Nat /\ state.charged \in Repair!Heads
          /\ state.clean \in Repair!Heads
          /\ state.escalation \in Repair!Escalations \cup {"none"} /\ state.pending \in Repair!PushRecord
          /\ state.accepted \in Seq(Repair!PushRecord) /\ state.reruns \in [Checks -> RepairRerun]
      BY <1>1, RepairReading DEF RepairFile
    <2>3. /\ state.run.status \in {"none", "active", "published"} /\ state.run.head \in Repair!Heads
          /\ state.run.verdict \in [Checks -> Repair!Verdicts \cup {"none"}]
          /\ state.run.batch \in [Checks -> {"none", "planned", "recorded", "skipped"}]
          /\ state.run.commits \subseteq Repair!Heads
      BY <2>2 DEF RepairRun
    <2>4. state.reruns \in [Checks -> [count : 0..1, method : {"none", "request", "empty_commit"}, head : Repair!Heads,
                                  seen : 0..MaxRuns, commit : Repair!Heads,
                                  status : {"none", "creating", "prepared", "pushed", "published"}]]
      <3>1. RepairRerun = [count : 0..1, method : {"none", "request", "empty_commit"}, head : Repair!Heads,
                           seen : 0..MaxRuns, commit : Repair!Heads,
                           status : {"none", "creating", "prepared", "pushed", "published"}]
        BY DEF RepairRerun
      <3> QED
        BY <2>2, <3>1
    <2>5. proc.pc \in RepairPcs /\ proc.check \in Checks \cup {"none"} /\ budget \in 0..MaxMoves
      BY <1>1, RepairReading DEF RepairProcess
    <2> QED
      BY <2>1, <2>2, <2>3, <2>4, <2>5 DEF Repair!TypeOK, RepairPcs
  <1> QED
    BY <1>1, RepairInvariance, PTL

\* The iterations stay within the limit (charge_iteration, command_preflight), and a
\* clearance is one of the head that the run is about.
THEOREM RepairStaysInBudget == ASSUME Repair!CiRepairAssumption PROVE Repair!Spec =>
  [](Repair!BudgetHolds /\ Repair!Cleared)
  <1>1. ASSUME RepairInv PROVE Repair!BudgetHolds /\ Repair!Cleared
    BY <1>1, RepairReading DEF Repair!BudgetHolds, Repair!Cleared, RepairSpent, RepairCleared, Repair!Run
  <1> QED
    BY <1>1, RepairInvariance, PTL

\* No push is recorded twice, and in a stack every commit of ours on the branch is
\* announced or accepted (prepare_pending_stack_push, finalize_pending_stack_push).
THEOREM RepairIsAccounted == ASSUME Repair!CiRepairAssumption PROVE Repair!Spec =>
  [](Repair!CheckpointOnce /\ Repair!Accounted)
  <1>1. ASSUME RepairInv PROVE Repair!CheckpointOnce /\ Repair!Accounted
    <2>1. RepairAccepted(state, github, budget)
      BY <1>1, RepairReading
    <2>2. Repair!CheckpointOnce
      BY <2>1 DEF RepairAccepted, Repair!CheckpointOnce
    <2>3. Repair!Accounted
      BY <2>1 DEF RepairAccepted, Repair!Accounted
    <2> QED
      BY <2>2, <2>3
  <1> QED
    BY <1>1, RepairInvariance, PTL

\* What only the readings of the checks say.
LEMMA RepairSilent ==
  ASSUME RepairInv, Repair!Next, ~Repair!CommandChecks, ~Repair!Resolve
  PROVE  state'.clean \in {state.clean, Repair!NoHead} /\ (state'.escalation = "flake_failed_twice" =>
         state'.escalation = state.escalation)
  <1>1. state \in RepairFile
    BY RepairReading
  <1>2. CASE Repair!Preflight
    <2>1. state'.clean = Repair!NoHead /\ state'.escalation = IF state.iterations >= MaxIterations /\
            state.charged # github.head
                      THEN "max_iterations_reached" ELSE "none"
      BY <1>1, <1>2 DEF Repair!Preflight, RepairFile
    <2> QED
      BY <2>1
  <1>3. CASE Repair!Attribute \/ Repair!Plan \/ Repair!Record \/ Repair!Skip
    <2>1. CASE Repair!Attribute
      BY <1>1, <2>1 DEF Repair!Attribute, Repair!Save, RepairFile
    <2>2. CASE Repair!Plan
      BY <1>1, <2>2 DEF Repair!Plan, Repair!Save, RepairFile
    <2>3. CASE Repair!Record
      BY <1>1, <2>3 DEF Repair!Record, Repair!Save, RepairFile
    <2>4. CASE Repair!Skip
      BY <1>1, <2>4 DEF Repair!Skip, Repair!Save, RepairFile
    <2> QED
      BY <1>3, <2>1, <2>2, <2>3, <2>4
  <1>4. CASE Repair!Rerun \/ Repair!Requested \/ Repair!Prepare \/ Repair!Pushed
    <2>1. CASE Repair!Rerun
      <3>1. state' = state \/ state' = [state EXCEPT !.escalation = "no_rerun_support"]
        BY <2>1 DEF Repair!Rerun
      <3> QED
        BY <1>1, <3>1 DEF RepairFile
    <2>2. CASE Repair!Requested
      BY <1>1, <2>2 DEF Repair!Requested, RepairFile
    <2>3. CASE Repair!Prepare
      <3>1. \E commit : state' = state \/ state' = [state EXCEPT !.reruns[proc.check].commit = commit,
                                                                 !.reruns[proc.check].status = "prepared"]
        BY <2>3 DEF Repair!Prepare
      <3> QED
        BY <1>1, <3>1 DEF RepairFile
    <2>4. CASE Repair!Pushed
      BY <1>1, <2>4 DEF Repair!Pushed, RepairFile
    <2> QED
      BY <1>4, <2>1, <2>2, <2>3, <2>4
  <1>5. ASSUME NEW s \in RepairFile, s.clean \in {state.clean, Repair!NoHead}, s.escalation = state.escalation, NEW push
        PROVE  Repair!Published(s, push).clean = Repair!NoHead /\
               Repair!Published(s, push).escalation = state.escalation
               /\ Repair!Finalized(s, push).clean = Repair!NoHead
               /\ Repair!Finalized(s, push).escalation = state.escalation
    <2>1. PICK run, accepted : run = [s.run EXCEPT !.status = "published"] /\ accepted = Append(s.accepted, push)
      OBVIOUS
    <2>2. PICK t : t = [s EXCEPT !.run = run, !.accepted = accepted, !.clean = Repair!NoHead]
      OBVIOUS
    <2>3. Repair!Published(s, push) = t
      BY <2>1, <2>2 DEF Repair!Published
    <2>4. DOMAIN t = DOMAIN s /\ t.clean = Repair!NoHead /\ t.escalation = s.escalation
      BY <1>5, <2>2 DEF RepairFile
    <2>5. Repair!Finalized(s, push) = [t EXCEPT !.pending = Repair!NoPush, !.reruns = [c \in Checks |-> Repair!NoRerun]]
      BY <2>3 DEF Repair!Finalized
    <2>6. Repair!Finalized(s, push).clean = Repair!NoHead /\ Repair!Finalized(s, push).escalation = s.escalation
      BY <1>5, <2>4, <2>5 DEF RepairFile
    <2> QED
      BY <1>5, <2>3, <2>4, <2>6
  <1>6. CASE Repair!Fallback
    <2>1. state' = Repair!Finalized(state, state.pending) \/ state' = state
          \/ \E entry : state' = [state EXCEPT !.reruns[proc.check] = entry]
      BY <1>6 DEF Repair!Fallback
    <2> QED
      BY <1>1, <1>5, <2>1 DEF RepairFile
  <1>7. CASE Repair!AnnounceEmpty \/ Repair!Publish
    <2>1. state' = Repair!Finalized(state, state.pending) \/ state' = state \/
            \E push : state' = [state EXCEPT !.pending = push]
      BY <1>7 DEF Repair!AnnounceEmpty, Repair!Publish, Repair!Announced
    <2> QED
      BY <1>1, <1>5, <2>1 DEF RepairFile
  <1>8. CASE Repair!ConfirmEmpty
    <2>1. PICK t : t = [state EXCEPT !.reruns[proc.check].status = "published"]
      OBVIOUS
    <2>2. state' = Repair!Finalized(state, state.pending) \/ state' = Repair!Published(t, Repair!EmptyPush)
      BY <1>8, <2>1 DEF Repair!ConfirmEmpty
    <2>3. PICK r : t = [state EXCEPT !.reruns = r]
      BY <2>1
    <2>4. DOMAIN t = DOMAIN state /\ t.clean = state.clean /\ t.escalation = state.escalation
      BY <1>1, <2>3 DEF RepairFile
    <2>5. Repair!Published(t, Repair!EmptyPush).clean = Repair!NoHead /\
            Repair!Published(t, Repair!EmptyPush).escalation = state.escalation
      <3>1. PICK run, accepted : run = [t.run EXCEPT !.status = "published"] /\
              accepted = Append(t.accepted, Repair!EmptyPush)
        OBVIOUS
      <3>2. Repair!Published(t, Repair!EmptyPush) = [t EXCEPT !.run = run, !.accepted = accepted,
              !.clean = Repair!NoHead]
        BY <3>1 DEF Repair!Published
      <3>3. t = [state EXCEPT !.reruns = r]
        BY <2>3
      <3> QED
        BY <1>1, <2>4, <3>2, <3>3 DEF RepairFile
    <2> QED
      BY <1>1, <1>5, <2>2, <2>5
  <1>9. CASE Repair!Confirm
    <2>1. state' = Repair!Finalized(state, state.pending)
          \/ state' = [Repair!Published(state, Repair!FixPush) EXCEPT !.reruns = [c \in Checks |-> Repair!NoRerun]]
      BY <1>9 DEF Repair!Confirm
    <2>2. PICK run, accepted : run = [state.run EXCEPT !.status = "published"] /\
            accepted = Append(state.accepted, Repair!FixPush)
      OBVIOUS
    <2>3. PICK t : t = [state EXCEPT !.run = run, !.accepted = accepted, !.clean = Repair!NoHead]
      OBVIOUS
    <2>4. Repair!Published(state, Repair!FixPush) = t
      BY <2>2, <2>3 DEF Repair!Published
    <2>5. PICK reruns : reruns = [c \in Checks |-> Repair!NoRerun]
      OBVIOUS
    <2>6. state' = Repair!Finalized(state, state.pending) \/ state' = [t EXCEPT !.reruns = reruns]
      BY <2>1, <2>4, <2>5
    <2>7. [t EXCEPT !.reruns = reruns].clean = Repair!NoHead /\
            [t EXCEPT !.reruns = reruns].escalation = state.escalation
      BY <1>1, <2>3 DEF RepairFile
    <2> QED
      BY <1>1, <1>5, <2>6, <2>7
  <1>10. CASE Repair!StackNext
    <2>1. state' = Repair!Finalized(state, state.pending) \/ state' = state
      BY <1>10 DEF Repair!StackNext, Repair!Save
    <2> QED
      BY <1>1, <1>5, <2>1
  <1>11. CASE Repair!Post \/ Repair!Create \/ Repair!PushEmpty \/ Repair!Push \/ Repair!Edit \/ Repair!Stop \/
           Repair!ChecksMove \/ Repair!OthersMove
    <2>1. state' = state
      BY <1>11 DEF Repair!Post, Repair!Create, Repair!PushEmpty, Repair!Push, Repair!Edit, Repair!Stop,
        Repair!ChecksMove, Repair!OthersMove
    <2> QED
      BY <2>1
  <1> QED
    BY <1>2, <1>3, <1>4, <1>6, <1>7, <1>8, <1>9, <1>10, <1>11 DEF Repair!Next

\* What a reading of the checks says of them.
LEMMA RepairTwice ==
  ASSUME Repair!CiRepairAssumption, RepairInv, state.run.status = "active", github.head = state.run.head,
         Repair!Failed # {},
         Repair!NextAction = "flake_failed_twice"
  PROVE  \E c \in Checks : github.checks[c].class = "failed" /\ github.checks[c].done >= 2
  <1>1. PICK flakes : flakes = {c \in Repair!Failed : Repair!Attributed(c) = "flake"}
    OBVIOUS
  <1>2. flakes # {} /\ ~\E c \in flakes : state.reruns[c].count < 1
    <2>1. CASE \E c \in flakes : state.reruns[c].count < 1
      <3>1. Repair!NextAction \in {"fix", "rerun"}
        BY <1>1, <2>1 DEF Repair!NextAction
      <3> QED
        BY <3>1
    <2>2. CASE flakes = {}
      <3>1. ~\E c \in flakes : state.reruns[c].count < 1
        BY <2>2
      <3>2. Repair!NextAction \in {"fix", "attribute", "waiting", "pre_existing_failures", "unfixable_failure"}
        BY <1>1, <2>2, <3>1 DEF Repair!NextAction
      <3> QED
        BY <3>2
    <2> QED
      BY <2>1, <2>2
  <1>3. PICK c \in flakes : TRUE
    BY <1>2
  <1>4. c \in Repair!Failed /\ c \in Checks
    BY <1>1, <1>3 DEF Repair!Failed
  <1>5. state.reruns[c] \in RepairRerun
    BY <1>4, RepairReading DEF RepairFile
  <1>6. state.reruns[c].count = 1
    BY <1>2, <1>3, <1>5 DEF RepairRerun
  <1>7. state.reruns[c].head = state.run.head /\ state.reruns[c].seen >= 1
    BY <1>4, <1>6, RepairReading DEF RepairJudged
  <1>8. github.checks[c].class = "failed" /\ ~Repair!Stale(c) /\ github.checks[c] \in RepairCheck
    BY <1>4, RepairSays
  <1>9. ~(github.checks[c].done <= state.reruns[c].seen)
    BY <1>6, <1>7, <1>8 DEF Repair!Stale, Repair!Run
  <1>10. github.checks[c].done \in Nat /\ state.reruns[c].seen \in Nat
    BY <1>5, <1>8, RepairConstants DEF RepairCheck, RepairRerun
  <1>11. github.checks[c].done >= 2
    BY <1>7, <1>9, <1>10
  <1> QED
    BY <1>4, <1>8, <1>11

\* A head is recorded as clean only when every check passed there (command_checks,
\* command_resolve), and "failed twice" is only said of a check that ended twice at
\* its head (apply_rerun_watermark).
THEOREM RepairSaysWhatItSaw == ASSUME Repair!CiRepairAssumption PROVE Repair!Spec =>
  [][Repair!ClearedWhenGreen /\ Repair!TwiceIsTwice]_Repair!vars
  <1>1. ASSUME RepairInv, Repair!Next PROVE Repair!ClearedWhenGreen /\ Repair!TwiceIsTwice
    <2>1. CASE ~Repair!CommandChecks /\ ~Repair!Resolve
      BY <1>1, <2>1, RepairSilent DEF Repair!ClearedWhenGreen, Repair!TwiceIsTwice
    <2>2. state \in RepairFile
      BY <1>1, RepairReading
    <2>3. CASE Repair!Save([state EXCEPT !.clean = Repair!Run.head, !.escalation = "none"]) /\
            github.head = Repair!Run.head
               /\ Repair!Failed = {} /\ Repair!Decision = "green"
      <3>1. state'.clean = github.head /\ state'.escalation = "none"
        BY <2>2, <2>3 DEF Repair!Save, RepairFile
      <3>2. RepairGreen(github)
        BY <1>1, <2>3, RepairGreens
      <3> QED
        BY <3>1, <3>2 DEF Repair!ClearedWhenGreen, Repair!TwiceIsTwice, RepairGreen
    <2>4. CASE Repair!Resolve
      <3>1. Repair!Save([state EXCEPT !.clean = Repair!Run.head, !.escalation = "none"]) /\
              github.head = Repair!Run.head
               /\ Repair!Failed = {} /\ Repair!Decision = "green"
        BY <2>4 DEF Repair!Resolve
      <3> QED
        BY <2>3, <3>1
    <2>5. CASE Repair!CommandChecks
      <3>1. CASE github.head # Repair!Run.head
        <4>1. state' = [state EXCEPT !.escalation = "head_changed"]
          BY <2>5, <3>1 DEF Repair!CommandChecks, Repair!Save
        <4>2. state'.clean = state.clean /\ state'.escalation = "head_changed"
          BY <2>2, <4>1 DEF RepairFile
        <4> QED
          BY <4>2 DEF Repair!ClearedWhenGreen, Repair!TwiceIsTwice
      <3>2. CASE github.head = Repair!Run.head /\ Repair!Failed = {}
        <4>1. Repair!Decision \in {"escalate", "waiting", "green"}
          BY DEF Repair!Decision
        <4>2. CASE Repair!Decision = "green"
          <5>1. Repair!Save([state EXCEPT !.clean = Repair!Run.head, !.escalation = "none"])
            BY <2>5, <3>2, <4>2 DEF Repair!CommandChecks
          <5> QED
            BY <2>3, <3>2, <4>2, <5>1
        <4>3. CASE Repair!Decision = "escalate"
          <5>1. state' = [state EXCEPT !.escalation = "blocked"]
            BY <2>5, <3>2, <4>3 DEF Repair!CommandChecks, Repair!Save
          <5>2. state'.clean = state.clean /\ state'.escalation = "blocked"
            BY <2>2, <5>1 DEF RepairFile
          <5> QED
            BY <5>2 DEF Repair!ClearedWhenGreen, Repair!TwiceIsTwice
        <4>4. CASE Repair!Decision = "waiting"
          <5>1. state' = state
            BY <2>5, <3>2, <4>4 DEF Repair!CommandChecks, Repair!Save
          <5> QED
            BY <5>1 DEF Repair!ClearedWhenGreen, Repair!TwiceIsTwice
        <4> QED
          BY <4>1, <4>2, <4>3, <4>4
      <3>3. CASE github.head = Repair!Run.head /\ Repair!Failed # {}
        <4>1. PICK attributed : attributed = [state EXCEPT !.run.verdict = [c \in Checks |-> Repair!Attributed(c)]]
          OBVIOUS
        <4>2. state' = IF Repair!NextAction \in {"fix", "rerun", "attribute"} THEN Repair!ChargeIteration(attributed)
                       ELSE IF Repair!NextAction = "waiting" THEN attributed
                       ELSE [attributed EXCEPT !.escalation = Repair!NextAction]
          BY <2>5, <3>3, <4>1 DEF Repair!CommandChecks, Repair!Save
        <4>3. PICK run : run = [state.run EXCEPT !.verdict = [c \in Checks |-> Repair!Attributed(c)]]
          OBVIOUS
        <4>4. attributed = [state EXCEPT !.run = run]
          BY <4>1, <4>3
        <4>5. DOMAIN attributed = DOMAIN state /\ attributed.clean = state.clean /\
                attributed.escalation = state.escalation
          BY <2>2, <4>4 DEF RepairFile
        <4>6. state.run.status = "active"
          BY <2>5 DEF Repair!CommandChecks, Repair!Working, Repair!Active, Repair!Run
        <4>7. CASE Repair!NextAction \in {"fix", "rerun", "attribute"}
          <5>1. state' = Repair!ChargeIteration(attributed)
            BY <4>2, <4>7
          <5>2. state' = attributed \/ \E r, n, h : state' = [attributed EXCEPT !.run = r, !.iterations = n,
                  !.charged = h]
            BY <5>1 DEF Repair!ChargeIteration
          <5>3. state'.clean = state.clean /\ state'.escalation = state.escalation
            BY <2>2, <4>4, <4>5, <5>2 DEF RepairFile
          <5> QED
            BY <5>3 DEF Repair!ClearedWhenGreen, Repair!TwiceIsTwice
        <4>8. CASE Repair!NextAction = "waiting"
          <5>1. state' = attributed
            BY <4>2, <4>8
          <5> QED
            BY <4>5, <5>1 DEF Repair!ClearedWhenGreen, Repair!TwiceIsTwice
        <4>9. CASE Repair!NextAction \in Repair!Escalations
          <5>1. state' = [attributed EXCEPT !.escalation = Repair!NextAction]
            BY <4>2, <4>9 DEF Repair!Escalations
          <5>2. state'.clean = state.clean /\ state'.escalation = Repair!NextAction
            BY <2>2, <4>4, <4>5, <5>1 DEF RepairFile
          <5>3. Repair!NextAction = "flake_failed_twice" => \E c \in Checks : github.checks[c].class = "failed" /\
                  github.checks[c].done >= 2
            BY <1>1, <3>3, <4>6, RepairTwice DEF Repair!Run
          <5> QED
            BY <5>2, <5>3 DEF Repair!ClearedWhenGreen, Repair!TwiceIsTwice
        <4> QED
          BY <4>7, <4>8, <4>9, RepairEnds
      <3> QED
        BY <3>1, <3>2, <3>3
    <2> QED
      BY <2>1, <2>4, <2>5
  <1>2. ASSUME UNCHANGED Repair!vars PROVE [Repair!ClearedWhenGreen /\ Repair!TwiceIsTwice]_Repair!vars
    BY <1>2
  <1>3. RepairInv /\ [Repair!Next]_Repair!vars => [Repair!ClearedWhenGreen /\ Repair!TwiceIsTwice]_Repair!vars
    BY <1>1, <1>2
  <1> QED
    BY <1>3, RepairInvariance, PTL DEF Repair!Spec

\* A push of ours only extends the branch: none is forced, and the moves of others
\* do not bring the head that we have here.
THEOREM RepairExtends == ASSUME Repair!CiRepairAssumption PROVE Repair!Spec => [][Repair!Extends]_Repair!vars
  <1>1. ASSUME RepairInv, Repair!Next PROVE Repair!Extends
    <2>1. SUFFICES ASSUME Repair!Pushes
                   PROVE  Repair!IsPrefix(github.head, github'.head)
      BY DEF Repair!Extends
    <2>2. github'.head = local /\ github.head # local /\ github \in RepairSource
      BY <1>1, <2>1, RepairReading DEF Repair!Pushes
    <2>3. CASE Repair!PushEmpty \/ Repair!Push
      BY <2>2, <2>3 DEF Repair!PushEmpty, Repair!Push
    <2>4. CASE Repair!OthersMove
      <3>1. PICK h : /\ h \in {Append(github.head, budget + 9), <<budget + 9>>}
                     /\ github' = [head |-> h, checks |-> Repair!NewChecks]
        BY <2>4 DEF Repair!OthersMove
      <3>2. budget > 0 /\ budget \in Nat /\ budget + 9 \in Nat /\ local \in Repair!Heads /\ RepairOld(local, budget) /\
              github.head \in Repair!Heads
        BY <1>1, <2>4, RepairReading, RepairConstants DEF Repair!OthersMove, RepairHeads, RepairSource
      <3>3. h = local
        BY <2>2, <3>1
      <3>4. \E i \in 1..Len(h) : h[i] = budget + 9
        <4>1. CASE h = Append(github.head, budget + 9)
          BY <3>2, <4>1, RepairAppend
        <4>2. CASE h = <<budget + 9>>
          <5>1. Len(h) = 1 /\ h[1] = budget + 9 /\ 1 \in 1..Len(h)
            BY <4>2
          <5> QED
            BY <5>1
        <4> QED
          BY <3>1, <4>1, <4>2
      <3>5. RepairLeft(h, local)
        BY <3>2, <3>3, <3>4, RepairNews
      <3> QED
        BY <3>2, <3>3, <3>5, RepairThere
    <2>5. CASE Repair!Post \/ Repair!ChecksMove
      <3>1. \/ github' = github
            \/ \E c, check : github' = [github EXCEPT !.checks[c] = check]
            \/ \E c, x, y : github' = [github EXCEPT !.checks[c].class = x, !.checks[c].done = y]
            \/ \E c, x, y : github' = [github EXCEPT !.checks[c].class = x, !.checks[c].lag = y]
            \/ \E c, x : github' = [github EXCEPT !.checks[c].lag = x]
        BY <2>5, Zenon DEF Repair!Post, Repair!ChecksMove
      <3>2. github'.head = github.head
        BY <2>2, <3>1 DEF RepairSource
      <3> QED
        BY <2>2, <3>2
    <2>6. CASE Repair!Preflight \/ Repair!CommandChecks \/ Repair!Resolve \/ Repair!Attribute \/ Repair!Plan \/
            Repair!Record \/ Repair!Skip \/ Repair!Rerun \/ Repair!Requested
               \/ Repair!Fallback \/ Repair!Create \/ Repair!Prepare \/ Repair!AnnounceEmpty \/ Repair!Pushed \/
                    Repair!ConfirmEmpty
      <3>1. proc.pc \in {"push", "push_empty"}
        BY <2>1 DEF Repair!Pushes
      <3> QED
        BY <2>6, <3>1 DEF Repair!Preflight, Repair!CommandChecks, Repair!Working, Repair!Active, Repair!Resolve,
          Repair!Attribute, Repair!Plan, Repair!Record, Repair!Skip, Repair!Rerun,
           Repair!Requested, Repair!Fallback, Repair!Create, Repair!Prepare, Repair!AnnounceEmpty, Repair!Pushed,
             Repair!ConfirmEmpty
    <2>7. CASE Repair!Publish \/ Repair!Confirm \/ Repair!StackNext \/ Repair!Edit \/ Repair!Stop
      <3>1. github' = github
        BY <2>7 DEF Repair!Publish, Repair!Confirm, Repair!StackNext, Repair!Save, Repair!Edit, Repair!Stop
      <3> QED
        BY <2>2, <3>1
    <2> QED
      BY <1>1, <2>3, <2>4, <2>5, <2>6, <2>7 DEF Repair!Next
  <1>2. RepairInv /\ [Repair!Next]_Repair!vars => [Repair!Extends]_Repair!vars
    BY <1>1
  <1> QED
    BY <1>2, RepairInvariance, PTL DEF Repair!Spec

-----------------------------------------------------------------------------
(* CiStack: a member is repaired on top of what was cleared below it.       *)
Walk == INSTANCE CiStack

WalkPcs == {"idle", "next", "record", "status", "propagate", "resolver", "contained", "format", "push", "confirm"}
WalkFile == [guard : Walk!Heads, clean : Walk!Heads, pending : Walk!PushRecord,
             accepted : SUBSET Walk!Heads, retired : SUBSET Walk!Heads]
WalkSource == [head : [Walk!Members -> Walk!Heads], red : SUBSET Walk!Members,
               changed : BOOLEAN, serial : N..MaxCommits, ours : SUBSET Walk!Heads]
WalkAsk == [fixed : 0..N, head : Walk!Heads]
WalkState == [status : {"active", "complete", "stopped"}, cursor : 1..(N + 1),
              ci : [Walk!Members -> {"pending", "active", "clear", "blocked"}],
              clean : [Walk!Members -> Walk!Heads], sent : [Walk!Members -> Walk!Heads],
              propagated : SUBSET (Walk!Members \X Walk!Heads),
              requests : SUBSET ((0..N) \X Walk!Heads \X [Walk!Members -> Walk!Heads]),
              guards : SUBSET ((0..N) \X Walk!Heads \X Walk!Members \X Walk!Heads),
              format : WalkAsk, conflict : WalkAsk]
WalkProcess == [pc : WalkPcs, seen : [Walk!Members -> Walk!Heads], fixed : 0..N,
                head : Walk!Heads, push : BOOLEAN]

\* The types in full.
WalkTypes ==
  /\ github \in WalkSource /\ local \in [Walk!Members -> WalkFile] /\ state \in WalkState /\ proc \in WalkProcess
  /\ budget \in 0..MaxMoves

\* A head that moves gets a commit that is newer than all it had.
WalkNewer(head, past) == \E x \in head : \A y \in past : y < x

\* Every commit was made before the next one.
WalkKnown(g, l) ==
  /\ \A h \in g.ours : h \subseteq 1..g.serial
  /\ \A m \in Walk!Members :
       /\ g.head[m] # Walk!NoHead /\ g.head[m] \subseteq 1..g.serial
       /\ l[m].pending.head \subseteq 1..g.serial
       /\ \A h \in l[m].accepted : h \subseteq 1..g.serial

\* An announced push adds one commit, which is nowhere while the push is to come.
WalkFresh(x, m, g, l) ==
  /\ l[m].pending.head = l[m].pending.previous \cup {x} /\ \A y \in l[m].pending.previous : y < x
  /\ g.head[m] = l[m].pending.previous =>
       \A k \in Walk!Members : x \notin g.head[k] /\ (k # m => x \notin l[k].pending.head)
WalkAnnounced(g, l) ==
  \A m \in Walk!Members : l[m].pending # Walk!NoPush =>
    /\ g.head[m] = l[m].pending.previous \/ WalkNewer(g.head[m], l[m].pending.previous)
    /\ \E x \in 1..g.serial : WalkFresh(x, m, g, l)

\* The members below the cursor are clear, those above it were not begun.
WalkCursor(s) ==
  \A m \in Walk!Members :
    /\ m < s.cursor => s.ci[m] = "clear"
    /\ m = s.cursor => s.ci[m] # "clear"
    /\ m > s.cursor => s.ci[m] = "pending"

\* What the member at the cursor has to contain.
WalkBelow(s) == IF s.cursor > 1 THEN s.clean[s.cursor - 1] ELSE Walk!NoHead
WalkStands(ask, s) == ask.fixed <= s.cursor /\ (ask.fixed = s.cursor => WalkBelow(s) \subseteq ask.head)

\* Our heads of a member: what it accepted, and what it announced.
WalkOurs(m, l) == l[m].accepted \cup {l[m].pending.head}

\* In an attempt the head that was dispatched, every head of ours and every head
\* that is carried upwards contain what was cleared below.
WalkAttempt(g, l, s) ==
  /\ WalkStands(s.format, s) /\ WalkStands(s.conflict, s)
  /\ \A m \in Walk!Members : m = s.cursor /\ s.ci[m] = "active" =>
       /\ WalkBelow(s) \subseteq s.sent[m]
       /\ g.head[m] \in WalkOurs(m, l) => WalkBelow(s) \subseteq g.head[m]

\* What a command remembers.
WalkPlaced(g, l, s, p) ==
  /\ p.pc \notin {"next", "push", "confirm"} => WalkStands(p, s)
  /\ p.pc = "next" => \A m \in Walk!Members :
       /\ g.head[m] = p.seen[m] \/ g.head[m] \notin WalkOurs(m, l)
       /\ m = s.cursor /\ s.ci[m] = "active" /\ p.seen[m] \in WalkOurs(m, l) => WalkBelow(s) \subseteq p.seen[m]
  /\ \A m \in Walk!Members : p.seen[m] # Walk!NoHead \/ p.pc \notin {"next", "record"}
  /\ p.pc = "record" /\ s.cursor <= N => s.ci[s.cursor] = "active"
  /\ p.pc \in {"propagate", "resolver", "contained"} => p.fixed # 0
  /\ p.pc = "resolver" => p.seen[p.fixed] = p.head
  /\ p.pc \in {"push", "confirm"} => p.fixed = s.cursor /\ p.fixed \in Walk!Members
  /\ p.pc = "push" => l[p.fixed].pending # Walk!NoPush /\ WalkBelow(s) \subseteq l[p.fixed].pending.head

\* A file that says clean was cleared at its head.
WalkClean(l) == \A m \in Walk!Members : l[m].clean # Walk!NoHead => l[m].clean = l[m].guard

WalkAccounted(g, l) ==
  \A m \in Walk!Members : g.head[m] \in g.ours =>
    g.head[m] \in {l[m].pending.head} \cup l[m].accepted \cup l[m].retired

WalkChain(s) ==
  \A m \in Walk!Members : s.ci[m] = "clear" =>
    s.clean[m] # Walk!NoHead /\ (m > 1 => s.ci[m - 1] = "clear" /\ s.clean[m - 1] \subseteq s.clean[m])

WalkGood(g, l, s, p) ==
  /\ WalkKnown(g, l) /\ WalkAnnounced(g, l) /\ WalkAccounted(g, l)
  /\ WalkCursor(s) /\ WalkChain(s) /\ WalkAttempt(g, l, s) /\ WalkPlaced(g, l, s, p) /\ WalkClean(l)

WalkInv == WalkTypes /\ WalkGood(github, local, state, proc)

-----------------------------------------------------------------------------

\* What the constants are.
LEMMA WalkConstants ==
  ASSUME Walk!CiStackAssumption
  PROVE  /\ N \in Nat \ {0} /\ MaxCommits \in Nat /\ MaxCommits >= N /\ MaxMoves \in Nat
         /\ Walk!Members = 1..N /\ Walk!NoHead = {} /\ Walk!NoHead \in Walk!Heads /\ Walk!Heads = SUBSET (1..MaxCommits)
         /\ Walk!NoPush \in Walk!PushRecord /\ Walk!NoPush.previous = Walk!NoHead /\ Walk!NoPush.head = Walk!NoHead
         /\ Walk!NoAsk \in WalkAsk /\ Walk!NoAsk.fixed = 0 /\ Walk!NoAsk.head = Walk!NoHead
         /\ Walk!Resting \in WalkProcess /\ Walk!Resting.pc = "idle" /\ Walk!Resting.fixed = 0
         /\ Walk!Resting.head = Walk!NoHead
  <1>1. N \in Nat \ {0} /\ MaxCommits \in Nat /\ MaxCommits >= N /\ MaxMoves \in Nat
    BY DEF Walk!CiStackAssumption
  <1>2. Walk!Members = 1..N /\ Walk!NoHead = {} /\ Walk!Heads = SUBSET (1..MaxCommits)
    BY DEF Walk!Members, Walk!NoHead, Walk!Heads, Walk!Commits
  <1>3. [m \in Walk!Members |-> Walk!NoHead] \in [Walk!Members -> Walk!Heads] /\ 0 \in 0..N
    BY <1>1, <1>2
  <1> QED
    BY <1>1, <1>2, <1>3 DEF Walk!NoPush, Walk!PushRecord, Walk!NoAsk, WalkAsk, Walk!Resting, WalkProcess, WalkPcs

\* The types of the fields.
LEMMA WalkReading ==
  ASSUME Walk!CiStackAssumption, WalkInv
  PROVE  /\ github \in WalkSource /\ state \in WalkState /\ proc \in WalkProcess /\ local \in [Walk!Members -> WalkFile]
         /\ github.head \in [Walk!Members -> Walk!Heads] /\ github.serial \in Nat /\ github.serial <= MaxCommits
         /\ github.ours \in SUBSET Walk!Heads /\ github.red \in SUBSET Walk!Members
         /\ \A m \in Walk!Members :
              /\ m \in Nat /\ m >= 1 /\ m <= N /\ github.head[m] \in Walk!Heads /\ local[m] \in WalkFile
              /\ local[m].guard \in Walk!Heads /\ local[m].clean \in Walk!Heads
              /\ local[m].pending \in Walk!PushRecord /\ local[m].pending.head \in Walk!Heads
              /\ local[m].pending.previous \in Walk!Heads
              /\ local[m].accepted \in SUBSET Walk!Heads /\ local[m].retired \in SUBSET Walk!Heads
              /\ state.clean[m] \in Walk!Heads /\ state.sent[m] \in Walk!Heads /\ proc.seen[m] \in Walk!Heads
         /\ state.cursor \in Nat /\ state.cursor >= 1 /\ state.cursor <= N + 1
         /\ state.clean \in [Walk!Members -> Walk!Heads] /\ state.sent \in [Walk!Members -> Walk!Heads]
         /\ state.ci \in [Walk!Members -> {"pending", "active", "clear", "blocked"}]
         /\ state.format \in WalkAsk /\ state.conflict \in WalkAsk
         /\ state.propagated \in SUBSET (Walk!Members \X Walk!Heads)
         /\ proc.seen \in [Walk!Members -> Walk!Heads] /\ proc.fixed \in 0..N /\ proc.head \in Walk!Heads
  <1>1. /\ github \in WalkSource /\ state \in WalkState /\ proc \in WalkProcess /\ local \in [Walk!Members -> WalkFile]
    BY DEF WalkInv, WalkTypes
  <1>2. \A m \in Walk!Members : m \in Nat /\ m >= 1 /\ m <= N
    BY WalkConstants
  <1>3. /\ github.head \in [Walk!Members -> Walk!Heads] /\ github.serial \in N..MaxCommits
        /\ github.ours \in SUBSET Walk!Heads /\ github.red \in SUBSET Walk!Members
    BY <1>1 DEF WalkSource
  <1>4. github.serial \in Nat /\ github.serial <= MaxCommits
    BY <1>3, WalkConstants
  <1>5. \A f \in WalkFile :
          /\ f.guard \in Walk!Heads /\ f.clean \in Walk!Heads /\ f.pending \in Walk!PushRecord
          /\ f.accepted \in SUBSET Walk!Heads /\ f.retired \in SUBSET Walk!Heads
    BY DEF WalkFile
  <1>6. \A p \in Walk!PushRecord : p.head \in Walk!Heads /\ p.previous \in Walk!Heads
    BY DEF Walk!PushRecord
  <1>7. /\ state.cursor \in 1..(N + 1)
        /\ state.clean \in [Walk!Members -> Walk!Heads] /\ state.sent \in [Walk!Members -> Walk!Heads]
        /\ state.ci \in [Walk!Members -> {"pending", "active", "clear", "blocked"}]
        /\ state.format \in WalkAsk /\ state.conflict \in WalkAsk
        /\ state.propagated \in SUBSET (Walk!Members \X Walk!Heads)
    BY <1>1 DEF WalkState
  <1>8. state.cursor \in Nat /\ state.cursor >= 1 /\ state.cursor <= N + 1
    BY <1>7, WalkConstants
  <1>9. proc.seen \in [Walk!Members -> Walk!Heads] /\ proc.fixed \in 0..N /\ proc.head \in Walk!Heads
    BY <1>1 DEF WalkProcess
  <1>10. \A m \in Walk!Members :
           /\ github.head[m] \in Walk!Heads /\ local[m] \in WalkFile
           /\ state.clean[m] \in Walk!Heads /\ state.sent[m] \in Walk!Heads /\ proc.seen[m] \in Walk!Heads
    BY <1>1, <1>3, <1>7, <1>9
  <1> QED
    BY <1>1, <1>2, <1>3, <1>4, <1>5, <1>6, <1>7, <1>8, <1>9, <1>10

\* What is good of the file depends on the walk only.
LEMMA WalkSame ==
  ASSUME NEW g, NEW l, NEW s, NEW s2, NEW p,
         s2.cursor = s.cursor, s2.ci = s.ci, s2.clean = s.clean, s2.sent = s.sent, s2.format = s.format,
         s2.conflict = s.conflict
  PROVE  /\ (WalkCursor(s) => WalkCursor(s2)) /\ (WalkChain(s) => WalkChain(s2))
         /\ WalkAttempt(g, l, s) => WalkAttempt(g, l, s2)
         /\ WalkPlaced(g, l, s, p) => WalkPlaced(g, l, s2, p)
  <1>1. WalkBelow(s2) = WalkBelow(s)
    BY DEF WalkBelow
  <1>2. \A ask : WalkStands(ask, s2) <=> WalkStands(ask, s)
    BY <1>1 DEF WalkStands
  <1>3. (WalkCursor(s) => WalkCursor(s2)) /\ (WalkChain(s) => WalkChain(s2))
    BY DEF WalkCursor, WalkChain
  <1>4. WalkAttempt(g, l, s) => WalkAttempt(g, l, s2)
    BY <1>1, <1>2 DEF WalkAttempt
  <1>5. WalkPlaced(g, l, s, p) => WalkPlaced(g, l, s2, p)
    BY <1>1, <1>2 DEF WalkPlaced
  <1> QED
    BY <1>3, <1>4, <1>5

\* A process at rest knows nothing.
LEMMA WalkRests ==
  ASSUME Walk!CiStackAssumption, NEW g, NEW l, NEW s, s.cursor \in Nat, s.cursor >= 1
  PROVE  WalkPlaced(g, l, s, Walk!Resting)
  <1>1. Walk!Resting.pc = "idle" /\ Walk!Resting.fixed = 0
    BY WalkConstants
  <1>2. WalkStands(Walk!Resting, s)
    BY <1>1 DEF WalkStands
  <1> QED
    BY <1>1, <1>2 DEF WalkPlaced

\* A head that moves gets a commit that nobody had.
LEMMA WalkMoves ==
  ASSUME Walk!CiStackAssumption, WalkInv, NEW g, g.serial \in Nat, g.serial >= github.serial, g.ours = github.ours,
         \A m \in Walk!Members :
           /\ g.head[m] # Walk!NoHead /\ g.head[m] \subseteq 1..g.serial
           /\ g.head[m] = github.head[m] \/ \E x \in g.head[m] : x > github.serial
           /\ \A y \in g.head[m] : y > github.serial \/ \E k \in Walk!Members : y \in github.head[k]
  PROVE  /\ WalkKnown(g, local) /\ WalkAnnounced(g, local) /\ WalkAccounted(g, local)
         /\ WalkAttempt(g, local, state) /\ WalkPlaced(g, local, state, proc)
  <1>1. /\ WalkKnown(github, local) /\ WalkAnnounced(github, local) /\ WalkAccounted(github, local)
        /\ WalkAttempt(github, local, state) /\ WalkPlaced(github, local, state, proc)
    BY DEF WalkInv, WalkGood
  <1>2. github.serial \in Nat /\ Walk!Members = 1..N /\ Walk!NoHead = {}
    BY WalkReading, WalkConstants
  <1>3. \A S : S \subseteq 1..github.serial => S \subseteq 1..g.serial
    BY <1>2
  <1>4. WalkKnown(g, local)
    BY <1>1, <1>3 DEF WalkKnown
  <1>5. \A m \in Walk!Members : \A S : S \subseteq 1..github.serial /\ g.head[m] # github.head[m] =>
          WalkNewer(g.head[m], S) /\ g.head[m] # S
    <2>1. SUFFICES ASSUME NEW m \in Walk!Members, NEW S, S \subseteq 1..github.serial, g.head[m] # github.head[m]
                   PROVE  WalkNewer(g.head[m], S) /\ g.head[m] # S
      OBVIOUS
    <2>2. PICK x \in g.head[m] : x > github.serial
      BY <2>1
    <2>3. x \in Nat /\ \A y \in S : y \in Nat /\ y < x
      BY <1>2, <2>1, <2>2
    <2> QED
      BY <2>2, <2>3 DEF WalkNewer
  <1>6. \A m \in Walk!Members : WalkOurs(m, local) \subseteq SUBSET (1..github.serial)
    BY <1>1 DEF WalkKnown, WalkOurs
  <1>7. \A m \in Walk!Members : g.head[m] = github.head[m] \/ g.head[m] \notin WalkOurs(m, local)
    BY <1>5, <1>6
  <1>8. WalkAccounted(g, local)
    <2>1. \A m \in Walk!Members : g.head[m] \in g.ours => g.head[m] = github.head[m]
      BY <1>1, <1>5 DEF WalkKnown
    <2> QED
      BY <1>1, <2>1 DEF WalkAccounted
  <1>9. WalkAttempt(g, local, state)
    BY <1>1, <1>7 DEF WalkAttempt
  <1>10. WalkPlaced(g, local, state, proc)
    BY <1>1, <1>7 DEF WalkPlaced
  <1>11. WalkAnnounced(g, local)
    <2>1. SUFFICES ASSUME NEW m \in Walk!Members, local[m].pending # Walk!NoPush
                   PROVE  /\ g.head[m] = local[m].pending.previous \/ WalkNewer(g.head[m], local[m].pending.previous)
                          /\ \E x \in 1..g.serial : WalkFresh(x, m, g, local)
      BY DEF WalkAnnounced
    <2>2. PICK x \in 1..github.serial : WalkFresh(x, m, github, local)
      BY <1>1, <2>1 DEF WalkAnnounced
    <2>3. x \in 1..g.serial /\ x \in Nat /\ x <= github.serial
      BY <1>2, <2>2
    <2>4. local[m].pending.previous \subseteq 1..github.serial
      BY <1>1, <2>2 DEF WalkFresh, WalkKnown
    <2>5. github.head[m] = local[m].pending.previous \/ WalkNewer(github.head[m], local[m].pending.previous)
      BY <1>1, <2>1 DEF WalkAnnounced
    <2>6. g.head[m] = local[m].pending.previous \/ WalkNewer(g.head[m], local[m].pending.previous)
      BY <1>5, <2>4, <2>5
    <2>7. g.head[m] = local[m].pending.previous => github.head[m] = local[m].pending.previous
      BY <1>5, <2>4
    <2>8. ASSUME g.head[m] = local[m].pending.previous, NEW k \in Walk!Members
          PROVE  x \notin g.head[k] /\ (k # m => x \notin local[k].pending.head)
      <3>1. \A j \in Walk!Members : x \notin github.head[j] /\ (j # m => x \notin local[j].pending.head)
        BY <2>2, <2>7, <2>8 DEF WalkFresh
      <3>2. ~(x > github.serial)
        BY <1>2, <2>3
      <3> QED
        BY <3>1, <3>2
    <2>9. WalkFresh(x, m, g, local)
      BY <2>2, <2>8 DEF WalkFresh
    <2> QED
      BY <2>3, <2>6, <2>9
  <1> QED
    BY <1>4, <1>8, <1>9, <1>10, <1>11

\* Where only the coordinator's file and the command's memory change.
LEMMA WalkThen ==
  ASSUME Walk!CiStackAssumption, WalkInv, UNCHANGED <<github, local, budget>>,
         state' \in WalkState, proc' \in WalkProcess, WalkCursor(state'), WalkChain(state'),
         WalkAttempt(github, local, state'), WalkPlaced(github, local, state', proc')
  PROVE  WalkInv'
  <1>1. WalkTypes'
    BY DEF WalkInv, WalkTypes
  <1>2. WalkGood(github', local', state', proc')
    BY DEF WalkInv, WalkGood
  <1> QED
    BY <1>1, <1>2 DEF WalkInv

\* A command that ends without a word for the agent.
LEMMA WalkEnds ==
  ASSUME Walk!CiStackAssumption, WalkInv, UNCHANGED <<github, local, budget>>, proc' = Walk!Resting,
         state' \in WalkState, WalkCursor(state'), WalkChain(state'), WalkAttempt(github, local, state')
  PROVE  WalkInv'
  <1>1. state'.cursor \in 1..(N + 1)
    BY DEF WalkState
  <1>2. state'.cursor \in Nat /\ state'.cursor >= 1
    BY <1>1, WalkConstants
  <1>3. WalkPlaced(github, local, state', Walk!Resting)
    BY <1>2, WalkRests
  <1> QED
    BY <1>3, WalkConstants, WalkThen

LEMMA WalkStops ==
  ASSUME Walk!CiStackAssumption, WalkInv, UNCHANGED <<github, local, budget>>, proc' = Walk!Resting,
         NEW status \in {"active", "complete", "stopped"}, state' = [state EXCEPT !.status = status]
  PROVE  WalkInv'
  <1>1. state \in WalkState
    BY WalkReading
  <1>2. state' \in WalkState
    BY <1>1 DEF WalkState
  <1>3. /\ state'.cursor = state.cursor /\ state'.ci = state.ci /\ state'.clean = state.clean
        /\ state'.sent = state.sent /\ state'.format = state.format /\ state'.conflict = state.conflict
    BY <1>1 DEF WalkState
  <1>4. WalkCursor(state) /\ WalkChain(state) /\ WalkAttempt(github, local, state)
    BY DEF WalkInv, WalkGood
  <1>5. WalkCursor(state') /\ WalkChain(state') /\ WalkAttempt(github, local, state')
    BY <1>3, <1>4, WalkSame
  <1> QED
    BY <1>2, <1>5, WalkEnds

LEMMA WalkUnchanged ==
  ASSUME Walk!CiStackAssumption, WalkInv, UNCHANGED <<github, local, state, budget>>, proc' = Walk!Resting
  PROVE  WalkInv'
  <1>1. state \in WalkState /\ WalkCursor(state) /\ WalkChain(state) /\ WalkAttempt(github, local, state)
    BY WalkReading DEF WalkInv, WalkGood
  <1> QED
    BY <1>1, WalkEnds

LEMMA WalkStopped ==
  ASSUME Walk!CiStackAssumption, WalkInv, Walk!StackStop(state)
  PROVE  WalkInv'
  <1>1. UNCHANGED <<github, local, budget>> /\ proc' = Walk!Resting /\ state' = [state EXCEPT !.status = "stopped"]
    BY DEF Walk!StackStop, Walk!Save, Walk!Result, Walk!Stopped
  <1> QED
    BY <1>1, WalkStops

\* A command that read the stack.
LEMMA WalkReads ==
  ASSUME Walk!CiStackAssumption, WalkInv, NEW command \in {"next", "record", "status", "propagate", "format"},
         Walk!Refresh(command), command = "record" /\ state.cursor <= N => state.ci[state.cursor] = "active",
         command = "propagate" => proc.fixed # 0
  PROVE  WalkInv'
  <1>1. CASE github.changed
    <2>1. Walk!StackStop(state)
      BY <1>1 DEF Walk!Refresh
    <2> QED
      BY <2>1, WalkStopped
  <1>2. CASE ~github.changed
    <2>1. /\ proc' = [proc EXCEPT !.pc = command, !.seen = github.head] /\ UNCHANGED <<github, local, state, budget>>
          /\ proc.pc = "idle"
      BY <1>2 DEF Walk!Refresh
    <2>2. proc \in WalkProcess /\ github.head \in [Walk!Members -> Walk!Heads] /\ state \in WalkState
      BY WalkReading
    <2>3. /\ proc' \in WalkProcess /\ proc'.pc = command /\ proc'.seen = github.head /\ proc'.fixed = proc.fixed
          /\ proc'.head = proc.head
      BY <2>1, <2>2 DEF WalkProcess, WalkPcs
    <2>4. /\ WalkPlaced(github, local, state, proc) /\ WalkKnown(github, local) /\ WalkAttempt(github, local, state)
          /\ WalkCursor(state) /\ WalkChain(state)
      BY DEF WalkInv, WalkGood
    <2>5. WalkStands(proc', state)
      BY <2>1, <2>3, <2>4 DEF WalkPlaced, WalkStands
    <2>6. \A m \in Walk!Members : github.head[m] # Walk!NoHead
      BY <2>4 DEF WalkKnown
    <2>7. WalkPlaced(github, local, state, proc')
      BY <2>3, <2>4, <2>5, <2>6 DEF WalkPlaced, WalkAttempt
    <2> QED
      BY <2>1, <2>2, <2>3, <2>4, <2>7, WalkThen
  <1> QED
    BY <1>1, <1>2

\* A member's file whose announced push, if any, is kept or settled.
LEMMA WalkSettles ==
  ASSUME Walk!CiStackAssumption, WalkInv, NEW l \in [Walk!Members -> WalkFile],
         \A m \in Walk!Members :
           /\ l[m].pending = local[m].pending \/ l[m].pending = Walk!NoPush
           /\ local[m].pending.head \in {l[m].pending.head} \cup l[m].accepted \cup l[m].retired
           /\ local[m].accepted \subseteq l[m].accepted /\ local[m].retired \subseteq l[m].retired
           /\ l[m].accepted \subseteq WalkOurs(m, local)
           /\ l[m].clean # Walk!NoHead => l[m].clean = l[m].guard
  PROVE  /\ WalkKnown(github, l) /\ WalkAnnounced(github, l) /\ WalkAccounted(github, l)
         /\ WalkAttempt(github, l, state) /\ WalkClean(l)
         /\ proc.pc # "push" => WalkPlaced(github, l, state, proc)
  <1>1. /\ WalkKnown(github, local) /\ WalkAnnounced(github, local) /\ WalkAccounted(github, local)
        /\ WalkAttempt(github, local, state) /\ WalkPlaced(github, local, state, proc)
    BY DEF WalkInv, WalkGood
  <1>2. Walk!NoPush.head = Walk!NoHead /\ Walk!NoHead = {}
    BY WalkConstants
  <1>3. \A m \in Walk!Members : WalkOurs(m, l) \subseteq WalkOurs(m, local) \cup {Walk!NoHead}
    BY <1>2 DEF WalkOurs
  <1>4. WalkClean(l)
    BY DEF WalkClean
  <1>5. WalkKnown(github, l)
    <2>1. \A m \in Walk!Members : \A h \in WalkOurs(m, local) : h \subseteq 1..github.serial
      BY <1>1 DEF WalkKnown, WalkOurs
    <2>2. \A m \in Walk!Members : l[m].pending.head \subseteq 1..github.serial
      BY <1>1, <1>2 DEF WalkKnown
    <2> QED
      BY <1>1, <2>1, <2>2 DEF WalkKnown
  <1>6. WalkAccounted(github, l)
    BY <1>1 DEF WalkAccounted
  <1>7. \A m \in Walk!Members : github.head[m] # Walk!NoHead
    BY <1>1 DEF WalkKnown
  <1>8. WalkAttempt(github, l, state)
    BY <1>1, <1>3, <1>7 DEF WalkAttempt
  <1>9. proc.pc # "push" => WalkPlaced(github, l, state, proc)
    BY <1>1, <1>3, <1>7 DEF WalkPlaced
  <1>10. WalkAnnounced(github, l)
    <2>1. SUFFICES ASSUME NEW m \in Walk!Members, l[m].pending # Walk!NoPush
                   PROVE  /\ github.head[m] = l[m].pending.previous \/ WalkNewer(github.head[m], l[m].pending.previous)
                          /\ \E x \in 1..github.serial : WalkFresh(x, m, github, l)
      BY DEF WalkAnnounced
    <2>2. l[m].pending = local[m].pending
      BY <2>1
    <2>3. PICK x \in 1..github.serial : WalkFresh(x, m, github, local)
      BY <1>1, <2>1, <2>2 DEF WalkAnnounced
    <2>4. \A k \in Walk!Members : l[k].pending.head = local[k].pending.head \/ l[k].pending.head = {}
      BY <1>2
    <2>5. WalkFresh(x, m, github, l)
      BY <2>2, <2>3, <2>4 DEF WalkFresh
    <2> QED
      BY <1>1, <2>1, <2>2, <2>5 DEF WalkAnnounced
  <1> QED
    BY <1>4, <1>5, <1>6, <1>8, <1>9, <1>10

\* A set of natural numbers below a bound has a least one.
LEMMA WalkLeast ==
  ASSUME NEW n \in Nat, NEW S, S \subseteq 1..n, S # {}
  PROVE  \E k \in S : \A j \in S : k <= j
  <1> DEFINE Downs == {x \in SUBSET (1..n) : \E k \in S : x = 1..k}
  <1>1. IsFiniteSet(1..n)
    BY FS_Interval
  <1>2. IsWellFoundedOn(StrictSubsetOrdering(1..n), SUBSET (1..n))
    BY <1>1, FS_FiniteSubsetsOfFinite, FS_StrictSubsetOrderingWellFounded
  <1>3. Downs \subseteq SUBSET (1..n) /\ Downs # {}
    <2>1. PICK k \in S : TRUE
      OBVIOUS
    <2>2. 1..k \in SUBSET (1..n)
      BY <2>1
    <2> QED
      BY <2>1, <2>2
  <1> HIDE DEF Downs
  <1>4. PICK x \in Downs : \A y \in Downs : <<y, x>> \notin StrictSubsetOrdering(1..n)
    BY <1>2, <1>3, WFMin
  <1> USE DEF Downs
  <1>5. PICK k \in S : x = 1..k
    OBVIOUS
  <1>6. ASSUME NEW j \in S, j < k PROVE FALSE
    <2>1. 1..j \in Downs
      OBVIOUS
    <2>2. 1..j \subseteq x /\ 1..j # x /\ x \in SUBSET (1..n) /\ 1..j \in SUBSET (1..n)
      BY <1>3, <1>5, <1>6
    <2> HIDE DEF Downs
    <2>3. <<1..j, x>> \in StrictSubsetOrdering(1..n)
      BY <2>2 DEF StrictSubsetOrdering
    <2> QED
      BY <1>4, <2>1, <2>3
  <1> QED
    BY <1>6

\* What the agent is told.
LEMMA WalkTold ==
  ASSUME Walk!CiStackAssumption, NEW fixed \in 0..N, NEW head \in Walk!Heads, NEW push \in BOOLEAN,
         NEW g, NEW l, NEW s, fixed <= s.cursor, fixed = s.cursor => WalkBelow(s) \subseteq head
  PROVE  Walk!Told(fixed, head, push) \in WalkProcess /\ WalkPlaced(g, l, s, Walk!Told(fixed, head, push))
  <1>1. PICK p : p = Walk!Told(fixed, head, push)
    OBVIOUS
  <1>2. Walk!Resting \in WalkProcess /\ Walk!Resting.pc = "idle"
    BY WalkConstants
  <1>3. p \in WalkProcess /\ p.pc = "idle" /\ p.fixed = fixed /\ p.head = head
    BY <1>1, <1>2 DEF Walk!Told, WalkProcess
  <1>4. WalkStands(p, s)
    BY <1>3 DEF WalkStands
  <1> QED
    BY <1>1, <1>3, <1>4 DEF WalkPlaced

\* The member at the cursor is dispatched, waits for what is below, or stops the run.
LEMMA WalkDispatches ==
  ASSUME Walk!CiStackAssumption, WalkInv, UNCHANGED <<github, local, budget>>, proc.pc = "next",
         NEW m \in Walk!Members, m = state.cursor, NEW s \in WalkState, s.cursor = state.cursor, s.ci = state.ci,
         s.clean = state.clean, s.sent = state.sent, s.format = state.format, s.conflict = state.conflict,
         Walk!Dispatch(m, s)
  PROVE  WalkInv'
  <1>1. /\ WalkCursor(s) /\ WalkChain(s) /\ WalkAttempt(github, local, s) /\ WalkPlaced(github, local, s, proc)
    BY WalkSame DEF WalkInv, WalkGood
  <1>2. PICK below : below = IF m = 1 THEN Walk!NoHead ELSE proc.seen[m - 1]
    OBVIOUS
  <1>3. m \in Nat /\ m >= 1 /\ m <= N /\ (m > 1 => m - 1 \in Walk!Members) /\ Walk!NoHead = {} /\ Walk!Members = 1..N /\
          N \in Nat
    BY WalkConstants
  <1>4. below \in Walk!Heads /\ proc.seen[m] \in Walk!Heads
    BY <1>2, <1>3, WalkReading, WalkConstants
  <1>5. CASE m > 1 /\ (s.ci[m - 1] # "clear" \/ s.clean[m - 1] # below)
    <2>1. state' = [s EXCEPT !.status = "stopped"] /\ proc' = Walk!Resting
      BY <1>2, <1>5 DEF Walk!Dispatch, Walk!Result, Walk!Stopped
    <2>2. /\ state' \in WalkState /\ state'.cursor = s.cursor /\ state'.ci = s.ci /\ state'.clean = s.clean
          /\ state'.sent = s.sent /\ state'.format = s.format /\ state'.conflict = s.conflict
      BY <2>1 DEF WalkState
    <2>3. WalkCursor(state') /\ WalkChain(state') /\ WalkAttempt(github, local, state')
      BY <1>1, <2>2, WalkSame
    <2> QED
      BY <2>1, <2>2, <2>3, WalkEnds
  <1>6. CASE ~(m > 1 /\ (s.ci[m - 1] # "clear" \/ s.clean[m - 1] # below))
    <2>1. WalkBelow(s) = below
      BY <1>2, <1>3, <1>6 DEF WalkBelow
    <2>2. CASE ~Walk!Contains(proc.seen[m], below) /\ <<m - 1, below, m, proc.seen[m]>> \in s.guards
      <3>1. state' = [s EXCEPT !.status = "stopped"] /\ proc' = Walk!Resting
        BY <1>2, <1>6, <2>2 DEF Walk!Dispatch, Walk!Result, Walk!Stopped
      <3>2. /\ state' \in WalkState /\ state'.cursor = s.cursor /\ state'.ci = s.ci /\ state'.clean = s.clean
            /\ state'.sent = s.sent /\ state'.format = s.format /\ state'.conflict = s.conflict
        BY <3>1 DEF WalkState
      <3>3. WalkCursor(state') /\ WalkChain(state') /\ WalkAttempt(github, local, state')
        BY <1>1, <3>2, WalkSame
      <3> QED
        BY <3>1, <3>2, <3>3, WalkEnds
    <2>3. CASE ~Walk!Contains(proc.seen[m], below) /\ <<m - 1, below, m, proc.seen[m]>> \notin s.guards
      <3>1. state' = s /\ proc' = Walk!Told(m - 1, below, FALSE)
        BY <1>2, <1>6, <2>3 DEF Walk!Dispatch, Walk!Result
      <3>2. m - 1 \in 0..N /\ m - 1 <= s.cursor /\ m - 1 # s.cursor
        BY <1>3
      <3>3. proc' \in WalkProcess /\ WalkPlaced(github, local, s, proc')
        BY <1>4, <3>1, <3>2, WalkTold
      <3> QED
        BY <1>1, <3>1, <3>3, WalkThen
    <2>4. CASE Walk!Contains(proc.seen[m], below)
      <3>1. PICK ci : ci = [s.ci EXCEPT ![m] = "active"]
        OBVIOUS
      <3>2. PICK sent : sent = [s.sent EXCEPT ![m] = proc.seen[m]]
        OBVIOUS
      <3>3. state' = [s EXCEPT !.ci = ci, !.sent = sent] /\ proc' = Walk!Resting
        BY <1>2, <1>6, <2>4, <3>1, <3>2 DEF Walk!Dispatch, Walk!Result
      <3>4. s.ci \in [Walk!Members -> {"pending", "active", "clear", "blocked"}] /\
              s.sent \in [Walk!Members -> Walk!Heads]
        BY DEF WalkState
      <3>5. /\ ci \in [Walk!Members -> {"pending", "active", "clear", "blocked"}]
            /\ sent \in [Walk!Members -> Walk!Heads]
            /\ ci[m] = "active" /\ sent[m] = proc.seen[m]
            /\ \A k \in Walk!Members : k # m => ci[k] = s.ci[k] /\ sent[k] = s.sent[k]
        BY <1>4, <3>1, <3>2, <3>4
      <3>6. state' \in WalkState
        BY <3>3, <3>5 DEF WalkState
      <3>7. /\ state'.cursor = s.cursor /\ state'.ci = ci /\ state'.clean = s.clean
            /\ state'.sent = sent /\ state'.format = s.format /\ state'.conflict = s.conflict
        BY <3>3 DEF WalkState
      <3>8. WalkCursor(state')
        BY <1>1, <3>5, <3>7 DEF WalkCursor
      <3>9. \A k \in Walk!Members : ci[k] = "clear" => k # m /\ s.ci[k] = "clear"
        BY <3>5
      <3>10. WalkChain(state')
        <4>1. \A k \in Walk!Members : s.ci[k] = "clear" /\ k > 1 => k - 1 # m
          <5>1. \A k \in Walk!Members : s.ci[k] = "clear" => k < m
            BY <1>1, <1>3 DEF WalkCursor
          <5> QED
            BY <1>3, <5>1
        <4>2. \A k \in Walk!Members : k > 1 => k - 1 \in Walk!Members
          BY <1>3, WalkConstants
        <4> QED
          BY <1>1, <3>5, <3>7, <3>9, <4>1, <4>2 DEF WalkChain
      <3>11. WalkBelow(state') = below
        BY <2>1, <3>7 DEF WalkBelow
      <3>12. github.head[m] \in WalkOurs(m, local) => below \subseteq github.head[m]
        BY <1>1, <2>4 DEF WalkPlaced, Walk!Contains
      <3>13. WalkStands(state'.format, state') /\ WalkStands(state'.conflict, state')
        BY <1>1, <2>1, <3>7, <3>11 DEF WalkAttempt, WalkStands
      <3>14. WalkAttempt(github, local, state')
        BY <2>4, <3>5, <3>7, <3>11, <3>12, <3>13 DEF WalkAttempt, Walk!Contains
      <3> QED
        BY <3>3, <3>6, <3>8, <3>10, <3>14, WalkEnds
    <2> QED
      BY <2>2, <2>3, <2>4
  <1> QED
    BY <1>5, <1>6

\* The member at the cursor is under way.
LEMMA WalkActives ==
  ASSUME Walk!CiStackAssumption, WalkInv, UNCHANGED <<github, budget>>, proc.pc = "next",
         NEW m \in Walk!Members, m = state.cursor, state.ci[m] = "active", Walk!NextActive(m)
  PROVE  WalkInv'
  <1>1. PICK head : head = proc.seen[m]
    OBVIOUS
  <1>2. CASE local[m].pending # Walk!NoPush /\ local[m].pending.previous = head
    <2>1. state' = state /\ proc' = Walk!Resting /\ local' = local
      BY <1>1, <1>2 DEF Walk!NextActive, Walk!Result
    <2> QED
      BY <2>1, WalkUnchanged
  <1>3. CASE ~(local[m].pending # Walk!NoPush /\ local[m].pending.previous = head)
    <2>1. PICK landed \in BOOLEAN : landed <=> local[m].pending # Walk!NoPush /\ local[m].pending.head = head
      OBVIOUS
    <2>2. PICK accepted : accepted = Walk!Unpropagated(m) \cup (IF landed THEN {head} ELSE {})
      OBVIOUS
    <2>3. PICK superseded : superseded = [state EXCEPT !.propagated = @ \cup ({m} \X (accepted \ {head}))]
      OBVIOUS
    <2>4. /\ local' = IF landed
                      THEN [local EXCEPT ![m].accepted = @ \cup {head}, ![m].pending = Walk!NoPush,
                        ![m].clean = Walk!NoHead]
                      ELSE local
          /\ IF head \in accepted THEN Walk!Result(superseded, Walk!Told(m, head, TRUE))
             ELSE IF state.sent[m] # head THEN Walk!Result(Walk!Stopped(superseded), Walk!Resting)
             ELSE Walk!Dispatch(m, superseded)
      BY <1>1, <1>3, <2>1, <2>2, <2>3 DEF Walk!NextActive
    <2>5. head \in Walk!Heads /\ local[m].accepted \in SUBSET Walk!Heads /\ state \in WalkState /\
            state.cursor \in Nat /\ m \in 0..N
      BY <1>1, WalkReading, WalkConstants
    <2>6. accepted \subseteq local[m].accepted \cup {head} /\ (landed => head \in accepted)
      BY <2>2 DEF Walk!Unpropagated
    <2>7. head \in accepted => head \in WalkOurs(m, local)
      BY <2>1, <2>2 DEF Walk!Unpropagated, WalkOurs
    <2>8. state.propagated \cup ({m} \X (accepted \ {head})) \in SUBSET (Walk!Members \X Walk!Heads)
      BY <2>5, <2>6, WalkReading
    <2>9. /\ superseded \in WalkState /\ superseded.cursor = state.cursor /\ superseded.ci = state.ci
          /\ superseded.clean = state.clean /\ superseded.sent = state.sent /\ superseded.format = state.format
          /\ superseded.conflict = state.conflict
      BY <2>3, <2>5, <2>8 DEF WalkState
    <2>10. /\ WalkCursor(state) /\ WalkChain(state) /\ WalkAttempt(github, local, state)
           /\ WalkPlaced(github, local, state, proc) /\ WalkClean(local)
      BY DEF WalkInv, WalkGood
    <2>11. WalkCursor(superseded) /\ WalkChain(superseded) /\ WalkAttempt(github, local, superseded)
      BY <2>9, <2>10, WalkSame
    <2>12. CASE head \in accepted
      <3>1. state' = superseded /\ proc' = Walk!Told(m, head, TRUE)
        BY <2>4, <2>12 DEF Walk!Result
      <3>2. WalkBelow(state) \subseteq head
        BY <1>1, <2>7, <2>10, <2>12 DEF WalkPlaced
      <3>3. WalkBelow(superseded) = WalkBelow(state)
        BY <2>9 DEF WalkBelow
      <3>4. proc' \in WalkProcess /\ WalkPlaced(github, local', superseded, proc')
        <4>1. m <= superseded.cursor /\ (m = superseded.cursor => WalkBelow(superseded) \subseteq head)
          BY <2>5, <2>9, <3>2, <3>3
        <4>2. \A l : /\ Walk!Told(m, head, TRUE) \in WalkProcess
                     /\ WalkPlaced(github, l, superseded, Walk!Told(m, head, TRUE))
          BY <2>5, <4>1, WalkTold
        <4> QED
          BY <3>1, <4>2
      <3>5. /\ local' \in [Walk!Members -> WalkFile]
            /\ \A k \in Walk!Members :
                 /\ local'[k].pending = local[k].pending \/ local'[k].pending = Walk!NoPush
                 /\ local[k].pending.head \in {local'[k].pending.head} \cup local'[k].accepted \cup local'[k].retired
                 /\ local[k].accepted \subseteq local'[k].accepted /\ local[k].retired \subseteq local'[k].retired
                 /\ local'[k].accepted \subseteq WalkOurs(k, local)
                 /\ local'[k].clean # Walk!NoHead => local'[k].clean = local'[k].guard
        <4>1. CASE ~landed
          BY <2>4, <2>10, <4>1, WalkReading DEF WalkOurs, WalkClean
        <4>2. CASE landed
          <5>1. PICK f : f = [local[m] EXCEPT !.accepted = @ \cup {head}, !.pending = Walk!NoPush,
                  !.clean = Walk!NoHead]
            OBVIOUS
          <5>2. local' = [local EXCEPT ![m] = f]
            BY <2>4, <4>2, <5>1
          <5>3. local[m] \in WalkFile /\ local \in [Walk!Members -> WalkFile]
            BY WalkReading
          <5>4. /\ f \in WalkFile /\ f.accepted = local[m].accepted \cup {head} /\ f.pending = Walk!NoPush
                /\ f.clean = Walk!NoHead
                /\ f.retired = local[m].retired
            BY <2>5, <5>1, <5>3, WalkConstants DEF WalkFile
          <5>5. local' \in [Walk!Members -> WalkFile] /\ local'[m] = f /\ \A k \in Walk!Members : k # m =>
                  local'[k] = local[k]
            BY <5>2, <5>3, <5>4
          <5>6. local[m].pending.head = head
            BY <2>1, <4>2
          <5> QED
            BY <2>10, <5>4, <5>5, <5>6 DEF WalkOurs, WalkClean
        <4> QED
          BY <4>1, <4>2
      <3>6. /\ WalkKnown(github, local') /\ WalkAnnounced(github, local') /\ WalkAccounted(github, local')
            /\ WalkAttempt(github, local', state) /\ WalkClean(local')
        BY <3>5, WalkSettles
      <3>7. WalkAttempt(github, local', superseded)
        BY <2>9, <3>6, WalkSame
      <3>8. WalkGood(github, local', superseded, proc')
        BY <2>11, <3>4, <3>6, <3>7 DEF WalkGood
      <3>9. WalkTypes'
        BY <2>9, <3>1, <3>4, <3>5 DEF WalkInv, WalkTypes
      <3> QED
        BY <3>1, <3>8, <3>9 DEF WalkInv
    <2>13. CASE head \notin accepted
      <3>1. local' = local
        BY <2>4, <2>6, <2>13
      <3>2. CASE state.sent[m] # head
        <4>1. state' = [superseded EXCEPT !.status = "stopped"] /\ proc' = Walk!Resting
          BY <2>4, <2>13, <3>2 DEF Walk!Result, Walk!Stopped
        <4>2. /\ state' \in WalkState /\ state'.cursor = superseded.cursor /\ state'.ci = superseded.ci
              /\ state'.clean = superseded.clean /\ state'.sent = superseded.sent
              /\ state'.format = superseded.format /\ state'.conflict = superseded.conflict
          BY <2>9, <4>1 DEF WalkState
        <4>3. WalkCursor(state') /\ WalkChain(state') /\ WalkAttempt(github, local, state')
          BY <2>11, <4>2, WalkSame
        <4> QED
          BY <3>1, <4>1, <4>2, <4>3, WalkEnds
      <3>3. CASE state.sent[m] = head
        <4>1. Walk!Dispatch(m, superseded)
          BY <2>4, <2>13, <3>3
        <4> QED
          BY <2>9, <3>1, <4>1, WalkDispatches
      <3> QED
        BY <3>2, <3>3
    <2> QED
      BY <2>12, <2>13
  <1> QED
    BY <1>2, <1>3

\* What stack-next may do.
LEMMA WalkNexts ==
  ASSUME Walk!StackNext
  PROVE  \/ Walk!StackStop(state)
         \/ Walk!Save(state)
         \/ Walk!Result(state, Walk!Told(state.conflict.fixed, state.conflict.head, FALSE)) /\
              UNCHANGED <<github, local, budget>>
         \/ Walk!Verified(proc.seen) /\ Walk!Current > N /\ Walk!Save([state EXCEPT !.status = "complete"])
         \/ ~(Walk!Current > N) /\ state.ci[Walk!Current] = "active" /\ Walk!NextActive(Walk!Current) /\
              UNCHANGED <<github, budget>>
         \/ ~(Walk!Current > N) /\ Walk!Dispatch(Walk!Current, state) /\ UNCHANGED <<github, local, budget>>
  BY ZenonT(60) DEF Walk!StackNext

LEMMA WalkStackNext ==
  ASSUME Walk!CiStackAssumption, WalkInv, Walk!StackNext
  PROVE  WalkInv'
  <1>1. proc.pc = "next" /\ state \in WalkState /\ state.cursor \in Nat /\ state.cursor >= 1
    BY WalkReading DEF Walk!StackNext, Walk!Running
  <1>2. CASE Walk!StackStop(state)
    BY <1>2, WalkStopped
  <1>3. CASE Walk!Save(state)
    BY <1>3, WalkUnchanged DEF Walk!Save, Walk!Result
  <1>4. CASE Walk!Result(state, Walk!Told(state.conflict.fixed, state.conflict.head, FALSE)) /\
          UNCHANGED <<github, local, budget>>
    <2>1. state' = state /\ proc' = Walk!Told(state.conflict.fixed, state.conflict.head, FALSE)
      BY <1>4 DEF Walk!Result
    <2>2. state.conflict.fixed \in 0..N /\ state.conflict.head \in Walk!Heads
      BY WalkReading DEF WalkAsk
    <2>3. WalkCursor(state) /\ WalkChain(state) /\ WalkAttempt(github, local, state)
      BY DEF WalkInv, WalkGood
    <2>4. proc' \in WalkProcess /\ WalkPlaced(github, local, state, proc')
      BY <2>1, <2>2, <2>3, WalkTold DEF WalkAttempt, WalkStands
    <2> QED
      BY <1>1, <1>4, <2>1, <2>3, <2>4, WalkThen
  <1>5. CASE Walk!Save([state EXCEPT !.status = "complete"])
    <2>1. UNCHANGED <<github, local, budget>> /\ proc' = Walk!Resting /\ state' = [state EXCEPT !.status = "complete"]
      BY <1>5 DEF Walk!Save, Walk!Result
    <2> QED
      BY <2>1, WalkStops
  <1>6. CASE ~(Walk!Current > N) /\ state.ci[Walk!Current] = "active" /\ Walk!NextActive(Walk!Current) /\
          UNCHANGED <<github, budget>>
    BY <1>1, <1>6, WalkActives, WalkConstants DEF Walk!Current
  <1>7. CASE ~(Walk!Current > N) /\ Walk!Dispatch(Walk!Current, state) /\ UNCHANGED <<github, local, budget>>
    BY <1>1, <1>7, WalkDispatches, WalkConstants DEF Walk!Current
  <1> QED
    BY <1>2, <1>3, <1>4, <1>5, <1>6, <1>7, WalkNexts, Zenon
LEMMA WalkRetires ==
  ASSUME Walk!CiStackAssumption, WalkInv, Walk!Retire
  PROVE  WalkInv'
  <1>1. PICK stale : stale = Walk!Min(Walk!StaleMembers)
    OBVIOUS
  <1>2. stale \in Walk!StaleMembers
    <2>1. N \in Nat /\ Walk!StaleMembers \subseteq 1..N /\ Walk!StaleMembers # {}
      BY WalkConstants DEF Walk!StaleMembers, Walk!Retire
    <2>2. \E k \in Walk!StaleMembers : \A j \in Walk!StaleMembers : k <= j
      BY <2>1, WalkLeast
    <2> QED
      BY <1>1, <2>2 DEF Walk!Min
  <1>3. stale \in Walk!Members /\ state.ci[stale] = "clear"
    BY <1>2 DEF Walk!StaleMembers
  <1>4. /\ local' = [m \in Walk!Members |-> IF m \in stale..N THEN Walk!RetiredFile(m) ELSE local[m]]
        /\ UNCHANGED <<github, budget>> /\ proc.pc # "push"
        /\ \/ /\ state' = [state EXCEPT
                    !.status = "active", !.cursor = stale, !.format = Walk!NoAsk, !.conflict = Walk!NoAsk,
                    !.ci = [m \in Walk!Members |-> IF m \in stale..N THEN "pending" ELSE @[m]],
                    !.clean = [m \in Walk!Members |-> IF m \in stale..N THEN Walk!NoHead ELSE @[m]],
                    !.sent = [m \in Walk!Members |-> IF m \in stale..N THEN Walk!NoHead ELSE @[m]]]
              /\ proc' = IF proc.pc = "next" THEN proc ELSE Walk!Resting
           \/ UNCHANGED state /\ proc' = Walk!Resting
    BY <1>1 DEF Walk!Retire
  <1>5. ASSUME NEW m \in Walk!Members
        PROVE  /\ Walk!RetiredFile(m) \in WalkFile /\ Walk!RetiredFile(m).guard = local[m].guard
               /\ Walk!RetiredFile(m).clean = local[m].clean
               /\ Walk!RetiredFile(m).accepted = local[m].accepted /\ Walk!RetiredFile(m).pending = Walk!NoPush
               /\ local[m].retired \subseteq Walk!RetiredFile(m).retired
               /\ local[m].pending = Walk!NoPush \/ local[m].pending.head \in Walk!RetiredFile(m).retired
    <2>1. PICK retired : retired = IF local[m].pending = Walk!NoPush THEN local[m].retired ELSE local[m].retired \cup
            {local[m].pending.head}
      OBVIOUS
    <2>2. Walk!RetiredFile(m) = [local[m] EXCEPT !.pending = Walk!NoPush, !.retired = retired]
      BY <2>1 DEF Walk!RetiredFile
    <2>3. local[m] \in WalkFile /\ retired \in SUBSET Walk!Heads
      BY <2>1, WalkReading
    <2>4. Walk!NoPush \in Walk!PushRecord
      BY WalkConstants
    <2>5. /\ Walk!RetiredFile(m) \in WalkFile /\ Walk!RetiredFile(m).guard = local[m].guard
          /\ Walk!RetiredFile(m).clean = local[m].clean /\ Walk!RetiredFile(m).accepted = local[m].accepted
          /\ Walk!RetiredFile(m).pending = Walk!NoPush /\ Walk!RetiredFile(m).retired = retired
      BY <2>2, <2>3, <2>4 DEF WalkFile
    <2> QED
      BY <2>1, <2>5
  <1>6. WalkClean(local)
    BY DEF WalkInv, WalkGood
  <1>7. /\ local' \in [Walk!Members -> WalkFile]
        /\ \A m \in Walk!Members :
             /\ local'[m].pending = local[m].pending \/ local'[m].pending = Walk!NoPush
             /\ local[m].pending.head \in {local'[m].pending.head} \cup local'[m].accepted \cup local'[m].retired
             /\ local[m].accepted \subseteq local'[m].accepted /\ local[m].retired \subseteq local'[m].retired
             /\ local'[m].accepted \subseteq WalkOurs(m, local)
             /\ local'[m].clean # Walk!NoHead => local'[m].clean = local'[m].guard
    <2>1. \A m \in Walk!Members : local'[m] = Walk!RetiredFile(m) \/ local'[m] = local[m]
      BY <1>4
    <2>2. local' \in [Walk!Members -> WalkFile]
      BY <1>4, <1>5, WalkReading
    <2> QED
      BY <1>5, <1>6, <2>1, <2>2, WalkConstants DEF WalkOurs, WalkClean
  <1>8. /\ WalkKnown(github, local') /\ WalkAnnounced(github, local') /\ WalkAccounted(github, local')
        /\ WalkAttempt(github, local', state) /\ WalkClean(local') /\ WalkPlaced(github, local', state, proc)
    BY <1>4, <1>7, WalkSettles
  <1>9. WalkCursor(state) /\ WalkChain(state) /\ state \in WalkState /\ state.cursor \in Nat /\ proc \in WalkProcess
    BY WalkReading DEF WalkInv, WalkGood
  <1>10. CASE UNCHANGED state /\ proc' = Walk!Resting
    <2>1. WalkPlaced(github, local', state, Walk!Resting)
      BY <1>9, WalkReading, WalkRests
    <2> QED
      BY <1>4, <1>7, <1>8, <1>9, <1>10, <2>1, WalkConstants DEF WalkInv, WalkGood, WalkTypes
  <1>11. CASE ~(UNCHANGED state /\ proc' = Walk!Resting)
    <2>1. PICK ci : ci = [m \in Walk!Members |-> IF m \in stale..N THEN "pending" ELSE state.ci[m]]
      OBVIOUS
    <2>2. PICK clean : clean = [m \in Walk!Members |-> IF m \in stale..N THEN Walk!NoHead ELSE state.clean[m]]
      OBVIOUS
    <2>3. PICK sent : sent = [m \in Walk!Members |-> IF m \in stale..N THEN Walk!NoHead ELSE state.sent[m]]
      OBVIOUS
    <2>4. /\ state' = [state EXCEPT !.status = "active", !.cursor = stale, !.format = Walk!NoAsk,
               !.conflict = Walk!NoAsk,
                                    !.ci = ci, !.clean = clean, !.sent = sent]
          /\ proc' = IF proc.pc = "next" THEN proc ELSE Walk!Resting
      BY <1>4, <1>11, <2>1, <2>2, <2>3
    <2>5. /\ ci \in [Walk!Members -> {"pending", "active", "clear", "blocked"}]
          /\ clean \in [Walk!Members -> Walk!Heads]
          /\ sent \in [Walk!Members -> Walk!Heads] /\ stale \in 1..(N + 1)
      BY <1>3, <2>1, <2>2, <2>3, WalkReading, WalkConstants
    <2>6. state' \in WalkState
      BY <1>9, <2>4, <2>5, WalkConstants DEF WalkState
    <2>7. /\ state'.cursor = stale /\ state'.ci = ci /\ state'.clean = clean /\ state'.sent = sent
          /\ state'.format = Walk!NoAsk /\ state'.conflict = Walk!NoAsk
      BY <1>9, <2>4 DEF WalkState
    <2>8. stale \in Nat /\ stale >= 1 /\ stale <= N /\ N \in Nat /\ Walk!Members = 1..N
      BY <1>3, WalkConstants
    <2>9. stale < state.cursor
      BY <1>3, <1>9, <2>8 DEF WalkCursor
    <2>10. \A m \in Walk!Members :
             /\ m < stale => ci[m] = "clear" /\ clean[m] = state.clean[m] /\ state.ci[m] = "clear"
             /\ ~(m < stale) => ci[m] = "pending"
      BY <1>9, <2>1, <2>2, <2>8, <2>9 DEF WalkCursor
    <2>11. WalkCursor(state')
      BY <2>7, <2>8, <2>10 DEF WalkCursor
    <2>12. WalkChain(state')
      <3>1. \A m \in Walk!Members : ci[m] = "clear" => m < stale
        BY <2>10
      <3>2. \A m \in Walk!Members : m > 1 => m - 1 \in Walk!Members /\ m - 1 < m
        BY <2>8
      <3> QED
        BY <1>9, <2>7, <2>8, <2>10, <3>1, <3>2 DEF WalkChain
    <2>13. WalkAttempt(github, local', state')
      <3>1. WalkStands(Walk!NoAsk, state')
        BY <2>7, <2>8, WalkConstants DEF WalkStands
      <3> QED
        BY <2>7, <2>8, <2>10, <3>1 DEF WalkAttempt
    <2>14. WalkPlaced(github, local', state', proc')
      <3>1. CASE proc.pc = "next"
        BY <1>8, <2>4, <2>7, <2>8, <2>10, <3>1 DEF WalkPlaced
      <3>2. CASE proc.pc # "next"
        BY <2>4, <2>7, <2>8, <3>2, WalkRests
      <3> QED
        BY <3>1, <3>2
    <2>15. proc' \in WalkProcess
      BY <1>9, <2>4, WalkConstants
    <2> QED
      BY <1>4, <1>7, <1>8, <2>6, <2>11, <2>12, <2>13, <2>14, <2>15 DEF WalkInv, WalkGood, WalkTypes
  <1> QED
    BY <1>10, <1>11

LEMMA WalkRecords ==
  ASSUME Walk!CiStackAssumption, WalkInv, Walk!StackRecord
  PROVE  WalkInv'
  <1>1. PICK m : m = state.cursor
    OBVIOUS
  <1>2. PICK clean : clean = local[m].clean
    OBVIOUS
  <1>3. /\ m <= N /\ Walk!MayRecord(m) /\ proc.pc = "record"
        /\ IF clean = proc.seen[m] /\ github.head[m] = clean /\ m \notin github.red
           THEN Walk!Save([state EXCEPT !.ci[m] = "clear", !.clean[m] = clean, !.cursor = m + 1])
           ELSE Walk!StackStop([state EXCEPT !.ci[m] = "blocked", !.clean[m] = clean])
    BY <1>1, <1>2 DEF Walk!StackRecord, Walk!Running, Walk!Current
  <1>4. m \in Walk!Members /\ m \in Nat /\ m >= 1 /\ m \in 1..N /\ N \in Nat /\ Walk!Members = 1..N
    BY <1>1, <1>3, WalkReading, WalkConstants
  <1>5. /\ WalkCursor(state) /\ WalkChain(state) /\ WalkAttempt(github, local, state)
        /\ WalkPlaced(github, local, state, proc) /\ WalkClean(local) /\ state \in WalkState
    BY WalkReading DEF WalkInv, WalkGood
  <1>6. state.ci[m] = "active" /\ clean \in Walk!Heads /\ state.clean \in [Walk!Members -> Walk!Heads]
        /\ state.ci \in [Walk!Members -> {"pending", "active", "clear", "blocked"}]
    BY <1>1, <1>2, <1>3, <1>4, <1>5, WalkReading DEF WalkPlaced
  <1>7. PICK cleans : cleans = [state.clean EXCEPT ![m] = clean]
    OBVIOUS
  <1>8. cleans \in [Walk!Members -> Walk!Heads] /\ cleans[m] = clean /\ \A k \in Walk!Members : k # m =>
          cleans[k] = state.clean[k]
    BY <1>4, <1>6, <1>7
  <1>9. \A k \in Walk!Members : state.ci[k] = "clear" => k < m /\ (k > 1 => k - 1 \in Walk!Members /\ k - 1 < m)
    BY <1>1, <1>4, <1>5 DEF WalkCursor
  <1>10. \A k \in Walk!Members : k < m => state.ci[k] = "clear"
    BY <1>1, <1>5 DEF WalkCursor
  <1>11. CASE clean = proc.seen[m] /\ github.head[m] = clean /\ m \notin github.red
    <2>1. PICK ci : ci = [state.ci EXCEPT ![m] = "clear"]
      OBVIOUS
    <2>2. UNCHANGED <<github, local, budget>> /\ proc' = Walk!Resting /\
            state' = [state EXCEPT !.ci = ci, !.clean = cleans, !.cursor = m + 1]
      BY <1>3, <1>7, <1>11, <2>1 DEF Walk!Save, Walk!Result
    <2>3. /\ ci \in [Walk!Members -> {"pending", "active", "clear", "blocked"}] /\ ci[m] = "clear"
          /\ m + 1 \in 1..(N + 1)
          /\ \A k \in Walk!Members : k # m => ci[k] = state.ci[k]
      BY <1>4, <1>6, <2>1
    <2>4. state' \in WalkState
      BY <1>5, <1>8, <2>2, <2>3 DEF WalkState
    <2>5. /\ state'.cursor = m + 1 /\ state'.ci = ci /\ state'.clean = cleans
          /\ state'.sent = state.sent /\ state'.format = state.format /\ state'.conflict = state.conflict
      BY <1>5, <2>2 DEF WalkState
    <2>6. WalkCursor(state')
      <3>1. \A k \in Walk!Members :
              /\ k < m + 1 => k = m \/ k < m
              /\ k >= m + 1 => k > m /\ k # m
        BY <1>4
      <3> QED
        BY <1>1, <1>4, <1>5, <2>3, <2>5, <3>1 DEF WalkCursor
    <2>7. clean # Walk!NoHead
      BY <1>3, <1>4, <1>5, <1>11 DEF WalkPlaced
    <2>8. clean = state.sent[m]
      BY <1>2, <1>3, <1>4, <1>5, <2>7 DEF WalkClean, Walk!MayRecord
    <2>9. m > 1 => state.clean[m - 1] \subseteq clean /\ m - 1 \in Walk!Members /\ m - 1 < m
      BY <1>1, <1>4, <1>5, <1>6, <2>8 DEF WalkAttempt, WalkBelow
    <2>10. WalkChain(state')
      BY <1>4, <1>5, <1>8, <1>9, <1>10, <2>3, <2>5, <2>7, <2>9 DEF WalkChain
    <2>11. WalkStands(state'.format, state') /\ WalkStands(state'.conflict, state')
      <3>1. \A k \in 0..N : k <= m => k <= m + 1 /\ k # m + 1
        BY <1>4
      <3>2. state.format.fixed \in 0..N /\ state.conflict.fixed \in 0..N
        BY WalkReading DEF WalkAsk
      <3> QED
        BY <1>1, <1>5, <2>5, <3>1, <3>2 DEF WalkAttempt, WalkStands
    <2>12. WalkAttempt(github, local, state')
      <3>1. \A k \in Walk!Members : k = m + 1 => ci[k] = "pending"
        BY <1>1, <1>4, <1>5, <2>3 DEF WalkCursor
      <3> QED
        BY <2>5, <2>11, <3>1 DEF WalkAttempt
    <2> QED
      BY <2>2, <2>4, <2>6, <2>10, <2>12, WalkEnds
  <1>12. CASE ~(clean = proc.seen[m] /\ github.head[m] = clean /\ m \notin github.red)
    <2>1. PICK ci : ci = [state.ci EXCEPT ![m] = "blocked"]
      OBVIOUS
    <2>2. UNCHANGED <<github, local, budget>> /\ proc' = Walk!Resting /\
            state' = [state EXCEPT !.ci = ci, !.clean = cleans, !.status = "stopped"]
      BY <1>3, <1>7, <1>12, <2>1 DEF Walk!StackStop, Walk!Stopped, Walk!Save, Walk!Result
    <2>3. /\ ci \in [Walk!Members -> {"pending", "active", "clear", "blocked"}] /\ ci[m] = "blocked"
          /\ \A k \in Walk!Members : k # m => ci[k] = state.ci[k]
      BY <1>4, <1>6, <2>1
    <2>4. state' \in WalkState
      BY <1>5, <1>8, <2>2, <2>3 DEF WalkState
    <2>5. /\ state'.cursor = m /\ state'.ci = ci /\ state'.clean = cleans
          /\ state'.sent = state.sent /\ state'.format = state.format /\ state'.conflict = state.conflict
      BY <1>1, <1>5, <2>2 DEF WalkState
    <2>6. WalkCursor(state')
      BY <1>1, <1>4, <1>5, <2>3, <2>5 DEF WalkCursor
    <2>7. WalkChain(state')
      BY <1>4, <1>5, <1>8, <1>9, <2>3, <2>5 DEF WalkChain
    <2>8. WalkBelow(state') = WalkBelow(state)
      BY <1>1, <1>4, <1>8, <2>5 DEF WalkBelow
    <2>9. WalkAttempt(github, local, state')
      BY <1>1, <1>5, <2>3, <2>5, <2>8 DEF WalkAttempt, WalkStands
    <2> QED
      BY <2>2, <2>4, <2>6, <2>7, <2>9, WalkEnds
  <1> QED
    BY <1>11, <1>12
LEMMA WalkPropagates ==
  ASSUME Walk!CiStackAssumption, WalkInv, Walk!StackPropagate
  PROVE  WalkInv'
  <1>1. PICK request : request = <<proc.fixed, proc.head, proc.seen>>
    OBVIOUS
  <1>2. CASE Walk!Moved \/ \E r \in state.requests : r[1] = proc.fixed /\ r[2] = proc.head /\ r # request
    <2>1. Walk!StackStop(state)
      BY <1>1, <1>2 DEF Walk!StackPropagate
    <2> QED
      BY <2>1, WalkStopped
  <1>3. CASE ~(Walk!Moved \/ \E r \in state.requests : r[1] = proc.fixed /\ r[2] = proc.head /\ r # request)
    <2>1. /\ state' = [state EXCEPT !.requests = @ \cup {request}] /\ proc' = [proc EXCEPT !.pc = "resolver"]
          /\ UNCHANGED <<github, local, budget>> /\ proc.pc = "propagate"
      BY <1>1, <1>3 DEF Walk!StackPropagate, Walk!Running
    <2>2. state \in WalkState /\ proc \in WalkProcess
      BY WalkReading
    <2>3. request \in (0..N) \X Walk!Heads \X [Walk!Members -> Walk!Heads]
      BY <1>1, WalkReading
    <2>4. state.requests \cup {request} \in SUBSET ((0..N) \X Walk!Heads \X [Walk!Members -> Walk!Heads])
      BY <2>2, <2>3 DEF WalkState
    <2>5. /\ state' \in WalkState /\ state'.cursor = state.cursor /\ state'.ci = state.ci /\ state'.clean = state.clean
          /\ state'.sent = state.sent /\ state'.format = state.format /\ state'.conflict = state.conflict
      BY <2>1, <2>2, <2>4 DEF WalkState
    <2>6. /\ WalkCursor(state) /\ WalkChain(state) /\ WalkAttempt(github, local, state)
          /\ WalkPlaced(github, local, state, proc)
      BY DEF WalkInv, WalkGood
    <2>7. /\ WalkCursor(state') /\ WalkChain(state') /\ WalkAttempt(github, local, state')
          /\ WalkPlaced(github, local, state', proc)
      BY <2>5, <2>6, WalkSame
    <2>8. /\ proc' \in WalkProcess /\ proc'.pc = "resolver" /\ proc'.fixed = proc.fixed /\ proc'.head = proc.head
          /\ proc'.seen = proc.seen
      BY <2>1, <2>2 DEF WalkProcess, WalkPcs
    <2>9. proc.seen[proc.fixed] = proc.head
      BY <1>3 DEF Walk!Moved
    <2>10. WalkPlaced(github, local, state', proc')
      BY <2>1, <2>7, <2>8, <2>9 DEF WalkPlaced, WalkStands
    <2> QED
      BY <2>1, <2>5, <2>7, <2>8, <2>10, WalkThen
  <1> QED
    BY <1>2, <1>3

\* The resolver carries the fixed head upwards, up to some member.
LEMMA WalkPublishes ==
  ASSUME Walk!CiStackAssumption, WalkInv, proc.pc = "resolver", UNCHANGED <<local, budget>>, NEW last \in proc.fixed..N,
         last > proc.fixed => github.head = proc.seen /\ github.serial + last - proc.fixed <= MaxCommits,
         github' = [github EXCEPT !.head = Walk!Published(last),
                                  !.serial = IF Walk!Published(last) = github.head THEN @ ELSE @ + last - proc.fixed]
  PROVE  /\ github' \in WalkSource /\ WalkKnown(github', local) /\ WalkAnnounced(github', local)
         /\ WalkAccounted(github', local) /\ WalkAttempt(github', local, state)
         /\ WalkPlaced(github', local, state, proc)
         /\ \A m \in Walk!Members : github.head[m] \subseteq github'.head[m]
  <1>1. PICK heads : heads = Walk!Published(last)
    OBVIOUS
  <1>2. PICK serial : serial = IF heads = github.head THEN github.serial ELSE github.serial + last - proc.fixed
    OBVIOUS
  <1>3. github' = [github EXCEPT !.head = heads, !.serial = serial]
    BY <1>1, <1>2
  <1>4. /\ WalkPlaced(github, local, state, proc) /\ WalkKnown(github, local) /\ github \in WalkSource
        /\ github.serial \in Nat /\ github.serial >= N /\ github.serial <= MaxCommits
    BY WalkReading, WalkConstants DEF WalkInv, WalkGood, WalkSource
  <1>5. /\ proc.fixed \in Walk!Members /\ proc.seen[proc.fixed] = proc.head /\ proc.fixed \in Nat /\ N \in Nat
        /\ last \in Nat /\ last >= proc.fixed /\ last <= N /\ MaxCommits \in Nat /\ Walk!Members = 1..N
        /\ Walk!NoHead = {}
    BY <1>4, WalkReading, WalkConstants DEF WalkPlaced
  <1>6. serial \in Nat /\ serial >= github.serial /\ serial <= MaxCommits /\ serial \in N..MaxCommits
    <2>1. CASE last > proc.fixed
      BY <1>2, <1>4, <1>5, <2>1
    <2>2. CASE ~(last > proc.fixed)
      BY <1>2, <1>4, <1>5, <2>2
    <2> QED
      BY <2>1, <2>2
  <1>7. ASSUME NEW d \in Walk!Members, heads[d] # github.head[d]
        PROVE  /\ last > proc.fixed /\ d > proc.fixed /\ d <= last
               /\ heads[d] = github.head[d] \cup proc.head \cup
                    {github.serial + k - proc.fixed : k \in (proc.fixed + 1)..d}
    BY <1>1, <1>5, <1>7 DEF Walk!Published, Walk!Descendants
  <1>8. heads = [d \in Walk!Members |-> heads[d]]
    BY <1>1 DEF Walk!Published
  <1>9. ASSUME NEW d \in Walk!Members
        PROVE  /\ heads[d] # Walk!NoHead /\ heads[d] \subseteq 1..serial /\ github.head[d] \subseteq heads[d]
               /\ heads[d] = github.head[d] \/ \E x \in heads[d] : x > github.serial
               /\ \A y \in heads[d] : y > github.serial \/ \E k \in Walk!Members : y \in github.head[k]
    <2>1. github.head[d] # Walk!NoHead /\ github.head[d] \subseteq 1..github.serial
      BY <1>4 DEF WalkKnown
    <2>2. 1..github.serial \subseteq 1..serial
      BY <1>4, <1>6
    <2>3. CASE heads[d] = github.head[d]
      BY <2>1, <2>2, <2>3
    <2>4. CASE heads[d] # github.head[d]
      <3>1. PICK news : news = {github.serial + k - proc.fixed : k \in (proc.fixed + 1)..d}
        OBVIOUS
      <3>2. heads[d] = github.head[d] \cup proc.head \cup news /\ last > proc.fixed /\ d > proc.fixed /\ d <= last /\
              d \in Nat
        BY <1>5, <1>7, <2>4, <3>1
      <3>3. serial = github.serial + last - proc.fixed
        BY <1>2, <2>4
      <3>4. \A y \in news : y \in Nat /\ y > github.serial /\ y <= serial
        <4>1. SUFFICES ASSUME NEW k \in (proc.fixed + 1)..d
                       PROVE  /\ github.serial + k - proc.fixed \in Nat
                              /\ github.serial + k - proc.fixed > github.serial
                              /\ github.serial + k - proc.fixed <= serial
          BY <3>1
        <4>2. k \in Nat /\ k > proc.fixed /\ k <= last
          BY <1>5, <3>2
        <4> QED
          BY <1>4, <1>5, <3>3, <4>2
      <3>5. github.serial + d - proc.fixed \in news
        BY <1>5, <3>1, <3>2
      <3>6. proc.head = github.head[proc.fixed] /\ proc.head \subseteq 1..github.serial
        BY <1>4, <1>5, <3>2 DEF WalkKnown
      <3>7. news \subseteq 1..serial
        BY <1>4, <3>4
      <3> QED
        BY <1>5, <2>1, <2>2, <3>2, <3>4, <3>5, <3>6, <3>7
    <2> QED
      BY <2>3, <2>4
  <1>10. heads \in [Walk!Members -> Walk!Heads]
    <2>1. \A d \in Walk!Members : heads[d] \in Walk!Heads
      BY <1>5, <1>6, <1>9, WalkConstants
    <2> QED
      BY <1>8, <2>1
  <1>11. github' \in WalkSource /\ github'.head = heads /\ github'.serial = serial /\ github'.ours = github.ours
    BY <1>3, <1>4, <1>6, <1>10 DEF WalkSource
  <1>12. /\ WalkKnown(github', local) /\ WalkAnnounced(github', local)
         /\ WalkAccounted(github', local) /\ WalkAttempt(github', local, state)
         /\ WalkPlaced(github', local, state, proc)
    BY <1>6, <1>9, <1>11, WalkMoves
  <1> QED
    BY <1>9, <1>11, <1>12

LEMMA WalkResolves ==
  ASSUME Walk!CiStackAssumption, WalkInv, Walk!Resolver
  PROVE  WalkInv'
  <1>1. proc.pc = "resolver" /\ UNCHANGED <<local, budget>>
    BY DEF Walk!Resolver
  <1>2. /\ state \in WalkState /\ proc \in WalkProcess /\ state.cursor \in Nat /\ state.cursor >= 1
        /\ local \in [Walk!Members -> WalkFile]
        /\ proc.fixed \in 0..N /\ proc.head \in Walk!Heads /\ budget \in 0..MaxMoves
    BY WalkReading DEF WalkInv, WalkTypes
  <1>3. /\ WalkCursor(state) /\ WalkChain(state) /\ WalkClean(local) /\ WalkAttempt(github, local, state)
        /\ WalkPlaced(github, local, state, proc)
    BY DEF WalkInv, WalkGood
  <1>4. ASSUME NEW last \in proc.fixed..N,
               last > proc.fixed => github.head = proc.seen /\ github.serial + last - proc.fixed <= MaxCommits,
               github' = [github EXCEPT !.head = Walk!Published(last),
                                        !.serial = IF Walk!Published(last) = github.head THEN @ ELSE @ + last - proc.fixed],
               IF last = N THEN proc' = [proc EXCEPT !.pc = "contained"] /\ UNCHANGED state
               ELSE proc' = Walk!Resting /\ state' = [state EXCEPT !.status = "stopped"]
        PROVE  WalkInv'
    <2>1. /\ github' \in WalkSource /\ WalkKnown(github', local) /\ WalkAnnounced(github', local)
          /\ WalkAccounted(github', local) /\ WalkAttempt(github', local, state)
          /\ WalkPlaced(github', local, state, proc)
      BY <1>1, <1>4, WalkPublishes
    <2>2. CASE last = N
      <3>1. proc' = [proc EXCEPT !.pc = "contained"] /\ state' = state
        BY <1>4, <2>2
      <3>2. proc' \in WalkProcess /\ proc'.pc = "contained" /\ proc'.fixed = proc.fixed /\ proc'.head = proc.head
        BY <1>2, <3>1 DEF WalkProcess, WalkPcs
      <3>3. WalkPlaced(github', local, state, proc')
        BY <1>1, <2>1, <3>2 DEF WalkPlaced, WalkStands
      <3> QED
        BY <1>1, <1>2, <1>3, <2>1, <3>1, <3>2, <3>3 DEF WalkInv, WalkGood, WalkTypes
    <2>3. CASE last # N
      <3>1. proc' = Walk!Resting /\ state' = [state EXCEPT !.status = "stopped"]
        BY <1>4, <2>3
      <3>2. /\ state' \in WalkState /\ state'.cursor = state.cursor /\ state'.ci = state.ci
            /\ state'.clean = state.clean
            /\ state'.sent = state.sent /\ state'.format = state.format /\ state'.conflict = state.conflict
        BY <1>2, <3>1 DEF WalkState
      <3>3. WalkCursor(state') /\ WalkChain(state') /\ WalkAttempt(github', local, state')
        BY <1>3, <2>1, <3>2, WalkSame
      <3>4. WalkPlaced(github', local, state', Walk!Resting)
        BY <1>2, <3>2, WalkRests
      <3> QED
        BY <1>1, <1>2, <1>3, <2>1, <3>1, <3>2, <3>3, <3>4, WalkConstants DEF WalkInv, WalkGood, WalkTypes
    <2> QED
      BY <2>2, <2>3
  <1>5. ASSUME NEW format \in WalkAsk, NEW conflict \in WalkAsk,
               format \in {Walk!NoAsk, [fixed |-> proc.fixed, head |-> proc.head]},
               conflict \in {state.conflict, [fixed |-> proc.fixed, head |-> proc.head]},
               state' = [state EXCEPT !.format = format, !.conflict = conflict], proc' = Walk!Resting, github' = github
        PROVE  WalkInv'
    <2>1. /\ state' \in WalkState /\ state'.cursor = state.cursor /\ state'.ci = state.ci /\ state'.clean = state.clean
          /\ state'.sent = state.sent /\ state'.format = format /\ state'.conflict = conflict
      BY <1>2, <1>5 DEF WalkState
    <2>2. WalkCursor(state') /\ WalkChain(state') /\ WalkBelow(state') = WalkBelow(state)
      BY <1>3, <2>1 DEF WalkCursor, WalkChain, WalkBelow
    <2>3. WalkStands([fixed |-> proc.fixed, head |-> proc.head], state)
      BY <1>1, <1>3 DEF WalkPlaced, WalkStands
    <2>4. WalkStands(Walk!NoAsk, state)
      BY <1>2, WalkConstants DEF WalkStands
    <2>5. WalkStands(format, state) /\ WalkStands(conflict, state)
      BY <1>3, <1>5, <2>3, <2>4 DEF WalkAttempt
    <2>6. WalkAttempt(github, local, state')
      BY <1>3, <2>1, <2>2, <2>5 DEF WalkAttempt, WalkStands
    <2> QED
      BY <1>1, <1>5, <2>1, <2>2, <2>6, WalkEnds
  <1>6. [fixed |-> proc.fixed, head |-> proc.head] \in WalkAsk /\ Walk!NoAsk \in WalkAsk
    BY <1>2, WalkConstants DEF WalkAsk
  <1>7. ASSUME state' = [state EXCEPT !.format = [fixed |-> proc.fixed, head |-> proc.head]], proc' = Walk!Resting,
          github' = github
        PROVE  WalkInv'
    <2>1. state.conflict \in WalkAsk
      BY WalkReading
    <2>2. state' = [state EXCEPT !.format = [fixed |-> proc.fixed, head |-> proc.head], !.conflict = state.conflict]
      BY <1>2, <1>7 DEF WalkState
    <2> QED
      BY <1>5, <1>6, <1>7, <2>1, <2>2
  <1>8. ASSUME state' = [state EXCEPT !.format = Walk!NoAsk, !.conflict = [fixed |-> proc.fixed, head |-> proc.head]],
               proc' = Walk!Resting, github' = github
        PROVE  WalkInv'
    BY <1>5, <1>6, <1>8
  <1> QED
    BY <1>4, <1>7, <1>8 DEF Walk!Resolver
LEMMA WalkContained ==
  ASSUME Walk!CiStackAssumption, WalkInv, Walk!Contained
  PROVE  WalkInv'
  <1>1. CASE Walk!StackStop(state)
    BY <1>1, WalkStopped
  <1>2. CASE ~Walk!StackStop(state)
    <2>1. PICK guards : guards = state.guards \cup
            {<<proc.fixed, proc.head, d, github.head[d]>> : d \in Walk!Descendants}
      OBVIOUS
    <2>2. PICK propagated : propagated = IF proc.push THEN state.propagated \cup
            {<<proc.fixed, proc.head>>} ELSE state.propagated
      OBVIOUS
    <2>3. PICK sent : sent = IF Walk!Current = proc.fixed THEN [state.sent EXCEPT ![Walk!Current] =
            proc.head] ELSE state.sent
      OBVIOUS
    <2>4. /\ UNCHANGED <<github, local, budget>> /\ proc' = Walk!Resting /\ proc.pc = "contained"
          /\ state' = [state EXCEPT !.guards = guards, !.propagated = propagated, !.format = Walk!NoAsk,
               !.conflict = Walk!NoAsk,
                                    !.sent = sent]
      BY <1>2, <2>1, <2>2, <2>3 DEF Walk!Contained, Walk!Save, Walk!Result
    <2>5. /\ WalkCursor(state) /\ WalkChain(state) /\ WalkAttempt(github, local, state)
          /\ WalkPlaced(github, local, state, proc) /\ state \in WalkState
      BY WalkReading DEF WalkInv, WalkGood
    <2>6. proc.fixed \in Walk!Members /\ proc.fixed \in 0..N /\ proc.head \in Walk!Heads /\ Walk!Members = 1..N /\
            N \in Nat
      BY <2>4, <2>5, WalkReading, WalkConstants DEF WalkPlaced
    <2>7. \A d \in Walk!Descendants : d \in Walk!Members /\ github.head[d] \in Walk!Heads
      BY <2>6, WalkReading DEF Walk!Descendants
    <2>8. guards \in SUBSET ((0..N) \X Walk!Heads \X Walk!Members \X Walk!Heads)
      <3>1. \A d \in Walk!Descendants : <<proc.fixed, proc.head, d,
              github.head[d]>> \in (0..N) \X Walk!Heads \X Walk!Members \X Walk!Heads
        BY <2>6, <2>7
      <3>2. state.guards \in SUBSET ((0..N) \X Walk!Heads \X Walk!Members \X Walk!Heads)
        BY <2>5 DEF WalkState
      <3> QED
        BY <2>1, <3>1, <3>2
    <2>9. propagated \in SUBSET (Walk!Members \X Walk!Heads)
      BY <2>2, <2>6, WalkReading
    <2>10. /\ sent \in [Walk!Members -> Walk!Heads]
           /\ state.cursor = proc.fixed => sent[state.cursor] = proc.head
           /\ state.cursor # proc.fixed => sent = state.sent
      BY <2>3, <2>6, WalkReading DEF Walk!Current
    <2>11. state' \in WalkState
      BY <2>4, <2>5, <2>8, <2>9, <2>10, WalkConstants DEF WalkState
    <2>12. /\ state'.cursor = state.cursor /\ state'.ci = state.ci /\ state'.clean = state.clean
           /\ state'.sent = sent /\ state'.format = Walk!NoAsk /\ state'.conflict = Walk!NoAsk
      BY <2>4, <2>5 DEF WalkState
    <2>13. WalkCursor(state') /\ WalkChain(state') /\ WalkBelow(state') = WalkBelow(state)
      BY <2>5, <2>12 DEF WalkCursor, WalkChain, WalkBelow
    <2>14. WalkStands(Walk!NoAsk, state')
      BY <2>12, WalkReading, WalkConstants DEF WalkStands
    <2>15. state.cursor = proc.fixed => WalkBelow(state) \subseteq proc.head
      BY <2>4, <2>5 DEF WalkPlaced, WalkStands
    <2>16. WalkAttempt(github, local, state')
      BY <2>5, <2>10, <2>12, <2>13, <2>14, <2>15 DEF WalkAttempt
    <2> QED
      BY <2>4, <2>11, <2>13, <2>16, WalkEnds
  <1> QED
    BY <1>1, <1>2

LEMMA WalkFormats ==
  ASSUME Walk!CiStackAssumption, WalkInv, Walk!StackFormat
  PROVE  WalkInv'
  <1>1. CASE Walk!StackStop(state)
    BY <1>1, WalkStopped
  <1>2. CASE Walk!Save(state)
    BY <1>2, WalkUnchanged DEF Walk!Save, Walk!Result
  <1>3. ASSUME NEW conflict \in {state.conflict, state.format}, proc' = Walk!Resting,
          UNCHANGED <<github, local, budget>>,
               state' = [state EXCEPT !.format = Walk!NoAsk, !.conflict = conflict]
        PROVE  WalkInv'
    <2>1. /\ WalkCursor(state) /\ WalkChain(state) /\ WalkAttempt(github, local, state) /\ state \in WalkState
          /\ conflict \in WalkAsk
      BY <1>3, WalkReading DEF WalkInv, WalkGood
    <2>2. /\ state' \in WalkState /\ state'.cursor = state.cursor /\ state'.ci = state.ci /\ state'.clean = state.clean
          /\ state'.sent = state.sent /\ state'.format = Walk!NoAsk /\ state'.conflict = conflict
      BY <1>3, <2>1, WalkConstants DEF WalkState
    <2>3. WalkCursor(state') /\ WalkChain(state') /\ WalkBelow(state') = WalkBelow(state)
      BY <2>1, <2>2 DEF WalkCursor, WalkChain, WalkBelow
    <2>4. WalkStands(Walk!NoAsk, state) /\ WalkStands(conflict, state)
      BY <1>3, <2>1, WalkReading, WalkConstants DEF WalkAttempt, WalkStands
    <2>5. WalkAttempt(github, local, state')
      BY <2>1, <2>2, <2>3, <2>4 DEF WalkAttempt, WalkStands
    <2> QED
      BY <1>3, <2>2, <2>3, <2>5, WalkEnds
  <1>4. CASE Walk!Save([state EXCEPT !.format = Walk!NoAsk])
    <2>1. state \in WalkState
      BY WalkReading
    <2>2. state' = [state EXCEPT !.format = Walk!NoAsk, !.conflict = state.conflict] /\ proc' = Walk!Resting /\
            UNCHANGED <<github, local, budget>>
      BY <1>4, <2>1 DEF Walk!Save, Walk!Result, WalkState
    <2> QED
      BY <1>3, <2>2
  <1>5. CASE Walk!Save([state EXCEPT !.format = Walk!NoAsk, !.conflict = state.format])
    BY <1>3, <1>5 DEF Walk!Save, Walk!Result
  <1> QED
    BY <1>1, <1>2, <1>4, <1>5 DEF Walk!StackFormat

\* A member's file that changes while no command of the stack runs.
LEMMA WalkMembers ==
  ASSUME Walk!CiStackAssumption, WalkInv, UNCHANGED <<github, state, budget>>, NEW m \in Walk!Members,
         NEW f \in WalkFile, local' = [local EXCEPT ![m] = f],
         \/ f.pending = local[m].pending /\ f.accepted = local[m].accepted
         \/ f.pending = Walk!NoPush /\ f.accepted = local[m].accepted \cup {local[m].pending.head},
         f.retired = local[m].retired, f.clean # Walk!NoHead => f.clean = f.guard,
         (proc' = proc /\ proc.pc # "push") \/ proc' = Walk!Resting
  PROVE  WalkInv'
  <1>1. local \in [Walk!Members -> WalkFile] /\ state \in WalkState /\ proc \in WalkProcess
    BY WalkReading
  <1>2. local' \in [Walk!Members -> WalkFile] /\ local'[m] = f /\ \A k \in Walk!Members : k # m => local'[k] = local[k]
    BY <1>1
  <1>3. /\ WalkCursor(state) /\ WalkChain(state) /\ WalkClean(local)
    BY DEF WalkInv, WalkGood
  <1>4. \A k \in Walk!Members :
          /\ local'[k].pending = local[k].pending \/ local'[k].pending = Walk!NoPush
          /\ local[k].pending.head \in {local'[k].pending.head} \cup local'[k].accepted \cup local'[k].retired
          /\ local[k].accepted \subseteq local'[k].accepted /\ local[k].retired \subseteq local'[k].retired
          /\ local'[k].accepted \subseteq WalkOurs(k, local)
          /\ local'[k].clean # Walk!NoHead => local'[k].clean = local'[k].guard
    BY <1>2, <1>3 DEF WalkOurs, WalkClean
  <1>5. /\ WalkKnown(github, local') /\ WalkAnnounced(github, local') /\ WalkAccounted(github, local')
        /\ WalkAttempt(github, local', state) /\ WalkClean(local')
        /\ proc.pc # "push" => WalkPlaced(github, local', state, proc)
    BY <1>2, <1>4, WalkSettles
  <1>6. WalkPlaced(github, local', state, proc')
    BY <1>5, WalkRests, WalkReading
  <1>7. proc' \in WalkProcess
    BY <1>1, WalkConstants
  <1> QED
    BY <1>1, <1>2, <1>3, <1>5, <1>6, <1>7 DEF WalkInv, WalkGood, WalkTypes

LEMMA WalkMemberPreflight ==
  ASSUME Walk!CiStackAssumption, WalkInv, NEW m \in Walk!Members, Walk!MemberPreflight(m)
  PROVE  WalkInv'
  <1>1. PICK f : f = [local[m] EXCEPT !.guard = github.head[m], !.clean = Walk!NoHead]
    OBVIOUS
  <1>2. local[m] \in WalkFile /\ github.head[m] \in Walk!Heads
    BY WalkReading
  <1>3. /\ f \in WalkFile /\ f.pending = local[m].pending /\ f.accepted = local[m].accepted
        /\ f.retired = local[m].retired
        /\ f.clean = Walk!NoHead
    BY <1>1, <1>2, WalkConstants DEF WalkFile
  <1>4. local' = [local EXCEPT ![m] = f] /\ UNCHANGED <<github, state, proc, budget>> /\ proc.pc = "idle"
    BY <1>1 DEF Walk!MemberPreflight
  <1> QED
    BY <1>3, <1>4, WalkMembers

LEMMA WalkMemberClear ==
  ASSUME Walk!CiStackAssumption, WalkInv, NEW m \in Walk!Members, Walk!MemberClear(m)
  PROVE  WalkInv'
  <1>1. PICK f : f = [local[m] EXCEPT !.clean = github.head[m]]
    OBVIOUS
  <1>2. local[m] \in WalkFile /\ github.head[m] \in Walk!Heads /\ github.head[m] = local[m].guard
    BY WalkReading DEF Walk!MemberClear
  <1>3. /\ f \in WalkFile /\ f.pending = local[m].pending /\ f.accepted = local[m].accepted
        /\ f.retired = local[m].retired
        /\ f.clean = f.guard
    BY <1>1, <1>2 DEF WalkFile
  <1>4. local' = [local EXCEPT ![m] = f] /\ UNCHANGED <<github, state, proc, budget>> /\ proc.pc = "idle"
    BY <1>1 DEF Walk!MemberClear
  <1> QED
    BY <1>3, <1>4, WalkMembers

LEMMA WalkMemberConfirm ==
  ASSUME Walk!CiStackAssumption, WalkInv, NEW m \in Walk!Members, Walk!MemberConfirm(m)
  PROVE  WalkInv'
  <1>1. PICK f : f = [local[m] EXCEPT !.accepted = @ \cup {github.head[m]}, !.pending = Walk!NoPush,
          !.clean = Walk!NoHead]
    OBVIOUS
  <1>2. local[m] \in WalkFile /\ github.head[m] \in Walk!Heads /\ github.head[m] = local[m].pending.head
    BY WalkReading DEF Walk!MemberConfirm
  <1>3. /\ f \in WalkFile /\ f.pending = Walk!NoPush /\ f.accepted = local[m].accepted \cup {local[m].pending.head}
        /\ f.retired = local[m].retired /\ f.clean = Walk!NoHead
    BY <1>1, <1>2, WalkConstants DEF WalkFile
  <1>4. local' = [local EXCEPT ![m] = f] /\ UNCHANGED <<github, state, budget>> /\ proc' = Walk!Resting
    BY <1>1 DEF Walk!MemberConfirm
  <1> QED
    BY <1>3, <1>4, WalkMembers

\* A push is announced, again or for the first time.
LEMMA WalkMemberPublish ==
  ASSUME Walk!CiStackAssumption, WalkInv, NEW m \in Walk!Members, Walk!MemberPublish(m)
  PROVE  WalkInv'
  <1>1. PICK again \in BOOLEAN : again <=> local[m].pending # Walk!NoPush /\ local[m].pending.previous = local[m].guard
    OBVIOUS
  <1>2. PICK pending : pending = IF again THEN local[m].pending
                                 ELSE [previous |-> github.head[m], head |-> github.head[m] \cup {Walk!Fresh}]
    OBVIOUS
  <1>3. /\ m = state.cursor /\ Walk!GuardHolds(m) /\ github.head[m] = local[m].guard
        /\ again \/ (local[m].pending = Walk!NoPush /\ Walk!Fresh <= MaxCommits)
        /\ local' = [local EXCEPT ![m].pending = pending]
        /\ github' = IF again THEN github ELSE [github EXCEPT !.serial = Walk!Fresh]
        /\ proc' = [Walk!Resting EXCEPT !.pc = "push", !.fixed = m] /\ UNCHANGED <<state, budget>>
    BY <1>1, <1>2 DEF Walk!MemberPublish, Walk!GuardHolds, Walk!Current
  <1>4. /\ WalkKnown(github, local) /\ WalkAnnounced(github, local) /\ WalkAccounted(github, local)
        /\ WalkCursor(state) /\ WalkChain(state) /\ WalkAttempt(github, local, state) /\ WalkClean(local)
        /\ WalkPlaced(github, local, state, proc)
    BY DEF WalkInv, WalkGood
  <1>5. /\ m \in Nat /\ m >= 1 /\ m <= N /\ Walk!Members = 1..N /\ Walk!NoHead = {} /\ Walk!NoPush.head = {}
        /\ github.head[m] \in Walk!Heads /\ local[m] \in WalkFile /\ local[m].pending \in Walk!PushRecord
        /\ local \in [Walk!Members -> WalkFile] /\ github \in WalkSource /\ state \in WalkState
        /\ Walk!Resting \in WalkProcess
        /\ github.serial \in Nat /\ N \in Nat /\ MaxCommits \in Nat /\ Walk!Heads = SUBSET (1..MaxCommits)
    BY WalkReading, WalkConstants
  <1>6. WalkBelow(state) \subseteq github.head[m]
    <2>1. CASE m = 1
      BY <1>3, <1>5, <2>1 DEF WalkBelow
    <2>2. CASE m # 1
      <3>1. m > 1 /\ m - 1 \in Walk!Members
        BY <1>5, <2>2
      <3>2. state.clean[m - 1] = github.head[m - 1] /\ github.head[m - 1] \subseteq github.head[m]
        BY <1>3, <3>1 DEF Walk!GuardHolds, Walk!Contains
      <3> QED
        BY <1>3, <3>1, <3>2 DEF WalkBelow
    <2> QED
      BY <2>1, <2>2
  <1>7. /\ proc' \in WalkProcess /\ proc'.pc = "push" /\ proc'.fixed = m
    <2>1. m \in 0..N
      BY <1>5
    <2> QED
      BY <1>3, <1>5, <2>1 DEF WalkProcess, WalkPcs
  <1>8. ASSUME NEW g, NEW l, l[m].pending # Walk!NoPush, github.head[m] \subseteq l[m].pending.head
        PROVE  WalkPlaced(g, l, state, proc')
    BY <1>3, <1>6, <1>7, <1>8 DEF WalkPlaced
  <1>9. CASE again
    <2>1. github' = github /\ local' = [local EXCEPT ![m].pending = local[m].pending]
      BY <1>2, <1>3, <1>9
    <2>2. [local[m] EXCEPT !.pending = local[m].pending] = local[m]
      BY <1>5 DEF WalkFile
    <2>3. local' = local
      BY <1>5, <2>1, <2>2
    <2>4. local[m].pending # Walk!NoPush /\ local[m].pending.previous = github.head[m]
      BY <1>1, <1>3, <1>9
    <2>5. github.head[m] \subseteq local[m].pending.head
      BY <1>4, <2>4 DEF WalkAnnounced, WalkFresh
    <2>6. WalkPlaced(github, local, state, proc')
      BY <1>8, <2>4, <2>5
    <2> QED
      BY <1>3, <1>4, <1>7, <2>1, <2>3, <2>6 DEF WalkInv, WalkGood, WalkTypes
  <1>10. CASE ~again
    <2>1. PICK x : x = github.serial + 1
      OBVIOUS
    <2>2. PICK f : f = [local[m] EXCEPT !.pending = pending]
      OBVIOUS
    <2>3. /\ pending = [previous |-> github.head[m], head |-> github.head[m] \cup {x}] /\ local[m].pending = Walk!NoPush
          /\ x <= MaxCommits /\ github' = [github EXCEPT !.serial = x] /\ local' = [local EXCEPT ![m] = f]
      BY <1>2, <1>3, <1>10, <2>1, <2>2 DEF Walk!Fresh
    <2>4. x \in Nat /\ x \in 1..x /\ x \in 1..MaxCommits /\ x \in N..MaxCommits /\ 1..github.serial \subseteq 1..x
      <3>1. github.serial >= N
        BY <1>5 DEF WalkSource
      <3> QED
        BY <1>5, <2>1, <2>3, <3>1
    <2>5. pending \in Walk!PushRecord /\ pending.previous = github.head[m] /\ pending.head = github.head[m] \cup {x}
      BY <1>5, <2>3, <2>4 DEF Walk!PushRecord
    <2>6. /\ f \in WalkFile /\ f.pending = pending /\ f.accepted = local[m].accepted /\ f.retired = local[m].retired
          /\ f.clean = local[m].clean /\ f.guard = local[m].guard
      BY <1>5, <2>2, <2>5 DEF WalkFile
    <2>7. local' \in [Walk!Members -> WalkFile] /\ local'[m] = f /\ \A k \in Walk!Members : k # m =>
            local'[k] = local[k]
      BY <1>5, <2>3, <2>6
    <2>8. github' \in WalkSource /\ github'.head = github.head /\ github'.ours = github.ours /\ github'.serial = x
      BY <1>5, <2>3, <2>4 DEF WalkSource
    <2>9. \A k \in Walk!Members : x \notin github.head[k] /\ x \notin local[k].pending.head
                             /\ \A h \in local[k].accepted : x \notin h
      <3>1. x \notin 1..github.serial
        BY <1>5, <2>1
      <3> QED
        BY <1>4, <3>1 DEF WalkKnown
    <2>10. WalkKnown(github', local')
      BY <1>4, <2>4, <2>5, <2>6, <2>7, <2>8 DEF WalkKnown
    <2>11. WalkAnnounced(github', local')
      <3>1. SUFFICES ASSUME NEW k \in Walk!Members, local'[k].pending # Walk!NoPush
                     PROVE  /\ github'.head[k] = local'[k].pending.previous
                               \/ WalkNewer(github'.head[k], local'[k].pending.previous)
                            /\ \E y \in 1..github'.serial : WalkFresh(y, k, github', local')
        BY DEF WalkAnnounced
      <3>2. CASE k = m
        <4>1. \A y \in github.head[m] : y < x
          <5>1. github.head[m] \subseteq 1..github.serial
            BY <1>4 DEF WalkKnown
          <5> QED
            BY <1>5, <2>1, <5>1
        <4>2. WalkFresh(x, m, github', local')
          BY <2>5, <2>6, <2>7, <2>8, <2>9, <4>1 DEF WalkFresh
        <4> QED
          BY <2>4, <2>5, <2>6, <2>7, <2>8, <3>2, <4>2
      <3>3. CASE k # m
        <4>1. local'[k] = local[k]
          BY <2>7, <3>3
        <4>2. PICK y \in 1..github.serial : WalkFresh(y, k, github, local)
          BY <1>4, <3>1, <4>1 DEF WalkAnnounced
        <4>3. y # x /\ y \in 1..x
          BY <1>5, <2>1, <2>4, <4>2
        <4>4. WalkFresh(y, k, github', local')
          BY <2>5, <2>6, <2>7, <2>8, <3>3, <4>1, <4>2, <4>3 DEF WalkFresh
        <4> QED
          BY <1>4, <2>8, <3>1, <4>1, <4>3, <4>4 DEF WalkAnnounced
      <3> QED
        BY <3>2, <3>3
    <2>12. WalkAccounted(github', local')
      <3>1. github.head[m] # {}
        BY <1>4, <1>5 DEF WalkKnown
      <3> QED
        BY <1>4, <1>5, <2>3, <2>6, <2>7, <2>8, <3>1 DEF WalkAccounted
    <2>13. WalkAttempt(github', local', state)
      <3>1. github.head[m] \in WalkOurs(m, local') => github.head[m] \in WalkOurs(m, local)
        BY <2>5, <2>6, <2>7, <2>9 DEF WalkOurs
      <3>2. \A k \in Walk!Members : k # m => WalkOurs(k, local') = WalkOurs(k, local)
        BY <2>7 DEF WalkOurs
      <3> QED
        BY <1>4, <2>8, <3>1, <3>2 DEF WalkAttempt
    <2>14. WalkClean(local')
      BY <1>4, <2>6, <2>7 DEF WalkClean
    <2>15. WalkPlaced(github', local', state, proc')
      <3>1. local'[m].pending # Walk!NoPush
        BY <1>5, <2>5, <2>6, <2>7
      <3> QED
        BY <1>8, <2>5, <2>6, <2>7, <3>1
    <2> QED
      BY <1>3, <1>4, <1>7, <2>7, <2>8, <2>10, <2>11, <2>12, <2>13, <2>14, <2>15 DEF WalkInv, WalkGood, WalkTypes
  <1> QED
    BY <1>9, <1>10

LEMMA WalkMemberPush ==
  ASSUME Walk!CiStackAssumption, WalkInv, NEW m \in Walk!Members, Walk!MemberPush(m)
  PROVE  WalkInv' /\ github.head[m] \subseteq github'.head[m]
  <1>1. PICK head : head = local[m].pending.head
    OBVIOUS
  <1>2. /\ proc.pc = "push" /\ m = proc.fixed /\ github.head[m] = local[m].pending.previous
        /\ github' = [github EXCEPT !.head[m] = head, !.ours = @ \cup {head}]
        /\ proc' = [proc EXCEPT !.pc = "confirm"] /\ UNCHANGED <<local, state, budget>>
    BY <1>1 DEF Walk!MemberPush
  <1>3. /\ WalkKnown(github, local) /\ WalkAnnounced(github, local) /\ WalkAccounted(github, local)
        /\ WalkCursor(state) /\ WalkChain(state) /\ WalkAttempt(github, local, state) /\ WalkClean(local)
        /\ WalkPlaced(github, local, state, proc)
    BY DEF WalkInv, WalkGood
  <1>4. PICK heads : heads = [github.head EXCEPT ![m] = head]
    OBVIOUS
  <1>5. PICK ours : ours = github.ours \cup {head}
    OBVIOUS
  <1>6. github' = [github EXCEPT !.head = heads, !.ours = ours]
    BY <1>2, <1>4, <1>5
  <1>7. /\ github \in WalkSource /\ github.head \in [Walk!Members -> Walk!Heads] /\ github.ours \in SUBSET Walk!Heads
        /\ head \in Walk!Heads
        /\ proc \in WalkProcess /\ Walk!NoHead = {}
    BY <1>1, WalkReading, WalkConstants
  <1>8. /\ heads \in [Walk!Members -> Walk!Heads] /\ heads[m] = head /\ \A k \in Walk!Members : k # m =>
             heads[k] = github.head[k]
    BY <1>4, <1>7
  <1>9. /\ github' \in WalkSource /\ github'.head = heads /\ github'.ours = ours /\ github'.serial = github.serial
    BY <1>5, <1>6, <1>7, <1>8 DEF WalkSource
  <1>10. local[m].pending # Walk!NoPush /\ WalkBelow(state) \subseteq head /\ m = state.cursor
    BY <1>1, <1>2, <1>3 DEF WalkPlaced
  <1>11. PICK x \in 1..github.serial : WalkFresh(x, m, github, local)
    BY <1>3, <1>10 DEF WalkAnnounced
  <1>12. /\ head = github.head[m] \cup {x} /\ x \in Nat /\ \A y \in github.head[m] : y < x
         /\ \A k \in Walk!Members : x \notin github.head[k]
    BY <1>1, <1>2, <1>11, WalkReading DEF WalkFresh
  <1>13. WalkNewer(head, github.head[m]) /\ head # github.head[m]
    BY <1>12 DEF WalkNewer
  <1>14. WalkKnown(github', local)
    BY <1>1, <1>3, <1>5, <1>7, <1>8, <1>9, <1>12 DEF WalkKnown
  <1>15. WalkAnnounced(github', local)
    <2>1. SUFFICES ASSUME NEW k \in Walk!Members, local[k].pending # Walk!NoPush
                   PROVE  /\ heads[k] = local[k].pending.previous \/ WalkNewer(heads[k], local[k].pending.previous)
                          /\ \E y \in 1..github.serial : WalkFresh(y, k, github', local)
      BY <1>9 DEF WalkAnnounced
    <2>2. CASE k = m
      <3>1. WalkFresh(x, m, github', local)
        BY <1>2, <1>8, <1>9, <1>11, <1>13 DEF WalkFresh
      <3> QED
        BY <1>2, <1>8, <1>13, <2>2, <3>1
    <2>3. CASE k # m
      <3>1. PICK y \in 1..github.serial : WalkFresh(y, k, github, local)
        BY <1>3, <2>1 DEF WalkAnnounced
      <3>2. WalkFresh(y, k, github', local)
        BY <1>1, <1>8, <1>9, <2>3, <3>1 DEF WalkFresh
      <3> QED
        BY <1>3, <1>8, <2>1, <2>3, <3>2 DEF WalkAnnounced
    <2> QED
      BY <2>2, <2>3
  <1>16. WalkAccounted(github', local)
    <2>1. \A k \in Walk!Members : k # m => github.head[k] # head
      BY <1>12
    <2> QED
      BY <1>1, <1>3, <1>5, <1>8, <1>9, <2>1 DEF WalkAccounted
  <1>17. WalkAttempt(github', local, state)
    BY <1>3, <1>8, <1>9, <1>10 DEF WalkAttempt
  <1>18. proc' \in WalkProcess /\ proc'.pc = "confirm" /\ proc'.fixed = m
    BY <1>2, <1>7 DEF WalkProcess, WalkPcs
  <1>19. WalkPlaced(github', local, state, proc')
    BY <1>10, <1>18 DEF WalkPlaced
  <1>20. WalkInv'
    BY <1>2, <1>3, <1>9, <1>14, <1>15, <1>16, <1>17, <1>18, <1>19 DEF WalkInv, WalkGood, WalkTypes
  <1> QED
    BY <1>8, <1>9, <1>12, <1>20
LEMMA WalkOthersMove ==
  ASSUME Walk!CiStackAssumption, WalkInv, Walk!OthersMove
  PROVE  WalkInv'
  <1>1. /\ budget > 0 /\ budget' = budget - 1 /\ UNCHANGED <<local, state, proc>> /\ budget' \in 0..MaxMoves
    BY WalkConstants DEF Walk!OthersMove, WalkInv, WalkTypes
  <1>2. /\ github \in WalkSource /\ github.head \in [Walk!Members -> Walk!Heads] /\ github.serial \in Nat
        /\ github.serial >= N
        /\ github.red \in SUBSET Walk!Members /\ Walk!Heads = SUBSET (1..MaxCommits) /\ Walk!NoHead = {} /\ N \in Nat
        /\ MaxCommits \in Nat
    BY WalkReading, WalkConstants DEF WalkSource
  <1>3. \A k \in Walk!Members : github.head[k] # Walk!NoHead /\ github.head[k] \subseteq 1..github.serial
    BY DEF WalkInv, WalkGood, WalkKnown
  <1>4. /\ WalkCursor(state) /\ WalkChain(state) /\ WalkClean(local) /\ local \in [Walk!Members -> WalkFile]
        /\ state \in WalkState /\ proc \in WalkProcess
    BY WalkReading DEF WalkInv, WalkGood
  <1>5. ASSUME github' \in WalkSource, WalkKnown(github', local), WalkAnnounced(github', local),
               WalkAccounted(github', local), WalkAttempt(github', local, state),
                 WalkPlaced(github', local, state, proc)
        PROVE  WalkInv'
    BY <1>1, <1>4, <1>5 DEF WalkInv, WalkGood, WalkTypes
  <1>6. ASSUME NEW m \in Walk!Members, NEW base \in {github.head[m], Walk!NoHead}, Walk!Fresh <= MaxCommits,
               github' = [github EXCEPT !.head[m] = base \cup {Walk!Fresh}, !.serial = Walk!Fresh]
        PROVE  WalkInv'
    <2>1. PICK x : x = github.serial + 1
      OBVIOUS
    <2>2. PICK heads : heads = [github.head EXCEPT ![m] = base \cup {x}]
      OBVIOUS
    <2>3. github' = [github EXCEPT !.head = heads, !.serial = x] /\ x <= MaxCommits
      BY <1>6, <2>1, <2>2 DEF Walk!Fresh
    <2>4. x \in Nat /\ x > github.serial /\ x \in N..MaxCommits /\ 1..github.serial \subseteq 1..x /\ x \in 1..x /\
            x \in 1..MaxCommits
      BY <1>2, <2>1, <2>3
    <2>5. base \subseteq github.head[m] /\ base \in Walk!Heads
      BY <1>2, <1>6
    <2>6. base \cup {x} \in Walk!Heads
      BY <1>2, <2>4, <2>5
    <2>7. /\ heads \in [Walk!Members -> Walk!Heads] /\ heads[m] = base \cup {x} /\ \A k \in Walk!Members : k # m =>
               heads[k] = github.head[k]
      BY <1>2, <2>2, <2>6
    <2>8. /\ github' \in WalkSource /\ github'.head = heads /\ github'.serial = x /\ github'.ours = github.ours
      BY <1>2, <2>3, <2>4, <2>7 DEF WalkSource
    <2>9. ASSUME NEW k \in Walk!Members
          PROVE  /\ heads[k] # Walk!NoHead /\ heads[k] \subseteq 1..x
                 /\ heads[k] = github.head[k] \/ \E y \in heads[k] : y > github.serial
                 /\ \A y \in heads[k] : y > github.serial \/ \E j \in Walk!Members : y \in github.head[j]
      <3>1. CASE k = m
        BY <1>2, <1>3, <2>4, <2>5, <2>7, <3>1
      <3>2. CASE k # m
        BY <1>3, <2>4, <2>7, <3>2
      <3> QED
        BY <3>1, <3>2
    <2> QED
      BY <1>2, <1>5, <2>4, <2>8, <2>9, WalkMoves
  <1>7. ASSUME github' \in WalkSource, github'.head = github.head, github'.serial = github.serial,
          github'.ours = github.ours
        PROVE  WalkInv'
    BY <1>2, <1>3, <1>5, <1>7, WalkMoves
  <1>8. ASSUME NEW m \in Walk!Members, github' = [github EXCEPT !.red = @ \cup {m}]
        PROVE  WalkInv'
    <2>1. github.red \cup {m} \in SUBSET Walk!Members
      BY <1>2
    <2>2. github' \in WalkSource /\ github'.head = github.head /\ github'.serial = github.serial /\
            github'.ours = github.ours
      BY <1>2, <1>8, <2>1 DEF WalkSource
    <2> QED
      BY <1>7, <2>2
  <1>9. ASSUME github' = [github EXCEPT !.changed = TRUE]
        PROVE  WalkInv'
    <2>1. github' \in WalkSource /\ github'.head = github.head /\ github'.serial = github.serial /\
            github'.ours = github.ours
      BY <1>2, <1>9 DEF WalkSource
    <2> QED
      BY <1>7, <2>1
  <1> QED
    BY <1>6, <1>8, <1>9 DEF Walk!OthersMove

LEMMA WalkChecksPass ==
  ASSUME Walk!CiStackAssumption, WalkInv, Walk!ChecksPass
  PROVE  WalkInv'
  <1>1. github' = [github EXCEPT !.red = {}] /\ UNCHANGED <<local, state, proc, budget>> /\ github \in WalkSource
    BY WalkReading DEF Walk!ChecksPass
  <1>2. github' \in WalkSource /\ github'.head = github.head /\ github'.serial = github.serial /\
          github'.ours = github.ours
    BY <1>1 DEF WalkSource
  <1>3. \A k \in Walk!Members : github.head[k] # Walk!NoHead /\ github.head[k] \subseteq 1..github.serial
    BY DEF WalkInv, WalkGood, WalkKnown
  <1>4. /\ WalkKnown(github', local) /\ WalkAnnounced(github', local) /\ WalkAccounted(github', local)
        /\ WalkAttempt(github', local, state) /\ WalkPlaced(github', local, state, proc)
    BY <1>2, <1>3, WalkMoves, WalkReading
  <1> QED
    BY <1>1, <1>2, <1>4 DEF WalkInv, WalkGood, WalkTypes

LEMMA WalkStarts ==
  ASSUME Walk!CiStackAssumption, Walk!Init
  PROVE  WalkInv
  <1>1. PICK heads :
          /\ github = [head |-> heads, red |-> {}, changed |-> FALSE, serial |-> N, ours |-> {}]
          /\ \E aligned \in [Walk!Members -> BOOLEAN] :
               heads = [m \in Walk!Members |-> {m} \cup {k \in 1..(m - 1) : \A j \in (k + 1)..m : aligned[j]}]
    BY DEF Walk!Init
  <1>2. /\ N \in Nat \ {0} /\ MaxCommits \in Nat /\ MaxCommits >= N /\ Walk!Members = 1..N /\ Walk!NoHead = {}
        /\ Walk!Heads = SUBSET (1..MaxCommits)
    BY WalkConstants
  <1>3. heads \in [Walk!Members -> Walk!Heads] /\ \A m \in Walk!Members : heads[m] # {} /\ heads[m] \subseteq 1..N
    <2>1. PICK aligned \in [Walk!Members -> BOOLEAN] :
            heads = [m \in Walk!Members |-> {m} \cup {k \in 1..(m - 1) : \A j \in (k + 1)..m : aligned[j]}]
      BY <1>1
    <2>2. ASSUME NEW m \in Walk!Members PROVE heads[m] # {} /\ heads[m] \subseteq 1..N /\ heads[m] \in Walk!Heads
      <3>1. heads[m] = {m} \cup {k \in 1..(m - 1) : \A j \in (k + 1)..m : aligned[j]}
        BY <2>1
      <3>2. 1..(m - 1) \subseteq 1..N /\ m \in 1..N /\ 1..N \subseteq 1..MaxCommits
        BY <1>2
      <3>3. heads[m] \subseteq 1..N
        BY <3>1, <3>2
      <3> QED
        BY <1>2, <3>1, <3>2, <3>3
    <2> QED
      BY <2>1, <2>2
  <1>4. /\ local = [m \in Walk!Members |-> Walk!NoFile] /\ proc = Walk!Resting /\ budget = MaxMoves
        /\ state = [status |-> "active", cursor |-> 1, ci |-> [m \in Walk!Members |-> "pending"],
                    clean |-> [m \in Walk!Members |-> Walk!NoHead], sent |-> [m \in Walk!Members |-> Walk!NoHead],
                      propagated |-> {},
                    requests |-> {}, guards |-> {}, format |-> Walk!NoAsk, conflict |-> Walk!NoAsk]
    BY DEF Walk!Init
  <1>5. /\ Walk!NoFile \in WalkFile /\ Walk!NoFile.pending = Walk!NoPush /\ Walk!NoFile.clean = Walk!NoHead
    BY WalkConstants DEF Walk!NoFile, WalkFile
  <1>6. local \in [Walk!Members -> WalkFile] /\ \A m \in Walk!Members : local[m] = Walk!NoFile
    BY <1>4, <1>5
  <1>7. /\ github \in WalkSource /\ github.head = heads /\ github.serial = N /\ github.ours = {}
    BY <1>1, <1>2, <1>3 DEF WalkSource
  <1>8. /\ state \in WalkState /\ state.cursor = 1 /\ state.format = Walk!NoAsk /\ state.conflict = Walk!NoAsk
        /\ \A m \in Walk!Members : state.ci[m] = "pending"
    <2>1. 1 \in 1..(N + 1) /\ [m \in Walk!Members |-> Walk!NoHead] \in [Walk!Members -> Walk!Heads]
      BY WalkConstants
    <2> QED
      BY <1>4, <2>1, WalkConstants DEF WalkState
  <1>9. WalkTypes
    BY <1>4, <1>6, <1>7, <1>8, WalkConstants DEF WalkTypes
  <1>10. WalkKnown(github, local)
    <2>1. \A m \in Walk!Members : local[m].pending.head = {} /\ local[m].accepted = {}
      BY <1>2, <1>6, WalkConstants DEF Walk!NoFile
    <2> QED
      BY <1>2, <1>3, <1>7, <2>1 DEF WalkKnown
  <1>11. WalkAnnounced(github, local) /\ WalkAccounted(github, local) /\ WalkClean(local)
    BY <1>5, <1>6, <1>7 DEF WalkAnnounced, WalkAccounted, WalkClean
  <1>12. WalkCursor(state) /\ WalkChain(state)
    BY <1>2, <1>8 DEF WalkCursor, WalkChain
  <1>13. WalkAttempt(github, local, state)
    <2>1. WalkStands(Walk!NoAsk, state)
      BY <1>8, WalkConstants DEF WalkStands
    <2> QED
      BY <1>8, <2>1 DEF WalkAttempt
  <1>14. WalkPlaced(github, local, state, proc)
    BY <1>4, <1>8, WalkRests
  <1> QED
    BY <1>9, <1>10, <1>11, <1>12, <1>13, <1>14 DEF WalkInv, WalkGood

LEMMA WalkSteps ==
  ASSUME Walk!CiStackAssumption, WalkInv, [Walk!Next]_Walk!vars
  PROVE  WalkInv'
  <1>1. CASE Walk!Next1
    BY <1>1, WalkReads DEF Walk!Next1
  <1>2. CASE Walk!Record1
    BY <1>2, WalkReads DEF Walk!Record1, Walk!Current
  <1>3. CASE Walk!Status1
    BY <1>3, WalkReads DEF Walk!Status1
  <1>4. CASE Walk!Propagate1
    BY <1>4, WalkReads DEF Walk!Propagate1
  <1>5. CASE Walk!Format1
    BY <1>5, WalkReads DEF Walk!Format1
  <1>6. CASE Walk!StackStatus
    BY <1>6, WalkUnchanged DEF Walk!StackStatus, Walk!Save, Walk!Result
  <1>7. CASE Walk!Retire \/ Walk!StackNext \/ Walk!StackRecord \/ Walk!StackPropagate \/ Walk!Resolver \/
          Walk!Contained \/ Walk!StackFormat
    BY <1>7, WalkRetires, WalkStackNext, WalkRecords, WalkPropagates, WalkResolves, WalkContained, WalkFormats
  <1>8. CASE \E m \in Walk!Members :
          \/ Walk!MemberPreflight(m) \/ Walk!MemberClear(m) \/ Walk!MemberPublish(m) \/ Walk!MemberPush(m)
          \/ Walk!MemberConfirm(m)
    BY <1>8, WalkMemberPreflight, WalkMemberClear, WalkMemberPublish, WalkMemberPush, WalkMemberConfirm
  <1>9. CASE Walk!Stop
    BY <1>9, WalkUnchanged DEF Walk!Stop
  <1>10. CASE Walk!OthersMove \/ Walk!ChecksPass
    BY <1>10, WalkOthersMove, WalkChecksPass
  <1>11. CASE UNCHANGED Walk!vars
    BY <1>11 DEF Walk!vars, WalkInv, WalkGood, WalkTypes
  <1>12. CASE Walk!Repeated
    BY <1>11, <1>12 DEF Walk!Repeated
  <1> QED
    BY <1>1, <1>2, <1>3, <1>4, <1>5, <1>6, <1>7, <1>8, <1>9, <1>10, <1>11, <1>12 DEF Walk!Next

\* The invariant of the walk, through any deaths and moves of others.
THEOREM WalkInvariance == ASSUME Walk!CiStackAssumption PROVE Walk!Spec => []WalkInv
  <1>1. Walk!Init => WalkInv
    BY WalkStarts
  <1>2. WalkInv /\ [Walk!Next]_Walk!vars => WalkInv'
    BY WalkSteps
  <1> QED
    BY <1>1, <1>2, PTL DEF Walk!Spec

\* Every variable of the walk keeps its type (TypeOK).
THEOREM WalkIsTyped == ASSUME Walk!CiStackAssumption PROVE Walk!Spec => []Walk!TypeOK
  <1>1. ASSUME WalkInv PROVE Walk!TypeOK
    <2>1. /\ github \in WalkSource /\ state \in WalkState /\ proc \in WalkProcess
          /\ local \in [Walk!Members -> WalkFile]
          /\ budget \in 0..MaxMoves
      BY <1>1 DEF WalkInv, WalkTypes
    <2> QED
      BY <2>1 DEF Walk!TypeOK, WalkSource, WalkState, WalkProcess, WalkFile, WalkAsk, WalkPcs
  <1>2. WalkInv => Walk!TypeOK
    BY <1>1
  <1> QED
    BY <1>2, WalkInvariance, PTL

\* The cleared members are a prefix of the stack, each cleared at a head that
\* contains what its predecessor was cleared at (Chain); and a run completes
\* only while every member is green at the live head it was cleared at
\* (CompletesGreen; command_stack_next, stack_record).
THEOREM WalkClearsUpwards == ASSUME Walk!CiStackAssumption PROVE Walk!Spec =>
  []Walk!Chain /\ [][Walk!CompletesGreen]_Walk!vars
  <1>1. WalkInv => Walk!Chain
    BY DEF WalkInv, WalkGood, WalkChain, Walk!Chain, Walk!Contains
  <1>2. ASSUME WalkInv, [Walk!Next]_Walk!vars PROVE [Walk!CompletesGreen]_Walk!vars
    <2>1. SUFFICES ASSUME state.status # "complete", state'.status = "complete"
                   PROVE  \A m \in Walk!Members : state.ci[m] = "clear" /\ github.head[m] = state.clean[m] /\
                          m \notin github.red
      BY DEF Walk!CompletesGreen
    <2>2. state \in WalkState
      BY <1>2, WalkReading
    <2>3. \A s : Walk!StackStop(s) /\ s \in WalkState => state'.status = "stopped"
      BY DEF Walk!StackStop, Walk!Save, Walk!Result, Walk!Stopped, WalkState
    <2>4. state' # state
      BY <2>1
    <2>5. CASE Walk!StackNext
      <3>1. \A m, s : Walk!Dispatch(m, s) /\ s \in WalkState => state'.status \in {s.status, "stopped"}
        BY DEF Walk!Dispatch, Walk!Result, Walk!Stopped, WalkState
      <3>2. CASE Walk!Verified(proc.seen) /\ Walk!Current > N /\ Walk!Save([state EXCEPT !.status = "complete"])
        <4>1. \A m \in Walk!Members : m < state.cursor
          BY <1>2, <3>2, WalkReading, WalkConstants DEF Walk!Current
        <4>2. \A m \in Walk!Members : state.ci[m] = "clear"
          BY <1>2, <4>1 DEF WalkInv, WalkGood, WalkCursor
        <4> QED
          BY <3>2, <4>2 DEF Walk!Verified
      <3>3. CASE ~(Walk!Current > N) /\ Walk!NextActive(Walk!Current)
        <4>1. PICK propagated :
                \/ state' = state
                \/ LET s == [state EXCEPT !.propagated = propagated] IN
                     \/ state' = s \/ state' = [s EXCEPT !.status = "stopped"] \/ Walk!Dispatch(Walk!Current, s)
          BY <3>3 DEF Walk!NextActive, Walk!Result, Walk!Stopped
        <4>2. PICK s : s = [state EXCEPT !.propagated = propagated]
          OBVIOUS
        <4>3. s.status = state.status
          BY <2>2, <4>2 DEF WalkState
        <4>4. state' = s \/ state' = [s EXCEPT !.status = "stopped"] \/ Walk!Dispatch(Walk!Current, s)
          BY <2>4, <4>1, <4>2
        <4>5. Walk!Dispatch(Walk!Current, s) => state'.status \in {s.status, "stopped"}
          BY <2>2, <4>2 DEF Walk!Dispatch, Walk!Result, Walk!Stopped, WalkState
        <4>6. state' = [s EXCEPT !.status = "stopped"] => state'.status = "stopped"
          BY <2>2, <4>2 DEF WalkState
        <4> QED
          BY <2>1, <4>3, <4>4, <4>5, <4>6
      <3>4. CASE Walk!Dispatch(Walk!Current, state)
        BY <2>1, <2>2, <3>1, <3>4
      <3>5. ~Walk!Save(state) /\ ~Walk!StackStop(state)
        BY <2>1, <2>2, <2>3, <2>4 DEF Walk!Save, Walk!Result
      <3>6. ~Walk!Result(state, Walk!Told(state.conflict.fixed, state.conflict.head, FALSE))
        BY <2>4 DEF Walk!Result
      <3> QED
        BY <2>5, <3>2, <3>3, <3>4, <3>5, <3>6, WalkNexts, Zenon
    <2>6. CASE Walk!Next1 \/ Walk!Record1 \/ Walk!Status1 \/ Walk!Propagate1 \/ Walk!Format1
      BY <2>1, <2>2, <2>3, <2>4, <2>6 DEF Walk!Next1, Walk!Record1, Walk!Status1, Walk!Propagate1, Walk!Format1,
        Walk!Refresh
    <2>7. CASE Walk!Retire
      BY <2>1, <2>2, <2>4, <2>7 DEF Walk!Retire, WalkState
    <2>8. CASE Walk!StackRecord
      BY <2>1, <2>2, <2>8 DEF Walk!StackRecord, Walk!StackStop, Walk!Stopped, Walk!Save, Walk!Result, WalkState
    <2>9. CASE Walk!StackPropagate
      BY <2>1, <2>2, <2>3, <2>9 DEF Walk!StackPropagate, WalkState
    <2>10. CASE Walk!Resolver
      BY <2>1, <2>2, <2>10 DEF Walk!Resolver, WalkState
    <2>11. CASE Walk!Contained
      BY <2>1, <2>2, <2>3, <2>11 DEF Walk!Contained, Walk!Save, Walk!Result, WalkState
    <2>12. CASE Walk!StackFormat
      BY <2>1, <2>2, <2>3, <2>12 DEF Walk!StackFormat, Walk!Save, Walk!Result, WalkState
    <2>13. CASE Walk!StackStatus \/ Walk!Stop \/ Walk!OthersMove \/ Walk!ChecksPass \/ Walk!Repeated \/
             UNCHANGED Walk!vars
      BY <2>4, <2>13 DEF Walk!StackStatus, Walk!Save, Walk!Result, Walk!Stop, Walk!OthersMove, Walk!ChecksPass,
        Walk!Repeated, Walk!vars
    <2>14. CASE \E m \in Walk!Members :
             \/ Walk!MemberPreflight(m) \/ Walk!MemberClear(m) \/ Walk!MemberPublish(m) \/ Walk!MemberPush(m)
             \/ Walk!MemberConfirm(m)
      BY <2>4, <2>14 DEF Walk!MemberPreflight, Walk!MemberClear, Walk!MemberPublish, Walk!MemberPush, Walk!MemberConfirm
    <2> QED
      BY <1>2, <2>5, <2>6, <2>7, <2>8, <2>9, <2>10, <2>11, <2>12, <2>13, <2>14 DEF Walk!Next
  <1>3. WalkInv /\ [Walk!Next]_Walk!vars => [Walk!CompletesGreen]_Walk!vars
    BY <1>2
  <1> QED
    BY <1>1, <1>3, WalkInvariance, PTL DEF Walk!Spec

\* A commit of ours that heads a member is announced, accepted or retired on
\* record (Accounted; prepare_pending_stack_push, retire_member_state_work).
THEOREM WalkIsAccounted == ASSUME Walk!CiStackAssumption PROVE Walk!Spec => []Walk!Accounted
  <1>1. WalkInv => Walk!Accounted
    BY DEF WalkInv, WalkGood, WalkAccounted, Walk!Accounted
  <1> QED
    BY <1>1, WalkInvariance, PTL

\* Pushes of the run, its members' and the resolver's, only extend a member
\* (Extends; publish and descendant-propagate).
THEOREM WalkExtends == ASSUME Walk!CiStackAssumption PROVE Walk!Spec => [][Walk!Extends]_Walk!vars
  <1>1. ASSUME WalkInv, [Walk!Next]_Walk!vars PROVE [Walk!Extends]_Walk!vars
    <2>1. SUFFICES ASSUME budget' = budget, NEW m \in Walk!Members, github'.head[m] # github.head[m]
                   PROVE  github.head[m] \subseteq github'.head[m]
      BY DEF Walk!Extends, Walk!Contains
    <2>2. github \in WalkSource /\ github' # github /\ budget \in Nat
      BY <1>1, <2>1, WalkReading, WalkConstants DEF WalkInv, WalkTypes
    <2>3. CASE Walk!Resolver
      <3>1. PICK last \in proc.fixed..N :
              /\ last > proc.fixed => github.head = proc.seen /\ github.serial + last - proc.fixed <= MaxCommits
              /\ github' = [github EXCEPT !.head = Walk!Published(last),
                                          !.serial = IF Walk!Published(last) = github.head THEN @ ELSE @ + last - proc.fixed]
        BY <2>2, <2>3 DEF Walk!Resolver
      <3> QED
        BY <1>1, <2>3, <3>1, WalkPublishes DEF Walk!Resolver
    <2>4. CASE \E k \in Walk!Members : Walk!MemberPush(k)
      <3>1. PICK k \in Walk!Members : Walk!MemberPush(k)
        BY <2>4
      <3>2. github.head[k] \subseteq github'.head[k]
        BY <1>1, <3>1, WalkMemberPush
      <3>3. k # m => github'.head[m] = github.head[m]
        BY <2>2, <3>1 DEF Walk!MemberPush, WalkSource
      <3> QED
        BY <2>1, <3>2, <3>3
    <2>5. CASE \E k \in Walk!Members : Walk!MemberPublish(k)
      BY <2>1, <2>2, <2>5 DEF Walk!MemberPublish, WalkSource
    <2>6. CASE Walk!OthersMove
      BY <2>1, <2>2, <2>6 DEF Walk!OthersMove
    <2>7. CASE Walk!ChecksPass
      BY <2>1, <2>2, <2>7 DEF Walk!ChecksPass, WalkSource
    <2>8. CASE Walk!Next1 \/ Walk!Record1 \/ Walk!Status1 \/ Walk!Propagate1 \/ Walk!Format1
      BY <2>2, <2>8 DEF Walk!Next1, Walk!Record1, Walk!Status1, Walk!Propagate1, Walk!Format1, Walk!Refresh,
        Walk!StackStop, Walk!Save
    <2>9. CASE Walk!Retire \/ Walk!StackNext \/ Walk!StackStatus \/ Walk!StackRecord \/ Walk!StackPropagate \/
            Walk!Contained \/ Walk!StackFormat
      BY <2>2, <2>9 DEF Walk!Retire, Walk!StackNext, Walk!StackStatus, Walk!StackRecord, Walk!StackPropagate,
        Walk!Contained, Walk!StackFormat, Walk!StackStop, Walk!Save
    <2>10. CASE \E k \in Walk!Members : Walk!MemberPreflight(k) \/ Walk!MemberClear(k) \/ Walk!MemberConfirm(k)
      BY <2>2, <2>10 DEF Walk!MemberPreflight, Walk!MemberClear, Walk!MemberConfirm
    <2>11. CASE Walk!Stop \/ Walk!Repeated \/ UNCHANGED Walk!vars
      BY <2>2, <2>11 DEF Walk!Stop, Walk!Repeated, Walk!vars
    <2> QED
      BY <1>1, <2>3, <2>4, <2>5, <2>6, <2>7, <2>8, <2>9, <2>10, <2>11 DEF Walk!Next
  <1>2. WalkInv /\ [Walk!Next]_Walk!vars => [Walk!Extends]_Walk!vars
    BY <1>1
  <1> QED
    BY <1>2, WalkInvariance, PTL DEF Walk!Spec

=============================================================================
