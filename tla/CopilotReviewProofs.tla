------------------------- MODULE CopilotReviewProofs -------------------------
(***************************************************************************)
(* Theorems about CopilotReview, alone and bounded, source-only or not, for*)
(* any limit of iterations, any number of stable readings, of sweeps, of   *)
(* reviews and of changes by others.                                       *)
(***************************************************************************)
EXTENDS CopilotReview, FiniteSetTheorems, TLAPS

CopilotExits == {"none", "error", "waiting", "cleared", "exhausted", "skipped", "source_changed"}

CopilotSnapshot == [head : Heads, comments : SUBSET Nat, review : Nat, clean : BOOLEAN]
CopilotTask == [status : TaskStates, snapshot : CopilotSnapshot, commits : BOOLEAN]
CopilotMonitoring == [status : {"none", "requesting", "requested", "running", "completed"}, head : Heads, baseline :
  Nat]
CopilotPoll == [snapshot : CopilotSnapshot, count : 0..StabilityPolls]
CopilotFile == [exists : BOOLEAN, sweep : 1..MaxSweeps, scope : 0..MaxSweeps, terminal : BOOLEAN, blocked : BOOLEAN,
                last : Results, clean : Heads, head : Heads, iterations : Nat, base : Nat,
                queue : {"none", "active", "clean", "published"}, task : CopilotTask, monitoring : CopilotMonitoring,
                poll : CopilotPoll, processed : SUBSET CopilotSnapshot]
CopilotHosted == [status : {"none", "running", "success", "failure"}, snapshot : CopilotSnapshot, commits : BOOLEAN,
                  asked : SUBSET ((1..MaxSweeps) \X CopilotSnapshot)]
CopilotEntry == [head : Heads, kind : Kinds, open : BOOLEAN, reply : Heads, asked : BOOLEAN]
CopilotSource == [head : Heads, heads : SUBSET Heads, requested : Heads, reviews : Seq(CopilotEntry)]
CopilotProcess == [pc : Pcs, exit : CopilotExits, snapshot : CopilotSnapshot, todo : SUBSET Nat]

\* The types in full.
CopilotTypes ==
  /\ github \in CopilotSource /\ local \in Heads /\ hosted \in CopilotHosted /\ state \in CopilotFile
  /\ proc \in CopilotProcess /\ budget \in 0..MaxMoves

CopilotOpen == {"preparing", "pending", "running", "validated", "published"}
CopilotFailed == {"failed", "failed_after_publication"}

\* Where the process stands the file says so.
CopilotPlaced(p, s) ==
  /\ p.pc \in {"preflight", "decide"} => s.task.status \in TerminalTasks
  /\ p.pc = "dispatch" => s.task.status = "preparing"
  /\ p.pc \in {"send", "worker"} => s.task.status = IF Bounded THEN "pending" ELSE "running"
  /\ p.pc \in {"import", "push", "confirm"} => s.task.status = "validated"
  /\ p.pc \in {"live", "reply", "resolve", "next", "verify"} => s.task.status = "published"
  /\ p.pc \in {"ask", "send_request", "save_request"} => s.task.status \in TerminalTasks \cup {"published"}
  /\ p.pc = "watch" /\ ~Bounded => s.task.status \in TerminalTasks

\* A task on its way can still be paid for.
CopilotPaid(s) ==
  /\ s.base <= s.iterations /\ s.iterations - s.base <= MaxIterations /\ s.iterations <= MaxIterations * MaxSweeps
  /\ s.task.status \in CopilotOpen =>
       s.iterations - s.base < MaxIterations /\ s.iterations < MaxIterations * MaxSweeps
  /\ ~Bounded => s.base = 0

\* In a pipeline a task that runs is the file's, or of a coordinator that failed; what
\* was asked about in this sweep is spent, or it is the file's task, and that was sent.
CopilotAsked(p, s, h) ==
  Bounded =>
    /\ h.status = "running" =>
         p.pc \in {"idle", "worker", "watch", "end"} /\ s.task.status \in {"pending", "failed"}
    /\ \A e \in h.asked :
         /\ e[1] <= s.sweep
         /\ e[1] = s.sweep =>
              /\ s.scope = s.sweep
              /\ \/ e[2] \in s.processed
                 \/ e[2] = s.task.snapshot /\ s.task.status \in (CopilotOpen \cup CopilotFailed) \ {"preparing"} /\
                      p.pc # "send"
    /\ p.pc \in {"dispatch", "send"} => s.scope = s.sweep /\ s.task.snapshot \notin s.processed
    /\ p.pc = "decide" /\ p.snapshot.comments # {} => p.snapshot \notin s.processed

\* A clearance that stands for a review has it; an error leaves none.
CopilotEarned(s, g) ==
  /\ s.clean # NoHead /\ s.last \in {"no_unresolved_comments", "review_no_comments"} =>
       \E k \in DOMAIN g.reviews : g.reviews[k].head = s.clean /\ g.reviews[k].kind = "clean"
  /\ s.last = "coordinator_error" => s.clean = NoHead

CopilotFinal(s) == IF s.task.commits THEN Append(s.task.snapshot.head, 0) ELSE s.task.snapshot.head

\* A reply names a head that was published, and the threads are answered before
\* one of them is resolved.
CopilotReplied(p, s, g) ==
  /\ g.head \in g.heads /\ \A k \in DOMAIN g.reviews : g.reviews[k].reply \in g.heads \cup {NoHead}
  /\ p.todo \subseteq DOMAIN g.reviews
  /\ p.pc \in {"live", "reply"} => CopilotFinal(s) \in g.heads
  /\ p.pc = "resolve" => \A k \in p.todo : g.reviews[k].reply = CopilotFinal(s)

CopilotGood(p, s, h, g) ==
  CopilotPlaced(p, s) /\ CopilotPaid(s) /\ CopilotAsked(p, s, h) /\ CopilotEarned(s, g) /\ CopilotReplied(p, s, g)

CopilotInv == CopilotTypes /\ CopilotGood(proc, state, hosted, github)

\* A set of natural numbers below a bound has a least and a greatest one.
LEMMA CopilotLeast ==
  ASSUME NEW n \in Nat, NEW S, S \subseteq 1..n, S # {}
  PROVE  \E k \in S : \A j \in S : k <= j
  <1> DEFINE Downs == {x \in SUBSET (1..n) : \E k \in S : x = 1..k}
  <1>1. IsFiniteSet(1..n)
    BY FS_Interval
  <1>2. IsWellFoundedOn(StrictSubsetOrdering(1..n), SUBSET (1..n))
    BY <1>1, FS_FiniteSubsetsOfFinite, FS_StrictSubsetOrderingWellFounded
  <1>3. Downs \subseteq SUBSET (1..n) /\ Downs # {}
    <2>1. PICK k \in S : TRUE
      OBVIOUS
    <2>2. 1..k \in SUBSET (1..n)
      BY <2>1
    <2> QED
      BY <2>1, <2>2
  <1> HIDE DEF Downs
  <1>4. PICK x \in Downs : \A y \in Downs : <<y, x>> \notin StrictSubsetOrdering(1..n)
    BY <1>2, <1>3, WFMin
  <1> USE DEF Downs
  <1>5. PICK k \in S : x = 1..k
    OBVIOUS
  <1>6. ASSUME NEW j \in S, j < k PROVE FALSE
    <2>1. 1..j \in Downs
      OBVIOUS
    <2>2. 1..j \subseteq x /\ 1..j # x /\ x \in SUBSET (1..n) /\ 1..j \in SUBSET (1..n)
      BY <1>3, <1>5, <1>6
    <2> HIDE DEF Downs
    <2>3. <<1..j, x>> \in StrictSubsetOrdering(1..n)
      BY <2>2 DEF StrictSubsetOrdering
    <2> QED
      BY <1>4, <2>1, <2>3
  <1> QED
    BY <1>6

LEMMA CopilotGreatest ==
  ASSUME NEW n \in Nat, NEW S, S \subseteq 1..n, S # {}
  PROVE  \E k \in S : \A j \in S : j <= k
  <1> DEFINE Down == {d \in 1..n : n + 1 - d \in S}
  <1>1. Down \subseteq 1..n /\ Down # {}
    <2>1. PICK k \in S : k \in 1..n
      OBVIOUS
    <2>2. n + 1 - k \in Down
      BY <2>1
    <2> QED
      BY <2>2
  <1> HIDE DEF Down
  <1>2. PICK d \in Down : \A e \in Down : d <= e
    BY <1>1, CopilotLeast
  <1> USE DEF Down
  <1>3. PICK k \in S : d = n + 1 - k
    OBVIOUS
  <1>4. \A j \in S : n + 1 - j \in Down
    <2> SUFFICES ASSUME NEW j \in S PROVE n + 1 - j \in Down
      OBVIOUS
    <2>1. j \in 1..n
      OBVIOUS
    <2> QED
      BY <2>1
  <1> HIDE DEF Down
  <1>5. \A j \in S : d <= n + 1 - j
    BY <1>2, <1>4
  <1> QED
    BY <1>3, <1>5

LEMMA CopilotConstants ==
  ASSUME CopilotReviewAssumption
  PROVE  /\ MaxIterations \in Nat \ {0} /\ MaxSweeps \in Nat \ {0} /\ StabilityPolls \in Nat \ {0} /\ MaxReviews \in Nat
         /\ MaxMoves \in Nat /\ Bounded \in BOOLEAN /\ SourceOnly \in BOOLEAN
         /\ MaxIterations * MaxSweeps \in Nat /\ MaxIterations <= MaxIterations * MaxSweeps
         /\ NoHead \in Heads /\ NoSnapshot \in CopilotSnapshot /\ NoMonitoring \in CopilotMonitoring
         /\ NoTask \in CopilotTask /\ NoTask.status = "none"
         /\ NoFile \in CopilotFile /\ NoFile.task.status = "none" /\ NoFile.base = 0 /\ NoFile.iterations = 0
         /\ NoFile.clean = NoHead /\ NoFile.last = "none" /\ NoFile.poll \in CopilotPoll /\ NoFile.exists = FALSE
         /\ NoFile.scope = 0 /\ NoFile.sweep = 1
  <1>1. /\ MaxIterations \in Nat \ {0} /\ MaxSweeps \in Nat \ {0} /\ StabilityPolls \in Nat \ {0} /\ MaxReviews \in Nat
        /\ MaxMoves \in Nat /\ Bounded \in BOOLEAN /\ SourceOnly \in BOOLEAN
    BY DEF CopilotReviewAssumption
  <1>2. \A a \in Nat \ {0}, b \in Nat \ {0} : a * b \in Nat /\ a <= a * b
    OBVIOUS
  <1>3. MaxIterations * MaxSweeps \in Nat /\ MaxIterations <= MaxIterations * MaxSweeps
    BY <1>1, <1>2
  <1>4. PICK head, snapshot, monitoring : head = NoHead /\ snapshot = NoSnapshot /\ monitoring = NoMonitoring
    OBVIOUS
  <1>5. head \in Heads /\ snapshot \in CopilotSnapshot /\ monitoring \in CopilotMonitoring
    BY <1>4 DEF NoHead, NoSnapshot, NoMonitoring, Heads, CopilotSnapshot, CopilotMonitoring
  <1>6. PICK task, poll : task = NoTask /\ poll = [snapshot |-> snapshot, count |-> 0]
    OBVIOUS
  <1>7. task = [status |-> "none", snapshot |-> snapshot, commits |-> FALSE]
    BY <1>4, <1>6 DEF NoTask
  <1>8. task \in CopilotTask /\ task.status = "none" /\ poll \in CopilotPoll
    BY <1>1, <1>5, <1>6, <1>7 DEF CopilotTask, TaskStates, CopilotPoll
  <1>9. NoFile = [exists |-> FALSE, sweep |-> 1, scope |-> 0, terminal |-> FALSE, blocked |-> FALSE, last |-> "none",
                  clean |-> head, head |-> head, iterations |-> 0, base |-> 0, queue |-> "none", task |-> task,
                  monitoring |-> monitoring, poll |-> poll, processed |-> {}]
    BY <1>4, <1>6 DEF NoFile
  <1>10. /\ NoFile \in CopilotFile /\ NoFile.task = task /\ NoFile.base = 0 /\ NoFile.iterations = 0
         /\ NoFile.clean = head /\ NoFile.last = "none" /\ NoFile.poll = poll /\ NoFile.exists = FALSE
         /\ NoFile.scope = 0 /\ NoFile.sweep = 1
    BY <1>1, <1>5, <1>8, <1>9 DEF CopilotFile, Results
  <1> QED
    BY <1>1, <1>3, <1>4, <1>5, <1>6, <1>8, <1>10

LEMMA CopilotRest ==
  ASSUME CopilotReviewAssumption, NEW exit \in CopilotExits
  PROVE  Resting(exit) \in CopilotProcess /\ Resting(exit).pc = "idle" /\ Resting(exit).todo = {} /\
         Resting(exit).exit = exit
  <1>1. PICK snapshot : snapshot = NoSnapshot
    OBVIOUS
  <1>2. Resting(exit) = [pc |-> "idle", exit |-> exit, snapshot |-> snapshot, todo |-> {}]
    BY <1>1 DEF Resting
  <1>3. snapshot \in CopilotSnapshot
    BY <1>1, CopilotConstants
  <1> QED
    BY <1>2, <1>3 DEF CopilotProcess, Pcs

LEMMA CopilotReading ==
  ASSUME CopilotInv
  PROVE  /\ github \in CopilotSource /\ local \in Heads /\ hosted \in CopilotHosted /\ state \in CopilotFile
         /\ proc \in CopilotProcess /\ budget \in 0..MaxMoves
         /\ state.task \in CopilotTask /\ state.task.snapshot \in CopilotSnapshot /\ Source \in Heads
         /\ CopilotPlaced(proc, state) /\ CopilotPaid(state) /\ CopilotAsked(proc, state, hosted)
         /\ CopilotEarned(state, github) /\ CopilotReplied(proc, state, github)
  BY DEF CopilotInv, CopilotTypes, CopilotGood, CopilotFile, CopilotTask, CopilotSnapshot, Source

\* The invariant of the next state, from the values that it has.
LEMMA CopilotThen ==
  ASSUME NEW g \in CopilotSource, NEW l \in Heads, NEW h \in CopilotHosted, NEW s \in CopilotFile,
         NEW p \in CopilotProcess,
         github' = g, local' = l, hosted' = h, state' = s, proc' = p, budget' \in 0..MaxMoves,
         CopilotGood(p, s, h, g)
  PROVE  CopilotInv'
  BY DEF CopilotInv, CopilotTypes, CopilotGood, CopilotPlaced, CopilotPaid, CopilotAsked, CopilotEarned, CopilotReplied,
         CopilotFinal

LEMMA CopilotInit ==
  ASSUME CopilotReviewAssumption, Init
  PROVE  CopilotInv
  <1>1. PICK head, snapshot, file, p : head = <<1>> /\ snapshot = NoSnapshot /\ file = NoFile /\ p = Resting("none")
    OBVIOUS
  <1>2. head \in Heads /\ NoHead \in Heads
    BY <1>1, CopilotConstants DEF Heads
  <1>3. p \in CopilotProcess /\ p.pc = "idle" /\ p.todo = {}
    BY <1>1, CopilotRest DEF CopilotExits
  <1>4. PICK reviews : /\ \/ reviews = <<>>
                          \/ \E kind \in Kinds : reviews = <<[head |-> head, kind |-> kind, open |-> kind = "thread",
                                                              reply |-> NoHead, asked |-> FALSE]>>
                       /\ github = [head |-> head, heads |-> {head}, requested |-> NoHead, reviews |-> reviews]
    BY <1>1 DEF Init
  <1>5. reviews \in Seq(CopilotEntry) /\ \A k \in DOMAIN reviews : reviews[k].reply = NoHead
    <2>1. CASE reviews = <<>>
      BY <2>1
    <2>2. CASE \E kind \in Kinds : reviews = <<[head |-> head, kind |-> kind, open |-> kind = "thread",
            reply |-> NoHead,
                                                asked |-> FALSE]>>
      <3>1. PICK kind \in Kinds, open \in BOOLEAN :
              reviews = <<[head |-> head, kind |-> kind, open |-> open, reply |-> NoHead,
                                                                asked |-> FALSE]>>
        BY <2>2
      <3>2. [head |-> head, kind |-> kind, open |-> open, reply |-> NoHead, asked |-> FALSE] \in CopilotEntry
        BY <1>2 DEF CopilotEntry
      <3> QED
        BY <3>1, <3>2
    <2> QED
      BY <1>4, <2>1, <2>2
  <1>6. github \in CopilotSource
    BY <1>2, <1>4, <1>5 DEF CopilotSource
  <1>7. local = head /\ hosted = [status |-> "none", snapshot |-> snapshot, commits |-> FALSE, asked |-> {}]
        /\ state = file /\ proc = p /\ budget = MaxMoves
    BY <1>1 DEF Init, NoHosted
  <1>8. snapshot \in CopilotSnapshot /\ file \in CopilotFile /\ MaxMoves \in Nat
    BY <1>1, CopilotConstants
  <1>9. CopilotTypes
    BY <1>2, <1>3, <1>6, <1>7, <1>8 DEF CopilotTypes, CopilotHosted
  <1>10. file.task.status = "none" /\ file.base = 0 /\ file.iterations = 0 /\ file.clean = NoHead /\ file.last = "none"
    BY <1>1, CopilotConstants
  <1>11. CopilotPlaced(proc, state) /\ CopilotAsked(proc, state, hosted)
    BY <1>3, <1>7 DEF CopilotPlaced, CopilotAsked
  <1>12. CopilotPaid(state)
    BY <1>7, <1>10, CopilotConstants DEF CopilotPaid, CopilotOpen
  <1>13. CopilotEarned(state, github)
    BY <1>7, <1>10 DEF CopilotEarned
  <1>14. CopilotReplied(proc, state, github)
    BY <1>3, <1>4, <1>5, <1>7 DEF CopilotReplied
  <1> QED
    BY <1>9, <1>11, <1>12, <1>13, <1>14 DEF CopilotInv, CopilotGood

\* A step that leaves the pull request and the hosted task alone, and of the file's
\* task no more than what becomes of it.
LEMMA CopilotMoves ==
  ASSUME CopilotReviewAssumption, CopilotInv, NEW p \in CopilotProcess, NEW s \in CopilotFile,
         proc' = p, state' = s, local' \in Heads, UNCHANGED <<github, hosted, budget>>,
         s.sweep = state.sweep, s.scope = state.scope, s.processed = state.processed, s.iterations = state.iterations,
         s.base = state.base, s.task.snapshot = state.task.snapshot,
         s.task.status \in CopilotOpen => state.task.status \in CopilotOpen,
         state.task.status \in (CopilotOpen \cup CopilotFailed) \ {"preparing"} =>
           s.task.status \in (CopilotOpen \cup CopilotFailed) \ {"preparing"},
         Bounded /\ hosted.status = "running" =>
           p.pc \in {"idle", "worker", "watch", "end"} /\ s.task.status \in {"pending", "failed"},
         p.pc \notin {"decide", "dispatch", "send", "resolve"},
         p.todo \subseteq DOMAIN github.reviews,
         p.pc \in {"live", "reply"} => CopilotFinal(s) \in github.heads,
         CopilotPlaced(p, s), CopilotEarned(s, github)
  PROVE  CopilotInv'
  <1>1. CopilotPaid(s)
    BY CopilotReading DEF CopilotPaid
  <1>2. CopilotAsked(p, s, hosted)
    BY CopilotReading DEF CopilotAsked
  <1>3. CopilotReplied(p, s, github)
    BY CopilotReading DEF CopilotReplied
  <1> QED
    BY <1>1, <1>2, <1>3, CopilotThen, CopilotReading DEF CopilotGood

\* The same, where the file's task stays as it is.
LEMMA CopilotKeeps ==
  ASSUME CopilotReviewAssumption, CopilotInv, NEW p \in CopilotProcess, NEW s \in CopilotFile,
         proc' = p, state' = s, local' \in Heads, UNCHANGED <<github, hosted, budget>>,
         s.sweep = state.sweep, s.scope = state.scope, s.processed = state.processed, s.iterations = state.iterations,
         s.base = state.base, s.task = state.task,
         p.pc \in {"idle", "watch", "end"} \/ p.pc = proc.pc \/ proc.pc \notin {"idle", "worker", "watch", "end"},
         p.pc \notin {"decide", "dispatch", "send", "live", "reply", "resolve"}, p.todo \subseteq DOMAIN github.reviews,
         CopilotPlaced(p, s), CopilotEarned(s, github)
  PROVE  CopilotInv'
  <1>1. Bounded /\ hosted.status = "running" =>
          p.pc \in {"idle", "worker", "watch", "end"} /\ s.task.status \in {"pending", "failed"}
    BY CopilotReading DEF CopilotAsked
  <1> QED
    BY <1>1, CopilotMoves

\* The process is gone.
LEMMA CopilotLeaves ==
  ASSUME CopilotReviewAssumption, CopilotInv, NEW exit \in CopilotExits, NEW s \in CopilotFile,
         Exit(exit), state' = s, UNCHANGED <<github, local, hosted, budget>>,
         s.sweep = state.sweep, s.scope = state.scope, s.processed = state.processed, s.iterations = state.iterations,
         s.base = state.base, s.task = state.task, CopilotEarned(s, github)
  PROVE  CopilotInv'
  <1>1. PICK p : p = Resting(exit)
    OBVIOUS
  <1>2. p \in CopilotProcess /\ p.pc = "idle" /\ p.todo = {} /\ proc' = p
    BY <1>1, CopilotRest DEF Exit
  <1>3. CopilotPlaced(p, s)
    BY <1>2 DEF CopilotPlaced
  <1> QED
    BY <1>2, <1>3, CopilotKeeps, CopilotReading

\* What an error does to the file.
LEMMA CopilotFailing ==
  ASSUME NEW f \in CopilotFile, NEW s, s = Failed(f)
  PROVE  /\ s \in CopilotFile /\ s.sweep = f.sweep /\ s.scope = f.scope /\ s.processed = f.processed
         /\ s.iterations = f.iterations /\ s.base = f.base
         /\ s.task.snapshot = f.task.snapshot /\ (s.task = f.task \/ s.task.status \in CopilotFailed)
         /\ f.task.status \in {"pending", "failed"} => s.task.status \in {"pending", "failed"}
         /\ f.task.status \in TerminalTasks => s.task = f.task
         /\ s.clean = NoHead \/ (s.clean = f.clean /\ s.last = f.last)
         /\ s.last = "coordinator_error" => s.clean = NoHead \/ (s.clean = f.clean /\ s.last = f.last)
  <1>1. f.task \in CopilotTask
    BY DEF CopilotFile
  <1>2. PICK status : status = IF f.task.status = "published" THEN "failed_after_publication" ELSE "failed"
    OBVIOUS
  <1>3. PICK task : task = IF f.task.status \in TerminalTasks THEN f.task ELSE [f.task EXCEPT !.status = status]
    OBVIOUS
  <1>4. /\ task \in CopilotTask /\ task.snapshot = f.task.snapshot /\ (task = f.task \/ task.status \in CopilotFailed)
        /\ f.task.status \in {"pending", "failed"} => task.status = "failed"
        /\ f.task.status \in TerminalTasks => task = f.task
    BY <1>1, <1>2, <1>3 DEF CopilotTask, TaskStates, CopilotFailed, TerminalTasks
  <1>5. s = IF ~f.exists THEN f ELSE IF Ended(f) THEN [f EXCEPT !.task = task]
            ELSE [f EXCEPT !.task = task, !.clean = NoHead, !.last = "coordinator_error", !.blocked = TRUE]
    BY <1>2, <1>3 DEF Failed
  <1>6. NoHead \in Heads
    BY DEF NoHead, Heads
  <1>7. CASE ~f.exists
    BY <1>5, <1>7
  <1>8. CASE f.exists /\ Ended(f)
    <2>1. s = [f EXCEPT !.task = task]
      BY <1>5, <1>8
    <2> QED
      BY <1>4, <2>1 DEF CopilotFile
  <1>9. CASE f.exists /\ ~Ended(f)
    <2>1. s = [f EXCEPT !.task = task, !.clean = NoHead, !.last = "coordinator_error", !.blocked = TRUE]
      BY <1>5, <1>9
    <2>2. "coordinator_error" \in Results
      BY DEF Results
    <2>3. /\ s.task = task /\ s.sweep = f.sweep /\ s.scope = f.scope /\ s.processed = f.processed
          /\ s.iterations = f.iterations /\ s.base = f.base /\ s.clean = NoHead
      BY <2>1 DEF CopilotFile
    <2>4. s \in CopilotFile
      BY <1>4, <1>6, <2>1, <2>2 DEF CopilotFile
    <2> QED
      BY <1>4, <2>3, <2>4
  <1>10. f.exists \in BOOLEAN
    BY DEF CopilotFile
  <1> QED
    BY <1>7, <1>8, <1>9, <1>10

LEMMA CopilotRaises ==
  ASSUME CopilotReviewAssumption, CopilotInv, Raise
  PROVE  CopilotInv'
  <1>1. PICK s, p : s = Failed(state) /\ p = Resting("error")
    OBVIOUS
  <1>2. p \in CopilotProcess /\ p.pc = "idle" /\ p.todo = {}
    BY <1>1, CopilotRest DEF CopilotExits
  <1>3. state' = s /\ proc' = p /\ UNCHANGED <<github, local, hosted, budget>>
    BY <1>1 DEF Raise, Save, Exit
  <1>4. /\ s \in CopilotFile /\ s.sweep = state.sweep /\ s.scope = state.scope /\ s.processed = state.processed
        /\ s.iterations = state.iterations /\ s.base = state.base
        /\ s.task.snapshot = state.task.snapshot /\ (s.task = state.task \/ s.task.status \in CopilotFailed)
        /\ state.task.status \in {"pending", "failed"} => s.task.status \in {"pending", "failed"}
        /\ s.clean = NoHead \/ (s.clean = state.clean /\ s.last = state.last)
    BY <1>1, CopilotFailing, CopilotReading
  <1>5. CopilotPlaced(p, s)
    BY <1>2 DEF CopilotPlaced
  <1>6. CopilotEarned(s, github)
    BY <1>4, CopilotReading DEF CopilotEarned
  <1>7. s.task.status \in CopilotOpen => state.task.status \in CopilotOpen
    BY <1>4 DEF CopilotOpen, CopilotFailed
  <1>8. state.task.status \in (CopilotOpen \cup CopilotFailed) \ {"preparing"} =>
          s.task.status \in (CopilotOpen \cup CopilotFailed) \ {"preparing"}
    BY <1>4 DEF CopilotOpen, CopilotFailed
  <1>9. Bounded /\ hosted.status = "running" => s.task.status \in {"pending", "failed"}
    BY <1>4, CopilotReading DEF CopilotAsked
  <1> QED
    BY <1>2, <1>3, <1>4, <1>5, <1>6, <1>7, <1>8, <1>9, CopilotMoves, CopilotReading

-----------------------------------------------------------------------------
(* Launch and the first look *)

LEMMA CopilotLaunchAlone ==
  ASSUME CopilotReviewAssumption, CopilotInv, LaunchAlone
  PROVE  CopilotInv'
  <1>1. PICK p, rest, h, s : /\ rest = Resting("none") /\ p = [rest EXCEPT !.pc = "preflight"]
                             /\ h = [hosted EXCEPT !.asked = {}] /\ s = NoFile
    OBVIOUS
  <1>2. rest \in CopilotProcess /\ rest.todo = {}
    BY <1>1, CopilotRest DEF CopilotExits
  <1>3. p \in CopilotProcess /\ p.pc = "preflight" /\ p.todo = {}
    BY <1>1, <1>2 DEF CopilotProcess, Pcs
  <1>4. h \in CopilotHosted
    BY <1>1, CopilotReading DEF CopilotHosted
  <1>5. /\ s \in CopilotFile /\ s.task.status = "none" /\ s.base = 0 /\ s.iterations = 0 /\ s.clean = NoHead
        /\ s.last = "none"
        /\ MaxMoves \in Nat
    BY <1>1, CopilotConstants
  <1>6. /\ ~Bounded /\ proc' = p /\ hosted' = h /\ state' = s /\ UNCHANGED <<github, local>>
        /\ budget' \in 0..MaxMoves
    BY <1>1, <1>5, CopilotReading DEF LaunchAlone, CopilotFile
  <1>7. CopilotPlaced(p, s) /\ CopilotAsked(p, s, h) /\ CopilotEarned(s, github)
    BY <1>3, <1>5, <1>6 DEF CopilotPlaced, CopilotAsked, CopilotEarned, TerminalTasks
  <1>8. CopilotPaid(s)
    BY <1>5, CopilotConstants DEF CopilotPaid, CopilotOpen
  <1>9. CopilotReplied(p, s, github)
    BY <1>3, CopilotReading DEF CopilotReplied
  <1> QED
    BY <1>3, <1>4, <1>5, <1>6, <1>7, <1>8, <1>9, CopilotThen, CopilotReading DEF CopilotGood

LEMMA CopilotLaunchBounded ==
  ASSUME CopilotReviewAssumption, CopilotInv, LaunchBounded
  PROVE  CopilotInv'
  <1>1. PICK sweep \in {state.sweep, state.sweep + 1} \cap (1..MaxSweeps) :
          /\ sweep > state.sweep => state.terminal
          /\ IF sweep = state.sweep /\ state.terminal THEN Save(state) /\ Goto("end")
             ELSE LET s == [state EXCEPT !.exists = TRUE, !.sweep = sweep, !.terminal = FALSE]
                      unfit == s.scope \notin {0, sweep} /\ Verdict(s) = "error" IN
                  /\ Save(s)
                  /\ IF s.monitoring.status \in ActiveMonitoring THEN Goto("watch")
                     ELSE IF unfit THEN Exit("error")
                     ELSE IF s.task.status = "pending" THEN Goto("worker")
                     ELSE IF s.task.status \notin TerminalTasks THEN Exit("error")
                     ELSE proc' = [Resting("none") EXCEPT !.pc = "preflight"]
    BY Zenon DEF LaunchBounded
  <1>2. Bounded /\ proc.pc = "idle" /\ state.sweep \in 1..MaxSweeps /\ sweep \in 1..MaxSweeps /\ state.sweep <= sweep
    BY CopilotReading DEF LaunchBounded, CopilotFile
  <1>3. PICK s : s = IF sweep = state.sweep /\ state.terminal THEN state
                     ELSE [state EXCEPT !.exists = TRUE, !.sweep = sweep, !.terminal = FALSE]
    OBVIOUS
  <1>4. /\ s \in CopilotFile /\ s.sweep = sweep /\ s.scope = state.scope /\ s.processed = state.processed
        /\ s.iterations = state.iterations /\ s.base = state.base /\ s.task = state.task /\ s.clean = state.clean
        /\ s.last = state.last
    BY <1>2, <1>3, CopilotReading DEF CopilotFile
  <1>5. PICK rest, p : rest = Resting("none") /\ p = proc'
    OBVIOUS
  <1>6. state' = s /\ UNCHANGED <<github, local, hosted, budget>>
    BY <1>1, <1>3 DEF Save
  <1>7. \/ p = Resting("error")
        \/ p = [rest EXCEPT !.pc = "preflight"] /\ s.task.status \in TerminalTasks
        \/ p = [proc EXCEPT !.pc = "worker"] /\ s.task.status = "pending"
        \/ p \in {[proc EXCEPT !.pc = "watch"], [proc EXCEPT !.pc = "end"]}
    BY <1>1, <1>3, <1>4, <1>5 DEF Goto, Exit
  <1>8. rest \in CopilotProcess /\ rest.todo = {} /\ proc \in CopilotProcess /\
          proc.todo \subseteq DOMAIN github.reviews
    BY <1>5, CopilotRest, CopilotReading DEF CopilotExits, CopilotReplied
  <1>9. /\ p \in CopilotProcess /\ p.todo \subseteq DOMAIN github.reviews
        /\ \/ p.pc = "idle"
           \/ p.pc = "preflight" /\ s.task.status \in TerminalTasks
           \/ p.pc = "worker" /\ s.task.status = "pending"
           \/ p.pc \in {"watch", "end"}
    <2>1. CASE p = Resting("error")
      BY <2>1, CopilotRest DEF CopilotExits
    <2>2. CASE p = [rest EXCEPT !.pc = "preflight"] /\ s.task.status \in TerminalTasks
      BY <1>8, <2>2 DEF CopilotProcess, Pcs
    <2>3. CASE p = [proc EXCEPT !.pc = "worker"] /\ s.task.status = "pending"
      BY <1>8, <2>3 DEF CopilotProcess, Pcs
    <2>4. CASE p \in {[proc EXCEPT !.pc = "watch"], [proc EXCEPT !.pc = "end"]}
      BY <1>8, <2>4 DEF CopilotProcess, Pcs
    <2> QED
      BY <1>7, <2>1, <2>2, <2>3, <2>4
  <1>10. CopilotPlaced(p, s)
    BY <1>2, <1>9 DEF CopilotPlaced
  <1>11. CopilotPaid(s) /\ CopilotEarned(s, github)
    BY <1>4, CopilotReading DEF CopilotPaid, CopilotEarned
  <1>12. CopilotReplied(p, s, github)
    BY <1>9, CopilotReading DEF CopilotReplied
  <1>13. CopilotAsked(p, s, hosted)
    <2>1. hosted.status = "running" =>
            p.pc \in {"idle", "worker", "watch", "end"} /\ s.task.status \in {"pending", "failed"}
      BY <1>2, <1>4, <1>9, CopilotReading DEF CopilotAsked, TerminalTasks
    <2>2. ASSUME NEW e \in hosted.asked
          PROVE  /\ e[1] <= s.sweep
                 /\ e[1] = s.sweep =>
                      /\ s.scope = s.sweep
                      /\ \/ e[2] \in s.processed
                         \/ /\ e[2] = s.task.snapshot /\ s.task.status \in (CopilotOpen \cup
                                 CopilotFailed) \ {"preparing"}
                            /\ p.pc # "send"
      <3>1. e[1] \in 1..MaxSweeps /\ MaxSweeps \in Nat
        BY CopilotReading, CopilotConstants DEF CopilotHosted
      <3>2. e[1] <= state.sweep
        BY <1>2, CopilotReading DEF CopilotAsked
      <3> QED
        BY <1>2, <1>4, <1>9, <3>1, <3>2, CopilotReading DEF CopilotAsked
    <2> QED
      BY <1>9, <2>1, <2>2 DEF CopilotAsked
  <1> QED
    BY <1>4, <1>5, <1>6, <1>9, <1>10, <1>11, <1>12, <1>13, CopilotThen, CopilotReading DEF CopilotGood

\* What is read of the pull request.
LEMMA CopilotLook ==
  ASSUME CopilotInv
  PROVE  /\ \A head : CommentsAt(head) \in SUBSET Nat
         /\ Snapshot \in CopilotSnapshot /\ Snapshot.head = github.head /\ Snapshot.comments = CommentsAt(github.head)
         /\ Snapshot.clean =>
              \E k \in DOMAIN github.reviews : github.reviews[k].head = github.head /\ github.reviews[k].kind = "clean"
  <1>1. github \in CopilotSource /\ github.head \in Heads
    BY CopilotReading DEF CopilotSource
  <1>2. PICK n : n = Len(github.reviews)
    OBVIOUS
  <1>3. n \in Nat /\ DOMAIN github.reviews = 1..n
    BY <1>1, <1>2 DEF CopilotSource
  <1>4. \A head : CommentsAt(head) \in SUBSET Nat
    BY <1>2, <1>3 DEF CommentsAt, ThreadOf, OverviewOf, Latest
  <1>5. HeadReviews \subseteq 1..n
    BY <1>3 DEF HeadReviews
  <1>6. \E k \in HeadReviews \cup {0} : \A j \in HeadReviews : j <= k
    <2>1. CASE HeadReviews = {}
      BY <2>1
    <2>2. CASE HeadReviews # {}
      BY <1>3, <1>5, <2>2, CopilotGreatest
    <2> QED
      BY <2>1, <2>2
  <1>7. PICK review : review = CHOOSE k \in HeadReviews \cup {0} : \A j \in HeadReviews : j <= k
    OBVIOUS
  <1>8. review \in HeadReviews \cup {0}
    BY <1>6, <1>7
  <1>9. PICK clean \in BOOLEAN : clean = (review # 0 /\ github.reviews[review].kind = "clean")
    OBVIOUS
  <1>10. Snapshot = [head |-> github.head, comments |-> CommentsAt(github.head), review |-> review, clean |-> clean]
    BY <1>7, <1>9 DEF Snapshot
  <1>11. review \in Nat
    BY <1>3, <1>5, <1>8
  <1>12. CommentsAt(github.head) \in SUBSET Nat
    BY <1>4
  <1>13. Snapshot \in CopilotSnapshot /\ Snapshot.head = github.head /\ Snapshot.comments = CommentsAt(github.head)
         /\ Snapshot.clean = clean
    BY <1>1, <1>10, <1>11, <1>12 DEF CopilotSnapshot
  <1>14. clean => review \in DOMAIN github.reviews /\ github.reviews[review].head = github.head
    BY <1>8, <1>9 DEF HeadReviews
  <1> QED
    BY <1>4, <1>9, <1>13, <1>14

LEMMA CopilotPolls ==
  ASSUME CopilotReviewAssumption, CopilotInv, NEW snapshot \in CopilotSnapshot, NEW s, s = Polled(snapshot)
  PROVE  /\ s \in CopilotFile /\ s.sweep = state.sweep /\ s.scope = state.scope /\ s.processed = state.processed
         /\ s.iterations = state.iterations /\ s.base = state.base /\ s.task = state.task
         /\ s.clean = state.clean /\ s.last = state.last
  <1>1. state \in CopilotFile /\ state.poll \in CopilotPoll /\ state.poll.count \in 0..StabilityPolls
    BY CopilotReading DEF CopilotFile, CopilotPoll
  <1>2. PICK count : count = IF state.poll.snapshot # snapshot THEN 1
                             ELSE IF state.poll.count < StabilityPolls THEN state.poll.count + 1 ELSE state.poll.count
    OBVIOUS
  <1>3. count \in 0..StabilityPolls
    BY <1>1, <1>2, CopilotConstants
  <1>4. PICK poll : poll = [snapshot |-> snapshot, count |-> count]
    OBVIOUS
  <1>5. poll \in CopilotPoll
    BY <1>3, <1>4 DEF CopilotPoll
  <1>6. s = [state EXCEPT !.exists = TRUE, !.poll = poll]
    BY <1>2, <1>4 DEF Polled
  <1> QED
    BY <1>1, <1>5, <1>6 DEF CopilotFile

LEMMA CopilotPreflight ==
  ASSUME CopilotReviewAssumption, CopilotInv, PreflightAlone \/ PreflightBounded
  PROVE  CopilotInv'
  <1>1. proc.pc = "preflight" /\ state.task.status \in TerminalTasks
    BY CopilotReading DEF PreflightAlone, PreflightBounded, Preflight, CopilotPlaced
  <1>2. CASE local # github.head
    BY <1>2, CopilotRaises DEF PreflightAlone, PreflightBounded, Preflight
  <1>3. CASE local = github.head
    <2>1. PICK snapshot, polled, again : /\ snapshot = Snapshot /\ polled = Polled(snapshot)
                                         /\ again \in {proc, Resting("waiting")}
                                         /\ proc' \in {again, [proc EXCEPT !.pc = "decide", !.snapshot = snapshot]}
                                         /\ state' \in {state, polled}
                                         /\ proc' # again => snapshot.comments = {} \/ snapshot \notin state.processed
                                         /\ UNCHANGED <<github, local, hosted, budget>>
      <3>1. PICK snapshot, polled : snapshot = Snapshot /\ polled = Polled(snapshot)
        OBVIOUS
      <3>2. CASE PreflightAlone
        <4>1. /\ proc' \in {proc, [proc EXCEPT !.pc = "decide", !.snapshot = snapshot]}
              /\ state' \in {state, polled}
              /\ proc' # proc => snapshot.comments = {} \/ snapshot \notin state.processed
              /\ UNCHANGED <<github, local, hosted, budget>>
          BY <1>3, <3>1, <3>2 DEF PreflightAlone, Preflight, Save
        <4> QED
          BY <3>1, <4>1
      <3>3. CASE PreflightBounded
        <4>1. /\ proc' \in {Resting("waiting"), [proc EXCEPT !.pc = "decide", !.snapshot = snapshot]}
              /\ state' \in {state, polled}
              /\ proc' # Resting("waiting") => snapshot.comments = {} \/ snapshot \notin state.processed
              /\ UNCHANGED <<github, local, hosted, budget>>
          BY <1>3, <3>1, <3>3 DEF PreflightBounded, Preflight, Save, Exit
        <4> QED
          BY <3>1, <4>1
      <3> QED
        BY <3>2, <3>3
    <2>2. PICK s, p : s = state' /\ p = proc'
      OBVIOUS
    <2>3. snapshot \in CopilotSnapshot
      BY <2>1, CopilotLook
    <2>4. /\ s \in CopilotFile /\ s.sweep = state.sweep /\ s.scope = state.scope /\ s.processed = state.processed
          /\ s.iterations = state.iterations /\ s.base = state.base /\ s.task = state.task
          /\ s.clean = state.clean /\ s.last = state.last
      BY <2>1, <2>2, <2>3, CopilotPolls, CopilotReading
    <2>5. CopilotPaid(s) /\ CopilotEarned(s, github)
      BY <2>4, CopilotReading DEF CopilotPaid, CopilotEarned
    <2>6. /\ p \in CopilotProcess /\ p.pc \in {"idle", "preflight", "decide"} /\ p.todo \subseteq DOMAIN github.reviews
          /\ p.pc = "decide" => p.snapshot = snapshot /\ (snapshot.comments = {} \/ snapshot \notin state.processed)
      <3>1. CASE p = proc
        BY <1>1, <3>1, CopilotReading DEF CopilotReplied
      <3>2. CASE p = Resting("waiting")
        BY <3>2, CopilotRest DEF CopilotExits
      <3>3. CASE p = [proc EXCEPT !.pc = "decide", !.snapshot = snapshot] /\ p # again
        BY <2>1, <2>2, <2>3, <3>3, CopilotReading DEF CopilotProcess, Pcs, CopilotReplied
      <3> QED
        BY <2>1, <2>2, <3>1, <3>2, <3>3
    <2>7. CopilotPlaced(p, s)
      BY <1>1, <2>4, <2>6 DEF CopilotPlaced
    <2>8. CopilotAsked(p, s, hosted)
      BY <1>1, <2>4, <2>6, CopilotReading DEF CopilotAsked
    <2>9. CopilotReplied(p, s, github)
      BY <2>6, CopilotReading DEF CopilotReplied
    <2> QED
      BY <2>1, <2>2, <2>4, <2>5, <2>6, <2>7, <2>8, <2>9, CopilotThen, CopilotReading DEF CopilotGood
  <1> QED
    BY <1>2, <1>3

-----------------------------------------------------------------------------
(* What a pass starts from *)

LEMMA CopilotPrepared ==
  ASSUME CopilotReviewAssumption, CopilotInv, proc.pc = "decide", NEW f, f = Prepared
  PROVE  /\ f \in CopilotFile /\ f.sweep = state.sweep /\ f.iterations = state.iterations /\ f.task = state.task
         /\ f.last = state.last /\ (f.clean = state.clean \/ f.clean = NoHead) /\ f.head = proc.snapshot.head
         /\ f.task.status \in TerminalTasks /\ CopilotPaid(f) /\ CopilotEarned(f, github)
         /\ proc.snapshot \in CopilotSnapshot
         /\ Bounded =>
              /\ hosted.status # "running" /\ f.scope = f.sweep
              /\ \A e \in hosted.asked : e[1] <= f.sweep /\ (e[1] = f.sweep => e[2] \in f.processed)
              /\ proc.snapshot.comments # {} => proc.snapshot \notin f.processed
  <1>1. /\ state \in CopilotFile /\ state.task.status \in TerminalTasks /\ NoHead \in Heads
        /\ NoFile.poll \in CopilotPoll
        /\ proc.snapshot \in CopilotSnapshot /\ proc.snapshot.head \in Heads
    BY CopilotReading, CopilotConstants DEF CopilotPlaced, CopilotProcess, CopilotSnapshot
  <1>2. PICK poll, s : /\ poll = NoFile.poll
                       /\ s = IF Bounded /\ state.scope # state.sweep
                              THEN [Scoped(state) EXCEPT !.clean = NoHead, !.blocked = FALSE, !.poll = poll,
                                !.processed = {}]
                              ELSE state
    OBVIOUS
  <1>3. f = [s EXCEPT !.exists = TRUE, !.head = proc.snapshot.head, !.queue = "active"]
    BY <1>2 DEF Prepared
  <1>4. /\ s \in CopilotFile /\ s.sweep = state.sweep /\ s.iterations = state.iterations /\ s.task = state.task
        /\ s.last = state.last /\ (s.clean = state.clean \/ s.clean = NoHead)
        /\ IF Bounded /\ state.scope # state.sweep
           THEN s.scope = s.sweep /\ s.base = s.iterations /\ s.processed = {}
           ELSE s.scope = state.scope /\ s.base = state.base /\ s.processed = state.processed
    <2>1. CASE Bounded /\ state.scope # state.sweep
      <3>1. PICK c : c = Scoped(state)
        OBVIOUS
      <3>2. state.sweep \in 0..MaxSweeps
        BY <1>1, CopilotConstants DEF CopilotFile
      <3>3. /\ c \in CopilotFile /\ c.sweep = state.sweep /\ c.iterations = state.iterations /\ c.task = state.task
            /\ c.last = state.last /\ c.scope = c.sweep /\ c.base = c.iterations
        BY <1>1, <3>1, <3>2 DEF Scoped, CopilotFile
      <3>4. s = [c EXCEPT !.clean = NoHead, !.blocked = FALSE, !.poll = poll, !.processed = {}]
        BY <1>2, <2>1, <3>1
      <3> QED
        BY <1>1, <1>2, <2>1, <3>3, <3>4 DEF CopilotFile
    <2>2. CASE ~(Bounded /\ state.scope # state.sweep)
      BY <1>1, <1>2, <2>2
    <2> QED
      BY <2>1, <2>2
  <1>5. /\ f \in CopilotFile /\ f.sweep = s.sweep /\ f.iterations = s.iterations /\ f.task = s.task /\ f.last = s.last
        /\ f.clean = s.clean /\ f.scope = s.scope /\ f.base = s.base /\ f.processed = s.processed
        /\ f.head = proc.snapshot.head
    BY <1>1, <1>3, <1>4 DEF CopilotFile
  <1>6. CopilotPaid(f)
    BY <1>1, <1>4, <1>5, CopilotReading, CopilotConstants DEF CopilotPaid, CopilotFile, CopilotOpen, TerminalTasks
  <1>7. CopilotEarned(f, github)
    BY <1>4, <1>5, CopilotReading DEF CopilotEarned
  <1>8. ASSUME Bounded
        PROVE  /\ hosted.status # "running" /\ f.scope = f.sweep
               /\ \A e \in hosted.asked : e[1] <= f.sweep /\ (e[1] = f.sweep => e[2] \in f.processed)
               /\ proc.snapshot.comments # {} => proc.snapshot \notin f.processed
    BY <1>1, <1>4, <1>5, <1>8, CopilotReading DEF CopilotAsked, CopilotOpen, CopilotFailed, TerminalTasks
  <1> QED
    BY <1>1, <1>4, <1>5, <1>6, <1>7, <1>8

\* A pass that asks for no task.
LEMMA CopilotPasses ==
  ASSUME CopilotReviewAssumption, CopilotInv, proc.pc = "decide", NEW f, f = Prepared,
         NEW s \in CopilotFile, NEW p \in CopilotProcess, proc' = p, state' = s,
           UNCHANGED <<github, local, hosted, budget>>,
         s.sweep = f.sweep, s.scope = f.scope, s.processed = f.processed, s.iterations = f.iterations, s.base = f.base,
         s.task = f.task, CopilotEarned(s, github), p.pc \in {"idle", "end", "ask"},
           p.todo \subseteq DOMAIN github.reviews
  PROVE  CopilotInv'
  <1>1. CopilotPlaced(p, s)
    BY CopilotPrepared DEF CopilotPlaced
  <1>2. CopilotPaid(s)
    BY CopilotPrepared DEF CopilotPaid
  <1>3. CopilotAsked(p, s, hosted)
    BY CopilotPrepared DEF CopilotAsked
  <1>4. CopilotReplied(p, s, github)
    BY CopilotReading DEF CopilotReplied
  <1> QED
    BY <1>1, <1>2, <1>3, <1>4, CopilotThen, CopilotReading DEF CopilotGood

LEMMA CopilotGoto ==
  ASSUME CopilotInv, NEW pc \in Pcs
  PROVE  /\ [proc EXCEPT !.pc = pc] \in CopilotProcess /\ [proc EXCEPT !.pc = pc].pc = pc
         /\ [proc EXCEPT !.pc = pc].todo = proc.todo /\ proc.todo \subseteq DOMAIN github.reviews
  BY CopilotReading DEF CopilotProcess, CopilotReplied
LEMMA CopilotClear ==
  ASSUME CopilotReviewAssumption, CopilotInv, Clear
  PROVE  CopilotInv'
  <1>1. CASE Snapshot # proc.snapshot
    BY <1>1, CopilotRaises DEF Clear
  <1>2. CASE Snapshot = proc.snapshot
    <2>1. PICK f, p : f = Prepared /\ p = [proc EXCEPT !.pc = "end"]
      OBVIOUS
    <2>2. PICK s : s = [f EXCEPT !.clean = proc.snapshot.head, !.last = "no_unresolved_comments", !.queue = "clean"]
      OBVIOUS
    <2>3. /\ proc.pc = "decide" /\ Snapshot.clean /\ Snapshot.head = proc.snapshot.head
          /\ state' = s /\ proc' = p /\ UNCHANGED <<github, local, hosted, budget>>
      BY <1>2, <2>1, <2>2 DEF Clear, NoneOpen, End, Save, Goto
    <2>4. f \in CopilotFile /\ proc.snapshot.head \in Heads
      BY <2>1, <2>3, CopilotPrepared DEF CopilotSnapshot
    <2>5. "no_unresolved_comments" \in Results
      BY DEF Results
    <2>6. /\ s \in CopilotFile /\ s.sweep = f.sweep /\ s.scope = f.scope /\ s.processed = f.processed
          /\ s.iterations = f.iterations /\ s.base = f.base /\ s.task = f.task /\ s.clean = proc.snapshot.head
          /\ s.last = "no_unresolved_comments"
      BY <2>2, <2>4, <2>5 DEF CopilotFile
    <2>7. CopilotEarned(s, github)
      BY <2>3, <2>6, CopilotLook DEF CopilotEarned
    <2>8. p \in CopilotProcess /\ p.pc = "end" /\ p.todo \subseteq DOMAIN github.reviews
      BY <2>1, CopilotGoto DEF Pcs
    <2> QED
      BY <2>1, <2>3, <2>6, <2>7, <2>8, CopilotPasses
  <1> QED
    BY <1>1, <1>2

LEMMA CopilotUnclear ==
  ASSUME CopilotReviewAssumption, CopilotInv, proc.pc = "decide", NEW f, f = Prepared, NEW u, u = Unclear
  PROVE  /\ u \in CopilotFile /\ u.sweep = f.sweep /\ u.scope = f.scope /\ u.processed = f.processed
         /\ u.iterations = f.iterations /\ u.base = f.base /\ u.task = f.task /\ u.clean = NoHead
  <1>1. f \in CopilotFile /\ NoHead \in Heads
    BY CopilotPrepared, CopilotConstants
  <1>2. u = [f EXCEPT !.clean = NoHead]
    BY DEF Unclear
  <1> QED
    BY <1>1, <1>2 DEF CopilotFile

LEMMA CopilotSkip ==
  ASSUME CopilotReviewAssumption, CopilotInv, Skip
  PROVE  CopilotInv'
  <1>1. CASE Raise
    BY <1>1, CopilotRaises
  <1>2. CASE ~Raise
    <2>1. PICK f, u, p, m : f = Prepared /\ u = Unclear /\ p = [proc EXCEPT !.pc = "end"] /\ m = NoMonitoring
      OBVIOUS
    <2>2. PICK s : s = [u EXCEPT !.last = "source_only_review_not_applicable", !.queue = "none", !.monitoring = m]
      OBVIOUS
    <2>3. proc.pc = "decide" /\ state' = s /\ proc' = p /\ UNCHANGED <<github, local, hosted, budget>>
      BY <1>2, <2>1, <2>2 DEF Skip, End, Save, Goto
    <2>4. "source_only_review_not_applicable" \in Results
      BY DEF Results
    <2>5. /\ u \in CopilotFile /\ u.sweep = f.sweep /\ u.scope = f.scope /\ u.processed = f.processed
          /\ u.iterations = f.iterations /\ u.base = f.base /\ u.task = f.task /\ u.clean = NoHead
          /\ m \in CopilotMonitoring
      BY <2>1, <2>3, CopilotUnclear, CopilotConstants
    <2>6. /\ s \in CopilotFile /\ s.sweep = f.sweep /\ s.scope = f.scope /\ s.processed = f.processed
          /\ s.iterations = f.iterations /\ s.base = f.base /\ s.task = f.task /\ s.clean = NoHead
      BY <2>2, <2>4, <2>5 DEF CopilotFile
    <2>7. CopilotEarned(s, github)
      BY <2>6 DEF CopilotEarned
    <2>8. p \in CopilotProcess /\ p.pc = "end" /\ p.todo \subseteq DOMAIN github.reviews
      BY <2>1, CopilotGoto DEF Pcs
    <2> QED
      BY <2>1, <2>3, <2>6, <2>7, <2>8, CopilotPasses
  <1> QED
    BY <1>1, <1>2

LEMMA CopilotRefuse ==
  ASSUME CopilotReviewAssumption, CopilotInv, Refuse
  PROVE  CopilotInv'
  <1>1. PICK f, u, p : f = Prepared /\ u = Unclear /\ p = Resting("error")
    OBVIOUS
  <1>2. PICK r : r = [u EXCEPT !.last = "ready"]
    OBVIOUS
  <1>3. PICK s : s = Failed(r)
    OBVIOUS
  <1>4. proc.pc = "decide" /\ state' = s /\ proc' = p /\ UNCHANGED <<github, local, hosted, budget>>
    BY <1>1, <1>2, <1>3 DEF Refuse, Save, Exit
  <1>5. "ready" \in Results
    BY DEF Results
  <1>6. /\ u \in CopilotFile /\ u.sweep = f.sweep /\ u.scope = f.scope /\ u.processed = f.processed
        /\ u.iterations = f.iterations /\ u.base = f.base /\ u.task = f.task /\ u.clean = NoHead
        /\ f.task.status \in TerminalTasks
    BY <1>1, <1>4, CopilotUnclear, CopilotPrepared
  <1>7. /\ r \in CopilotFile /\ r.sweep = f.sweep /\ r.scope = f.scope /\ r.processed = f.processed
        /\ r.iterations = f.iterations /\ r.base = f.base /\ r.task = f.task /\ r.clean = NoHead
    BY <1>2, <1>5, <1>6 DEF CopilotFile
  <1>8. /\ s \in CopilotFile /\ s.sweep = f.sweep /\ s.scope = f.scope /\ s.processed = f.processed
        /\ s.iterations = f.iterations /\ s.base = f.base /\ s.task = f.task /\ s.clean = NoHead
    BY <1>3, <1>6, <1>7, CopilotFailing
  <1>9. CopilotEarned(s, github)
    BY <1>8 DEF CopilotEarned
  <1>10. p \in CopilotProcess /\ p.pc = "idle" /\ p.todo = {}
    BY <1>1, CopilotRest DEF CopilotExits
  <1> QED
    BY <1>1, <1>4, <1>8, <1>9, <1>10, CopilotPasses

LEMMA CopilotExhaustRequire ==
  ASSUME CopilotReviewAssumption, CopilotInv, Exhaust \/ Require
  PROVE  CopilotInv'
  <1>1. PICK f, u, last, pc : /\ f = Prepared /\ u = Unclear /\ proc.pc = "decide"
                              /\ last \in {"max_iterations_reached", "review_required"} /\ pc \in {"end", "ask"}
                              /\ state' = [u EXCEPT !.last = last] /\ proc' = [proc EXCEPT !.pc = pc]
                              /\ UNCHANGED <<github, local, hosted, budget>>
    <2>1. PICK f, u : f = Prepared /\ u = Unclear
      OBVIOUS
    <2>2. CASE Exhaust
      BY <2>1, <2>2 DEF Exhaust, End, Save, Goto
    <2>3. CASE Require
      BY <2>1, <2>3 DEF Require, Save, Goto
    <2> QED
      BY <2>2, <2>3
  <1>2. PICK s, p : s = [u EXCEPT !.last = last] /\ p = [proc EXCEPT !.pc = pc]
    OBVIOUS
  <1>3. /\ u \in CopilotFile /\ u.sweep = f.sweep /\ u.scope = f.scope /\ u.processed = f.processed
        /\ u.iterations = f.iterations /\ u.base = f.base /\ u.task = f.task /\ u.clean = NoHead
    BY <1>1, CopilotUnclear
  <1>4. last \in Results
    BY <1>1 DEF Results
  <1>5. /\ s \in CopilotFile /\ s.sweep = f.sweep /\ s.scope = f.scope /\ s.processed = f.processed
        /\ s.iterations = f.iterations /\ s.base = f.base /\ s.task = f.task /\ s.clean = NoHead
    BY <1>2, <1>3, <1>4 DEF CopilotFile
  <1>6. CopilotEarned(s, github)
    BY <1>5 DEF CopilotEarned
  <1>7. pc \in Pcs
    BY <1>1 DEF Pcs
  <1>8. p \in CopilotProcess /\ p.pc = pc /\ p.todo \subseteq DOMAIN github.reviews
    BY <1>2, <1>7, CopilotGoto
  <1> QED
    BY <1>1, <1>2, <1>5, <1>6, <1>8, CopilotPasses

LEMMA CopilotRemains ==
  ASSUME CopilotReviewAssumption, NEW f \in CopilotFile, CopilotPaid(f), Remaining(f) > 0
  PROVE  f.iterations - f.base < MaxIterations /\ f.iterations < MaxIterations * MaxSweeps
  <1>1. /\ f.iterations \in Nat /\ f.base \in Nat /\ MaxIterations \in Nat /\ MaxIterations * MaxSweeps \in Nat
        /\ MaxIterations <= MaxIterations * MaxSweeps
    BY CopilotConstants DEF CopilotFile
  <1>2. PICK total : total = MaxIterations * MaxSweeps
    OBVIOUS
  <1>3. PICK sweep, run : sweep = MaxIterations - (f.iterations - f.base) /\ run = total - f.iterations
    OBVIOUS
  <1>4. Remaining(f) = IF Bounded /\ run < sweep THEN run ELSE sweep
    BY <1>2, <1>3 DEF Remaining, Spent
  <1>5. sweep \in Int /\ run \in Int
    BY <1>1, <1>2, <1>3
  <1>6. CASE Bounded
    <2>1. sweep > 0 /\ run > 0
      BY <1>4, <1>5, <1>6
    <2> QED
      BY <1>1, <1>2, <1>3, <2>1
  <1>7. CASE ~Bounded
    <2>1. sweep > 0 /\ f.base = 0
      BY <1>4, <1>7 DEF CopilotPaid
    <2> QED
      BY <1>1, <1>2, <1>3, <2>1
  <1> QED
    BY <1>6, <1>7

LEMMA CopilotPrepare ==
  ASSUME CopilotReviewAssumption, CopilotInv, Prepare
  PROVE  CopilotInv'
  <1>1. PICK f, p, task : /\ f = Prepared /\ p = [proc EXCEPT !.pc = "dispatch"]
                          /\ task = [status |-> "preparing", snapshot |-> proc.snapshot, commits |-> FALSE]
    OBVIOUS
  <1>2. PICK s : s = [f EXCEPT !.task = task]
    OBVIOUS
  <1>3. /\ proc.pc = "decide" /\ proc.snapshot.comments # {} /\ Remaining(f) > 0
        /\ state' = s /\ proc' = p /\ UNCHANGED <<github, local, hosted, budget>>
    BY <1>1, <1>2 DEF Prepare, Save, Goto
  <1>4. /\ f \in CopilotFile /\ proc.snapshot \in CopilotSnapshot /\ CopilotPaid(f) /\ CopilotEarned(f, github)
        /\ Bounded =>
             /\ hosted.status # "running" /\ f.scope = f.sweep
             /\ \A e \in hosted.asked : e[1] <= f.sweep /\ (e[1] = f.sweep => e[2] \in f.processed)
             /\ proc.snapshot \notin f.processed
    BY <1>1, <1>3, CopilotPrepared
  <1>5. task \in CopilotTask /\ task.status = "preparing" /\ task.snapshot = proc.snapshot
    BY <1>1, <1>4 DEF CopilotTask, TaskStates
  <1>6. /\ s \in CopilotFile /\ s.sweep = f.sweep /\ s.scope = f.scope /\ s.processed = f.processed
        /\ s.iterations = f.iterations /\ s.base = f.base /\ s.task = task /\ s.clean = f.clean /\ s.last = f.last
    BY <1>2, <1>4, <1>5 DEF CopilotFile
  <1>7. p \in CopilotProcess /\ p.pc = "dispatch" /\ p.todo \subseteq DOMAIN github.reviews
    BY <1>1, CopilotGoto DEF Pcs
  <1>8. CopilotPlaced(p, s)
    BY <1>5, <1>6, <1>7 DEF CopilotPlaced
  <1>9. CopilotPaid(s)
    BY <1>3, <1>4, <1>6, CopilotRemains DEF CopilotPaid
  <1>10. CopilotAsked(p, s, hosted)
    BY <1>4, <1>5, <1>6, <1>7 DEF CopilotAsked
  <1>11. CopilotEarned(s, github)
    BY <1>4, <1>6 DEF CopilotEarned
  <1>12. CopilotReplied(p, s, github)
    BY <1>7, CopilotReading DEF CopilotReplied
  <1> QED
    BY <1>3, <1>6, <1>7, <1>8, <1>9, <1>10, <1>11, <1>12, CopilotThen, CopilotReading DEF CopilotGood
-----------------------------------------------------------------------------
(* The task, its import and its publication *)

CopilotWith(status) == [state EXCEPT !.task.status = status]

LEMMA CopilotStatus ==
  ASSUME CopilotInv, NEW status \in TaskStates, NEW s, s = CopilotWith(status)
  PROVE  /\ s \in CopilotFile /\ s.sweep = state.sweep /\ s.scope = state.scope /\ s.processed = state.processed
         /\ s.iterations = state.iterations /\ s.base = state.base /\ s.clean = state.clean /\ s.last = state.last
         /\ s.task.status = status /\ s.task.snapshot = state.task.snapshot /\ s.task.commits = state.task.commits
         /\ CopilotEarned(s, github)
  <1>1. PICK task : task = [state.task EXCEPT !.status = status]
    OBVIOUS
  <1>2. /\ task \in CopilotTask /\ task.status = status /\ task.snapshot = state.task.snapshot
        /\ task.commits = state.task.commits
    BY <1>1, CopilotReading DEF CopilotTask
  <1>3. s = [state EXCEPT !.task = task]
    BY <1>1 DEF CopilotWith
  <1>4. /\ s \in CopilotFile /\ s.sweep = state.sweep /\ s.scope = state.scope /\ s.processed = state.processed
        /\ s.iterations = state.iterations /\ s.base = state.base /\ s.clean = state.clean /\ s.last = state.last
        /\ s.task = task
    BY <1>2, <1>3, CopilotReading DEF CopilotFile
  <1>5. CopilotEarned(s, github)
    BY <1>4, CopilotReading DEF CopilotEarned
  <1> QED
    BY <1>2, <1>4, <1>5

LEMMA CopilotDispatch ==
  ASSUME CopilotReviewAssumption, CopilotInv, Dispatch
  PROVE  CopilotInv'
  <1>1. CASE Raise
    BY <1>1, CopilotRaises
  <1>2. CASE ~Raise
    <2>1. PICK status, p : status = (IF Bounded THEN "pending" ELSE "running") /\ p = [proc EXCEPT !.pc = "send"]
      OBVIOUS
    <2>2. PICK s : s = CopilotWith(status)
      OBVIOUS
    <2>3. proc.pc = "dispatch" /\ state' = s /\ proc' = p /\ UNCHANGED <<github, local, hosted, budget>>
      BY <1>2, <2>1, <2>2 DEF Dispatch, Save, Goto, CopilotWith
    <2>4. status \in TaskStates /\ status \in CopilotOpen
      BY <2>1 DEF TaskStates, CopilotOpen
    <2>5. /\ s \in CopilotFile /\ s.sweep = state.sweep /\ s.scope = state.scope /\ s.processed = state.processed
          /\ s.iterations = state.iterations /\ s.base = state.base /\ s.task.status = status
          /\ s.task.snapshot = state.task.snapshot /\ CopilotEarned(s, github)
      BY <2>2, <2>4, CopilotStatus
    <2>6. state.task.status = "preparing" /\ state.task.status \in CopilotOpen
      BY <2>3, CopilotReading DEF CopilotPlaced, CopilotOpen
    <2>7. p \in CopilotProcess /\ p.pc = "send" /\ p.todo \subseteq DOMAIN github.reviews
      BY <2>1, CopilotGoto DEF Pcs
    <2>8. CopilotPlaced(p, s)
      BY <2>1, <2>5, <2>7 DEF CopilotPlaced
    <2>9. CopilotPaid(s)
      BY <2>5, <2>6, CopilotReading DEF CopilotPaid
    <2>10. CopilotAsked(p, s, hosted)
      BY <2>3, <2>5, <2>6, <2>7, CopilotReading DEF CopilotAsked
    <2>11. CopilotReplied(p, s, github)
      BY <2>7, CopilotReading DEF CopilotReplied
    <2> QED
      BY <2>3, <2>5, <2>7, <2>8, <2>9, <2>10, <2>11, CopilotThen, CopilotReading DEF CopilotGood
  <1> QED
    BY <1>1, <1>2

LEMMA CopilotSend ==
  ASSUME CopilotReviewAssumption, CopilotInv, Send
  PROVE  CopilotInv'
  <1>1. PICK p, asked : p = proc' /\ asked = hosted.asked \cup {<<state.sweep, state.task.snapshot>>}
    OBVIOUS
  <1>2. PICK h : h = [status |-> "running", snapshot |-> state.task.snapshot, commits |-> FALSE, asked |-> asked]
    OBVIOUS
  <1>3. /\ proc.pc = "send" /\ hosted' = h /\ UNCHANGED <<github, local, state, budget>>
        /\ \/ Bounded /\ p = Resting("waiting")
           \/ ~Bounded /\ p = [proc EXCEPT !.pc = "worker"]
    BY <1>1, <1>2 DEF Send, Exit, Goto
  <1>4. asked \in SUBSET ((1..MaxSweeps) \X CopilotSnapshot)
    BY <1>1, CopilotReading DEF CopilotFile, CopilotHosted
  <1>5. h \in CopilotHosted /\ h.asked = asked
    BY <1>2, <1>4, CopilotReading DEF CopilotHosted
  <1>6. state.task.status = IF Bounded THEN "pending" ELSE "running"
    BY <1>3, CopilotReading DEF CopilotPlaced
  <1>7. /\ p \in CopilotProcess /\ p.todo \subseteq DOMAIN github.reviews
        /\ \/ Bounded /\ p.pc = "idle"
           \/ ~Bounded /\ p.pc = "worker"
    <2>1. CASE Bounded /\ p = Resting("waiting")
      BY <2>1, CopilotRest DEF CopilotExits
    <2>2. CASE ~Bounded /\ p = [proc EXCEPT !.pc = "worker"]
      BY <2>2, CopilotGoto DEF Pcs
    <2> QED
      BY <1>3, <2>1, <2>2
  <1>8. CopilotPlaced(p, state)
    BY <1>6, <1>7 DEF CopilotPlaced
  <1>9. CopilotAsked(p, state, h)
    <2>1. ASSUME Bounded, NEW e \in asked
          PROVE  /\ e[1] <= state.sweep
                 /\ e[1] = state.sweep =>
                      /\ state.scope = state.sweep
                      /\ \/ e[2] \in state.processed
                         \/ /\ e[2] = state.task.snapshot
                            /\ state.task.status \in (CopilotOpen \cup CopilotFailed) \ {"preparing"} /\ p.pc # "send"
      <3>1. state.scope = state.sweep /\ state.sweep \in Nat
        BY <1>3, <2>1, CopilotReading, CopilotConstants DEF CopilotAsked, CopilotFile
      <3>2. CASE e = <<state.sweep, state.task.snapshot>>
        BY <1>6, <1>7, <2>1, <3>1, <3>2 DEF CopilotOpen
      <3>3. CASE e \in hosted.asked
        BY <1>3, <2>1, <3>3, CopilotReading DEF CopilotAsked
      <3> QED
        BY <1>1, <2>1, <3>2, <3>3
    <2> QED
      BY <1>5, <1>6, <1>7, <2>1 DEF CopilotAsked
  <1>10. CopilotReplied(p, state, github)
    BY <1>7, CopilotReading DEF CopilotReplied
  <1> QED
    BY <1>1, <1>3, <1>5, <1>7, <1>8, <1>9, <1>10, CopilotThen, CopilotReading DEF CopilotGood

LEMMA CopilotWorker ==
  ASSUME CopilotReviewAssumption, CopilotInv, Worker
  PROVE  CopilotInv'
  <1>1. CASE Raise
    BY <1>1, CopilotRaises
  <1>2. CASE hosted.status = "running"
    <2>1. Exit("waiting") /\ state' = state /\ UNCHANGED <<github, local, hosted, budget>>
      BY <1>2 DEF Worker, Save
    <2> QED
      BY <2>1, CopilotLeaves, CopilotReading DEF CopilotExits
  <1>3. CASE ~Raise /\ hosted.status # "running"
    <2>1. PICK p, task : /\ p = [proc EXCEPT !.pc = "import"]
                         /\ task = [state.task EXCEPT !.status = "validated", !.commits = hosted.commits]
      OBVIOUS
    <2>2. PICK s : s = [state EXCEPT !.task = task]
      OBVIOUS
    <2>3. /\ proc.pc = "worker" /\ proc' = p /\ UNCHANGED <<github, local, hosted, budget>>
          /\ state' = [state EXCEPT !.task.status = "validated", !.task.commits = hosted.commits]
      BY <1>3, <2>1 DEF Worker, Save, Goto
    <2>4. /\ task \in CopilotTask /\ task.status = "validated" /\ task.snapshot = state.task.snapshot
      BY <2>1, CopilotReading DEF CopilotTask, TaskStates, CopilotHosted
    <2>5. state' = s
      BY <2>1, <2>2, <2>3
    <2>6. /\ s \in CopilotFile /\ s.sweep = state.sweep /\ s.scope = state.scope /\ s.processed = state.processed
          /\ s.iterations = state.iterations /\ s.base = state.base /\ s.clean = state.clean /\ s.last = state.last
          /\ s.task = task
      BY <2>2, <2>4, CopilotReading DEF CopilotFile
    <2>7. CopilotEarned(s, github)
      BY <2>6, CopilotReading DEF CopilotEarned
    <2>8. p \in CopilotProcess /\ p.pc = "import" /\ p.todo \subseteq DOMAIN github.reviews
      BY <2>1, CopilotGoto DEF Pcs
    <2>9. CopilotPlaced(p, s)
      BY <2>4, <2>6, <2>8 DEF CopilotPlaced
    <2>10. state.task.status \in CopilotOpen /\ s.task.status \in CopilotOpen \ {"preparing"}
      BY <2>3, <2>4, <2>6, CopilotReading DEF CopilotPlaced, CopilotOpen
    <2> QED
      BY <1>3, <2>3, <2>4, <2>5, <2>6, <2>7, <2>8, <2>9, <2>10, CopilotMoves, CopilotReading
  <1> QED
    BY <1>1, <1>2, <1>3

LEMMA CopilotCharged ==
  ASSUME CopilotInv, NEW c, c = Charged(state)
  PROVE  /\ c \in CopilotFile /\ c.sweep = state.sweep /\ c.scope = state.scope
         /\ c.processed = state.processed \cup {state.task.snapshot}
         /\ c.iterations = state.iterations + 1 /\ c.base = state.base /\ c.clean = NoHead /\ c.last = state.last
         /\ c.task = state.task
  <1>1. PICK iterations, processed : /\ iterations = state.iterations + 1
                                     /\ processed = state.processed \cup {state.task.snapshot}
    OBVIOUS
  <1>2. c = [state EXCEPT !.iterations = iterations, !.processed = processed, !.clean = NoHead]
    BY <1>1 DEF Charged
  <1>3. iterations \in Nat /\ processed \in SUBSET CopilotSnapshot /\ NoHead \in Heads
    BY <1>1, CopilotReading DEF CopilotFile, NoHead, Heads
  <1>4. /\ c.sweep = state.sweep /\ c.scope = state.scope /\ c.processed = processed /\ c.iterations = iterations
        /\ c.base = state.base /\ c.clean = NoHead /\ c.last = state.last /\ c.task = state.task
    BY <1>2, CopilotReading DEF CopilotFile
  <1>5. c \in CopilotFile
    BY <1>2, <1>3, CopilotReading DEF CopilotFile
  <1> QED
    BY <1>1, <1>4, <1>5

\* A task that is done with is spent.
LEMMA CopilotCharges ==
  ASSUME CopilotReviewAssumption, CopilotInv, NEW s \in CopilotFile, NEW p,
         state.task.status \in CopilotOpen, state.task.status # "preparing",
         proc.pc \notin {"idle", "worker", "watch", "end", "send"},
         s.sweep = state.sweep, s.scope = state.scope, s.processed = state.processed \cup {state.task.snapshot},
         s.iterations = state.iterations + 1, s.base = state.base, s.task.status \in {"superseded", "completed"},
         p.pc \in {"idle", "watch", "end"}
  PROVE  CopilotPaid(s) /\ CopilotAsked(p, s, hosted) /\ CopilotPlaced(p, s)
  <1>1. CopilotPaid(s)
    <2>1. s.task.status \notin CopilotOpen
      BY DEF CopilotOpen
    <2>2. state.iterations \in Nat /\ state.base \in Nat
      BY CopilotReading DEF CopilotFile
    <2> QED
      BY <2>1, <2>2, CopilotReading, CopilotConstants DEF CopilotPaid
  <1>2. CopilotAsked(p, s, hosted)
    BY CopilotReading DEF CopilotAsked
  <1>3. CopilotPlaced(p, s)
    BY DEF CopilotPlaced, TerminalTasks
  <1> QED
    BY <1>1, <1>2, <1>3
LEMMA CopilotImport ==
  ASSUME CopilotReviewAssumption, CopilotInv, Import
  PROVE  CopilotInv'
  <1>1. proc.pc = "import" /\ state.task.status = "validated" /\ state.task.status \in CopilotOpen
    BY CopilotReading DEF Import, CopilotPlaced, CopilotOpen
  <1>2. CASE Raise
    BY <1>2, CopilotRaises
  <1>3. CASE ~Raise /\ github.head # Source /\ IsPrefix(Source, github.head)
    <2>1. PICK c, p : c = Charged(state) /\ p = [proc EXCEPT !.pc = "end"]
      OBVIOUS
    <2>2. PICK task : task = [c.task EXCEPT !.status = "superseded"]
      OBVIOUS
    <2>3. PICK s : s = [c EXCEPT !.task = task, !.last = "source_changed"]
      OBVIOUS
    <2>4. state' = s /\ proc' = p /\ UNCHANGED <<github, local, hosted, budget>>
      BY <1>3, <2>1, <2>2, <2>3 DEF Import, End, Save, Goto
    <2>5. /\ c \in CopilotFile /\ c.sweep = state.sweep /\ c.scope = state.scope
          /\ c.processed = state.processed \cup {state.task.snapshot}
          /\ c.iterations = state.iterations + 1 /\ c.base = state.base /\ c.clean = NoHead /\ c.task = state.task
      BY <2>1, CopilotCharged
    <2>6. task \in CopilotTask /\ task.status = "superseded"
      BY <2>2, <2>5, CopilotReading DEF CopilotTask, TaskStates
    <2>7. "source_changed" \in Results
      BY DEF Results
    <2>8. /\ s \in CopilotFile /\ s.sweep = c.sweep /\ s.scope = c.scope /\ s.processed = c.processed
          /\ s.iterations = c.iterations /\ s.base = c.base /\ s.clean = c.clean /\ s.task = task
      BY <2>3, <2>5, <2>6, <2>7 DEF CopilotFile
    <2>9. p \in CopilotProcess /\ p.pc = "end" /\ p.todo \subseteq DOMAIN github.reviews
      BY <2>1, CopilotGoto DEF Pcs
    <2>10. CopilotPaid(s) /\ CopilotAsked(p, s, hosted) /\ CopilotPlaced(p, s)
      BY <1>1, <2>5, <2>6, <2>8, <2>9, CopilotCharges
    <2>11. CopilotEarned(s, github)
      BY <2>5, <2>8 DEF CopilotEarned
    <2>12. CopilotReplied(p, s, github)
      BY <2>9, CopilotReading DEF CopilotReplied
    <2> QED
      BY <2>4, <2>8, <2>9, <2>10, <2>11, <2>12, CopilotThen, CopilotReading DEF CopilotGood
  <1>4. CASE ~Raise /\ ~(github.head # Source /\ IsPrefix(Source, github.head))
    <2>1. PICK p : p = [proc EXCEPT !.pc = "push"]
      OBVIOUS
    <2>2. local' = Final /\ proc' = p /\ UNCHANGED <<github, hosted, state, budget>>
      BY <1>4, <2>1 DEF Import, Goto
    <2>3. Final \in Heads
      BY CopilotReading DEF Final, Heads
    <2>4. p \in CopilotProcess /\ p.pc = "push" /\ p.todo \subseteq DOMAIN github.reviews
      BY <2>1, CopilotGoto DEF Pcs
    <2>5. CopilotPlaced(p, state)
      BY <1>1, <2>4 DEF CopilotPlaced
    <2> QED
      BY <1>1, <2>2, <2>3, <2>4, <2>5, CopilotKeeps, CopilotReading
  <1> QED
    BY <1>2, <1>3, <1>4

LEMMA CopilotPush ==
  ASSUME CopilotReviewAssumption, CopilotInv, Push
  PROVE  CopilotInv'
  <1>1. CASE Raise
    BY <1>1, CopilotRaises
  <1>2. CASE ~Raise
    <2>1. PICK p, g : p = [proc EXCEPT !.pc = "confirm"] /\ g = [github EXCEPT !.head = Final, !.heads = @ \cup {Final}]
      OBVIOUS
    <2>2. proc.pc = "push" /\ github' = g /\ proc' = p /\ UNCHANGED <<local, hosted, state, budget>>
      BY <1>2, <2>1 DEF Push, Goto
    <2>3. Final \in Heads
      BY CopilotReading DEF Final, Heads
    <2>4. g \in CopilotSource /\ g.head = Final /\ g.heads = github.heads \cup {Final} /\ g.reviews = github.reviews
      BY <2>1, <2>3, CopilotReading DEF CopilotSource
    <2>5. p \in CopilotProcess /\ p.pc = "confirm" /\ p.todo \subseteq DOMAIN github.reviews
      BY <2>1, CopilotGoto DEF Pcs
    <2>6. CopilotPlaced(p, state) /\ CopilotAsked(p, state, hosted)
      BY <2>2, <2>5, CopilotReading DEF CopilotPlaced, CopilotAsked
    <2>7. CopilotEarned(state, g)
      BY <2>4, CopilotReading DEF CopilotEarned
    <2>8. CopilotReplied(p, state, g)
      BY <2>4, <2>5, CopilotReading DEF CopilotReplied
    <2> QED
      BY <2>2, <2>4, <2>5, <2>6, <2>7, <2>8, CopilotThen, CopilotReading DEF CopilotGood
  <1> QED
    BY <1>1, <1>2

LEMMA CopilotConfirm ==
  ASSUME CopilotReviewAssumption, CopilotInv, Confirm
  PROVE  CopilotInv'
  <1>1. CASE Raise
    BY <1>1, CopilotRaises
  <1>2. CASE ~Raise
    <2>1. PICK p, w : p = [proc EXCEPT !.pc = "live"] /\ w = CopilotWith("published")
      OBVIOUS
    <2>2. PICK s : s = [w EXCEPT !.head = Final]
      OBVIOUS
    <2>3. proc.pc = "confirm" /\ github.head = Final /\ proc' = p /\ UNCHANGED <<github, local, hosted, budget>>
      BY <1>2, <2>1 DEF Confirm, Save, Goto
    <2>4. state' = s
      BY <1>2, <2>1, <2>2 DEF Confirm, Save, CopilotWith
    <2>5. /\ w \in CopilotFile /\ w.sweep = state.sweep /\ w.scope = state.scope /\ w.processed = state.processed
          /\ w.iterations = state.iterations /\ w.base = state.base /\ w.clean = state.clean /\ w.last = state.last
          /\ w.task.status = "published" /\ w.task.snapshot = state.task.snapshot /\ w.task.commits = state.task.commits
      BY <2>1, CopilotStatus DEF TaskStates
    <2>6. Final \in Heads
      BY CopilotReading DEF Final, Heads
    <2>7. /\ s \in CopilotFile /\ s.sweep = w.sweep /\ s.scope = w.scope /\ s.processed = w.processed
          /\ s.iterations = w.iterations /\ s.base = w.base /\ s.clean = w.clean /\ s.last = w.last /\ s.task = w.task
      BY <2>2, <2>5, <2>6 DEF CopilotFile
    <2>8. CopilotEarned(s, github)
      BY <2>5, <2>7, CopilotReading DEF CopilotEarned
    <2>9. p \in CopilotProcess /\ p.pc = "live" /\ p.todo \subseteq DOMAIN github.reviews
      BY <2>1, CopilotGoto DEF Pcs
    <2>10. CopilotPlaced(p, s)
      BY <2>5, <2>7, <2>9 DEF CopilotPlaced
    <2>11. CopilotFinal(s) = Final
      BY <2>5, <2>7 DEF CopilotFinal, Final, Source
    <2>12. CopilotFinal(s) \in github.heads
      BY <2>3, <2>11, CopilotReading DEF CopilotReplied
    <2>13. state.task.status \in CopilotOpen /\ s.task.status \in CopilotOpen \ {"preparing"}
      BY <2>3, <2>5, <2>7, CopilotReading DEF CopilotPlaced, CopilotOpen
    <2>14. Bounded => hosted.status # "running"
      BY <2>3, CopilotReading DEF CopilotAsked
    <2> QED
      BY <2>3, <2>4, <2>5, <2>7, <2>8, <2>9, <2>10, <2>12, <2>13, <2>14, CopilotMoves, CopilotReading
  <1> QED
    BY <1>1, <1>2

LEMMA CopilotLive ==
  ASSUME CopilotReviewAssumption, CopilotInv, Live
  PROVE  CopilotInv'
  <1>1. CASE Raise
    BY <1>1, CopilotRaises
  <1>2. CASE ~Raise
    <2>1. PICK todo : todo = {k \in DOMAIN github.reviews : ThreadOf(k) \in state.task.snapshot.comments}
      OBVIOUS
    <2>2. PICK p : p = [proc EXCEPT !.pc = "reply", !.todo = todo]
      OBVIOUS
    <2>3. proc.pc = "live" /\ proc' = p /\ state' = state /\ UNCHANGED <<github, local, hosted, budget>>
      BY <1>2, <2>1, <2>2 DEF Live, Save
    <2>4. todo \subseteq DOMAIN github.reviews /\ todo \subseteq Nat
      BY <2>1, CopilotReading DEF CopilotSource
    <2>5. p \in CopilotProcess /\ p.pc = "reply" /\ p.todo = todo
      BY <2>2, <2>4, CopilotReading DEF CopilotProcess, Pcs
    <2>6. CopilotPlaced(p, state)
      BY <2>3, <2>5, CopilotReading DEF CopilotPlaced
    <2>7. CopilotFinal(state) \in github.heads
      BY <2>3, CopilotReading DEF CopilotReplied
    <2>8. Bounded => hosted.status # "running"
      BY <2>3, CopilotReading DEF CopilotAsked
    <2> QED
      BY <2>3, <2>4, <2>5, <2>6, <2>7, <2>8, CopilotMoves, CopilotReading
  <1> QED
    BY <1>1, <1>2

\* A thread of a review changes, and what the review said stays.
LEMMA CopilotEdits ==
  ASSUME CopilotInv, NEW k \in DOMAIN github.reviews, NEW x \in CopilotEntry,
         x.head = github.reviews[k].head, x.kind = github.reviews[k].kind,
         NEW g, g = [github EXCEPT !.reviews[k] = x]
  PROVE  /\ g \in CopilotSource /\ DOMAIN g.reviews = DOMAIN github.reviews
         /\ \A j \in DOMAIN github.reviews : g.reviews[j] = IF j = k THEN x ELSE github.reviews[j]
         /\ g.head = github.head /\ g.heads = github.heads /\ CopilotEarned(state, g)
  <1>1. PICK r : r = [github.reviews EXCEPT ![k] = x]
    OBVIOUS
  <1>2. g = [github EXCEPT !.reviews = r]
    BY <1>1
  <1>3. github.reviews \in Seq(CopilotEntry)
    BY CopilotReading DEF CopilotSource
  <1>4. /\ r \in Seq(CopilotEntry) /\ DOMAIN r = DOMAIN github.reviews
        /\ \A j \in DOMAIN github.reviews : r[j] = IF j = k THEN x ELSE github.reviews[j]
    BY <1>1, <1>3
  <1>5. g.head = github.head /\ g.heads = github.heads /\ g.reviews = r /\ g \in CopilotSource
    BY <1>2, <1>4, CopilotReading DEF CopilotSource
  <1>6. CopilotEarned(state, g)
    BY <1>4, <1>5, CopilotReading DEF CopilotEarned
  <1> QED
    BY <1>4, <1>5, <1>6
LEMMA CopilotFinals ==
  ASSUME CopilotInv
  PROVE  Final \in Heads /\ CopilotFinal(state) = Final
  BY CopilotReading DEF Final, CopilotFinal, Source, Heads

LEMMA CopilotReply ==
  ASSUME CopilotReviewAssumption, CopilotInv, Reply
  PROVE  CopilotInv'
  <1> DEFINE open == {k \in proc.todo : github.reviews[k].reply # Final}
  <1>1. open \subseteq proc.todo /\ (open = {} => \A k \in proc.todo : github.reviews[k].reply = Final)
    OBVIOUS
  <1>2. /\ proc.pc = "reply" /\ UNCHANGED <<local, hosted, state, budget>> /\ proc.todo \subseteq DOMAIN github.reviews
        /\ Final \in github.heads /\ Final \in Heads /\ CopilotFinal(state) = Final
    <2>1. proc.pc = "reply" /\ UNCHANGED <<local, hosted, state, budget>>
      BY DEF Reply
    <2> QED
      BY <2>1, CopilotReading, CopilotFinals DEF CopilotReplied
  <1>3. CASE open = {}
    <2>1. PICK p : p = [proc EXCEPT !.pc = "resolve"]
      OBVIOUS
    <2>2. proc' = p /\ UNCHANGED github
      BY <1>3, <2>1 DEF Reply, Goto
    <2>3. p \in CopilotProcess /\ p.pc = "resolve" /\ p.todo = proc.todo
      BY <2>1, CopilotGoto DEF Pcs
    <2>4. CopilotPlaced(p, state) /\ CopilotAsked(p, state, hosted)
      BY <1>2, <2>3, CopilotReading DEF CopilotPlaced, CopilotAsked
    <2>5. CopilotReplied(p, state, github)
      BY <1>1, <1>2, <1>3, <2>3, CopilotReading DEF CopilotReplied
    <2> QED
      BY <1>2, <2>2, <2>3, <2>4, <2>5, CopilotThen, CopilotReading DEF CopilotGood
  <1>4. CASE open # {}
    <2>1. PICK n : n = Len(github.reviews)
      OBVIOUS
    <2>2. n \in Nat /\ DOMAIN github.reviews = 1..n
      BY <2>1, CopilotReading DEF CopilotSource
    <2>3. \E k \in open : \A j \in open : k <= j
      BY <1>1, <1>2, <1>4, <2>2, CopilotLeast
    <2>4. PICK k : k = CHOOSE i \in open : \A j \in open : i <= j
      OBVIOUS
    <2>5. k \in DOMAIN github.reviews
      BY <1>1, <1>2, <2>3, <2>4
    <2>6. github.reviews[k] \in CopilotEntry
      BY <2>5, CopilotReading DEF CopilotSource
    <2>7. PICK x : x = [github.reviews[k] EXCEPT !.reply = Final]
      OBVIOUS
    <2>8. x \in CopilotEntry /\ x.head = github.reviews[k].head /\ x.kind = github.reviews[k].kind /\ x.reply = Final
      BY <1>2, <2>6, <2>7 DEF CopilotEntry
    <2>9. PICK g : g = [github EXCEPT !.reviews[k] = x]
      OBVIOUS
    <2>10. github' = [github EXCEPT !.reviews[k].reply = Final] /\ proc' = proc
      BY <1>4, <2>4 DEF Reply
    <2>11. github' = g
      BY <2>7, <2>9, <2>10
    <2>12. /\ g \in CopilotSource /\ DOMAIN g.reviews = DOMAIN github.reviews
           /\ \A j \in DOMAIN github.reviews : g.reviews[j] = IF j = k THEN x ELSE github.reviews[j]
           /\ g.head = github.head /\ g.heads = github.heads /\ CopilotEarned(state, g)
      BY <2>5, <2>8, <2>9, CopilotEdits
    <2>13. CopilotReplied(proc, state, g)
      BY <1>2, <2>8, <2>12, CopilotReading DEF CopilotReplied
    <2> QED
      BY <1>2, <2>10, <2>11, <2>12, <2>13, CopilotThen, CopilotReading DEF CopilotGood
  <1> QED
    BY <1>3, <1>4

LEMMA CopilotResolve ==
  ASSUME CopilotReviewAssumption, CopilotInv, Resolve
  PROVE  CopilotInv'
  <1>1. /\ proc.pc = "resolve" /\ UNCHANGED <<local, hosted, state, budget>>
        /\ proc.todo \subseteq DOMAIN github.reviews
    BY CopilotReading DEF Resolve, CopilotReplied
  <1>2. CASE proc.todo = {}
    <2>1. PICK p : p = [proc EXCEPT !.pc = "next"]
      OBVIOUS
    <2>2. proc' = p /\ UNCHANGED github
      BY <1>2, <2>1 DEF Resolve, Goto
    <2>3. p \in CopilotProcess /\ p.pc = "next" /\ p.todo = proc.todo
      BY <2>1, CopilotGoto DEF Pcs
    <2>4. CopilotPlaced(p, state) /\ CopilotAsked(p, state, hosted) /\ CopilotReplied(p, state, github)
      BY <1>1, <2>3, CopilotReading DEF CopilotPlaced, CopilotAsked, CopilotReplied
    <2> QED
      BY <1>1, <2>2, <2>3, <2>4, CopilotThen, CopilotReading DEF CopilotGood
  <1>3. CASE proc.todo # {}
    <2>1. PICK k \in proc.todo : /\ github' = [github EXCEPT !.reviews[k].open = FALSE]
                                 /\ proc' = [proc EXCEPT !.todo = @ \ {k}]
      BY <1>3 DEF Resolve
    <2>2. k \in DOMAIN github.reviews
      BY <1>1
    <2>3. github.reviews[k] \in CopilotEntry
      BY <2>2, CopilotReading DEF CopilotSource
    <2>4. PICK x : x = [github.reviews[k] EXCEPT !.open = FALSE]
      OBVIOUS
    <2>5. /\ x \in CopilotEntry /\ x.head = github.reviews[k].head /\ x.kind = github.reviews[k].kind
          /\ x.reply = github.reviews[k].reply
      BY <2>3, <2>4 DEF CopilotEntry
    <2>6. PICK g, todo : g = [github EXCEPT !.reviews[k] = x] /\ todo = proc.todo \ {k}
      OBVIOUS
    <2>7. PICK p : p = [proc EXCEPT !.todo = todo]
      OBVIOUS
    <2>8. github' = g /\ proc' = p
      BY <2>1, <2>4, <2>6, <2>7
    <2>9. /\ g \in CopilotSource /\ DOMAIN g.reviews = DOMAIN github.reviews
          /\ \A j \in DOMAIN github.reviews : g.reviews[j] = IF j = k THEN x ELSE github.reviews[j]
          /\ g.head = github.head /\ g.heads = github.heads /\ CopilotEarned(state, g)
      BY <2>2, <2>5, <2>6, CopilotEdits
    <2>10. p \in CopilotProcess /\ p.pc = "resolve" /\ p.todo = todo /\ todo \subseteq proc.todo
      BY <1>1, <2>6, <2>7, CopilotReading DEF CopilotProcess
    <2>11. CopilotPlaced(p, state) /\ CopilotAsked(p, state, hosted)
      BY <1>1, <2>10, CopilotReading DEF CopilotPlaced, CopilotAsked
    <2>12. CopilotReplied(p, state, g)
      BY <1>1, <2>5, <2>9, <2>10, CopilotReading DEF CopilotReplied
    <2> QED
      BY <1>1, <2>8, <2>9, <2>10, <2>11, <2>12, CopilotThen, CopilotReading DEF CopilotGood
  <1> QED
    BY <1>2, <1>3

LEMMA CopilotCompleted ==
  ASSUME CopilotReviewAssumption, CopilotInv, NEW c, c = CompletedTask(state)
  PROVE  /\ c \in CopilotFile /\ c.sweep = state.sweep /\ c.scope = state.scope
         /\ c.processed = state.processed \cup {state.task.snapshot}
         /\ c.iterations = state.iterations + 1 /\ c.base = state.base /\ c.clean = NoHead /\ c.last = state.last
         /\ c.task.status = "completed"
  <1>1. PICK d : d = Charged(state)
    OBVIOUS
  <1>2. /\ d \in CopilotFile /\ d.sweep = state.sweep /\ d.scope = state.scope
        /\ d.processed = state.processed \cup {state.task.snapshot}
        /\ d.iterations = state.iterations + 1 /\ d.base = state.base /\ d.clean = NoHead /\ d.last = state.last
        /\ d.task = state.task
    BY <1>1, CopilotCharged
  <1>3. PICK task : task = [d.task EXCEPT !.status = "completed"]
    OBVIOUS
  <1>4. task \in CopilotTask /\ task.status = "completed"
    BY <1>2, <1>3, CopilotReading DEF CopilotTask, TaskStates
  <1>5. c = [d EXCEPT !.task = task, !.queue = "published"]
    BY <1>1, <1>3 DEF CompletedTask
  <1> QED
    BY <1>2, <1>4, <1>5 DEF CopilotFile

LEMMA CopilotNextReview ==
  ASSUME CopilotReviewAssumption, CopilotInv, NextReview
  PROVE  CopilotInv'
  <1>1. proc.pc = "next" /\ state.task.status = "published" /\ state.task.status \in CopilotOpen
    BY CopilotReading DEF NextReview, CopilotPlaced, CopilotOpen
  <1>2. CASE Raise
    BY <1>2, CopilotRaises
  <1>3. CASE ~Raise /\ ~OverviewOnly
    <2>1. PICK p : p = [proc EXCEPT !.pc = "ask"]
      OBVIOUS
    <2>2. proc' = p /\ state' = state /\ UNCHANGED <<github, local, hosted, budget>>
      BY <1>3, <2>1 DEF NextReview, Goto, Save
    <2>3. p \in CopilotProcess /\ p.pc = "ask" /\ p.todo \subseteq DOMAIN github.reviews
      BY <2>1, CopilotGoto DEF Pcs
    <2>4. CopilotPlaced(p, state)
      BY <1>1, <2>3 DEF CopilotPlaced
    <2> QED
      BY <1>1, <2>2, <2>3, <2>4, CopilotKeeps, CopilotReading
  <1>4. CASE ~Raise /\ OverviewOnly
    <2>1. PICK c, p : c = CompletedTask(state) /\ p = [proc EXCEPT !.pc = "end"]
      OBVIOUS
    <2>2. PICK s : s = [c EXCEPT !.clean = Final, !.last = "overview_no_change"]
      OBVIOUS
    <2>3. state' = s /\ proc' = p /\ UNCHANGED <<github, local, hosted, budget>>
      BY <1>4, <2>1, <2>2 DEF NextReview, End, Save, Goto
    <2>4. /\ c \in CopilotFile /\ c.sweep = state.sweep /\ c.scope = state.scope
          /\ c.processed = state.processed \cup {state.task.snapshot}
          /\ c.iterations = state.iterations + 1 /\ c.base = state.base /\ c.task.status = "completed"
      BY <2>1, CopilotCompleted
    <2>5. Final \in Heads /\ "overview_no_change" \in Results
      BY CopilotReading DEF Final, Heads, Results
    <2>6. /\ s \in CopilotFile /\ s.sweep = c.sweep /\ s.scope = c.scope /\ s.processed = c.processed
          /\ s.iterations = c.iterations /\ s.base = c.base /\ s.last = "overview_no_change" /\ s.task = c.task
      BY <2>2, <2>4, <2>5 DEF CopilotFile
    <2>7. p \in CopilotProcess /\ p.pc = "end" /\ p.todo \subseteq DOMAIN github.reviews
      BY <2>1, CopilotGoto DEF Pcs
    <2>8. CopilotPaid(s) /\ CopilotAsked(p, s, hosted) /\ CopilotPlaced(p, s)
      BY <1>1, <2>4, <2>6, <2>7, CopilotCharges
    <2>9. CopilotEarned(s, github)
      BY <2>6 DEF CopilotEarned
    <2>10. CopilotReplied(p, s, github)
      BY <2>7, CopilotReading DEF CopilotReplied
    <2> QED
      BY <2>3, <2>6, <2>7, <2>8, <2>9, <2>10, CopilotThen, CopilotReading DEF CopilotGood
  <1> QED
    BY <1>2, <1>3, <1>4
-----------------------------------------------------------------------------
(* The request, the watcher and the last word *)

LEMMA CopilotAsk ==
  ASSUME CopilotReviewAssumption, CopilotInv, Ask
  PROVE  CopilotInv'
  <1>1. CASE Raise
    BY <1>1, CopilotRaises
  <1>2. CASE ~Raise
    <2>1. PICK m, p : /\ m = [status |-> "requesting", head |-> local, baseline |-> Latest]
                      /\ p = [proc EXCEPT !.pc = "send_request"]
      OBVIOUS
    <2>2. PICK s : s = [state EXCEPT !.monitoring = m]
      OBVIOUS
    <2>3. proc.pc = "ask" /\ state' = s /\ proc' = p /\ UNCHANGED <<github, local, hosted, budget>>
      BY <1>2, <2>1, <2>2 DEF Ask, Save, Goto
    <2>4. m \in CopilotMonitoring
      BY <2>1, CopilotReading DEF CopilotMonitoring, Latest, CopilotSource
    <2>5. /\ s \in CopilotFile /\ s.sweep = state.sweep /\ s.scope = state.scope /\ s.processed = state.processed
          /\ s.iterations = state.iterations /\ s.base = state.base /\ s.clean = state.clean /\ s.last = state.last
          /\ s.task = state.task
      BY <2>2, <2>4, CopilotReading DEF CopilotFile
    <2>6. p \in CopilotProcess /\ p.pc = "send_request" /\ p.todo \subseteq DOMAIN github.reviews
      BY <2>1, CopilotGoto DEF Pcs
    <2>7. CopilotPlaced(p, s) /\ CopilotEarned(s, github)
      BY <2>3, <2>5, <2>6, CopilotReading DEF CopilotPlaced, CopilotEarned
    <2> QED
      BY <2>3, <2>5, <2>6, <2>7, CopilotKeeps, CopilotReading
  <1> QED
    BY <1>1, <1>2

LEMMA CopilotSendRequest ==
  ASSUME CopilotReviewAssumption, CopilotInv, SendRequest
  PROVE  CopilotInv'
  <1>1. PICK g, p : g = [github EXCEPT !.requested = github.head] /\ p = [proc EXCEPT !.pc = "save_request"]
    OBVIOUS
  <1>2. proc.pc = "send_request" /\ github' = g /\ proc' = p /\ UNCHANGED <<local, hosted, state, budget>>
    BY <1>1 DEF SendRequest, Goto
  <1>3. g \in CopilotSource /\ g.head = github.head /\ g.heads = github.heads /\ g.reviews = github.reviews
    BY <1>1, CopilotReading DEF CopilotSource
  <1>4. p \in CopilotProcess /\ p.pc = "save_request" /\ p.todo \subseteq DOMAIN github.reviews
    BY <1>1, CopilotGoto DEF Pcs
  <1>5. CopilotPlaced(p, state) /\ CopilotAsked(p, state, hosted)
    BY <1>2, <1>4, CopilotReading DEF CopilotPlaced, CopilotAsked
  <1>6. CopilotEarned(state, g) /\ CopilotReplied(p, state, g)
    BY <1>3, <1>4, CopilotReading DEF CopilotEarned, CopilotReplied
  <1> QED
    BY <1>2, <1>3, <1>4, <1>5, <1>6, CopilotThen, CopilotReading DEF CopilotGood

\* Waiting for the review: a call of the pipeline leaves.
LEMMA CopilotWatching ==
  ASSUME CopilotReviewAssumption, CopilotInv, Watching, NEW p, p = proc'
  PROVE  /\ p \in CopilotProcess /\ p.todo \subseteq DOMAIN github.reviews
         /\ p.pc = "idle" \/ (~Bounded /\ p.pc = "watch")
  <1>1. CASE Bounded
    <2>1. p = Resting("waiting")
      BY <1>1 DEF Watching, Exit
    <2> QED
      BY <2>1, CopilotRest DEF CopilotExits
  <1>2. CASE ~Bounded
    <2>1. p = [proc EXCEPT !.pc = "watch"]
      BY <1>2 DEF Watching, Goto
    <2> QED
      BY <1>2, <2>1, CopilotGoto DEF Pcs
  <1> QED
    BY <1>1, <1>2

LEMMA CopilotSaveRequest ==
  ASSUME CopilotReviewAssumption, CopilotInv, SaveRequest
  PROVE  CopilotInv'
  <1>1. PICK m, p : m = [state.monitoring EXCEPT !.status = "requested"] /\ p = proc'
    OBVIOUS
  <1>2. PICK s : s = [state EXCEPT !.monitoring = m]
    OBVIOUS
  <1>3. /\ proc.pc = "save_request" /\ state' = s /\ UNCHANGED <<github, local, hosted, budget>>
        /\ IF state.task.status = "published" THEN p = [proc EXCEPT !.pc = "verify"] ELSE Watching
    BY <1>1, <1>2 DEF SaveRequest, Save, Goto
  <1>4. m \in CopilotMonitoring
    BY <1>1, CopilotReading DEF CopilotMonitoring, CopilotFile
  <1>5. /\ s \in CopilotFile /\ s.sweep = state.sweep /\ s.scope = state.scope /\ s.processed = state.processed
        /\ s.iterations = state.iterations /\ s.base = state.base /\ s.clean = state.clean /\ s.last = state.last
        /\ s.task = state.task
    BY <1>2, <1>4, CopilotReading DEF CopilotFile
  <1>6. CopilotEarned(s, github) /\ state.task.status \in TerminalTasks \cup {"published"}
    BY <1>3, <1>5, CopilotReading DEF CopilotEarned, CopilotPlaced
  <1>7. CASE state.task.status = "published"
    <2>1. p \in CopilotProcess /\ p.pc = "verify" /\ p.todo \subseteq DOMAIN github.reviews
      <3>1. p = [proc EXCEPT !.pc = "verify"]
        BY <1>3, <1>7
      <3> QED
        BY <3>1, CopilotGoto DEF Pcs
    <2>2. CopilotPlaced(p, s)
      BY <1>5, <1>7, <2>1 DEF CopilotPlaced
    <2> QED
      BY <1>1, <1>3, <1>5, <1>6, <2>1, <2>2, CopilotKeeps, CopilotReading
  <1>8. CASE state.task.status # "published"
    <2>1. /\ p \in CopilotProcess /\ p.todo \subseteq DOMAIN github.reviews
          /\ p.pc = "idle" \/ (~Bounded /\ p.pc = "watch")
      BY <1>1, <1>3, <1>8, CopilotWatching
    <2>2. CopilotPlaced(p, s)
      BY <1>5, <1>6, <1>8, <2>1 DEF CopilotPlaced
    <2> QED
      BY <1>1, <1>3, <1>5, <1>6, <2>1, <2>2, CopilotKeeps, CopilotReading
  <1> QED
    BY <1>7, <1>8

LEMMA CopilotVerify ==
  ASSUME CopilotReviewAssumption, CopilotInv, Verify
  PROVE  CopilotInv'
  <1>1. proc.pc = "verify" /\ state.task.status = "published" /\ state.task.status \in CopilotOpen
    BY CopilotReading DEF Verify, CopilotPlaced, CopilotOpen
  <1>2. CASE Raise
    BY <1>2, CopilotRaises
  <1>3. CASE ~Raise
    <2>1. PICK c, p : c = CompletedTask(state) /\ p = proc'
      OBVIOUS
    <2>2. PICK s : s = [c EXCEPT !.last = "review_required"]
      OBVIOUS
    <2>3. state' = s /\ Watching /\ UNCHANGED <<github, local, hosted, budget>>
      <3>1. Save([CompletedTask(state) EXCEPT !.last = "review_required"]) /\ Watching
        BY <1>3, Zenon DEF Verify
      <3> QED
        BY <2>1, <2>2, <3>1 DEF Save
    <2>4. /\ c \in CopilotFile /\ c.sweep = state.sweep /\ c.scope = state.scope
          /\ c.processed = state.processed \cup {state.task.snapshot}
          /\ c.iterations = state.iterations + 1 /\ c.base = state.base /\ c.clean = NoHead
          /\ c.task.status = "completed"
      BY <2>1, CopilotCompleted
    <2>5. "review_required" \in Results
      BY DEF Results
    <2>6. /\ s \in CopilotFile /\ s.sweep = c.sweep /\ s.scope = c.scope /\ s.processed = c.processed
          /\ s.iterations = c.iterations /\ s.base = c.base /\ s.clean = c.clean /\ s.task = c.task
      BY <2>2, <2>4, <2>5 DEF CopilotFile
    <2>7. p \in CopilotProcess /\ p.todo \subseteq DOMAIN github.reviews /\ p.pc \in {"idle", "watch", "end"}
      BY <2>1, <2>3, CopilotWatching
    <2>8. CopilotPaid(s) /\ CopilotAsked(p, s, hosted) /\ CopilotPlaced(p, s)
      BY <1>1, <2>4, <2>6, <2>7, CopilotCharges
    <2>9. CopilotEarned(s, github)
      BY <2>4, <2>6 DEF CopilotEarned
    <2>10. CopilotReplied(p, s, github)
      BY <2>7, CopilotReading DEF CopilotReplied
    <2> QED
      BY <2>1, <2>3, <2>6, <2>7, <2>8, <2>9, <2>10, CopilotThen, CopilotReading DEF CopilotGood
  <1> QED
    BY <1>2, <1>3

\* A look of the watcher leaves all but the monitoring and the outcome.
CopilotLooked(s) ==
  /\ s \in CopilotFile /\ s.sweep = state.sweep /\ s.scope = state.scope /\ s.processed = state.processed
  /\ s.iterations = state.iterations /\ s.base = state.base /\ s.task = state.task

LEMMA CopilotWatched ==
  ASSUME CopilotInv, NEW f, CopilotLooked(f), NEW result \in Results, NEW s, s = Watched(f, result)
  PROVE  CopilotLooked(s) /\ s.last = result /\ s.clean = f.clean
  <1>1. PICK m : m = [f.monitoring EXCEPT !.status = "completed"]
    OBVIOUS
  <1>2. f \in CopilotFile
    BY DEF CopilotLooked
  <1>3. m \in CopilotMonitoring
    BY <1>1, <1>2 DEF CopilotMonitoring, CopilotFile
  <1>4. s = [f EXCEPT !.monitoring = m, !.last = result]
    BY <1>1 DEF Watched
  <1>5. /\ s \in CopilotFile /\ s.sweep = f.sweep /\ s.scope = f.scope /\ s.processed = f.processed
        /\ s.iterations = f.iterations /\ s.base = f.base /\ s.task = f.task /\ s.last = result /\ s.clean = f.clean
    BY <1>2, <1>3, <1>4 DEF CopilotFile
  <1> QED
    BY <1>5 DEF CopilotLooked

\* The review that the watcher takes for the answer.
LEMMA CopilotFirst ==
  ASSUME CopilotInv, NEW m, MatchingReview(m) # {}, NEW first,
         first = CHOOSE k \in MatchingReview(m) : \A j \in MatchingReview(m) : k <= j
  PROVE  first \in DOMAIN github.reviews /\ github.reviews[first].head = m.head
  <1>1. PICK n : n = Len(github.reviews)
    OBVIOUS
  <1>2. n \in Nat /\ DOMAIN github.reviews = 1..n
    BY <1>1, CopilotReading DEF CopilotSource
  <1>3. MatchingReview(m) \subseteq 1..n
    BY <1>2 DEF MatchingReview
  <1>4. \E k \in MatchingReview(m) : \A j \in MatchingReview(m) : k <= j
    BY <1>2, <1>3, CopilotLeast
  <1>5. first \in MatchingReview(m)
    BY <1>4
  <1> QED
    BY <1>5 DEF MatchingReview
\* What one look of the watcher comes to.
LEMMA CopilotSeen ==
  ASSUME CopilotReviewAssumption, CopilotInv, Watch, NEW p, p = proc', NEW s, s = state'
  PROVE  /\ proc.pc = "watch" /\ UNCHANGED <<github, local, hosted, budget>>
         /\ p \in CopilotProcess /\ p.todo \subseteq DOMAIN github.reviews
         /\ p.pc \in {"idle", "watch", "end"} \/ (~Bounded /\ p.pc = "preflight")
         /\ CopilotLooked(s) /\ CopilotEarned(s, github)
         /\ p.exit = "waiting" \/ p.exit = proc.exit
  <1>1. PICK monitoring, reviews, status : /\ monitoring = state.monitoring /\ reviews = MatchingReview(monitoring)
                                           /\ status = (IF Bounded THEN "requested" ELSE "running")
    OBVIOUS
  <1>2. PICK first : first = CHOOSE k \in reviews : \A j \in reviews : k <= j
    OBVIOUS
  <1>3. PICK m : m = [monitoring EXCEPT !.status = status]
    OBVIOUS
  <1>4. PICK running : running = [state EXCEPT !.monitoring = m]
    OBVIOUS
  <1>5. running = [state EXCEPT !.monitoring.status = IF Bounded THEN "requested" ELSE "running"]
    BY <1>1, <1>3, <1>4
  <1>6. PICK gone, clean, comments : /\ gone = Watched(running, "head_changed")
                                     /\ clean = Watched(running, "review_no_comments")
                                     /\ comments = Watched(running, "review_comments")
    OBVIOUS
  <1>7. proc.pc = "watch" /\ UNCHANGED <<github, local, hosted, budget>>
    BY DEF Watch, Save, End
  <1>8. \/ s = state /\ p = Resting("waiting")
        \/ s = gone /\ p = [proc EXCEPT !.pc = "end"]
        \/ s = running /\ (p = Resting("waiting") \/ p = proc)
        \/ /\ reviews # {} /\ github.reviews[first].kind = "clean"
           /\ s = [clean EXCEPT !.clean = monitoring.head] /\ p = [proc EXCEPT !.pc = "end"]
        \/ s = comments /\ (p = Resting("waiting") \/ (~Bounded /\ p = [proc EXCEPT !.pc = "preflight"]))
    BY <1>1, <1>2, <1>5, <1>6 DEF Watch, Save, End, Goto, Exit
  <1>9. m \in CopilotMonitoring /\ monitoring.head \in Heads
    BY <1>1, <1>3, CopilotReading DEF CopilotMonitoring, CopilotFile
  <1>10. CopilotLooked(state) /\ CopilotLooked(running) /\ running.last = state.last /\ running.clean = state.clean
    BY <1>4, <1>9, CopilotReading DEF CopilotLooked, CopilotFile
  <1>11. /\ CopilotLooked(gone) /\ gone.last = "head_changed" /\ CopilotLooked(clean)
         /\ clean.last = "review_no_comments" /\ CopilotLooked(comments) /\ comments.last = "review_comments"
    <2>1. "head_changed" \in Results /\ "review_no_comments" \in Results /\ "review_comments" \in Results
      BY DEF Results
    <2>2. CopilotLooked(gone) /\ gone.last = "head_changed"
      BY <1>6, <1>10, <2>1, CopilotWatched
    <2>3. CopilotLooked(clean) /\ clean.last = "review_no_comments"
      BY <1>6, <1>10, <2>1, CopilotWatched
    <2>4. CopilotLooked(comments) /\ comments.last = "review_comments"
      BY <1>6, <1>10, <2>1, CopilotWatched
    <2> QED
      BY <2>2, <2>3, <2>4
  <1>12. ASSUME reviews # {}, NEW x, x = [clean EXCEPT !.clean = monitoring.head]
         PROVE  CopilotLooked(x) /\ x.last = "review_no_comments" /\ x.clean = monitoring.head
    BY <1>9, <1>11, <1>12 DEF CopilotLooked, CopilotFile
  <1>13. CopilotLooked(s) /\ CopilotEarned(s, github)
    <2>1. CASE s \in {state, running}
      BY <1>10, <2>1, CopilotReading DEF CopilotEarned
    <2>2. CASE s \in {gone, comments}
      BY <1>11, <2>2 DEF CopilotEarned
    <2>3. CASE reviews # {} /\ github.reviews[first].kind = "clean" /\ s = [clean EXCEPT !.clean = monitoring.head]
      <3>1. CopilotLooked(s) /\ s.last = "review_no_comments" /\ s.clean = monitoring.head
        BY <1>12, <2>3
      <3>2. first \in DOMAIN github.reviews /\ github.reviews[first].head = monitoring.head
        BY <1>1, <1>2, <2>3, CopilotFirst
      <3> QED
        BY <2>3, <3>1, <3>2 DEF CopilotEarned
    <2> QED
      BY <1>8, <2>1, <2>2, <2>3
  <1>14. /\ p \in CopilotProcess /\ p.todo \subseteq DOMAIN github.reviews
         /\ p.pc \in {"idle", "watch", "end"} \/ (~Bounded /\ p.pc = "preflight")
         /\ p.exit = "waiting" \/ p.exit = proc.exit
    <2>1. CASE p = Resting("waiting")
      BY <2>1, CopilotRest DEF CopilotExits
    <2>2. CASE p = proc
      BY <1>7, <2>2, CopilotReading DEF CopilotReplied
    <2>3. CASE p = [proc EXCEPT !.pc = "end"]
      BY <2>3, CopilotReading DEF CopilotProcess, Pcs, CopilotReplied
    <2>4. CASE ~Bounded /\ p = [proc EXCEPT !.pc = "preflight"]
      BY <2>4, CopilotReading DEF CopilotProcess, Pcs, CopilotReplied
    <2> QED
      BY <1>8, <2>1, <2>2, <2>3, <2>4
  <1> QED
    BY <1>7, <1>13, <1>14

LEMMA CopilotWatch ==
  ASSUME CopilotReviewAssumption, CopilotInv, Watch
  PROVE  CopilotInv'
  <1>1. PICK p, s : p = proc' /\ s = state'
    OBVIOUS
  <1>2. /\ proc.pc = "watch" /\ UNCHANGED <<github, local, hosted, budget>>
        /\ p \in CopilotProcess /\ p.todo \subseteq DOMAIN github.reviews
        /\ p.pc \in {"idle", "watch", "end"} \/ (~Bounded /\ p.pc = "preflight")
        /\ CopilotLooked(s) /\ CopilotEarned(s, github)
    BY <1>1, CopilotSeen
  <1>3. /\ s \in CopilotFile /\ s.sweep = state.sweep /\ s.scope = state.scope /\ s.processed = state.processed
        /\ s.iterations = state.iterations /\ s.base = state.base /\ s.task = state.task
    BY <1>2 DEF CopilotLooked
  <1>4. CopilotPlaced(p, s)
    BY <1>2, <1>3, CopilotReading DEF CopilotPlaced
  <1>5. Bounded /\ hosted.status = "running" =>
          p.pc \in {"idle", "worker", "watch", "end"} /\ s.task.status \in {"pending", "failed"}
    BY <1>2, <1>3, CopilotReading DEF CopilotAsked
  <1> QED
    BY <1>1, <1>2, <1>3, <1>4, <1>5, CopilotMoves, CopilotReading

LEMMA CopilotWatchEnds ==
  ASSUME CopilotReviewAssumption, CopilotInv, WatchEnds
  PROVE  CopilotInv'
  <1>1. PICK result \in {"timeout", "request_cancelled"} : End(Watched(state, result))
    BY DEF WatchEnds
  <1>2. PICK p, s : s = Watched(state, result) /\ p = [proc EXCEPT !.pc = "end"]
    OBVIOUS
  <1>3. state' = s /\ proc' = p /\ UNCHANGED <<github, local, hosted, budget>>
    BY <1>1, <1>2 DEF End, Save, Goto
  <1>4. result \in Results /\ CopilotLooked(state)
    BY CopilotReading DEF Results, CopilotLooked
  <1>5. CopilotLooked(s) /\ s.last = result
    BY <1>2, <1>4, CopilotWatched
  <1>6. CopilotEarned(s, github)
    BY <1>1, <1>5 DEF CopilotEarned
  <1>7. p \in CopilotProcess /\ p.pc = "end" /\ p.todo \subseteq DOMAIN github.reviews
    BY <1>2, CopilotGoto DEF Pcs
  <1>8. CopilotPlaced(p, s)
    BY <1>7 DEF CopilotPlaced
  <1>9. /\ s \in CopilotFile /\ s.sweep = state.sweep /\ s.scope = state.scope /\ s.processed = state.processed
        /\ s.iterations = state.iterations /\ s.base = state.base /\ s.task = state.task
    BY <1>5 DEF CopilotLooked
  <1> QED
    BY <1>3, <1>6, <1>7, <1>8, <1>9, CopilotKeeps, CopilotReading
\* The last word: the file that it is said of, and the file that it leaves.
LEMMA CopilotLast ==
  ASSUME CopilotReviewAssumption, CopilotInv, Finish
  PROVE  \E t \in CopilotFile :
           /\ CopilotLooked(t) /\ t.last = state.last /\ t.clean = state.clean /\ t.head = state.head
           /\ t.monitoring = state.monitoring /\ t.blocked = state.blocked /\ t.queue = state.queue
           /\ proc.pc = "end" /\ UNCHANGED <<github, local, hosted, budget>>
           /\ \/ state' = Failed(t) /\ proc' = Resting("error")
              \/ /\ state' = t /\ proc' = Resting(Verdict(t)) /\ Verdict(t) # "error"
                 /\ t.last = "overview_no_change" =>
                      github.head = t.clean /\ CommentsAt(t.clean) \cap {OverviewOf(Latest)} # {}
  <1>1. PICK t : t = IF Bounded /\ state.last \in {"no_unresolved_comments", "max_iterations_reached",
          "overview_no_change",
                                                   "source_only_review_not_applicable", "review_no_comments"}
                     THEN [state EXCEPT !.terminal = TRUE] ELSE state
    OBVIOUS
  <1>2. /\ t \in CopilotFile /\ t.sweep = state.sweep /\ t.scope = state.scope /\ t.processed = state.processed
        /\ t.iterations = state.iterations /\ t.base = state.base /\ t.task = state.task
        /\ t.last = state.last /\ t.clean = state.clean /\ t.head = state.head
        /\ t.monitoring = state.monitoring /\ t.blocked = state.blocked /\ t.queue = state.queue
    BY <1>1, CopilotReading DEF CopilotFile
  <1>3. /\ proc.pc = "end" /\ UNCHANGED <<github, local, hosted, budget>>
        /\ \/ state' = Failed(t) /\ proc' = Resting("error")
           \/ /\ state' = t /\ proc' = Resting(Verdict(t)) /\ Verdict(t) # "error"
              /\ t.last = "overview_no_change" =>
                   github.head = t.clean /\ CommentsAt(t.clean) \cap {OverviewOf(Latest)} # {}
    BY <1>1 DEF Finish, Save, Exit
  <1> QED
    BY <1>2, <1>3 DEF CopilotLooked

\* What a process may end with.
LEMMA CopilotVerdict ==
  ASSUME NEW s
  PROVE  /\ Verdict(s) \in CopilotExits
         /\ Verdict(s) = "cleared" =>
              /\ Settled(s) /\ s.clean # NoHead /\ s.clean = s.head
              /\ s.last \in {"no_unresolved_comments", "overview_no_change", "review_no_comments"}
  <1>1. PICK v : v = Verdict(s)
    OBVIOUS
  <1> QED
    BY <1>1 DEF Verdict, CopilotExits

LEMMA CopilotFinish ==
  ASSUME CopilotReviewAssumption, CopilotInv, Finish
  PROVE  CopilotInv'
  <1>1. PICK t \in CopilotFile :
           /\ CopilotLooked(t) /\ t.last = state.last /\ t.clean = state.clean
           /\ UNCHANGED <<github, local, hosted, budget>>
           /\ \/ state' = Failed(t) /\ proc' = Resting("error")
              \/ state' = t /\ proc' = Resting(Verdict(t))
    BY CopilotLast
  <1>2. /\ t.sweep = state.sweep /\ t.scope = state.scope /\ t.processed = state.processed
        /\ t.iterations = state.iterations /\ t.base = state.base /\ t.task = state.task
    BY <1>1 DEF CopilotLooked
  <1>3. CASE state' = t /\ proc' = Resting(Verdict(t))
    <2>1. CopilotEarned(t, github)
      BY <1>1, CopilotReading DEF CopilotEarned
    <2>2. PICK exit : exit = Verdict(t)
      OBVIOUS
    <2>3. exit \in CopilotExits /\ Exit(exit)
      BY <1>3, <2>2, CopilotVerdict DEF Exit
    <2> QED
      BY <1>1, <1>2, <1>3, <2>1, <2>3, CopilotLeaves
  <1>4. CASE state' = Failed(t) /\ proc' = Resting("error")
    <2>1. PICK s, p : s = Failed(t) /\ p = Resting("error")
      OBVIOUS
    <2>2. p \in CopilotProcess /\ p.pc = "idle" /\ p.todo = {}
      BY <2>1, CopilotRest DEF CopilotExits
    <2>3. /\ s \in CopilotFile /\ s.sweep = state.sweep /\ s.scope = state.scope /\ s.processed = state.processed
          /\ s.iterations = state.iterations /\ s.base = state.base
          /\ s.task.snapshot = state.task.snapshot /\ (s.task = state.task \/ s.task.status \in CopilotFailed)
          /\ state.task.status \in {"pending", "failed"} => s.task.status \in {"pending", "failed"}
          /\ s.clean = NoHead \/ (s.clean = state.clean /\ s.last = state.last)
      BY <1>1, <1>2, <2>1, CopilotFailing
    <2>4. CopilotPlaced(p, s)
      BY <2>2 DEF CopilotPlaced
    <2>5. CopilotEarned(s, github)
      BY <2>3, CopilotReading DEF CopilotEarned
    <2>6. s.task.status \in CopilotOpen => state.task.status \in CopilotOpen
      BY <2>3 DEF CopilotOpen, CopilotFailed
    <2>7. state.task.status \in (CopilotOpen \cup CopilotFailed) \ {"preparing"} =>
            s.task.status \in (CopilotOpen \cup CopilotFailed) \ {"preparing"}
      BY <2>3 DEF CopilotOpen, CopilotFailed
    <2>8. Bounded /\ hosted.status = "running" => s.task.status \in {"pending", "failed"}
      BY <2>3, CopilotReading DEF CopilotAsked
    <2> QED
      BY <1>1, <1>4, <2>1, <2>2, <2>3, <2>4, <2>5, <2>6, <2>7, <2>8, CopilotMoves, CopilotReading
  <1> QED
    BY <1>1, <1>3, <1>4

-----------------------------------------------------------------------------
(* Crashes, the hosted task, the reviewer and others *)

LEMMA CopilotCrash ==
  ASSUME CopilotReviewAssumption, CopilotInv, Crash
  PROVE  CopilotInv'
  <1>1. Exit("error") /\ state' = state /\ UNCHANGED <<github, local, hosted, budget>>
    BY DEF Crash
  <1> QED
    BY <1>1, CopilotLeaves, CopilotReading DEF CopilotExits

LEMMA CopilotHostedEnds ==
  ASSUME CopilotReviewAssumption, CopilotInv, HostedEnds
  PROVE  CopilotInv'
  <1>1. PICK commits \in BOOLEAN, status \in {"success", "failure"} :
          hosted' = [hosted EXCEPT !.status = status, !.commits = commits]
    BY Zenon DEF HostedEnds
  <1>2. PICK h : h = [hosted EXCEPT !.status = status, !.commits = commits]
    OBVIOUS
  <1>3. hosted' = h /\ UNCHANGED <<github, local, state, proc, budget>>
    BY <1>1, <1>2 DEF HostedEnds
  <1>4. h \in CopilotHosted /\ h.status # "running" /\ h.asked = hosted.asked
    BY <1>2, CopilotReading DEF CopilotHosted
  <1>5. CopilotAsked(proc, state, h)
    BY <1>4, CopilotReading DEF CopilotAsked
  <1> QED
    BY <1>3, <1>4, <1>5, CopilotThen, CopilotReading DEF CopilotGood

LEMMA CopilotReviewed ==
  ASSUME CopilotReviewAssumption, CopilotInv, Reviewed
  PROVE  CopilotInv'
  <1>1. PICK kind \in Kinds, head \in {github.requested, github.head} :
          github' = [github EXCEPT !.requested = NoHead,
                       !.reviews = Append(@, [head |-> head, kind |-> kind, open |-> kind = "thread", reply |-> NoHead,
                                              asked |-> TRUE])]
    BY Zenon DEF Reviewed
  <1>2. PICK open \in BOOLEAN : open = (kind = "thread")
    OBVIOUS
  <1>3. PICK x : x = [head |-> head, kind |-> kind, open |-> open, reply |-> NoHead, asked |-> TRUE]
    OBVIOUS
  <1>4. PICK r, n : r = Append(github.reviews, x) /\ n = Len(github.reviews)
    OBVIOUS
  <1>5. PICK g : g = [github EXCEPT !.requested = NoHead, !.reviews = r]
    OBVIOUS
  <1>6. github' = g /\ UNCHANGED <<local, hosted, state, proc, budget>>
    BY <1>1, <1>2, <1>3, <1>4, <1>5 DEF Reviewed
  <1>7. head \in Heads /\ NoHead \in Heads /\ github.reviews \in Seq(CopilotEntry)
    BY <1>1, CopilotReading, CopilotConstants DEF CopilotSource
  <1>8. x \in CopilotEntry /\ x.reply = NoHead
    BY <1>3, <1>7 DEF CopilotEntry
  <1>9. /\ r \in Seq(CopilotEntry) /\ DOMAIN github.reviews \subseteq DOMAIN r
        /\ \A j \in DOMAIN github.reviews : r[j] = github.reviews[j]
        /\ \A j \in DOMAIN r : j \in DOMAIN github.reviews \/ r[j] = x
    BY <1>4, <1>7, <1>8
  <1>10. g \in CopilotSource /\ g.head = github.head /\ g.heads = github.heads /\ g.reviews = r
    BY <1>5, <1>7, <1>9, CopilotReading DEF CopilotSource
  <1>11. CopilotEarned(state, g)
    BY <1>9, <1>10, CopilotReading DEF CopilotEarned
  <1>12. CopilotReplied(proc, state, g)
    <2>1. \A j \in DOMAIN r : r[j].reply \in github.heads \cup {NoHead}
      BY <1>8, <1>9, CopilotReading DEF CopilotReplied
    <2> QED
      BY <1>9, <1>10, <2>1, CopilotReading DEF CopilotReplied
  <1> QED
    BY <1>6, <1>10, <1>11, <1>12, CopilotThen, CopilotReading DEF CopilotGood

LEMMA CopilotAlign ==
  ASSUME CopilotReviewAssumption, CopilotInv, Align
  PROVE  CopilotInv'
  <1>1. local' = github.head /\ UNCHANGED <<github, hosted, state, proc, budget>>
    BY DEF Align
  <1>2. github.head \in Heads
    BY CopilotReading DEF CopilotSource
  <1> QED
    BY <1>1, <1>2, CopilotThen, CopilotReading DEF CopilotGood

LEMMA CopilotOthersMove ==
  ASSUME CopilotReviewAssumption, CopilotInv, OthersMove
  PROVE  CopilotInv'
  <1>1. budget' \in 0..MaxMoves /\ UNCHANGED <<local, hosted, state, proc>> /\ budget \in Nat /\ github.head \in Heads
    BY CopilotReading, CopilotConstants DEF OthersMove, CopilotSource
  <1>2. ASSUME NEW head \in {Append(github.head, budget), <<1 + budget>>},
               github' = [github EXCEPT !.head = head, !.heads = @ \cup {head}]
        PROVE  CopilotInv'
    <2>1. head \in Heads
      <3>1. Append(github.head, budget) \in Heads /\ <<1 + budget>> \in Heads
        BY <1>1 DEF Heads
      <3> QED
        BY <1>2, <3>1
    <2>2. PICK g : g = [github EXCEPT !.head = head, !.heads = @ \cup {head}]
      OBVIOUS
    <2>3. g \in CopilotSource /\ g.head = head /\ g.heads = github.heads \cup {head} /\ g.reviews = github.reviews
      BY <2>1, <2>2, CopilotReading DEF CopilotSource
    <2>4. CopilotEarned(state, g) /\ CopilotReplied(proc, state, g)
      BY <2>3, CopilotReading DEF CopilotEarned, CopilotReplied
    <2> QED
      BY <1>1, <1>2, <2>2, <2>3, <2>4, CopilotThen, CopilotReading DEF CopilotGood
  <1>3. ASSUME NEW k \in DOMAIN github.reviews, github' = [github EXCEPT !.reviews[k].open = ~@]
        PROVE  CopilotInv'
    <2>1. github.reviews[k] \in CopilotEntry
      BY <1>3, CopilotReading DEF CopilotSource
    <2>2. PICK open \in BOOLEAN : open = ~github.reviews[k].open
      OBVIOUS
    <2>3. PICK x : x = [github.reviews[k] EXCEPT !.open = open]
      OBVIOUS
    <2>4. /\ x \in CopilotEntry /\ x.head = github.reviews[k].head /\ x.kind = github.reviews[k].kind
          /\ x.reply = github.reviews[k].reply
      BY <2>1, <2>3 DEF CopilotEntry
    <2>5. PICK g : g = [github EXCEPT !.reviews[k] = x]
      OBVIOUS
    <2>6. github' = g
      BY <1>3, <2>2, <2>3, <2>5
    <2>7. /\ g \in CopilotSource /\ DOMAIN g.reviews = DOMAIN github.reviews
          /\ \A j \in DOMAIN github.reviews : g.reviews[j] = IF j = k THEN x ELSE github.reviews[j]
          /\ g.head = github.head /\ g.heads = github.heads /\ CopilotEarned(state, g)
      BY <2>4, <2>5, CopilotEdits
    <2>8. CopilotReplied(proc, state, g)
      BY <2>4, <2>7, CopilotReading DEF CopilotReplied
    <2> QED
      BY <1>1, <2>6, <2>7, <2>8, CopilotThen, CopilotReading DEF CopilotGood
  <1> QED
    BY <1>2, <1>3 DEF OthersMove
\* CopilotInv is preserved.
LEMMA CopilotNext ==
  ASSUME CopilotReviewAssumption, CopilotInv, [Next]_vars
  PROVE  CopilotInv'
  <1>1. CASE UNCHANGED vars
    BY <1>1, CopilotThen, CopilotReading DEF vars, CopilotGood
  <1>2. CASE LaunchAlone \/ LaunchBounded
    BY <1>2, CopilotLaunchAlone, CopilotLaunchBounded
  <1>3. CASE PreflightAlone \/ PreflightBounded
    BY <1>3, CopilotPreflight
  <1>4. CASE Clear \/ Skip \/ Refuse \/ Exhaust \/ Require \/ Prepare
    BY <1>4, CopilotClear, CopilotSkip, CopilotRefuse, CopilotExhaustRequire, CopilotPrepare
  <1>5. CASE Dispatch \/ Send \/ Worker \/ Import \/ Push \/ Confirm
    BY <1>5, CopilotDispatch, CopilotSend, CopilotWorker, CopilotImport, CopilotPush, CopilotConfirm
  <1>6. CASE Live \/ Reply \/ Resolve \/ NextReview
    BY <1>6, CopilotLive, CopilotReply, CopilotResolve, CopilotNextReview
  <1>7. CASE Ask \/ SendRequest \/ SaveRequest \/ Verify
    BY <1>7, CopilotAsk, CopilotSendRequest, CopilotSaveRequest, CopilotVerify
  <1>8. CASE Watch \/ WatchEnds \/ Finish
    BY <1>8, CopilotWatch, CopilotWatchEnds, CopilotFinish
  <1>9. CASE Rest
    BY <1>1, <1>9 DEF Rest
  <1>10. CASE Raised \/ Crash
    BY <1>10, CopilotRaises, CopilotCrash DEF Raised
  <1>11. CASE HostedEnds \/ Reviewed \/ Align \/ OthersMove
    BY <1>11, CopilotHostedEnds, CopilotReviewed, CopilotAlign, CopilotOthersMove
  <1> QED
    BY <1>1, <1>2, <1>3, <1>4, <1>5, <1>6, <1>7, <1>8, <1>9, <1>10, <1>11 DEF Next

\* CopilotInv is an invariant.
THEOREM CopilotInvariance == ASSUME CopilotReviewAssumption PROVE Spec => []CopilotInv
  <1>1. Init => CopilotInv
    BY CopilotInit
  <1>2. CopilotInv /\ [Next]_vars => CopilotInv'
    BY CopilotNext
  <1> QED
    BY <1>1, <1>2, PTL DEF Spec

-----------------------------------------------------------------------------
(* What it is for *)

\* The types of the coordinator's state.
THEOREM CopilotIsTyped == ASSUME CopilotReviewAssumption PROVE Spec => []TypeOK
  <1>1. CopilotInv => TypeOK
    <2> SUFFICES ASSUME CopilotInv PROVE TypeOK
      OBVIOUS
    <2>1. /\ github \in CopilotSource /\ local \in Heads /\ hosted \in CopilotHosted /\ state \in CopilotFile
          /\ proc \in CopilotProcess /\ budget \in 0..MaxMoves /\ proc.todo \subseteq DOMAIN github.reviews
      BY CopilotReading DEF CopilotReplied
    <2>2. /\ github.head \in Heads /\ github.heads \subseteq Heads /\ github.requested \in Heads
          /\ \A k \in DOMAIN github.reviews :
               github.reviews[k] \in [head : Heads, kind : Kinds, open : BOOLEAN, reply : Heads, asked : BOOLEAN]
      <3>1. /\ github.head \in Heads /\ github.heads \subseteq Heads /\ github.requested \in Heads
            /\ github.reviews \in Seq(CopilotEntry)
        BY <2>1 DEF CopilotSource
      <3>2. \A k \in DOMAIN github.reviews : github.reviews[k] \in CopilotEntry
        BY <3>1
      <3> QED
        BY <3>1, <3>2 DEF CopilotEntry
    <2>3. proc.pc \in Pcs /\ proc.exit \in {"none", "error", "waiting", "cleared", "exhausted", "skipped",
            "source_changed"}
      BY <2>1 DEF CopilotProcess, CopilotExits
    <2>4. hosted.status \in {"none", "running", "success", "failure"}
      BY <2>1 DEF CopilotHosted
    <2>5. /\ state.last \in Results /\ state.task \in CopilotTask /\ state.sweep \in 1..MaxSweeps
          /\ state.queue \in {"none", "active", "clean", "published"} /\ state.iterations \in Nat
          /\ state.monitoring \in CopilotMonitoring /\ state.poll \in CopilotPoll
      BY <2>1 DEF CopilotFile
    <2>6. /\ state.task.status \in TaskStates /\ state.poll.count \in 0..StabilityPolls
          /\ state.monitoring.status \in {"none", "requesting", "requested", "running", "completed"}
      BY <2>5 DEF CopilotTask, CopilotMonitoring, CopilotPoll
    <2> QED
      BY <2>1, <2>2, <2>3, <2>4, <2>5, <2>6 DEF TypeOK
  <1> QED
    BY <1>1, CopilotInvariance, PTL

\* A file whose last word is an error holds no clearance.
THEOREM CopilotErrorsUnclear == ASSUME CopilotReviewAssumption PROVE Spec => []ErrorsUnclear
  <1>1. CopilotInv => ErrorsUnclear
    BY CopilotReading DEF CopilotEarned, ErrorsUnclear
  <1> QED
    BY <1>1, CopilotInvariance, PTL

\* The iterations of a sweep and of the run are bounded, failed ones included.
THEOREM CopilotBudget == ASSUME CopilotReviewAssumption PROVE Spec => []BudgetHolds
  <1>1. CopilotInv => BudgetHolds
    BY CopilotReading DEF CopilotPaid, BudgetHolds
  <1> QED
    BY <1>1, CopilotInvariance, PTL

\* The head that a reply names was published.
THEOREM CopilotReplies == ASSUME CopilotReviewAssumption PROVE Spec => []RepliesArePublished
  <1>1. CopilotInv => RepliesArePublished
    BY CopilotReading DEF CopilotReplied, RepliesArePublished
  <1> QED
    BY <1>1, CopilotInvariance, PTL
\* A call of the pipeline begins or goes on.
LEMMA CopilotBegins ==
  ASSUME CopilotReviewAssumption, CopilotInv, LaunchBounded
  PROVE  UNCHANGED <<github, local, hosted, budget>> /\ proc'.exit \in {"none", "error", proc.exit}
  <1>1. PICK sweep \in {state.sweep, state.sweep + 1} \cap (1..MaxSweeps) :
          /\ sweep > state.sweep => state.terminal
          /\ IF sweep = state.sweep /\ state.terminal THEN Save(state) /\ Goto("end")
             ELSE LET s == [state EXCEPT !.exists = TRUE, !.sweep = sweep, !.terminal = FALSE]
                      unfit == s.scope \notin {0, sweep} /\ Verdict(s) = "error" IN
                  /\ Save(s)
                  /\ IF s.monitoring.status \in ActiveMonitoring THEN Goto("watch")
                     ELSE IF unfit THEN Exit("error")
                     ELSE IF s.task.status = "pending" THEN Goto("worker")
                     ELSE IF s.task.status \notin TerminalTasks THEN Exit("error")
                     ELSE proc' = [Resting("none") EXCEPT !.pc = "preflight"]
    BY Zenon DEF LaunchBounded
  <1>2. PICK s : s = [state EXCEPT !.exists = TRUE, !.sweep = sweep, !.terminal = FALSE]
    OBVIOUS
  <1>3. Save(state) \/ Save(s)
    BY <1>1, <1>2
  <1>4. PICK rest : rest = Resting("none")
    OBVIOUS
  <1>5. \/ Goto("watch") \/ Goto("end") \/ Goto("worker") \/ Exit("error")
        \/ proc' = [rest EXCEPT !.pc = "preflight"]
    BY <1>1, <1>4
  <1>6. rest \in CopilotProcess /\ rest.exit = "none" /\ proc \in CopilotProcess
    BY <1>4, CopilotRest, CopilotReading DEF CopilotExits
  <1>7. ASSUME Exit("error") PROVE proc'.exit = "error"
    BY <1>7, CopilotRest DEF Exit, CopilotExits
  <1>8. proc'.exit \in {"none", "error", proc.exit}
    BY <1>5, <1>6, <1>7 DEF Goto, CopilotProcess
  <1> QED
    BY <1>3, <1>8 DEF Save

\* Of the hosted tasks only the dispatch asks for one.
LEMMA CopilotAsksInSend ==
  ASSUME CopilotReviewAssumption, CopilotInv, [Next]_vars, Bounded, Dispatches
  PROVE  Send
  <1>1. ASSUME UNCHANGED hosted PROVE FALSE
    BY <1>1 DEF Dispatches
  <1>2. CASE UNCHANGED vars \/ Rest
    BY <1>1, <1>2 DEF vars, Rest
  <1>3. CASE LaunchAlone \/ LaunchBounded \/ PreflightAlone \/ PreflightBounded
    BY <1>1, <1>3, CopilotBegins DEF LaunchAlone, PreflightAlone, PreflightBounded, Preflight, Raise, Save
  <1>4. CASE Clear \/ Skip \/ Refuse \/ Exhaust \/ Require \/ Prepare
    BY <1>1, <1>4 DEF Clear, Skip, Refuse, Exhaust, Require, Prepare, Raise, Save, End
  <1>5. CASE Dispatch \/ Worker \/ Import \/ Push \/ Confirm \/ Live
    BY <1>1, <1>5 DEF Dispatch, Worker, Import, Push, Confirm, Live, Raise, Save, End
  <1>6. CASE Reply \/ Resolve \/ NextReview \/ Ask \/ SendRequest \/ SaveRequest
    BY <1>1, <1>6 DEF Reply, Resolve, NextReview, Ask, SendRequest, SaveRequest, Raise, Save, End
  <1>7. CASE Verify \/ Watch \/ WatchEnds \/ Finish
    BY <1>1, <1>7, CopilotSeen, CopilotLast DEF Verify, WatchEnds, Raise, Save, End
  <1>8. CASE Raised \/ Crash \/ Reviewed \/ Align \/ OthersMove
    BY <1>1, <1>8 DEF Raised, Crash, Reviewed, Align, OthersMove, Raise, Save
  <1>9. CASE HostedEnds
    <2>1. PICK commits \in BOOLEAN, status \in {"success", "failure"} :
            hosted' = [hosted EXCEPT !.status = status, !.commits = commits]
      BY <1>9, Zenon DEF HostedEnds
    <2>2. hosted'.status = status /\ hosted'.asked = hosted.asked
      BY <2>1, CopilotReading DEF CopilotHosted
    <2> QED
      BY <2>2 DEF Dispatches
  <1> QED
    BY <1>2, <1>3, <1>4, <1>5, <1>6, <1>7, <1>8, <1>9 DEF Next

\* In a pipeline no task is dispatched while another may run.
THEOREM CopilotAlone == ASSUME CopilotReviewAssumption PROVE Spec => [][Alone]_vars
  <1>1. CopilotInv /\ [Next]_vars => Alone
    <2> SUFFICES ASSUME CopilotInv, [Next]_vars, Bounded, Dispatches PROVE hosted.status # "running"
      BY DEF Alone
    <2>1. proc.pc = "send"
      BY CopilotAsksInSend DEF Send
    <2> QED
      BY <2>1, CopilotReading DEF CopilotAsked
  <1> QED
    BY <1>1, CopilotInvariance, PTL DEF Spec

\* Nor twice for one snapshot in a sweep.
THEOREM CopilotOncePerSnapshot == ASSUME CopilotReviewAssumption PROVE Spec => [][OncePerSnapshot]_vars
  <1>1. CopilotInv /\ [Next]_vars => OncePerSnapshot
    <2> SUFFICES ASSUME CopilotInv, [Next]_vars, Bounded, Dispatches,
                 <<state.sweep, state.task.snapshot>> \in hosted.asked
                 PROVE  FALSE
      BY DEF OncePerSnapshot
    <2>1. proc.pc = "send"
      BY CopilotAsksInSend DEF Send
    <2>2. PICK e \in hosted.asked : e[1] = state.sweep /\ e[2] = state.task.snapshot
      OBVIOUS
    <2> QED
      BY <2>1, <2>2, CopilotReading DEF CopilotAsked
  <1> QED
    BY <1>1, CopilotInvariance, PTL DEF Spec

\* The pull request changes by few steps.
LEMMA CopilotStill ==
  ASSUME CopilotReviewAssumption, CopilotInv, [Next]_vars
  PROVE  UNCHANGED github \/ Push \/ Reply \/ Resolve \/ SendRequest \/ Reviewed \/ OthersMove
  <1>1. CASE UNCHANGED vars \/ Rest
    BY <1>1 DEF vars, Rest
  <1>2. CASE LaunchAlone \/ LaunchBounded \/ PreflightAlone \/ PreflightBounded
    BY <1>2, CopilotBegins DEF LaunchAlone, PreflightAlone, PreflightBounded, Preflight, Raise, Save
  <1>3. CASE Clear \/ Skip \/ Refuse \/ Exhaust \/ Require \/ Prepare
    BY <1>3 DEF Clear, Skip, Refuse, Exhaust, Require, Prepare, Raise, Save, End
  <1>4. CASE Dispatch \/ Send \/ Worker \/ Import \/ Confirm \/ Live
    BY <1>4 DEF Dispatch, Send, Worker, Import, Confirm, Live, Raise, Save, End
  <1>5. CASE NextReview \/ Ask \/ SaveRequest \/ Verify \/ Watch \/ WatchEnds \/ Finish
    BY <1>5, CopilotSeen, CopilotLast DEF NextReview, Ask, SaveRequest, Verify, WatchEnds, Raise, Save, End
  <1>6. CASE Raised \/ Crash \/ Align
    BY <1>6 DEF Raised, Crash, Align, Raise, Save
  <1>7. CASE HostedEnds
    BY <1>7, Zenon DEF HostedEnds
  <1> QED
    BY <1>1, <1>2, <1>3, <1>4, <1>5, <1>6, <1>7 DEF Next

\* Our push only extends the branch.
THEOREM CopilotExtends == ASSUME CopilotReviewAssumption PROVE Spec => [][Extends]_vars
  <1>1. CopilotInv /\ [Next]_vars => Extends
    <2> SUFFICES ASSUME CopilotInv, [Next]_vars, github'.head # github.head, budget' = budget
                 PROVE  IsPrefix(github.head, github'.head)
      BY DEF Extends
    <2>1. github \in CopilotSource /\ budget \in Nat
      BY CopilotReading, CopilotConstants
    <2>2. ~Reply /\ ~Resolve
      <3>1. ASSUME NEW k, NEW x, github' = [github EXCEPT !.reviews[k] = x] PROVE FALSE
        BY <2>1, <3>1 DEF CopilotSource
      <3>2. ASSUME Reply PROVE FALSE
        <4>1. PICK k : UNCHANGED github \/ github' = [github EXCEPT !.reviews[k].reply = Final]
          BY <3>2, Zenon DEF Reply
        <4>2. CASE github' = [github EXCEPT !.reviews[k].reply = Final]
          BY <2>1, <4>2 DEF CopilotSource
        <4> QED
          BY <4>1, <4>2
      <3>3. ASSUME Resolve PROVE FALSE
        <4>1. PICK k : UNCHANGED github \/ github' = [github EXCEPT !.reviews[k].open = FALSE]
          BY <3>3, Zenon DEF Resolve
        <4>2. CASE github' = [github EXCEPT !.reviews[k].open = FALSE]
          BY <2>1, <4>2 DEF CopilotSource
        <4> QED
          BY <4>1, <4>2
      <3> QED
        BY <3>2, <3>3
    <2>3. ~SendRequest
      BY <2>1 DEF SendRequest, CopilotSource
    <2>4. ~Reviewed
      <3>1. ASSUME Reviewed PROVE FALSE
        <4>1. PICK r : github' = [github EXCEPT !.requested = NoHead, !.reviews = r]
          BY <3>1, Zenon DEF Reviewed
        <4> QED
          BY <2>1, <4>1 DEF CopilotSource
      <3> QED
        BY <3>1
    <2>5. ~OthersMove
      BY <2>1 DEF OthersMove
    <2>6. Push
      BY <2>2, <2>3, <2>4, <2>5, CopilotStill
    <2>7. github.head \in {Source, Final} /\ github' = [github EXCEPT !.head = Final, !.heads = @ \cup {Final}]
      BY <2>6 DEF Push, Raise, Save
    <2>8. github'.head = Final /\ github.head = Source /\ Final = Append(Source, 0)
      BY <2>1, <2>7 DEF CopilotSource, Final
    <2>9. \A s \in Seq(Nat) : Append(s, 0) = s \o <<0>>
      OBVIOUS
    <2>10. Source \in Heads /\ <<0>> \in Heads
      BY CopilotReading DEF Heads
    <2> QED
      BY <2>8, <2>9, <2>10 DEF IsPrefix, Heads
  <1> QED
    BY <1>1, CopilotInvariance, PTL DEF Spec
\* A thread is resolved by a move of others, or after our reply to it.
THEOREM CopilotResolvedAfterReply == ASSUME CopilotReviewAssumption PROVE Spec => [][ResolvedAfterReply]_vars
  <1>1. CopilotInv /\ [Next]_vars => ResolvedAfterReply
    <2> SUFFICES ASSUME CopilotInv, [Next]_vars, NEW k \in DOMAIN github.reviews, proc.pc = "resolve",
                        github.reviews[k].open, k \in DOMAIN github'.reviews, ~github'.reviews[k].open, budget' = budget
                 PROVE  github.reviews[k].reply = Final
      BY DEF ResolvedAfterReply
    <2>1. github \in CopilotSource /\ budget \in Nat /\ github.reviews \in Seq(CopilotEntry)
      BY CopilotReading, CopilotConstants DEF CopilotSource
    <2>2. ~Push /\ ~Reply /\ ~SendRequest
      BY DEF Push, Reply, SendRequest
    <2>3. ~OthersMove
      BY <2>1 DEF OthersMove
    <2>4. ~Reviewed
      <3>1. ASSUME Reviewed PROVE FALSE
        <4>1. PICK kind \in Kinds, head \in {github.requested, github.head} :
                github' = [github EXCEPT !.requested = NoHead,
                             !.reviews = Append(@, [head |-> head, kind |-> kind, open |-> kind = "thread",
                                                    reply |-> NoHead, asked |-> TRUE])]
          BY <3>1, Zenon DEF Reviewed
        <4>2. PICK x, r : /\ x = [head |-> head, kind |-> kind, open |-> kind = "thread", reply |-> NoHead,
                               asked |-> TRUE]
                          /\ r = Append(github.reviews, x)
          OBVIOUS
        <4>3. github'.reviews = r
          BY <2>1, <4>1, <4>2 DEF CopilotSource
        <4>4. r[k] = github.reviews[k]
          BY <2>1, <4>2
        <4> QED
          BY <4>3, <4>4
      <3> QED
        BY <3>1
    <2>5. Resolve /\ github' # github
      BY <2>2, <2>3, <2>4, CopilotStill
    <2>6. PICK j \in proc.todo : github' = [github EXCEPT !.reviews[j].open = FALSE]
      BY <2>5, Zenon DEF Resolve
    <2>7. j \in DOMAIN github.reviews /\ github.reviews[j].reply = Final
      BY CopilotReading, CopilotFinals DEF CopilotReplied
    <2>8. CASE j = k
      BY <2>7, <2>8
    <2>9. CASE j # k
      <3>1. PICK x : x = [github.reviews[j] EXCEPT !.open = FALSE]
        OBVIOUS
      <3>2. github'.reviews = [github.reviews EXCEPT ![j] = x]
        BY <2>1, <2>6, <3>1 DEF CopilotSource
      <3>3. github'.reviews[k] = github.reviews[k]
        BY <2>1, <2>9, <3>2
      <3> QED
        BY <3>3
    <2> QED
      BY <2>8, <2>9
  <1> QED
    BY <1>1, CopilotInvariance, PTL DEF Spec

\* Only the last word is "cleared".
LEMMA CopilotClears ==
  ASSUME CopilotReviewAssumption, CopilotInv, [Next]_vars, proc'.exit = "cleared", proc.exit # "cleared"
  PROVE  Finish
  <1>1. proc \in CopilotProcess
    BY CopilotReading
  <1>2. ASSUME UNCHANGED proc PROVE FALSE
    BY <1>2
  <1>3. ASSUME NEW pc, Goto(pc) PROVE FALSE
    BY <1>1, <1>3 DEF Goto, CopilotProcess
  <1>4. ASSUME NEW exit \in CopilotExits \ {"cleared"}, Exit(exit) PROVE FALSE
    BY <1>4, CopilotRest DEF Exit
  <1>5. "error" \in CopilotExits \ {"cleared"} /\ "waiting" \in CopilotExits \ {"cleared"}
    BY DEF CopilotExits
  <1>6. ~Exit("error") /\ ~Exit("waiting") /\ ~Raise /\ ~Watching
    BY <1>3, <1>4, <1>5 DEF Raise, Watching
  <1>7. ~LaunchAlone
    <2>1. PICK rest : rest = Resting("none")
      OBVIOUS
    <2>2. rest \in CopilotProcess /\ rest.exit = "none"
      BY <2>1, CopilotRest DEF CopilotExits
    <2>3. ASSUME LaunchAlone PROVE FALSE
      <3>1. proc' = [rest EXCEPT !.pc = "preflight"]
        BY <2>1, <2>3 DEF LaunchAlone
      <3> QED
        BY <2>2, <3>1 DEF CopilotProcess
    <2> QED
      BY <2>3
  <1>8. ~LaunchBounded
    BY CopilotBegins
  <1>9. ASSUME NEW snapshot, proc' = [proc EXCEPT !.pc = "decide", !.snapshot = snapshot] PROVE FALSE
    BY <1>1, <1>9 DEF CopilotProcess
  <1>10. ~PreflightAlone /\ ~PreflightBounded
    <2>1. PICK snapshot : snapshot = Snapshot
      OBVIOUS
    <2>2. proc' # [proc EXCEPT !.pc = "decide", !.snapshot = snapshot]
      BY <1>9
    <2>3. ASSUME PreflightAlone PROVE FALSE
      BY <1>2, <1>6, <2>1, <2>2, <2>3 DEF PreflightAlone, Preflight
    <2>4. ASSUME PreflightBounded PROVE FALSE
      BY <1>2, <1>6, <2>1, <2>2, <2>4 DEF PreflightBounded, Preflight
    <2> QED
      BY <2>3, <2>4
  <1>11. ~Clear /\ ~Skip /\ ~Refuse /\ ~Exhaust /\ ~Require /\ ~Prepare
    BY <1>3, <1>6 DEF Clear, Skip, Refuse, Exhaust, Require, Prepare, End
  <1>12. ~Dispatch /\ ~Send /\ ~Worker /\ ~Import /\ ~Push /\ ~Confirm
    BY <1>3, <1>6 DEF Dispatch, Send, Worker, Import, Push, Confirm, End
  <1>13. ~Live
    <2>1. PICK todo : todo = {k \in DOMAIN github.reviews : ThreadOf(k) \in state.task.snapshot.comments}
      OBVIOUS
    <2>2. proc' # [proc EXCEPT !.pc = "reply", !.todo = todo]
      BY <1>1 DEF CopilotProcess
    <2> QED
      BY <1>6, <2>1, <2>2 DEF Live
  <1>14. ~Reply
    BY <1>2, <1>3 DEF Reply
  <1>15. ~Resolve
    <2>1. ASSUME NEW todo, proc' = [proc EXCEPT !.todo = todo] PROVE FALSE
      BY <1>1, <2>1 DEF CopilotProcess
    <2> QED
      BY <1>3, <2>1, Zenon DEF Resolve
  <1>16. ~NextReview /\ ~Ask /\ ~SendRequest /\ ~SaveRequest
    BY <1>3, <1>6 DEF NextReview, Ask, SendRequest, SaveRequest, End
  <1>17. ~Verify
    BY <1>6, Zenon DEF Verify
  <1>18. ~Watch
    BY CopilotSeen
  <1>19. ~WatchEnds
    BY <1>3 DEF WatchEnds, End
  <1>20. ~Rest /\ ~Raised /\ ~Crash /\ ~Align /\ ~OthersMove
    BY <1>2, <1>6 DEF Rest, vars, Raised, Crash, Align, OthersMove
  <1>21. ~HostedEnds /\ ~Reviewed
    BY <1>2, Zenon DEF HostedEnds, Reviewed
  <1>22. ~UNCHANGED vars
    BY <1>2 DEF vars
  <1> QED
    BY <1>7, <1>8, <1>10, <1>11, <1>12, <1>13, <1>14, <1>15, <1>16, <1>17, <1>18, <1>19, <1>20, <1>21, <1>22 DEF Next

\* The process ends cleared only at a head that a review found clean, or whose latest
\* review is an overview that a task found needs no change.
THEOREM CopilotClearedByReview == ASSUME CopilotReviewAssumption PROVE Spec => [][ClearedByReview]_vars
  <1>1. CopilotInv /\ [Next]_vars => ClearedByReview
    <2> SUFFICES ASSUME CopilotInv, [Next]_vars, proc'.exit = "cleared", proc.exit # "cleared"
                 PROVE  /\ state.task.status \in TerminalTasks /\ state.monitoring.status \notin ActiveMonitoring
                        /\ \E k \in DOMAIN github.reviews :
                             /\ github.reviews[k].head = state.clean
                             /\ github.reviews[k].kind = "clean" \/ (github.reviews[k].kind = "overview" /\ k = Latest)
      BY DEF ClearedByReview
    <2>1. Finish
      BY CopilotClears
    <2>2. PICK t \in CopilotFile :
            /\ CopilotLooked(t) /\ t.last = state.last /\ t.clean = state.clean /\ t.monitoring = state.monitoring
            /\ \/ proc' = Resting("error")
               \/ /\ proc' = Resting(Verdict(t))
                  /\ t.last = "overview_no_change" =>
                       github.head = t.clean /\ CommentsAt(t.clean) \cap {OverviewOf(Latest)} # {}
      BY <2>1, CopilotLast
    <2>3. Resting("error").exit = "error"
      BY CopilotRest DEF CopilotExits
    <2>4. PICK exit : exit = Verdict(t)
      OBVIOUS
    <2>5. exit \in CopilotExits
      BY <2>4, CopilotVerdict
    <2>6. Resting(exit).exit = exit
      BY <2>5, CopilotRest
    <2>7. exit = "cleared"
      BY <2>2, <2>3, <2>4, <2>6
    <2>8. /\ t.last = "overview_no_change" =>
               github.head = t.clean /\ CommentsAt(t.clean) \cap {OverviewOf(Latest)} # {}
      BY <2>2, <2>3, <2>7
    <2>9. Settled(t) /\ t.clean # NoHead /\ t.last \in {"no_unresolved_comments", "overview_no_change",
            "review_no_comments"}
      BY <2>4, <2>7, CopilotVerdict
    <2>10. state.task.status \in TerminalTasks /\ state.monitoring.status \notin ActiveMonitoring
      BY <2>2, <2>9 DEF Settled, CopilotLooked
    <2>11. CASE t.last \in {"no_unresolved_comments", "review_no_comments"}
      BY <2>2, <2>9, <2>10, <2>11, CopilotReading DEF CopilotEarned
    <2>12. CASE t.last = "overview_no_change"
      <3>1. OverviewOf(Latest) \in CommentsAt(t.clean)
        BY <2>8, <2>12
      <3>2. Latest \in Nat /\ DOMAIN github.reviews = 1..Latest
        BY CopilotReading DEF Latest, CopilotSource
      <3>3. \A k \in DOMAIN github.reviews : ThreadOf(k) # OverviewOf(Latest)
        BY <3>2 DEF ThreadOf, OverviewOf
      <3>4. PICK k \in {j \in {Latest} \ {0} : github.reviews[j].kind = "overview" /\
              github.reviews[j].head = t.clean} :
              OverviewOf(Latest) = OverviewOf(k)
        BY <3>1, <3>3 DEF CommentsAt
      <3> QED
        BY <2>2, <2>10, <3>2, <3>4
    <2> QED
      BY <2>9, <2>11, <2>12
  <1> QED
    BY <1>1, CopilotInvariance, PTL DEF Spec

=============================================================================
