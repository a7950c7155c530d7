---------------------------- MODULE ReviewProofs ----------------------------
(***************************************************************************)
(* Theorems about the coordinators that look at a change and act on what   *)
(* they find: HistoricalAudit, PrReviewer and SelfReview, for every value of*)
(* their constants.  Each is an instance over the same six variables; what is*)
(* said of one is said of its own Spec.                                    *)
(***************************************************************************)
EXTENDS Integers, Sequences, FiniteSetsExt, SequencesExt, FiniteSetTheorems, TLAPS

CONSTANTS Runs, Shared, MaxEvents, Candidates, Bounded, MaxIterations, MaxSweeps, MaxAttempts, MaxMoves

VARIABLES github, local, hosted, state, proc, budget

Audit == INSTANCE HistoricalAudit
Reviewer == INSTANCE PrReviewer
Self == INSTANCE SelfReview

-----------------------------------------------------------------------------
(* HistoricalAudit: what is published is one run's, and a clean head is earned.*)
AuditAuthors == Runs \cup {Audit!Others}
AuditLine(on) == [on : on, by : Seq(AuditAuthors)]
AuditTask == [status : {"none", "running", "completed", "failed"}, commits : BOOLEAN,
              outcome : {"none", "clean", "exhausted", "incomplete"}]
AuditFile == [status : Audit!Statuses, outcome : {"none", "clean", "max_iterations_reached", "no_change"},
              clean : AuditLine({"none", "merged"})]
AuditMemory == [pc : Audit!Pcs, pr : 0..MaxEvents, read : AuditLine({"none", "default", "merged"})]
AuditAway == {Audit!NoCommit} \cup [on : {"merged"}, by : Seq({Audit!Others})]
AuditCheckout == [head : AuditLine({"default", "merged"}), away : AuditAway, dirty : BOOLEAN]

\* The types in full.
AuditTypes ==
  /\ github \in [pr : 0..MaxEvents, remote : AuditLine({"none", "merged"})] /\ github.pr + budget <= MaxEvents
  /\ local \in [Audit!Checkouts -> AuditCheckout]
  /\ hosted \in [Runs -> AuditTask]
  /\ state \in [Runs -> AuditFile]
  /\ proc \in [Runs -> AuditMemory]
  /\ budget \in 0..MaxEvents

AuditImported == {"imported", "publish", "push", "record"}
AuditBrought == {"validated_pending_import", "validated", "failed", "publication_failed", "completed"}

\* Where a process is, its file says so; a candidate is not of a task that runs.
AuditPlaced(p, s, h) ==
  /\ p.pc = "launch" => s.status = "none"
  /\ p.pc \in Audit!Preparing => s.status = "preparing"
  /\ p.pc \in {"detach", "force"} => p.read.by = <<>>
  /\ p.pc = "start" => s.status = "ready"
  /\ p.pc \in {"ask", "collect", "validate"} => s.status = "running"
  /\ p.pc \in {"import", "imported"} => s.status = "validated_pending_import"
  /\ p.pc \in {"publish", "push", "record"} => s.status = "validated"
  /\ p.pc \in AuditImported \cup {"validate", "import"} => h.status = "completed"
  /\ p.pc \in AuditImported \cup {"import"} => h.outcome \in {"clean", "exhausted"}
  /\ h.status = "completed" => h.outcome # "none"
  /\ p.pc = "push" => h.commits /\ p.read = Audit!NoCommit

\* On a line only the first commit is a run's, and the run's file says so; what is
\* imported is on the merged head.
AuditFirst(by) == \A i \in DOMAIN by : by[i] # Audit!Others => i = 1
AuditHas(r, by) == by # <<>> /\ by[1] = r
AuditMine(r) ==
  /\ \A c \in Audit!Checkouts : AuditHas(r, local[c].head.by) => state[r].status \in AuditBrought
  /\ AuditHas(r, github.remote.by) => state[r].status \in AuditBrought
  /\ proc[r].pc \in AuditImported => local[Audit!Checkout(r)].head.on = "merged"

AuditInv ==
  /\ AuditTypes
  /\ \A c \in Audit!Checkouts : AuditFirst(local[c].head.by)
  /\ AuditFirst(github.remote.by)
  /\ \A r \in Runs : AuditPlaced(proc[r], state[r], hosted[r]) /\ AuditMine(r)

LEMMA AuditConstants ==
  ASSUME Audit!HistoricalAuditAssumption
  PROVE  /\ Runs \subseteq Nat \ {0} /\ Shared \in BOOLEAN /\ MaxEvents \in Nat
         /\ \A r \in Runs : Audit!Checkout(r) \in Audit!Checkouts
         /\ Audit!NoCommit \in AuditLine({"none", "merged"}) /\ Audit!Merged \in AuditLine({"none", "merged"})
         /\ Audit!Merged.by = <<>> /\ Audit!Merged.on = "merged" /\ Audit!NoCommit.by = <<>>
         /\ Audit!NoCommit.on = "none"
         /\ Audit!Merged # Audit!NoCommit /\ Audit!NoCommit \in AuditAway /\ Audit!Merged \in AuditAway
         /\ Audit!Started \in AuditMemory /\ Audit!Started.pc = "launch"
  <1>1. Runs \subseteq Nat \ {0} /\ Shared \in BOOLEAN /\ MaxEvents \in Nat
    BY DEF Audit!HistoricalAuditAssumption
  <1>2. \A r \in Runs : Audit!Checkout(r) \in Audit!Checkouts
    BY <1>1 DEF Audit!Checkout, Audit!Checkouts
  <1>3. <<>> \in Seq(AuditAuthors)
    OBVIOUS
  <1>4. /\ Audit!NoCommit \in AuditLine({"none", "merged"}) /\ Audit!Merged \in AuditLine({"none", "merged"})
        /\ Audit!Merged.by = <<>> /\ Audit!Merged.on = "merged" /\ Audit!NoCommit.by = <<>>
        /\ Audit!NoCommit.on = "none"
    BY <1>3 DEF Audit!NoCommit, Audit!Merged, Audit!Commit, AuditLine
  <1>5. Audit!Started \in AuditMemory /\ Audit!Started.pc = "launch"
    <2>1. Audit!NoCommit \in AuditLine({"none", "default", "merged"})
      BY <1>3 DEF Audit!NoCommit, Audit!Commit, AuditLine
    <2> QED
      BY <1>1, <2>1 DEF Audit!Started, AuditMemory, Audit!Pcs
  <1>6. Audit!Merged # Audit!NoCommit /\ Audit!NoCommit \in AuditAway /\ Audit!Merged \in AuditAway
    <2>1. <<>> \in Seq({Audit!Others})
      OBVIOUS
    <2> QED
      BY <1>4, <2>1 DEF Audit!Merged, Audit!Commit, AuditAway
  <1> QED
    BY <1>1, <1>2, <1>4, <1>5, <1>6

LEMMA AuditInit ==
  ASSUME Audit!HistoricalAuditAssumption, Audit!Init
  PROVE  AuditInv
  <1>1. PICK none, merged, started : none = Audit!NoCommit /\ merged = Audit!Merged /\ started = Audit!Started
    OBVIOUS
  <1>2. PICK fresh : fresh = Audit!Fresh
    OBVIOUS
  <1>3. fresh \in AuditLine({"default", "merged"}) /\ fresh.by = <<>>
    <2>1. <<>> \in Seq(AuditAuthors)
      OBVIOUS
    <2> QED
      BY <1>2, <2>1 DEF Audit!Fresh, Audit!Commit, AuditLine
  <1>4. /\ none \in AuditLine({"none", "merged"}) /\ none \in AuditAway /\ none.by = <<>> /\ started \in AuditMemory
        /\ started.pc = "launch"
        /\ MaxEvents \in Nat
    BY <1>1, AuditConstants
  <1>5. github = [pr |-> 0, remote |-> none] /\
          local = [c \in Audit!Checkouts |-> [head |-> fresh, away |-> none, dirty |-> FALSE]]
    BY <1>1, <1>2 DEF Audit!Init
  <1>6. /\ hosted = [r \in Runs |-> [status |-> "none", commits |-> FALSE, outcome |-> "none"]]
        /\ state = [r \in Runs |-> [status |-> "none", outcome |-> "none", clean |-> none]]
        /\ proc = [r \in Runs |-> started] /\ budget = MaxEvents
    BY <1>1 DEF Audit!Init, Audit!NoTask, Audit!NoFile
  <1>7. AuditTypes
    BY <1>3, <1>4, <1>5, <1>6 DEF AuditTypes, AuditCheckout, AuditTask, AuditFile, Audit!Statuses
  <1>8. (\A c \in Audit!Checkouts : local[c].head.by = <<>>) /\ github.remote.by = <<>>
    BY <1>3, <1>4, <1>5
  <1>9. AuditFirst(<<>>) /\ \A r \in Runs : ~AuditHas(r, <<>>)
    BY DEF AuditFirst, AuditHas
  <1>10. \A r \in Runs : AuditPlaced(proc[r], state[r], hosted[r]) /\ AuditMine(r)
    BY <1>4, <1>6, <1>8, <1>9 DEF AuditPlaced, AuditMine, AuditImported, Audit!Preparing
  <1> QED
    BY <1>7, <1>8, <1>9, <1>10 DEF AuditInv

LEMMA AuditReading ==
  ASSUME AuditInv, NEW r \in Runs
  PROVE  /\ proc[r] \in AuditMemory /\ state[r] \in AuditFile /\ hosted[r] \in AuditTask
         /\ AuditPlaced(proc[r], state[r], hosted[r]) /\ AuditMine(r)
         /\ github.pr \in 0..MaxEvents /\ github.remote \in AuditLine({"none", "merged"})
  BY DEF AuditInv, AuditTypes

\* A step of one run that moves no line of commits.
LEMMA AuditQuiet ==
  ASSUME Audit!HistoricalAuditAssumption, AuditInv, NEW r \in Runs,
         NEW h \in AuditTask, NEW s \in AuditFile, NEW p \in AuditMemory,
         UNCHANGED <<github, local, budget>>,
         hosted' = [hosted EXCEPT ![r] = h], state' = [state EXCEPT ![r] = s], proc' = [proc EXCEPT ![r] = p],
         AuditPlaced(p, s, h),
         state[r].status \in AuditBrought => s.status \in AuditBrought,
         p.pc \in AuditImported => proc[r].pc \in AuditImported
  PROVE  AuditInv'
  <1>1. AuditTypes'
    BY DEF AuditInv, AuditTypes
  <1>2. /\ hosted'[r] = h /\ state'[r] = s /\ proc'[r] = p
        /\ \A q \in Runs \ {r} : hosted'[q] = hosted[q] /\ state'[q] = state[q] /\ proc'[q] = proc[q]
    BY DEF AuditInv, AuditTypes
  <1>3. \A q \in Runs : AuditPlaced(proc'[q], state'[q], hosted'[q])
    BY <1>2 DEF AuditInv
  <1>4. \A q \in Runs : AuditMine(q)'
    <2> SUFFICES ASSUME NEW q \in Runs PROVE AuditMine(q)'
      OBVIOUS
    <2>1. AuditMine(q)
      BY DEF AuditInv
    <2>2. CASE q # r
      BY <1>2, <2>1, <2>2 DEF AuditMine
    <2>3. CASE q = r
      BY <1>2, <2>1, <2>3 DEF AuditMine
    <2> QED
      BY <2>2, <2>3
  <1> QED
    BY <1>1, <1>3, <1>4 DEF AuditInv, AuditPlaced

LEMMA AuditEnd ==
  ASSUME Audit!HistoricalAuditAssumption, AuditInv, NEW r \in Runs, NEW status \in Audit!Statuses, Audit!End(r, status),
         state[r].status \in AuditBrought => status \in AuditBrought
  PROVE  AuditInv'
  <1>1. PICK s, p, h : s = [state[r] EXCEPT !.status = status] /\ p = [Audit!Started EXCEPT !.pc = "over"] /\
          h = hosted[r]
    OBVIOUS
  <1>2. s \in AuditFile /\ s.status = status /\ h \in AuditTask
    BY <1>1 DEF AuditInv, AuditTypes, AuditFile
  <1>3. p \in AuditMemory /\ p.pc = "over"
    BY <1>1, AuditConstants DEF AuditMemory, Audit!Pcs
  <1>4. /\ UNCHANGED <<github, local, budget>> /\ state' = [state EXCEPT ![r] = s] /\ proc' = [proc EXCEPT ![r] = p]
        /\ hosted' = [hosted EXCEPT ![r] = h]
    BY <1>1 DEF Audit!End, Audit!Save, AuditInv, AuditTypes
  <1>5. AuditPlaced(p, s, h) /\ p.pc \notin AuditImported
    BY <1>1, <1>3, AuditReading DEF AuditPlaced, AuditImported, Audit!Preparing
  <1> QED
    BY <1>2, <1>3, <1>4, <1>5, AuditQuiet

\* A step that only saves a status and goes on.
LEMMA AuditSave ==
  ASSUME Audit!HistoricalAuditAssumption, AuditInv, NEW r \in Runs, NEW status \in Audit!Statuses, NEW pc \in Audit!Pcs,
         Audit!Save(r, [state[r] EXCEPT !.status = status]), Audit!Goto(r, pc), UNCHANGED local,
         AuditPlaced([proc[r] EXCEPT !.pc = pc], [state[r] EXCEPT !.status = status], hosted[r]),
         state[r].status \in AuditBrought => status \in AuditBrought,
         pc \in AuditImported => proc[r].pc \in AuditImported
  PROVE  AuditInv'
  <1>1. PICK s, p, h : s = [state[r] EXCEPT !.status = status] /\ p = [proc[r] EXCEPT !.pc = pc] /\ h = hosted[r]
    OBVIOUS
  <1>2. s \in AuditFile /\ s.status = status /\ h \in AuditTask /\ p \in AuditMemory /\ p.pc = pc
    BY <1>1 DEF AuditInv, AuditTypes, AuditFile, AuditMemory
  <1>3. /\ UNCHANGED <<github, local, budget>> /\ state' = [state EXCEPT ![r] = s] /\ proc' = [proc EXCEPT ![r] = p]
        /\ hosted' = [hosted EXCEPT ![r] = h]
    BY <1>1 DEF Audit!Goto, Audit!Save, AuditInv, AuditTypes
  <1> QED
    BY <1>1, <1>2, <1>3, AuditQuiet

\* A step that only goes on.
LEMMA AuditGo ==
  ASSUME Audit!HistoricalAuditAssumption, AuditInv, NEW r \in Runs, NEW p \in AuditMemory,
         proc' = [proc EXCEPT ![r] = p], UNCHANGED <<github, local, hosted, state, budget>>,
         AuditPlaced(p, state[r], hosted[r]),
         p.pc \in AuditImported => proc[r].pc \in AuditImported
  PROVE  AuditInv'
  <1>1. PICK s, h : s = state[r] /\ h = hosted[r]
    OBVIOUS
  <1>2. s \in AuditFile /\ h \in AuditTask
    BY <1>1 DEF AuditInv, AuditTypes
  <1>3. state' = [state EXCEPT ![r] = s] /\ hosted' = [hosted EXCEPT ![r] = h]
    BY <1>1 DEF AuditInv, AuditTypes
  <1> QED
    BY <1>1, <1>2, <1>3, AuditQuiet

\* What is checked out.
LEMMA AuditHeads ==
  ASSUME Audit!HistoricalAuditAssumption, AuditInv, NEW r \in Runs
  PROVE  LET head == Audit!HeadOf(local[Audit!Checkout(r)])
         IN /\ head \in AuditLine({"default", "merged"}) /\ AuditFirst(head.by)
            /\ local[Audit!Checkout(r)].head.on = "merged" => head.on = "merged"
            /\ \A q \in Runs : AuditHas(q, head.by) => AuditHas(q, local[Audit!Checkout(r)].head.by)
  <1>1. PICK c : c = local[Audit!Checkout(r)]
    OBVIOUS
  <1>2. c \in AuditCheckout /\ AuditFirst(c.head.by)
    BY <1>1, AuditConstants DEF AuditInv, AuditTypes
  <1>3. CASE c.away = Audit!NoCommit
    BY <1>1, <1>2, <1>3 DEF Audit!HeadOf, AuditCheckout
  <1>4. CASE c.away # Audit!NoCommit
    <2>1. c.away.on = "merged" /\ c.away.by \in Seq({Audit!Others}) /\
            c.away \in [on : {"merged"}, by : Seq({Audit!Others})]
      BY <1>2, <1>4 DEF AuditCheckout, AuditAway
    <2>2. c.away.by \in Seq(AuditAuthors)
      BY <2>1 DEF AuditAuthors
    <2>3. AuditFirst(c.away.by) /\ \A q \in Runs : ~AuditHas(q, c.away.by)
      BY <2>1, AuditConstants DEF AuditFirst, AuditHas, Audit!Others
    <2>4. c.away \in AuditLine({"default", "merged"})
      BY <2>1, <2>2 DEF AuditLine
    <2> QED
      BY <1>1, <1>4, <2>1, <2>3, <2>4 DEF Audit!HeadOf
  <1> QED
    BY <1>3, <1>4

\* The end of the preparation.
LEMMA AuditReady ==
  ASSUME Audit!HistoricalAuditAssumption, AuditInv, NEW r \in Runs, proc[r].pc \in Audit!Preparing,
         Audit!Save(r, [state[r] EXCEPT !.status = "ready"]), Audit!Goto(r, "start"), UNCHANGED local
  PROVE  AuditInv'
  <1>1. AuditPlaced([proc[r] EXCEPT !.pc = "start"], [state[r] EXCEPT !.status = "ready"], hosted[r])
    BY AuditReading DEF AuditPlaced, AuditImported, Audit!Preparing, AuditMemory, AuditFile, Audit!Preparing
  <1>2. state[r].status \notin AuditBrought
    BY AuditReading DEF AuditPlaced, AuditBrought
  <1> QED
    BY <1>1, <1>2, AuditSave DEF AuditImported, Audit!Statuses, Audit!Pcs

LEMMA AuditLaunchKeeps ==
  ASSUME Audit!HistoricalAuditAssumption, AuditInv, NEW r \in Runs, Audit!Launch(r)
  PROVE  AuditInv'
  <1>1. PICK s, p, h : /\ s = [state[r] EXCEPT !.status = "preparing"] /\ h = hosted[r]
                       /\ p = [Audit!Started EXCEPT !.pc = "prepare", !.pr = github.pr]
    OBVIOUS
  <1>2. s \in AuditFile /\ s.status = "preparing" /\ h \in AuditTask
    BY <1>1, AuditReading DEF AuditFile, Audit!Statuses
  <1>3. p \in AuditMemory /\ p.pc = "prepare"
    BY <1>1, AuditConstants, AuditReading DEF AuditMemory, Audit!Pcs
  <1>4. /\ UNCHANGED <<github, local, budget>> /\ state' = [state EXCEPT ![r] = s] /\ proc' = [proc EXCEPT ![r] = p]
        /\ hosted' = [hosted EXCEPT ![r] = h]
    BY <1>1 DEF Audit!Launch, Audit!Save, AuditInv, AuditTypes
  <1>5. proc[r].pc = "launch" /\ state[r].status = "none"
    BY AuditReading DEF Audit!Launch, AuditPlaced
  <1>6. AuditPlaced(p, s, h)
    BY <1>1, <1>2, <1>3, AuditReading DEF AuditPlaced, AuditImported, Audit!Preparing
  <1> QED
    BY <1>2, <1>3, <1>4, <1>5, <1>6, AuditQuiet DEF AuditImported, AuditBrought

\* A step that moves a checkout, to commits that were there or that its file tells of.
LEMMA AuditMove ==
  ASSUME Audit!HistoricalAuditAssumption, AuditInv, NEW r \in Runs, NEW new \in AuditCheckout, NEW p \in AuditMemory,
         local' = [local EXCEPT ![Audit!Checkout(r)] = new], proc' = [proc EXCEPT ![r] = p],
         UNCHANGED <<github, hosted, state, budget>>,
         AuditPlaced(p, state[r], hosted[r]),
         new.head = local[Audit!Checkout(r)].head \/ new.head.on = "merged",
         AuditFirst(new.head.by),
         \A q \in Runs : AuditHas(q, new.head.by) =>
           AuditHas(q, local[Audit!Checkout(r)].head.by) \/ (q = r /\ state[r].status \in AuditBrought),
         p.pc \in AuditImported => proc[r].pc \in AuditImported \/ new.head.on = "merged"
  PROVE  AuditInv'
  <1>1. Audit!Checkout(r) \in Audit!Checkouts
    BY AuditConstants
  <1>2. AuditTypes'
    BY <1>1 DEF AuditInv, AuditTypes
  <1>3. /\ proc'[r] = p /\ \A q \in Runs \ {r} : proc'[q] = proc[q]
        /\ local'[Audit!Checkout(r)] = new /\ \A c \in Audit!Checkouts \ {Audit!Checkout(r)} : local'[c] = local[c]
    BY <1>1 DEF AuditInv, AuditTypes
  <1>4. \A c \in Audit!Checkouts : /\ AuditFirst(local'[c].head.by)
                             /\ local[c].head.on = "merged" => local'[c].head.on = "merged"
    BY <1>3 DEF AuditInv
  <1>5. \A q \in Runs : AuditPlaced(proc'[q], state'[q], hosted'[q])
    BY <1>3 DEF AuditInv
  <1>6. ASSUME NEW q \in Runs PROVE AuditMine(q)'
    <2>1. AuditMine(q) /\ Audit!Checkout(q) \in Audit!Checkouts
      BY AuditConstants DEF AuditInv
    <2>2. \A c \in Audit!Checkouts : AuditHas(q, local'[c].head.by) => state[q].status \in AuditBrought
      BY <1>1, <1>3, <2>1 DEF AuditMine
    <2>3. proc'[q].pc \in AuditImported => local'[Audit!Checkout(q)].head.on = "merged"
      BY <1>3, <1>4, <2>1 DEF AuditMine
    <2> QED
      BY <2>1, <2>2, <2>3 DEF AuditMine
  <1> QED
    BY <1>2, <1>4, <1>5, <1>6 DEF AuditInv

LEMMA AuditPrepareKeeps ==
  ASSUME Audit!HistoricalAuditAssumption, AuditInv, NEW r \in Runs, Audit!Prepare(r)
  PROVE  AuditInv'
  <1>1. proc[r].pc = "prepare" /\ state[r].status = "preparing"
    BY AuditReading DEF Audit!Prepare, AuditPlaced, Audit!Preparing
  <1>2. CASE Audit!End(r, "preparation_failed")
    BY <1>1, <1>2, AuditEnd DEF AuditBrought, Audit!Statuses
  <1>3. CASE Audit!Save(r, [state[r] EXCEPT !.status = "ready"]) /\ Audit!Goto(r, "start") /\ UNCHANGED local
    BY <1>1, <1>3, AuditReady DEF Audit!Preparing
  <1>4. CASE ~Audit!End(r, "preparation_failed") /\ ~(Audit!Save(r, [state[r] EXCEPT !.status = "ready"]) /\
          Audit!Goto(r, "start") /\ UNCHANGED local)
    <2>1. PICK p : p = [proc[r] EXCEPT !.pc = "examine", !.read = local[Audit!Checkout(r)].head]
      OBVIOUS
    <2>2. proc' = [proc EXCEPT ![r] = p] /\ UNCHANGED <<github, local, hosted, state, budget>>
      BY <1>4, <2>1 DEF Audit!Prepare, AuditInv, AuditTypes
    <2>3. local[Audit!Checkout(r)].head \in AuditLine({"none", "default", "merged"})
      BY AuditConstants DEF AuditInv, AuditTypes, AuditCheckout, AuditLine
    <2>4. p \in AuditMemory /\ p.pc = "examine"
      BY <2>1, <2>3, AuditReading DEF AuditMemory, Audit!Pcs
    <2>5. AuditPlaced(p, state[r], hosted[r])
      BY <1>1, <2>4, AuditReading DEF AuditPlaced, AuditImported, Audit!Preparing
    <2> QED
      BY <2>2, <2>4, <2>5, AuditGo DEF AuditImported
  <1> QED
    BY <1>2, <1>3, <1>4

LEMMA AuditExamineKeeps ==
  ASSUME Audit!HistoricalAuditAssumption, AuditInv, NEW r \in Runs, Audit!Examine(r)
  PROVE  AuditInv'
  <1>1. proc[r].pc = "examine" /\ state[r].status = "preparing"
    BY AuditReading DEF Audit!Examine, AuditPlaced, Audit!Preparing
  <1>2. CASE Audit!End(r, "preparation_failed")
    BY <1>1, <1>2, AuditEnd DEF AuditBrought, Audit!Statuses
  <1>3. CASE ~Audit!End(r, "preparation_failed")
    <2>1. PICK head : head = Audit!HeadOf(local[Audit!Checkout(r)])
      OBVIOUS
    <2>2. PICK p : p = [proc[r] EXCEPT !.pc = IF proc[r].read = Audit!Merged THEN "settle" ELSE "detach", !.read = head]
      OBVIOUS
    <2>3. proc' = [proc EXCEPT ![r] = p] /\ UNCHANGED <<github, local, hosted, state, budget>> /\ head.by = <<>>
      BY <1>3, <2>1, <2>2 DEF Audit!Examine, Audit!UniqueWork, AuditInv, AuditTypes
    <2>4. head \in AuditLine({"none", "default", "merged"})
      BY <2>1, AuditHeads DEF AuditLine
    <2>5. p \in AuditMemory /\ p.pc \in {"settle", "detach"} /\ p.read.by = <<>>
      BY <2>2, <2>3, <2>4, AuditReading DEF AuditMemory, Audit!Pcs
    <2>6. AuditPlaced(p, state[r], hosted[r])
      BY <1>1, <2>5, AuditReading DEF AuditPlaced, AuditImported, Audit!Preparing
    <2> QED
      BY <2>3, <2>5, <2>6, AuditGo DEF AuditImported
  <1> QED
    BY <1>2, <1>3

LEMMA AuditRealignKeeps ==
  ASSUME Audit!HistoricalAuditAssumption, AuditInv, NEW r \in Runs, Audit!Detach(r) \/ Audit!MoveBranch(r) \/
         Audit!Return(r)
  PROVE  AuditInv'
  <1>1. PICK c : c = local[Audit!Checkout(r)]
    OBVIOUS
  <1>2. c \in AuditCheckout /\ AuditFirst(c.head.by) /\ Audit!Checkout(r) \in Audit!Checkouts
    BY <1>1, AuditConstants DEF AuditInv, AuditTypes
  <1>3. PICK p \in AuditMemory, new \in AuditCheckout :
          /\ local' = [local EXCEPT ![Audit!Checkout(r)] = new] /\ proc' = [proc EXCEPT ![r] = p]
          /\ UNCHANGED <<github, hosted, state, budget>>
          /\ new.head \in {c.head, Audit!Merged} /\ p.read = proc[r].read
          /\ \/ proc[r].pc = "detach" /\ p.pc = "force"
             \/ proc[r].pc \in {"force", "return"} /\ p.pc \in {"return", "settle"}
    <2>1. CASE Audit!MoveBranch(r)
      <3>1. PICK new, p, m : m = Audit!Merged /\ new = [c EXCEPT !.head = m] /\ p = [proc[r] EXCEPT !.pc = "return"]
        OBVIOUS
      <3>2. m \in AuditLine({"default", "merged"})
        BY <3>1, AuditConstants DEF AuditLine
      <3>3. new \in AuditCheckout /\ new.head = Audit!Merged /\ p \in AuditMemory /\ p.pc = "return" /\
              p.read = proc[r].read
        BY <1>2, <3>1, <3>2, AuditReading DEF AuditCheckout, AuditMemory, Audit!Pcs
      <3>4. local' = [local EXCEPT ![Audit!Checkout(r)] = new] /\ proc' = [proc EXCEPT ![r] = p] /\ proc[r].pc = "force"
        BY <1>1, <2>1, <3>1 DEF Audit!MoveBranch, Audit!Goto, AuditInv, AuditTypes
      <3> QED
        BY <2>1, <3>3, <3>4 DEF Audit!MoveBranch
    <2>2. ASSUME NEW to \in Audit!Pcs, NEW from, NEW away \in AuditAway, Audit!Realign(r, from, to, away)
          PROVE  \E p \in AuditMemory, new \in AuditCheckout :
                   /\ local' = [local EXCEPT ![Audit!Checkout(r)] = new] /\ proc' = [proc EXCEPT ![r] = p]
                   /\ UNCHANGED <<github, hosted, state, budget>>
                   /\ new.head = c.head /\ p.read = proc[r].read /\ p.pc = to /\ proc[r].pc = from
      <3>1. PICK new, p : new = [c EXCEPT !.away = away] /\ p = [proc[r] EXCEPT !.pc = to]
        OBVIOUS
      <3>2. new \in AuditCheckout /\ new.head = c.head /\ p \in AuditMemory /\ p.pc = to /\ p.read = proc[r].read
        BY <1>2, <2>2, <3>1, AuditReading DEF AuditCheckout, AuditMemory
      <3>3. local' = [local EXCEPT ![Audit!Checkout(r)] = new] /\ proc' = [proc EXCEPT ![r] = p]
        BY <1>1, <2>2, <3>1 DEF Audit!Realign, Audit!Goto, AuditInv, AuditTypes
      <3> QED
        BY <2>2, <3>2, <3>3 DEF Audit!Realign
    <2>3. CASE Audit!Detach(r)
      BY <2>2, <2>3, AuditConstants DEF Audit!Detach, Audit!Pcs
    <2>4. CASE Audit!Return(r)
      BY <2>2, <2>4, AuditConstants DEF Audit!Return, Audit!Pcs
    <2> QED
      BY <2>1, <2>3, <2>4
  <1>4. AuditPlaced(p, state[r], hosted[r])
    <2>1. AuditPlaced(proc[r], state[r], hosted[r])
      BY AuditReading
    <2> QED
      BY <1>3, <2>1 DEF AuditPlaced, AuditImported, Audit!Preparing
  <1>5. AuditFirst(<<>>) /\ \A q \in Runs : ~AuditHas(q, <<>>)
    BY DEF AuditFirst, AuditHas
  <1>6. /\ new.head = c.head \/ new.head.on = "merged"
        /\ AuditFirst(new.head.by) /\ \A q \in Runs : AuditHas(q, new.head.by) => AuditHas(q, c.head.by)
    BY <1>2, <1>3, <1>5, AuditConstants
  <1>7. p.pc \notin AuditImported
    BY <1>3 DEF AuditImported
  <1> QED
    BY <1>1, <1>3, <1>4, <1>6, <1>7, AuditMove

LEMMA AuditSettleKeeps ==
  ASSUME Audit!HistoricalAuditAssumption, AuditInv, NEW r \in Runs, Audit!Settle(r)
  PROVE  AuditInv'
  <1>1. proc[r].pc = "settle" /\ state[r].status = "preparing"
    BY AuditReading DEF Audit!Settle, AuditPlaced, Audit!Preparing
  <1>2. CASE Audit!End(r, "preparation_failed")
    BY <1>1, <1>2, AuditEnd DEF AuditBrought, Audit!Statuses
  <1>3. CASE ~Audit!End(r, "preparation_failed")
    BY <1>1, <1>3, AuditReady DEF Audit!Settle, Audit!Preparing
  <1> QED
    BY <1>2, <1>3

LEMMA AuditStartKeeps ==
  ASSUME Audit!HistoricalAuditAssumption, AuditInv, NEW r \in Runs, Audit!Start(r)
  PROVE  AuditInv'
  <1>1. proc[r].pc = "start" /\ state[r].status = "ready" /\ "ready" \in Audit!Statuses
    BY AuditReading DEF Audit!Start, AuditPlaced, Audit!Statuses
  <1>2. CASE Audit!End(r, state[r].status)
    BY <1>1, <1>2, AuditEnd DEF AuditBrought
  <1>3. CASE ~Audit!End(r, state[r].status)
    <2>1. Audit!Save(r, [state[r] EXCEPT !.status = "running"]) /\ Audit!Goto(r, "ask") /\ UNCHANGED local
      BY <1>3 DEF Audit!Start
    <2>2. AuditPlaced([proc[r] EXCEPT !.pc = "ask"], [state[r] EXCEPT !.status = "running"], hosted[r])
      BY AuditReading DEF AuditPlaced, AuditImported, Audit!Preparing, AuditMemory, AuditFile
    <2> QED
      BY <1>1, <2>1, <2>2, AuditSave DEF AuditBrought, AuditImported, Audit!Statuses, Audit!Pcs
  <1> QED
    BY <1>2, <1>3

LEMMA AuditAskKeeps ==
  ASSUME Audit!HistoricalAuditAssumption, AuditInv, NEW r \in Runs, Audit!Ask(r)
  PROVE  AuditInv'
  <1>1. PICK s, p, h : /\ s = state[r] /\ h = [hosted[r] EXCEPT !.status = "running"]
                       /\ p = [proc[r] EXCEPT !.pc = "collect"]
    OBVIOUS
  <1>2. /\ s \in AuditFile /\ h \in AuditTask /\ h.status = "running" /\ p \in AuditMemory /\ p.pc = "collect"
    BY <1>1, AuditReading DEF AuditTask, AuditMemory, Audit!Pcs
  <1>3. /\ UNCHANGED <<github, local, budget>> /\ state' = [state EXCEPT ![r] = s] /\ proc' = [proc EXCEPT ![r] = p]
        /\ hosted' = [hosted EXCEPT ![r] = h]
    BY <1>1 DEF Audit!Ask, Audit!Goto, AuditInv, AuditTypes
  <1>4. proc[r].pc = "ask" /\ s.status = "running"
    BY <1>1, AuditReading DEF Audit!Ask, AuditPlaced
  <1>5. AuditPlaced(p, s, h)
    BY <1>2, <1>4 DEF AuditPlaced, AuditImported, Audit!Preparing
  <1> QED
    BY <1>1, <1>2, <1>3, <1>4, <1>5, AuditQuiet DEF AuditImported

LEMMA AuditHostedEndsKeeps ==
  ASSUME Audit!HistoricalAuditAssumption, AuditInv, NEW r \in Runs, Audit!HostedEnds(r)
  PROVE  AuditInv'
  <1>1. PICK h \in AuditTask : /\ hosted' = [hosted EXCEPT ![r] = h]
                               /\ h.status = "completed" => h.outcome # "none"
    <2>1. CASE hosted' = [hosted EXCEPT ![r].status = "failed"]
      <3>1. PICK h : h = [hosted[r] EXCEPT !.status = "failed"]
        OBVIOUS
      <3>2. h \in AuditTask /\ h.status = "failed"
        BY <3>1, AuditReading DEF AuditTask
      <3> QED
        BY <2>1, <3>1, <3>2
    <2>2. CASE ~(hosted' = [hosted EXCEPT ![r].status = "failed"])
      BY <2>2 DEF Audit!HostedEnds, AuditTask
    <2> QED
      BY <2>1, <2>2
  <1>2. PICK s, p : s = state[r] /\ p = proc[r]
    OBVIOUS
  <1>3. hosted[r].status = "running" /\ UNCHANGED <<github, local, budget>>
        /\ state' = [state EXCEPT ![r] = s] /\ proc' = [proc EXCEPT ![r] = p]
    BY <1>2 DEF Audit!HostedEnds, AuditInv, AuditTypes
  <1>4. s \in AuditFile /\ p \in AuditMemory /\ AuditPlaced(p, s, hosted[r])
    BY <1>2, AuditReading
  <1>5. p.pc \notin AuditImported \cup {"validate", "import"}
    BY <1>3, <1>4 DEF AuditPlaced
  <1>6. AuditPlaced(p, s, h)
    BY <1>1, <1>4, <1>5 DEF AuditPlaced, AuditImported, Audit!Preparing
  <1> QED
    BY <1>1, <1>2, <1>3, <1>4, <1>5, <1>6, AuditQuiet

LEMMA AuditCollectKeeps ==
  ASSUME Audit!HistoricalAuditAssumption, AuditInv, NEW r \in Runs, Audit!Collect(r) \/ Audit!CollectNothing(r)
  PROVE  AuditInv'
  <1>1. proc[r].pc = "collect" /\ state[r].status = "running"
    BY AuditReading DEF Audit!Collect, Audit!CollectNothing, AuditPlaced
  <1>2. CASE Audit!End(r, "failed") \/ Audit!End(r, "failed_without_result")
    BY <1>1, <1>2, AuditEnd DEF AuditBrought, Audit!Statuses
  <1>3. CASE ~(Audit!End(r, "failed") \/ Audit!End(r, "failed_without_result"))
    <2>1. PICK p : p = [proc[r] EXCEPT !.pc = "validate"]
      OBVIOUS
    <2>2. hosted[r].status = "completed" /\ proc' = [proc EXCEPT ![r] = p] /\
            UNCHANGED <<github, local, hosted, state, budget>>
      BY <1>3, <2>1 DEF Audit!Collect, Audit!CollectNothing, Audit!Goto, AuditInv, AuditTypes
    <2>3. p \in AuditMemory /\ p.pc = "validate"
      BY <2>1, AuditReading DEF AuditMemory, Audit!Pcs
    <2>4. AuditPlaced(p, state[r], hosted[r])
      BY <1>1, <2>2, <2>3, AuditReading DEF AuditPlaced, AuditImported, Audit!Preparing
    <2> QED
      BY <1>1, <2>2, <2>3, <2>4, AuditGo DEF AuditImported
  <1> QED
    BY <1>2, <1>3

LEMMA AuditValidateKeeps ==
  ASSUME Audit!HistoricalAuditAssumption, AuditInv, NEW r \in Runs, Audit!Validate(r)
  PROVE  AuditInv'
  <1>1. proc[r].pc = "validate" /\ state[r].status = "running" /\ hosted[r].status = "completed"
    BY AuditReading DEF Audit!Validate, AuditPlaced, AuditImported
  <1>2. CASE Audit!End(r, "failed") \/ Audit!End(r, "head_moved")
    BY <1>1, <1>2, AuditEnd DEF AuditBrought, Audit!Statuses
  <1>3. CASE ~(Audit!End(r, "failed") \/ Audit!End(r, "head_moved"))
    <2>1. /\ Audit!Save(r, [state[r] EXCEPT !.status = "validated_pending_import"]) /\ Audit!Goto(r, "import")
          /\ UNCHANGED local
          /\ hosted[r].outcome # "incomplete"
      BY <1>3 DEF Audit!Validate, Audit!Pending
    <2>2. hosted[r].outcome \in {"clean", "exhausted"}
      BY <1>1, <2>1, AuditReading DEF AuditTask, AuditPlaced
    <2>3. AuditPlaced([proc[r] EXCEPT !.pc = "import"], [state[r] EXCEPT !.status = "validated_pending_import"],
            hosted[r])
      BY <1>1, <2>2, AuditReading DEF AuditPlaced, AuditImported, Audit!Preparing, AuditMemory, AuditFile
    <2> QED
      BY <1>1, <2>1, <2>3, AuditSave DEF AuditBrought, AuditImported, Audit!Statuses, Audit!Pcs
  <1> QED
    BY <1>2, <1>3

LEMMA AuditImportKeeps ==
  ASSUME Audit!HistoricalAuditAssumption, AuditInv, NEW r \in Runs, Audit!Import(r)
  PROVE  AuditInv'
  <1>1. /\ proc[r].pc = "import" /\ state[r].status = "validated_pending_import" /\ hosted[r].status = "completed"
        /\ hosted[r].outcome \in {"clean", "exhausted"}
    BY AuditReading DEF Audit!Import, AuditPlaced, AuditImported
  <1>2. CASE Audit!End(r, "failed")
    BY <1>1, <1>2, AuditEnd DEF AuditBrought, Audit!Statuses
  <1>3. CASE ~Audit!End(r, "failed")
    <2>1. PICK c, m, p : c = Audit!Checkout(r) /\ m = Audit!Result(r) /\ p = [proc[r] EXCEPT !.pc = "imported"]
      OBVIOUS
    <2>2. PICK new : new = [local[c] EXCEPT !.head = m]
      OBVIOUS
    <2>3. /\ local' = [local EXCEPT ![c] = new] /\ UNCHANGED <<github, hosted, state, budget>>
          /\ proc' = [proc EXCEPT ![r] = p]
      BY <1>3, <2>1, <2>2 DEF Audit!Import, Audit!Goto, AuditInv, AuditTypes
    <2>4. <<r>> \in Seq(AuditAuthors) /\ AuditFirst(<<r>>) /\ \A q \in Runs \ {r} : ~AuditHas(q, <<r>>)
      BY DEF AuditAuthors, AuditFirst, AuditHas
    <2>5. AuditFirst(<<>>) /\ \A q \in Runs : ~AuditHas(q, <<>>)
      BY DEF AuditFirst, AuditHas
    <2>6. /\ c \in Audit!Checkouts /\ m \in AuditLine({"default", "merged"}) /\ m.on = "merged"
          /\ m.by \in {<<r>>, <<>>}
      BY <2>1, <2>4, AuditConstants DEF AuditLine, Audit!Result, Audit!Commit, Audit!Merged
    <2>7. new \in AuditCheckout /\ new.head = m
      BY <2>2, <2>6 DEF AuditInv, AuditTypes, AuditCheckout
    <2>8. p \in AuditMemory /\ p.pc = "imported"
      BY <2>1, AuditReading DEF AuditMemory, Audit!Pcs
    <2>9. AuditPlaced(p, state[r], hosted[r])
      BY <1>1, <2>8, AuditReading DEF AuditPlaced, AuditImported, Audit!Preparing
    <2>10. state[r].status \in AuditBrought
      BY <1>1 DEF AuditBrought
    <2>11. AuditFirst(m.by) /\ \A q \in Runs : AuditHas(q, m.by) => q = r
      BY <2>4, <2>5, <2>6
    <2> QED
      BY <2>1, <2>3, <2>6, <2>7, <2>8, <2>9, <2>10, <2>11, AuditMove DEF AuditImported
  <1> QED
    BY <1>2, <1>3

LEMMA AuditImportedKeeps ==
  ASSUME Audit!HistoricalAuditAssumption, AuditInv, NEW r \in Runs, Audit!Imported(r)
  PROVE  AuditInv'
  <1>1. /\ proc[r].pc = "imported" /\ state[r].status = "validated_pending_import" /\ hosted[r].status = "completed"
        /\ hosted[r].outcome \in {"clean", "exhausted"}
    BY AuditReading DEF Audit!Imported, AuditPlaced, AuditImported
  <1>2. CASE Audit!End(r, "failed")
    BY <1>1, <1>2, AuditEnd DEF AuditBrought, Audit!Statuses
  <1>3. CASE ~Audit!End(r, "failed")
    <2>1. Audit!Save(r, [state[r] EXCEPT !.status = "validated"]) /\ Audit!Goto(r, "publish") /\ UNCHANGED local
      BY <1>3 DEF Audit!Imported
    <2>2. AuditPlaced([proc[r] EXCEPT !.pc = "publish"], [state[r] EXCEPT !.status = "validated"], hosted[r])
      BY <1>1, AuditReading DEF AuditPlaced, AuditImported, Audit!Preparing, AuditMemory, AuditFile
    <2> QED
      BY <1>1, <2>1, <2>2, AuditSave DEF AuditBrought, AuditImported, Audit!Statuses, Audit!Pcs
  <1> QED
    BY <1>2, <1>3

LEMMA AuditPublishKeeps ==
  ASSUME Audit!HistoricalAuditAssumption, AuditInv, NEW r \in Runs, Audit!Publish(r)
  PROVE  AuditInv'
  <1>1. /\ proc[r].pc = "publish" /\ state[r].status = "validated" /\ hosted[r].status = "completed"
        /\ hosted[r].outcome \in {"clean", "exhausted"}
    BY AuditReading DEF Audit!Publish, AuditPlaced, AuditImported
  <1>2. CASE Audit!End(r, "publication_failed")
    BY <1>1, <1>2, AuditEnd DEF AuditBrought, Audit!Statuses
  <1>3. CASE ~Audit!End(r, "publication_failed")
    <2>1. PICK p : p = [proc[r] EXCEPT !.pc = IF hosted[r].commits /\
            github.remote # Audit!Result(r) THEN "push" ELSE "record",
                                       !.read = github.remote]
      OBVIOUS
    <2>2. /\ proc' = [proc EXCEPT ![r] = p] /\ UNCHANGED <<github, local, hosted, state, budget>>
          /\ hosted[r].commits => Audit!MayPublish(r)
      BY <1>3, <2>1 DEF Audit!Publish, AuditInv, AuditTypes
    <2>3. github.remote \in AuditLine({"none", "default", "merged"})
      BY AuditReading DEF AuditLine
    <2>4. /\ p \in AuditMemory /\ p.read = github.remote /\ p.pc \in {"push", "record"}
          /\ p.pc = "push" => hosted[r].commits /\ github.remote = Audit!NoCommit
      BY <2>1, <2>2, <2>3, AuditReading DEF AuditMemory, Audit!Pcs, Audit!MayPublish
    <2>5. AuditPlaced(p, state[r], hosted[r])
      BY <1>1, <2>4 DEF AuditPlaced, AuditImported, Audit!Preparing
    <2> QED
      BY <1>1, <2>2, <2>4, <2>5, AuditGo DEF AuditImported
  <1> QED
    BY <1>2, <1>3

LEMMA AuditPushKeeps ==
  ASSUME Audit!HistoricalAuditAssumption, AuditInv, NEW r \in Runs, Audit!Push(r)
  PROVE  AuditInv'
  <1>1. /\ proc[r].pc = "push" /\ state[r].status = "validated" /\ hosted[r].status = "completed"
        /\ hosted[r].outcome \in {"clean", "exhausted"} /\ hosted[r].commits
    BY AuditReading DEF Audit!Push, AuditPlaced, AuditImported
  <1>2. PICK p : p = [proc[r] EXCEPT !.pc = "record"]
    OBVIOUS
  <1>3. proc' = [proc EXCEPT ![r] = p] /\ UNCHANGED <<local, hosted, state, budget>>
    BY <1>2 DEF Audit!Push, Audit!Goto, AuditInv, AuditTypes
  <1>4. p \in AuditMemory /\ p.pc = "record"
    BY <1>2, AuditReading DEF AuditMemory, Audit!Pcs
  <1>5. AuditPlaced(p, state[r], hosted[r])
    BY <1>1, <1>4, AuditReading DEF AuditPlaced, AuditImported, Audit!Preparing
  <1>6. CASE github' = github
    BY <1>1, <1>3, <1>4, <1>5, <1>6, AuditGo DEF AuditImported
  <1>7. CASE github' # github
    <2>1. PICK m : m = Audit!HeadOf(local[Audit!Checkout(r)])
      OBVIOUS
    <2>2. github' = [github EXCEPT !.remote = m]
      BY <1>7, <2>1 DEF Audit!Push
    <2>3. local[Audit!Checkout(r)].head.on = "merged" /\ Audit!Checkout(r) \in Audit!Checkouts
      BY <1>1, AuditConstants, AuditReading DEF AuditMine, AuditImported
    <2>4. /\ m \in AuditLine({"none", "merged"}) /\ AuditFirst(m.by)
          /\ \A q \in Runs : AuditHas(q, m.by) => AuditHas(q, local[Audit!Checkout(r)].head.by)
      BY <2>1, <2>3, AuditHeads DEF AuditLine
    <2>5. AuditTypes'
      BY <1>3, <1>4, <2>2, <2>4 DEF AuditInv, AuditTypes
    <2>6. github'.remote = m
      BY <2>2 DEF AuditInv, AuditTypes
    <2>7. proc'[r] = p /\ \A q \in Runs \ {r} : proc'[q] = proc[q]
      BY <1>3 DEF AuditInv, AuditTypes
    <2>8. \A q \in Runs : AuditPlaced(proc'[q], state'[q], hosted'[q])
      BY <1>3, <1>5, <2>7 DEF AuditInv
    <2>9. ASSUME NEW q \in Runs PROVE AuditMine(q)'
      <3>1. AuditMine(q)
        BY DEF AuditInv
      <3>2. proc'[q].pc \in AuditImported => proc[q].pc \in AuditImported
        BY <1>1, <2>7 DEF AuditImported
      <3> QED
        BY <1>3, <2>3, <2>4, <2>6, <3>1, <3>2 DEF AuditMine
    <2> QED
      BY <1>3, <2>4, <2>5, <2>6, <2>8, <2>9 DEF AuditInv
  <1> QED
    BY <1>6, <1>7

LEMMA AuditRecordKeeps ==
  ASSUME Audit!HistoricalAuditAssumption, AuditInv, NEW r \in Runs, Audit!Record(r)
  PROVE  AuditInv'
  <1>1. proc[r].pc = "record" /\ state[r].status = "validated"
    BY AuditReading DEF Audit!Record, AuditPlaced
  <1>2. CASE Audit!End(r, "publication_failed")
    BY <1>1, <1>2, AuditEnd DEF AuditBrought, Audit!Statuses
  <1>3. CASE ~Audit!End(r, "publication_failed")
    <2>1. PICK s, p, h : /\ s = [status |-> "completed", outcome |-> Audit!Outcome(hosted[r]),
                                clean |-> IF Audit!Outcome(hosted[r]) \in {"clean",
                                  "no_change"} THEN Audit!Result(r) ELSE Audit!NoCommit]
                         /\ p = [Audit!Started EXCEPT !.pc = "over"] /\ h = hosted[r]
      OBVIOUS
    <2>2. /\ UNCHANGED <<github, local, budget>> /\ state' = [state EXCEPT ![r] = s] /\ proc' = [proc EXCEPT ![r] = p]
          /\ hosted' = [hosted EXCEPT ![r] = h] /\ h \in AuditTask
      BY <1>3, <2>1 DEF Audit!Record, Audit!Save, AuditInv, AuditTypes
    <2>3. p \in AuditMemory /\ p.pc = "over"
      BY <2>1, AuditConstants DEF AuditMemory, Audit!Pcs
    <2>4. Audit!Result(r) \in AuditLine({"none", "merged"})
      <3>1. <<r>> \in Seq(AuditAuthors)
        BY DEF AuditAuthors
      <3> QED
        BY <3>1, AuditConstants DEF Audit!Result, Audit!Commit, AuditLine
    <2>5. s \in AuditFile /\ s.status = "completed"
      BY <2>1, <2>4, AuditConstants DEF AuditFile, Audit!Statuses, Audit!Outcome
    <2>6. AuditPlaced(p, s, h) /\ p.pc \notin AuditImported
      BY <2>1, <2>3, AuditReading DEF AuditPlaced, AuditImported, Audit!Preparing
    <2> QED
      BY <2>2, <2>3, <2>5, <2>6, AuditQuiet DEF AuditBrought
  <1> QED
    BY <1>2, <1>3

LEMMA AuditRaisedKeeps ==
  ASSUME Audit!HistoricalAuditAssumption, AuditInv, NEW r \in Runs, Audit!Raised(r)
  PROVE  AuditInv'
  <1>1. CASE proc[r].pc \in Audit!Preparing \cup {"ask"}
    <2>1. state[r].status \notin AuditBrought
      BY <1>1, AuditReading DEF AuditPlaced, AuditBrought
    <2> QED
      BY <1>1, <2>1, AuditEnd DEF Audit!Raised, Audit!Preparing, Audit!Statuses
  <1>2. CASE proc[r].pc \notin Audit!Preparing \cup {"ask"}
    BY <1>2, AuditEnd DEF Audit!Raised, AuditBrought, Audit!Statuses
  <1> QED
    BY <1>1, <1>2

LEMMA AuditCrashKeeps ==
  ASSUME Audit!HistoricalAuditAssumption, AuditInv, NEW r \in Runs, Audit!Crash(r)
  PROVE  AuditInv'
  <1>1. PICK p : p = [proc[r] EXCEPT !.pc = "over"]
    OBVIOUS
  <1>2. p \in AuditMemory /\ p.pc = "over"
    BY <1>1, AuditReading DEF AuditMemory, Audit!Pcs
  <1>3. proc' = [proc EXCEPT ![r] = p] /\ UNCHANGED <<github, local, hosted, state, budget>>
    BY <1>1 DEF Audit!Crash, Audit!Goto, AuditInv, AuditTypes
  <1>4. AuditPlaced(p, state[r], hosted[r])
    BY <1>2, AuditReading DEF AuditPlaced, AuditImported, Audit!Preparing
  <1> QED
    BY <1>2, <1>3, <1>4, AuditGo DEF AuditImported

LEMMA AuditOthersKeep ==
  ASSUME Audit!HistoricalAuditAssumption, AuditInv, Audit!OthersMove
  PROVE  AuditInv'
  <1>1. /\ budget > 0 /\ budget' = budget - 1 /\ UNCHANGED <<hosted, state, proc>> /\ MaxEvents \in Nat
        /\ budget \in 0..MaxEvents /\ Runs \subseteq Nat \ {0} /\ Audit!Others \in AuditAuthors
        /\ Audit!Others \notin Runs
    BY AuditConstants DEF Audit!OthersMove, AuditInv, AuditTypes, AuditAuthors, Audit!Others
  <1>2. ASSUME NEW by \in Seq(AuditAuthors), AuditFirst(by)
        PROVE  /\ Append(by, Audit!Others) \in Seq(AuditAuthors) /\ AuditFirst(Append(by, Audit!Others))
               /\ \A q \in Runs : AuditHas(q, Append(by, Audit!Others)) <=> AuditHas(q, by)
    BY <1>1, <1>2 DEF AuditFirst, AuditHas
  <1>3. AuditFirst(<<>>) /\ \A q \in Runs : ~AuditHas(q, <<>>)
    BY DEF AuditFirst, AuditHas
  <1>4. CASE UNCHANGED local
    <2>1. PICK pr, remote : github' = [github EXCEPT !.pr = pr, !.remote = remote] /\ pr \in {github.pr, github.pr + 1}
            /\ remote \in {github.remote, Audit!Commit("merged", Append(github.remote.by, Audit!Others)),
                 Audit!NoCommit}
      <3>1. CASE github' = [github EXCEPT !.pr = @ + 1]
        <4>1. github' = [github EXCEPT !.pr = github.pr + 1, !.remote = github.remote]
          BY <3>1 DEF AuditInv, AuditTypes
        <4> QED
          BY <4>1
      <3>2. ASSUME NEW remote, github' = [github EXCEPT !.remote = remote]
            PROVE  github' = [github EXCEPT !.pr = github.pr, !.remote = remote]
        BY <3>2 DEF AuditInv, AuditTypes
      <3>3. CASE github' = [github EXCEPT !.remote = Audit!Commit("merged", Append(@.by, Audit!Others))]
        BY <3>2, <3>3
      <3>4. CASE github' = [github EXCEPT !.remote = Audit!NoCommit]
        BY <3>2, <3>4
      <3>5. CASE UNCHANGED github
        <4>1. github' = [github EXCEPT !.pr = github.pr, !.remote = github.remote]
          BY <3>5 DEF AuditInv, AuditTypes
        <4> QED
          BY <4>1
      <3> QED
        BY <1>4, <3>1, <3>3, <3>4, <3>5 DEF Audit!OthersMove
    <2>2. github.remote.by \in Seq(AuditAuthors) /\ AuditFirst(github.remote.by) /\
            github.remote \in AuditLine({"none", "merged"})
      BY DEF AuditInv, AuditTypes, AuditLine
    <2>3. PICK by : by = Append(github.remote.by, Audit!Others)
      OBVIOUS
    <2>4. by \in Seq(AuditAuthors) /\ AuditFirst(by) /\ \A q \in Runs : AuditHas(q, by) => AuditHas(q, github.remote.by)
      BY <1>2, <2>2, <2>3
    <2>5. /\ remote \in AuditLine({"none", "merged"}) /\ AuditFirst(remote.by)
          /\ \A q \in Runs : AuditHas(q, remote.by) => AuditHas(q, github.remote.by)
      <3>1. CASE remote = github.remote
        BY <2>2, <3>1
      <3>2. CASE remote = Audit!NoCommit
        BY <1>3, <3>2, AuditConstants
      <3>3. CASE remote = Audit!Commit("merged", by)
        BY <2>4, <3>3 DEF Audit!Commit, AuditLine
      <3> QED
        BY <2>1, <2>3, <3>1, <3>2, <3>3
    <2>6. pr \in 0..MaxEvents /\ pr + budget' <= MaxEvents /\ budget' \in 0..MaxEvents
      BY <1>1, <2>1 DEF AuditInv, AuditTypes
    <2>7. AuditTypes' /\ github'.remote = remote
      BY <1>1, <1>4, <2>1, <2>5, <2>6 DEF AuditInv, AuditTypes
    <2>8. \A q \in Runs : AuditMine(q)'
      BY <1>1, <1>4, <2>5, <2>7 DEF AuditInv, AuditMine
    <2> QED
      BY <1>1, <1>4, <2>5, <2>7, <2>8 DEF AuditInv
  <1>5. CASE ~UNCHANGED local
    <2>1. UNCHANGED github
      BY <1>5 DEF Audit!OthersMove
    <2>2. PICK c \in Audit!Checkouts : local' \in {[local EXCEPT ![c] = Audit!Committed(@)],
            [local EXCEPT ![c].dirty = ~@]}
      BY <1>5 DEF Audit!OthersMove
    <2>3. local[c] \in AuditCheckout /\ AuditFirst(local[c].head.by)
      BY DEF AuditInv, AuditTypes
    <2>4. PICK new \in AuditCheckout :
            /\ local' = [local EXCEPT ![c] = new] /\ new.head.on = local[c].head.on
            /\ AuditFirst(new.head.by) /\ \A q \in Runs : AuditHas(q, new.head.by) <=> AuditHas(q, local[c].head.by)
      <3>1. CASE local' = [local EXCEPT ![c] = Audit!Committed(@)] /\ local[c].away = Audit!NoCommit
        <4>1. PICK by : by = Append(local[c].head.by, Audit!Others)
          OBVIOUS
        <4>2. by \in Seq(AuditAuthors) /\ AuditFirst(by) /\
                \A q \in Runs : AuditHas(q, by) <=> AuditHas(q, local[c].head.by)
          BY <1>2, <2>3, <4>1 DEF AuditCheckout, AuditLine
        <4>3. PICK head : head = [local[c].head EXCEPT !.by = by]
          OBVIOUS
        <4>4. head \in AuditLine({"default", "merged"}) /\ head.on = local[c].head.on /\ head.by = by
          BY <2>3, <4>2, <4>3 DEF AuditCheckout, AuditLine
        <4>5. PICK new : new = [local[c] EXCEPT !.head = head]
          OBVIOUS
        <4>6. new \in AuditCheckout /\ new.head = head
          BY <2>3, <4>4, <4>5 DEF AuditCheckout
        <4>7. local' = [local EXCEPT ![c] = new]
          BY <3>1, <4>1, <4>3, <4>5 DEF Audit!Committed
        <4> QED
          BY <4>2, <4>4, <4>6, <4>7
      <3>2. CASE local' = [local EXCEPT ![c] = Audit!Committed(@)] /\ local[c].away # Audit!NoCommit
        <4>1. PICK by : by = Append(local[c].away.by, Audit!Others)
          OBVIOUS
        <4>2. local[c].away \in [on : {"merged"}, by : Seq({Audit!Others})]
          BY <2>3, <3>2 DEF AuditCheckout, AuditAway
        <4>3. by \in Seq({Audit!Others})
          BY <4>1, <4>2
        <4>4. PICK away : away = [local[c].away EXCEPT !.by = by]
          OBVIOUS
        <4>5. away \in AuditAway
          BY <4>2, <4>3, <4>4 DEF AuditAway
        <4>6. PICK new : new = [local[c] EXCEPT !.away = away]
          OBVIOUS
        <4>7. new \in AuditCheckout /\ new.head = local[c].head
          BY <2>3, <4>5, <4>6 DEF AuditCheckout
        <4>8. local' = [local EXCEPT ![c] = new]
          BY <3>2, <4>1, <4>4, <4>6 DEF Audit!Committed
        <4> QED
          BY <2>3, <4>7, <4>8
      <3>3. CASE local' = [local EXCEPT ![c].dirty = ~@]
        <4>1. PICK new : new = [local[c] EXCEPT !.dirty = ~@]
          OBVIOUS
        <4>2. new \in AuditCheckout /\ new.head = local[c].head
          BY <2>3, <4>1 DEF AuditCheckout
        <4>3. local' = [local EXCEPT ![c] = new]
          BY <3>3, <4>1
        <4> QED
          BY <2>3, <4>2, <4>3
      <3> QED
        BY <2>2, <3>1, <3>2, <3>3
    <2>5. local'[c] = new /\ \A d \in Audit!Checkouts \ {c} : local'[d] = local[d]
      BY <2>4 DEF AuditInv, AuditTypes
    <2>6. budget' \in 0..MaxEvents /\ github'.pr + budget' <= MaxEvents
      BY <1>1, <2>1 DEF AuditInv, AuditTypes
    <2>8. AuditTypes'
      BY <1>1, <2>1, <2>4, <2>6 DEF AuditInv, AuditTypes
    <2>9. /\ \A d \in Audit!Checkouts : AuditFirst(local'[d].head.by) /\ local'[d].head.on = local[d].head.on
          /\ \A d \in Audit!Checkouts, q \in Runs : AuditHas(q, local'[d].head.by) <=> AuditHas(q, local[d].head.by)
      BY <2>4, <2>5 DEF AuditInv
    <2>10. \A q \in Runs : AuditMine(q)'
      BY <1>1, <2>1, <2>9, AuditConstants DEF AuditInv, AuditMine
    <2> QED
      BY <1>1, <2>1, <2>8, <2>9, <2>10 DEF AuditInv
  <1> QED
    BY <1>4, <1>5

LEMMA AuditNext ==
  ASSUME Audit!HistoricalAuditAssumption, AuditInv, [Audit!Next]_Audit!vars
  PROVE  AuditInv'
  <1>1. CASE UNCHANGED Audit!vars
    BY <1>1 DEF Audit!vars, AuditInv, AuditTypes, AuditPlaced, AuditMine
  <1>2. CASE Audit!Next
    BY <1>1, <1>2, AuditLaunchKeeps, AuditPrepareKeeps, AuditExamineKeeps, AuditRealignKeeps, AuditSettleKeeps,
       AuditStartKeeps, AuditAskKeeps, AuditHostedEndsKeeps, AuditCollectKeeps,
       AuditValidateKeeps, AuditImportKeeps, AuditImportedKeeps, AuditPublishKeeps, AuditPushKeeps, AuditRecordKeeps,
       AuditRaisedKeeps, AuditCrashKeeps, AuditOthersKeep DEF Audit!Next, Audit!Rest
  <1> QED
    BY <1>1, <1>2

LEMMA AuditInvariance ==
  ASSUME Audit!HistoricalAuditAssumption
  PROVE  Audit!Spec => []AuditInv
  <1>1. Audit!Init => AuditInv
    BY AuditInit
  <1>2. AuditInv /\ [Audit!Next]_Audit!vars => AuditInv'
    BY AuditNext
  <1> QED
    BY <1>1, <1>2, PTL DEF Audit!Spec

\* The types of what historical_pr_audit.py keeps, on disk and in its checkouts.
THEOREM AuditTypesHold == ASSUME Audit!HistoricalAuditAssumption PROVE Audit!Spec => []Audit!TypeOK
  <1>1. AuditInv => Audit!TypeOK
    <2> SUFFICES ASSUME AuditInv PROVE Audit!TypeOK
      OBVIOUS
    <2>1. \A r \in Runs : proc[r] \in AuditMemory /\ state[r] \in AuditFile /\ hosted[r] \in AuditTask
      BY AuditReading
    <2>2. /\ github.pr \in 0..MaxEvents /\ github.remote.on \in {"none", "merged"}
          /\ github.remote.by \in Seq(AuditAuthors)
      BY DEF AuditInv, AuditTypes, AuditLine
    <2>3. \A i \in DOMAIN github.remote.by : github.remote.by[i] \in Runs \cup {Audit!Others}
      BY <2>2 DEF AuditAuthors
    <2>4. \A c \in Audit!Checkouts : local[c].head.on \in {"default", "merged"} /\ local[c].dirty \in BOOLEAN
                             /\ local[c].away.on \in {"none", "merged"}
      BY AuditConstants DEF AuditInv, AuditTypes, AuditCheckout, AuditAway, AuditLine
    <2> QED
      BY <2>1, <2>2, <2>3, <2>4 DEF Audit!TypeOK, AuditInv, AuditTypes, AuditMemory, AuditFile, AuditTask
  <1> QED
    BY <1>1, AuditInvariance, PTL

\* Whose commits are on an audit branch, that run's state file says so: the candidate is
\* recorded before it is imported (validated_pending_import).
THEOREM AuditIsAccounted == ASSUME Audit!HistoricalAuditAssumption PROVE Audit!Spec => []Audit!Accounted
  <1>1. AuditInv => Audit!Accounted
    <2> SUFFICES ASSUME AuditInv, NEW r \in Runs
                 PROVE  LET brought(by) == \E i \in DOMAIN by : by[i] = r
                        IN /\ (\E c \in Audit!Checkouts : brought(local[c].head.by)) \/ brought(github.remote.by) =>
                                state[r].status \in AuditBrought
                           /\ brought(github.remote.by) => Head(github.remote.by) = r
      BY DEF Audit!Accounted, AuditBrought
    <2>1. r # Audit!Others
      BY AuditConstants DEF Audit!Others
    <2>2. ASSUME NEW by \in Seq(AuditAuthors), AuditFirst(by), NEW i \in DOMAIN by, by[i] = r
          PROVE  AuditHas(r, by) /\ Head(by) = r
      BY <2>1, <2>2 DEF AuditFirst, AuditHas
    <2>3. github.remote.by \in Seq(AuditAuthors) /\ \A c \in Audit!Checkouts : local[c].head.by \in Seq(AuditAuthors)
      BY DEF AuditInv, AuditTypes, AuditCheckout, AuditLine
    <2> QED
      BY <2>2, <2>3 DEF AuditInv, AuditMine
  <1> QED
    BY <1>1, AuditInvariance, PTL

\* The audit branch of the remote is only ever created, and that of a checkout leaves
\* commits behind only in realign_branch, if they came after unique_local_work looked.
THEOREM AuditLosesNothing == ASSUME Audit!HistoricalAuditAssumption PROVE Audit!Spec => [][Audit!NothingLost]_Audit!vars
  <1>1. AuditInv /\ [Audit!Next]_Audit!vars => [Audit!NothingLost]_Audit!vars
    <2> SUFFICES ASSUME AuditInv, Audit!Next, budget' = budget
                 PROVE  /\ github'.remote # github.remote => github.remote = Audit!NoCommit
                        /\ \A c \in Audit!Checkouts : local'[c].head # local[c].head /\ local[c].head.by # <<>> =>
                             \E r \in Runs : Audit!Checkout(r) = c /\ proc[r].pc = "force" /\ proc[r].read.by = <<>>
      BY DEF Audit!NothingLost, Audit!vars
    <2>1. /\ \A r \in Runs : \A s : Audit!Save(r, s) => github' = github
          /\ \A r \in Runs : \A status : Audit!End(r, status) => github' = github /\ local' = local
          /\ ~Audit!OthersMove
      BY DEF Audit!Save, Audit!End, Audit!OthersMove, AuditInv, AuditTypes
    <2>2. CASE github' = github
      <3>1. CASE local' = local
        BY <2>2, <3>1
      <3>2. CASE \E r \in Runs : Audit!MoveBranch(r)
        <4>1. PICK r \in Runs : Audit!MoveBranch(r)
          BY <3>2
        <4>2. local' = [local EXCEPT ![Audit!Checkout(r)].head = Audit!Merged] /\ proc[r].pc = "force" /\
                proc[r].read.by = <<>>
          BY <4>1, AuditReading DEF Audit!MoveBranch, AuditPlaced
        <4> QED
          BY <2>2, <4>2 DEF AuditInv, AuditTypes
      <3>3. CASE \E r \in Runs : Audit!Import(r) /\ local' # local
        <4>1. PICK r \in Runs : Audit!Import(r) /\ local' # local
          BY <3>3
        <4>2. local' = [local EXCEPT ![Audit!Checkout(r)].head = Audit!Result(r)] /\ Audit!At(r, Audit!Merged)
          BY <4>1 DEF Audit!Import, Audit!End, Audit!MayImport
        <4> QED
          BY <2>2, <4>2, AuditConstants DEF Audit!At, AuditInv, AuditTypes
      <3>4. CASE \E r \in Runs : Audit!Detach(r) \/ Audit!Return(r)
        <4>1. PICK r \in Runs : \E away : local' = [local EXCEPT ![Audit!Checkout(r)].away = away]
          BY <3>4 DEF Audit!Detach, Audit!Return, Audit!Realign
        <4>6. PICK away : local' = [local EXCEPT ![Audit!Checkout(r)].away = away]
          BY <4>1
        <4>2. Audit!Checkout(r) \in Audit!Checkouts
          BY AuditConstants
        <4>3. PICK new : new = [local[Audit!Checkout(r)] EXCEPT !.away = away]
          OBVIOUS
        <4>4. new.head = local[Audit!Checkout(r)].head /\ local' = [local EXCEPT ![Audit!Checkout(r)] = new]
          BY <4>2, <4>3, <4>6 DEF AuditInv, AuditTypes, AuditCheckout
        <4>5. \A c \in Audit!Checkouts : local'[c].head = local[c].head
          BY <4>2, <4>4 DEF AuditInv, AuditTypes
        <4> QED
          BY <2>2, <4>5
      <3>5. \/ local' = local
            \/ \E r \in Runs : Audit!MoveBranch(r) \/ Audit!Detach(r) \/ Audit!Return(r) \/
                 (Audit!Import(r) /\ local' # local)
        <4>1. ASSUME NEW r \in Runs,
                     \/ Audit!Launch(r) \/ Audit!Prepare(r) \/ Audit!Examine(r) \/ Audit!Settle(r) \/ Audit!Start(r) \/
                          Audit!Ask(r) \/ Audit!HostedEnds(r) \/ Audit!Collect(r)
                     \/ Audit!CollectNothing(r) \/ Audit!Validate(r) \/ Audit!Imported(r) \/ Audit!Publish(r) \/
                          Audit!Push(r) \/ Audit!Record(r) \/ Audit!Raised(r)
                     \/ Audit!Crash(r)
              PROVE  local' = local
          BY <2>1, <4>1 DEF Audit!Launch, Audit!Prepare, Audit!Examine, Audit!Settle, Audit!Start, Audit!Ask,
            Audit!HostedEnds, Audit!Collect, Audit!CollectNothing, Audit!Validate, Audit!Imported,
             Audit!Publish, Audit!Push, Audit!Record, Audit!Raised, Audit!Crash
        <4> QED
          BY <2>1, <4>1 DEF Audit!Next, Audit!Rest, Audit!vars
      <3> QED
        BY <3>1, <3>2, <3>3, <3>4, <3>5
    <2>3. CASE \E r \in Runs : Audit!Push(r)
      <3>1. PICK r \in Runs : Audit!Push(r)
        BY <2>3
      <3>2. proc[r].read = Audit!NoCommit /\ local' = local
        BY <3>1, AuditReading DEF Audit!Push, AuditPlaced
      <3>3. github' = github \/ github.remote = Audit!NoCommit
        BY <3>1, <3>2 DEF Audit!Push, Audit!Leased
      <3> QED
        BY <3>2, <3>3
    <2>4. github' = github \/ \E r \in Runs : Audit!Push(r)
      <3>1. ASSUME NEW r \in Runs,
                   \/ Audit!Launch(r) \/ Audit!Prepare(r) \/ Audit!Examine(r) \/ Audit!Detach(r) \/
                        Audit!MoveBranch(r) \/ Audit!Return(r) \/ Audit!Settle(r) \/ Audit!Start(r)
                   \/ Audit!Ask(r) \/ Audit!HostedEnds(r) \/ Audit!Collect(r) \/ Audit!CollectNothing(r) \/
                        Audit!Validate(r)
                   \/ Audit!Import(r) \/ Audit!Imported(r) \/ Audit!Publish(r) \/ Audit!Record(r) \/ Audit!Raised(r) \/
                        Audit!Crash(r)
            PROVE  github' = github
        BY <2>1, <3>1 DEF Audit!Launch, Audit!Prepare, Audit!Examine, Audit!Detach, Audit!MoveBranch, Audit!Return,
          Audit!Realign, Audit!Settle, Audit!Start, Audit!Ask, Audit!HostedEnds, Audit!Collect,
           Audit!CollectNothing, Audit!Validate, Audit!Import, Audit!Imported, Audit!Publish, Audit!Record,
             Audit!Raised, Audit!Crash
      <3> QED
        BY <2>1, <3>1 DEF Audit!Next, Audit!Rest, Audit!vars
    <2> QED
      BY <2>2, <2>3, <2>4
  <1> QED
    BY <1>1, AuditInvariance, PTL DEF Audit!Spec

\* A clean head was declared clean by its task and read back from the remote
\* (publish_agent_task_result).
THEOREM AuditCleanIsEarned == ASSUME Audit!HistoricalAuditAssumption PROVE Audit!Spec =>
  [][Audit!CleanIsEarned]_Audit!vars
  <1>1. AuditInv /\ [Audit!Next]_Audit!vars => [Audit!CleanIsEarned]_Audit!vars
    <2> SUFFICES ASSUME AuditInv, Audit!Next, NEW r \in Runs, state'[r].clean # Audit!NoCommit,
                 state[r].clean = Audit!NoCommit
                 PROVE  /\ hosted[r].outcome = "clean" /\ state'[r].clean = Audit!Result(r)
                        /\ hosted[r].commits => github.remote = Audit!Result(r)
      BY DEF Audit!CleanIsEarned, Audit!vars
    <2>1. \A q \in Runs : \A status : Audit!End(q, status) => state'[r].clean = state[r].clean
      <3> SUFFICES ASSUME NEW q \in Runs, NEW status, Audit!End(q, status) PROVE state'[r].clean = state[r].clean
        OBVIOUS
      <3>1. PICK s : s = [state[q] EXCEPT !.status = status]
        OBVIOUS
      <3>2. s.clean = state[q].clean /\ state' = [state EXCEPT ![q] = s]
        BY <3>1, AuditReading DEF Audit!End, Audit!Save, AuditFile
      <3> QED
        BY <3>2 DEF AuditInv, AuditTypes
    <2>2. \A q \in Runs : \A status : Audit!Save(q, [state[q] EXCEPT !.status = status]) =>
            state'[r].clean = state[r].clean
      <3> SUFFICES ASSUME NEW q \in Runs, NEW status, Audit!Save(q, [state[q] EXCEPT !.status = status])
                   PROVE state'[r].clean = state[r].clean
        OBVIOUS
      <3>1. PICK s : s = [state[q] EXCEPT !.status = status]
        OBVIOUS
      <3>2. s.clean = state[q].clean /\ state' = [state EXCEPT ![q] = s]
        BY <3>1, AuditReading DEF Audit!Save, AuditFile
      <3> QED
        BY <3>2 DEF AuditInv, AuditTypes
    <2>3. PICK q \in Runs : Audit!Record(q) /\ Audit!Landed(q)
      <3>1. ASSUME NEW q \in Runs,
                   \/ Audit!Launch(q) \/ Audit!Prepare(q) \/ Audit!Settle(q) \/ Audit!Start(q) \/ Audit!Collect(q) \/
                        Audit!CollectNothing(q) \/ Audit!Validate(q) \/ Audit!Import(q) \/ Audit!Imported(q)
                   \/ Audit!Publish(q) \/ Audit!Examine(q) \/ Audit!Raised(q)
            PROVE  state'[r].clean = state[r].clean
        BY <2>1, <2>2, <3>1 DEF Audit!Launch, Audit!Prepare, Audit!Settle, Audit!Start, Audit!Collect,
          Audit!CollectNothing, Audit!Validate, Audit!Pending, Audit!Import, Audit!Imported, Audit!Publish,
            Audit!Examine, Audit!Raised
      <3>2. ASSUME NEW q \in Runs, Audit!Ask(q) \/ Audit!HostedEnds(q) \/ Audit!Push(q) \/ Audit!Crash(q) \/
              Audit!Detach(q) \/ Audit!MoveBranch(q) \/ Audit!Return(q)
            PROVE  state' = state
        BY <3>2 DEF Audit!Ask, Audit!HostedEnds, Audit!Push, Audit!Crash, Audit!Detach, Audit!MoveBranch, Audit!Return,
          Audit!Realign
      <3>3. Audit!OthersMove \/ Audit!Rest => state' = state
        BY DEF Audit!OthersMove, Audit!Rest, Audit!vars
      <3>4. PICK q \in Runs : Audit!Record(q)
        BY <3>1, <3>2, <3>3 DEF Audit!Next
      <3> QED
        BY <2>1, <3>4 DEF Audit!Record
    <2>4. PICK s : /\ state' = [state EXCEPT ![q] = s]
                   /\ s.clean = IF Audit!Outcome(hosted[q]) \in {"clean",
                        "no_change"} THEN Audit!Result(q) ELSE Audit!NoCommit
      <3>1. PICK outcome, clean : outcome = Audit!Outcome(hosted[q]) /\
              clean = IF outcome \in {"clean", "no_change"} THEN Audit!Result(q) ELSE Audit!NoCommit
        OBVIOUS
      <3>2. state' = [state EXCEPT ![q] = [status |-> "completed", outcome |-> outcome, clean |-> clean]]
        BY <2>3, <3>1 DEF Audit!Record, Audit!Save
      <3>3. PICK s : s = [status |-> "completed", outcome |-> outcome, clean |-> clean]
        OBVIOUS
      <3>4. s.clean = clean /\ state' = [state EXCEPT ![q] = s]
        BY <3>2, <3>3
      <3> QED
        BY <3>1, <3>4
    <2>5. q = r /\ state'[r] = s
      BY <2>4 DEF AuditInv, AuditTypes
    <2>6. Audit!Outcome(hosted[r]) \in {"clean", "no_change"} /\ state'[r].clean = Audit!Result(r)
      BY <2>4, <2>5
    <2>7. hosted[r].outcome \in {"clean", "exhausted"}
      BY <2>3, <2>5, AuditReading DEF Audit!Record, AuditPlaced, AuditImported
    <2> QED
      BY <2>3, <2>5, <2>6, <2>7 DEF Audit!Outcome, Audit!Landed
  <1> QED
    BY <1>1, AuditInvariance, PTL DEF Audit!Spec

-----------------------------------------------------------------------------
(* PrReviewer: a verdict is published once, on the source that was reviewed.*)
ReviewerBase == [line : Nat, at : Nat, gone : SUBSET Candidates]
ReviewerPr == [head : Nat, text : Nat, base : ReviewerBase]
ReviewerTask == [status : {"none", "running", "completed", "failed"}, seen : ReviewerPr, out : SUBSET Candidates]
ReviewerFile == [exists : BOOLEAN, pr : ReviewerPr, phase : {"none", "discovery", "critique"},
                 status : {"none", "running", "completed", "failed", "head_changed"}, observed : ReviewerPr,
                 refreshed : BOOLEAN, candidates : SUBSET Candidates, comments : SUBSET Candidates,
                 mutation : {"not_attempted", "attempted", "created", "created_unverified", "verified"},
                   outcome : Reviewer!Outcomes]
ReviewerMemory == [pc : Reviewer!Pcs, read : ReviewerPr, anchors : SUBSET Candidates]

\* The types in full.
ReviewerTypes ==
  /\ github \in [pr : ReviewerPr, pending : [by : Runs \cup {0, Reviewer!Viewer}, commit : Nat, comments :
       SUBSET Candidates]]
  /\ local \in SUBSET Runs
  /\ hosted \in [Runs -> [discovery : ReviewerTask, critique : ReviewerTask]]
  /\ state \in [Runs -> ReviewerFile]
  /\ proc \in [Runs -> ReviewerMemory]
  /\ budget \in 0..MaxEvents

\* A base as it can be seen after another one.
ReviewerEarlier(a, b) == a.line <= b.line /\ a.at <= b.at /\ (a.at = b.at => a.gone = b.gone)

\* What the file knows of its tasks: the first one saw its source, the second one its
\* head; the comments are what the second left of what the first found.
ReviewerFound(s, h) ==
  /\ h.discovery.status = "completed" /\ h.discovery.seen.head = s.pr.head /\ h.discovery.seen.text = s.pr.text
  /\ ~s.refreshed => h.discovery.seen = s.pr
ReviewerListed(s, h) == ReviewerFound(s, h) /\ s.candidates \subseteq h.discovery.out
ReviewerJudged(s, h) == ReviewerListed(s, h) /\ h.critique.status = "completed" /\ h.critique.seen.head = s.pr.head
ReviewerChosen(s, h) ==
  ReviewerJudged(s, h) /\ s.comments = h.critique.out /\ s.comments # {} /\ s.comments \subseteq s.candidates

ReviewerPlaced(p, s, h, live) ==
  /\ p.pc = "check" => s.phase = "none" /\ ~s.refreshed
  /\ p.pc = "begin" => \/ s.phase = "none" /\ ~s.refreshed
                       \/ s.phase = "discovery" /\ ReviewerListed(s, h)
  /\ p.pc \in {"ask", "collect"} => \/ s.phase = "discovery" /\ ~s.refreshed
                                    \/ s.phase = "critique" /\ ReviewerListed(s, h)
  /\ p.pc = "collect" /\ s.phase = "discovery" =>
       h.discovery.seen.text = s.pr.text /\ ReviewerEarlier(h.discovery.seen.base, live.base)
  /\ p.pc = "refresh" => /\ s.phase = "discovery" /\ h.discovery.status = "completed"
                         /\ h.discovery.seen.head = s.pr.head /\ h.discovery.seen.text = s.pr.text
  /\ p.pc = "discovered" => s.phase = "discovery" /\ ReviewerFound(s, h)
  /\ p.pc = "ready" => ReviewerJudged(s, h)
  /\ p.pc \in {"post", "guard", "claim", "send"} => ReviewerChosen(s, h)
  /\ p.pc \in {"claim", "send"} => p.read.text = s.pr.text /\ p.read.head = s.pr.head
  /\ p.pc \in {"send", "created", "verify"} => s.mutation # "not_attempted"

ReviewerAfter == {"created", "verify", "over"}

\* The review of a run, if it is the pending one.
ReviewerPosted(review, s, h) ==
  /\ s.mutation # "not_attempted"
  /\ h.discovery.status = "completed" /\ h.critique.status = "completed"
  /\ h.discovery.seen.head = review.commit /\ h.critique.seen.head = review.commit
  /\ review.comments = h.critique.out /\ review.comments # {} /\ review.comments \subseteq h.discovery.out

ReviewerInv ==
  /\ ReviewerTypes
  /\ \A r \in Runs : ReviewerPlaced(proc[r], state[r], hosted[r], github.pr)
  /\ \A r \in Runs : github.pending.by = r => proc[r].pc \in ReviewerAfter /\
       ReviewerPosted(github.pending, state[r], hosted[r])

LEMMA ReviewerConstants ==
  ASSUME Reviewer!PrReviewerAssumption
  PROVE  /\ Runs \subseteq Nat \ {0} /\ MaxEvents \in Nat /\ \A r \in Runs : r # 0 /\ r # Reviewer!Viewer
         /\ Reviewer!NoPr \in ReviewerPr /\ Reviewer!Resting \in ReviewerMemory /\ Reviewer!Resting.pc = "over"
  <1>1. Runs \subseteq Nat \ {0} /\ MaxEvents \in Nat /\ \A r \in Runs : r # 0 /\ r # Reviewer!Viewer
    BY DEF Reviewer!PrReviewerAssumption, Reviewer!Viewer
  <1>2. Reviewer!NoPr \in ReviewerPr
    BY DEF Reviewer!NoPr, Reviewer!NoBase, ReviewerPr, ReviewerBase
  <1>3. PICK none : none = Reviewer!NoPr
    OBVIOUS
  <1>4. Reviewer!Resting = [pc |-> "over", read |-> none, anchors |-> {}]
    BY <1>3 DEF Reviewer!Resting, Reviewer!Started
  <1> QED
    BY <1>1, <1>2, <1>3, <1>4 DEF ReviewerMemory, Reviewer!Pcs

LEMMA ReviewerInit ==
  ASSUME Reviewer!PrReviewerAssumption, Reviewer!Init
  PROVE  ReviewerInv
  <1>1. PICK none : none = Reviewer!NoPr
    OBVIOUS
  <1>2. none \in ReviewerPr /\ MaxEvents \in Nat
    BY <1>1, ReviewerConstants
  <1>3. PICK task : task = [status |-> "none", seen |-> none, out |-> {}]
    OBVIOUS
  <1>4. PICK tasks : tasks = [discovery |-> task, critique |-> task]
    OBVIOUS
  <1>5. PICK file : file = [exists |-> FALSE, pr |-> none, phase |-> "none", status |-> "none", observed |-> none,
          refreshed |-> FALSE,
                            candidates |-> {}, comments |-> {}, mutation |-> "not_attempted", outcome |-> "none"]
    OBVIOUS
  <1>6. PICK memory : memory = [pc |-> "check", read |-> none, anchors |-> {}]
    OBVIOUS
  <1>7. task \in ReviewerTask /\ tasks \in [discovery : ReviewerTask, critique : ReviewerTask]
    BY <1>2, <1>3, <1>4 DEF ReviewerTask
  <1>8. file \in ReviewerFile /\ file.phase = "none" /\ ~file.refreshed
    BY <1>2, <1>5 DEF ReviewerFile, Reviewer!Outcomes
  <1>9. memory \in ReviewerMemory /\ memory.pc = "check"
    BY <1>2, <1>6 DEF ReviewerMemory, Reviewer!Pcs
  <1>10. /\ github = [pr |-> none, pending |-> [by |-> 0, commit |-> 0, comments |-> {}]]
         /\ local = {} /\ budget = MaxEvents
         /\ hosted = [r \in Runs |-> tasks] /\ state = [r \in Runs |-> file] /\ proc = [r \in Runs |-> memory]
    BY <1>1, <1>3, <1>4, <1>5, <1>6 DEF Reviewer!Init, Reviewer!NoReview, Reviewer!NoHosted, Reviewer!NoTask,
      Reviewer!NoFile, Reviewer!Started
  <1>11. ReviewerTypes
    BY <1>2, <1>7, <1>8, <1>9, <1>10 DEF ReviewerTypes
  <1>12. \A r \in Runs : ReviewerPlaced(proc[r], state[r], hosted[r], github.pr)
    BY <1>8, <1>9, <1>10 DEF ReviewerPlaced
  <1>13. \A r \in Runs : github.pending.by # r
    BY <1>10, ReviewerConstants
  <1> QED
    BY <1>11, <1>12, <1>13 DEF ReviewerInv

LEMMA ReviewerReading ==
  ASSUME ReviewerInv, NEW r \in Runs
  PROVE  /\ proc[r] \in ReviewerMemory /\ state[r] \in ReviewerFile
         /\ hosted[r] \in [discovery : ReviewerTask, critique : ReviewerTask]
         /\ ReviewerPlaced(proc[r], state[r], hosted[r], github.pr)
         /\ github.pending.by = r => proc[r].pc \in ReviewerAfter /\ ReviewerPosted(github.pending, state[r], hosted[r])
         /\ github.pr \in ReviewerPr
  BY DEF ReviewerInv, ReviewerTypes

\* A step of one run that leaves the pull request alone.
LEMMA ReviewerQuiet ==
  ASSUME ReviewerInv, NEW r \in Runs,
         NEW h \in [discovery : ReviewerTask, critique : ReviewerTask], NEW s \in ReviewerFile,
           NEW p \in ReviewerMemory,
         UNCHANGED <<github, budget>>, local' \in SUBSET Runs,
         hosted' = [hosted EXCEPT ![r] = h], state' = [state EXCEPT ![r] = s], proc' = [proc EXCEPT ![r] = p],
         ReviewerPlaced(p, s, h, github.pr),
         github.pending.by = r => p.pc \in ReviewerAfter /\ ReviewerPosted(github.pending, s, h)
  PROVE  ReviewerInv'
  <1>1. ReviewerTypes'
    BY DEF ReviewerInv, ReviewerTypes
  <1>2. /\ hosted'[r] = h /\ state'[r] = s /\ proc'[r] = p
        /\ \A q \in Runs \ {r} : hosted'[q] = hosted[q] /\ state'[q] = state[q] /\ proc'[q] = proc[q]
    BY DEF ReviewerInv, ReviewerTypes
  <1>3. \A q \in Runs : ReviewerPlaced(proc'[q], state'[q], hosted'[q], github'.pr)
    BY <1>2 DEF ReviewerInv
  <1>4. \A q \in Runs : github'.pending.by = q =>
          proc'[q].pc \in ReviewerAfter /\ ReviewerPosted(github'.pending, state'[q], hosted'[q])
    BY <1>2 DEF ReviewerInv
  <1> QED
    BY <1>1, <1>3, <1>4 DEF ReviewerInv, ReviewerPlaced, ReviewerPosted

\* A step that writes the file and goes to pc.
LEMMA ReviewerSave ==
  ASSUME ReviewerInv, NEW r \in Runs, NEW s \in ReviewerFile, NEW pc \in Reviewer!Pcs,
         Reviewer!Save(r, s), Reviewer!Goto(r, pc), local' \in SUBSET Runs,
         ReviewerPlaced([proc[r] EXCEPT !.pc = pc], s, hosted[r], github.pr),
         proc[r].pc \in ReviewerAfter => pc \in ReviewerAfter /\ s.mutation # "not_attempted"
  PROVE  ReviewerInv'
  <1>1. PICK p, h : p = [proc[r] EXCEPT !.pc = pc] /\ h = hosted[r]
    OBVIOUS
  <1>2. p \in ReviewerMemory /\ p.pc = pc /\ h \in [discovery : ReviewerTask, critique : ReviewerTask]
    BY <1>1, ReviewerReading DEF ReviewerMemory
  <1>3. /\ UNCHANGED <<github, budget>> /\ state' = [state EXCEPT ![r] = s] /\ proc' = [proc EXCEPT ![r] = p]
        /\ hosted' = [hosted EXCEPT ![r] = h]
    BY <1>1 DEF Reviewer!Goto, Reviewer!Save, ReviewerInv, ReviewerTypes
  <1>4. github.pending.by = r => p.pc \in ReviewerAfter /\ ReviewerPosted(github.pending, s, h)
    BY <1>1, <1>2, ReviewerReading DEF ReviewerPosted
  <1> QED
    BY <1>1, <1>2, <1>3, <1>4, ReviewerQuiet

LEMMA ReviewerEnd ==
  ASSUME Reviewer!PrReviewerAssumption, ReviewerInv, NEW r \in Runs, NEW s \in ReviewerFile, Reviewer!End(r, s),
         proc[r].pc \in ReviewerAfter => s.mutation # "not_attempted"
  PROVE  ReviewerInv'
  <1>1. PICK p, h : p = Reviewer!Resting /\ h = hosted[r]
    OBVIOUS
  <1>2. p \in ReviewerMemory /\ p.pc = "over" /\ h \in [discovery : ReviewerTask, critique : ReviewerTask]
    BY <1>1, ReviewerReading, ReviewerConstants
  <1>3. /\ UNCHANGED <<github, local, budget>> /\ state' = [state EXCEPT ![r] = s] /\ proc' = [proc EXCEPT ![r] = p]
        /\ hosted' = [hosted EXCEPT ![r] = h]
    BY <1>1 DEF Reviewer!End, Reviewer!Save, ReviewerInv, ReviewerTypes
  <1>4. github.pending.by = r => p.pc \in ReviewerAfter /\ ReviewerPosted(github.pending, s, h)
    BY <1>1, <1>2, ReviewerReading DEF ReviewerPosted, ReviewerAfter
  <1>5. ReviewerPlaced(p, s, h, github.pr)
    BY <1>2 DEF ReviewerPlaced
  <1>6. local' \in SUBSET Runs
    BY <1>3 DEF ReviewerInv, ReviewerTypes
  <1> QED
    BY <1>1, <1>2, <1>3, <1>4, <1>5, <1>6, ReviewerQuiet

LEMMA ReviewerFail ==
  ASSUME Reviewer!PrReviewerAssumption, ReviewerInv, NEW r \in Runs, Reviewer!Fail(r), proc[r].pc # "over"
  PROVE  ReviewerInv'
  <1>1. PICK b : b = (state[r].exists /\ state[r].outcome = "none")
    OBVIOUS
  <1>2. PICK s : s = [state[r] EXCEPT !.outcome = "error", !.status = IF b THEN "failed" ELSE @]
    OBVIOUS
  <1>3. s \in ReviewerFile /\ s.mutation = state[r].mutation
    BY <1>2, ReviewerReading DEF ReviewerFile, Reviewer!Outcomes
  <1>4. Reviewer!End(r, s)
    BY <1>1, <1>2 DEF Reviewer!Fail
  <1>5. proc[r].pc \in ReviewerAfter => state[r].mutation # "not_attempted"
    BY ReviewerReading DEF ReviewerPlaced, ReviewerAfter
  <1> QED
    BY <1>3, <1>4, <1>5, ReviewerEnd

LEMMA ReviewerCheckKeeps ==
  ASSUME Reviewer!PrReviewerAssumption, ReviewerInv, NEW r \in Runs, Reviewer!Check(r)
  PROVE  ReviewerInv'
  <1>1. proc[r].pc = "check" /\ state[r].phase = "none" /\ ~state[r].refreshed
    BY ReviewerReading DEF Reviewer!Check, ReviewerPlaced
  <1>2. CASE github.pending.by # 0
    <2>1. PICK s : s = [state[r] EXCEPT !.outcome = "existing_pending_review"]
      OBVIOUS
    <2>2. s \in ReviewerFile /\ Reviewer!End(r, s)
      BY <1>2, <2>1, ReviewerReading DEF ReviewerFile, Reviewer!Outcomes, Reviewer!Check
    <2> QED
      BY <1>1, <2>2, ReviewerEnd DEF ReviewerAfter
  <1>3. CASE github.pending.by = 0
    <2>1. PICK live : live = github.pr
      OBVIOUS
    <2>2. PICK s, p, h, anchors : /\ s = [state[r] EXCEPT !.exists = TRUE, !.pr = live] /\ h = hosted[r]
                                  /\ anchors = Reviewer!Anchors(live.base)
                                  /\ p = [pc |-> "begin", read |-> live, anchors |-> anchors]
      OBVIOUS
    <2>3. live \in ReviewerPr /\ anchors \in SUBSET Candidates
      BY <2>1, <2>2, ReviewerReading DEF Reviewer!Anchors
    <2>4. s \in ReviewerFile /\ s.phase = "none" /\ ~s.refreshed
      BY <1>1, <2>2, <2>3, ReviewerReading DEF ReviewerFile
    <2>5. p \in ReviewerMemory /\ p.pc = "begin"
      BY <2>2, <2>3 DEF ReviewerMemory, Reviewer!Pcs
    <2>6. /\ UNCHANGED <<github, local, budget>> /\ state' = [state EXCEPT ![r] = s] /\ proc' = [proc EXCEPT ![r] = p]
          /\ hosted' = [hosted EXCEPT ![r] = h] /\ h \in [discovery : ReviewerTask, critique : ReviewerTask]
      BY <1>3, <2>1, <2>2, ReviewerReading DEF Reviewer!Check, Reviewer!Live, Reviewer!Save, ReviewerInv, ReviewerTypes
    <2>7. ReviewerPlaced(p, s, h, github.pr)
      BY <2>4, <2>5 DEF ReviewerPlaced
    <2>8. github.pending.by # r /\ local' \in SUBSET Runs
      BY <1>3, <2>6, ReviewerConstants DEF ReviewerInv, ReviewerTypes
    <2> QED
      BY <2>4, <2>5, <2>6, <2>7, <2>8, ReviewerQuiet
  <1> QED
    BY <1>2, <1>3

LEMMA ReviewerBeginKeeps ==
  ASSUME Reviewer!PrReviewerAssumption, ReviewerInv, NEW r \in Runs, Reviewer!BeginPhase(r)
  PROVE  ReviewerInv'
  <1>1. /\ proc[r].pc = "begin"
        /\ \/ state[r].phase = "none" /\ ~state[r].refreshed
           \/ state[r].phase = "discovery" /\ ReviewerListed(state[r], hosted[r])
    BY ReviewerReading DEF Reviewer!BeginPhase, ReviewerPlaced
  <1>2. PICK phase, s : phase = Reviewer!NextPhase(state[r].phase) /\
          s = [state[r] EXCEPT !.phase = phase, !.status = "running"]
    OBVIOUS
  <1>3. s \in ReviewerFile /\ s.phase = phase
    <2>1. phase \in {"none", "discovery", "critique"}
      BY <1>2 DEF Reviewer!NextPhase
    <2> QED
      BY <1>2, <2>1, ReviewerReading DEF ReviewerFile
  <1>4. CASE Reviewer!SameCandidate(s.pr, Reviewer!Live)
    <2>1. Reviewer!Save(r, s) /\ Reviewer!Goto(r, "ask") /\ UNCHANGED local
      BY <1>2, <1>4 DEF Reviewer!BeginPhase
    <2>2. ReviewerPlaced([proc[r] EXCEPT !.pc = "ask"], s, hosted[r], github.pr)
      BY <1>1, <1>2, <1>3, ReviewerReading DEF ReviewerPlaced, ReviewerMemory, ReviewerFile, Reviewer!NextPhase,
        ReviewerListed, ReviewerFound
    <2> QED
      BY <1>1, <1>3, <2>1, <2>2, ReviewerSave DEF ReviewerAfter, Reviewer!Pcs, ReviewerInv, ReviewerTypes
  <1>5. CASE ~Reviewer!SameCandidate(s.pr, Reviewer!Live)
    <2>1. PICK t : t = [s EXCEPT !.status = "head_changed", !.outcome = "incomplete"]
      OBVIOUS
    <2>2. t \in ReviewerFile
      BY <1>3, <2>1 DEF ReviewerFile, Reviewer!Outcomes
    <2>3. Reviewer!End(r, t)
      BY <1>2, <1>5, <2>1 DEF Reviewer!BeginPhase, Reviewer!SourceChanged
    <2> QED
      BY <1>1, <2>2, <2>3, ReviewerEnd DEF ReviewerAfter
  <1> QED
    BY <1>4, <1>5

LEMMA ReviewerAskKeeps ==
  ASSUME Reviewer!PrReviewerAssumption, ReviewerInv, NEW r \in Runs, Reviewer!Ask(r)
  PROVE  ReviewerInv'
  <1>1. /\ proc[r].pc = "ask"
        /\ \/ state[r].phase = "discovery" /\ ~state[r].refreshed
           \/ state[r].phase = "critique" /\ ReviewerListed(state[r], hosted[r])
    BY ReviewerReading DEF Reviewer!Ask, ReviewerPlaced
  <1>2. PICK seen : seen = [Reviewer!Live EXCEPT !.text = state[r].pr.text]
    OBVIOUS
  <1>3. seen \in ReviewerPr /\ seen.text = state[r].pr.text /\ seen.base = github.pr.base
    BY <1>2, ReviewerReading DEF Reviewer!Live, ReviewerPr, ReviewerFile
  <1>4. PICK task : task = [status |-> "running", seen |-> seen, out |-> {}]
    OBVIOUS
  <1>5. task \in ReviewerTask /\ task.seen = seen
    BY <1>3, <1>4 DEF ReviewerTask
  <1>6. PICK s, p : s = state[r] /\ p = [proc[r] EXCEPT !.pc = "collect"]
    OBVIOUS
  <1>7. s \in ReviewerFile /\ p \in ReviewerMemory /\ p.pc = "collect"
    BY <1>6, ReviewerReading DEF ReviewerMemory, Reviewer!Pcs
  <1>8. /\ UNCHANGED <<github, local, budget>> /\ state' = [state EXCEPT ![r] = s] /\ proc' = [proc EXCEPT ![r] = p]
        /\ hosted' = [hosted EXCEPT ![r][s.phase] = task]
    BY <1>2, <1>4, <1>6 DEF Reviewer!Ask, Reviewer!Goto, ReviewerInv, ReviewerTypes
  <1>9. github.pending.by # r /\ local' \in SUBSET Runs
    BY <1>1, <1>8, ReviewerReading DEF ReviewerAfter, ReviewerInv, ReviewerTypes
  <1>10. CASE s.phase = "discovery"
    <2>1. PICK h : h = [hosted[r] EXCEPT !.discovery = task]
      OBVIOUS
    <2>2. h \in [discovery : ReviewerTask, critique : ReviewerTask] /\ h.discovery = task
      BY <1>5, <2>1, ReviewerReading
    <2>3. hosted' = [hosted EXCEPT ![r] = h]
      BY <1>8, <1>10, <2>1 DEF ReviewerInv, ReviewerTypes
    <2>4. ReviewerEarlier(seen.base, github.pr.base)
      BY <1>3, ReviewerReading DEF ReviewerEarlier, ReviewerPr, ReviewerBase
    <2>5. ReviewerPlaced(p, s, h, github.pr)
      BY <1>1, <1>3, <1>5, <1>6, <1>7, <1>10, <2>2, <2>4 DEF ReviewerPlaced
    <2> QED
      BY <1>7, <1>8, <1>9, <2>2, <2>3, <2>5, ReviewerQuiet
  <1>11. CASE s.phase = "critique"
    <2>1. PICK h : h = [hosted[r] EXCEPT !.critique = task]
      OBVIOUS
    <2>2. h \in [discovery : ReviewerTask, critique : ReviewerTask] /\ h.discovery = hosted[r].discovery
      BY <1>5, <2>1, ReviewerReading
    <2>3. hosted' = [hosted EXCEPT ![r] = h]
      BY <1>8, <1>11, <2>1 DEF ReviewerInv, ReviewerTypes
    <2>4. ReviewerPlaced(p, s, h, github.pr)
      BY <1>1, <1>6, <1>7, <1>11, <2>2 DEF ReviewerPlaced, ReviewerListed, ReviewerFound
    <2> QED
      BY <1>7, <1>8, <1>9, <2>2, <2>3, <2>4, ReviewerQuiet
  <1> QED
    BY <1>1, <1>6, <1>10, <1>11

LEMMA ReviewerHostedKeeps ==
  ASSUME Reviewer!PrReviewerAssumption, ReviewerInv, NEW r \in Runs, NEW phase \in {"discovery", "critique"},
         Reviewer!HostedEnds(r, phase)
  PROVE  ReviewerInv'
  <1>1. PICK out \in SUBSET Candidates, status \in {"completed", "failed"} :
          hosted' = [hosted EXCEPT ![r][phase].status = status, ![r][phase].out = out]
    <2>1. CASE hosted' = [hosted EXCEPT ![r][phase].status = "failed"]
      <3>1. hosted[r][phase] \in ReviewerTask
        BY ReviewerReading
      <3>2. hosted' = [hosted EXCEPT ![r][phase].status = "failed", ![r][phase].out = hosted[r][phase].out]
        BY <2>1, <3>1, ReviewerReading DEF ReviewerTask
      <3> QED
        BY <3>1, <3>2 DEF ReviewerTask
    <2> QED
      BY <2>1 DEF Reviewer!HostedEnds
  <1>2. hosted[r][phase].status = "running" /\ UNCHANGED <<github, local, state, proc, budget>>
    BY DEF Reviewer!HostedEnds
  <1>3. PICK s, p : s = state[r] /\ p = proc[r]
    OBVIOUS
  <1>4. /\ s \in ReviewerFile /\ p \in ReviewerMemory /\ UNCHANGED <<github, budget>> /\ local' \in SUBSET Runs
        /\ state' = [state EXCEPT ![r] = s] /\ proc' = [proc EXCEPT ![r] = p]
    BY <1>2, <1>3, ReviewerReading DEF ReviewerInv, ReviewerTypes
  <1>5. ReviewerPlaced(p, s, hosted[r], github.pr) /\ github.pending.by # r
    BY <1>2, <1>3, ReviewerReading DEF ReviewerPosted
  <1>6. CASE phase = "discovery"
    <2>1. PICK t : t = [hosted[r].discovery EXCEPT !.status = status, !.out = out]
      OBVIOUS
    <2>2. t \in ReviewerTask /\ t.seen = hosted[r].discovery.seen
      BY <2>1, ReviewerReading DEF ReviewerTask
    <2>3. PICK h : h = [hosted[r] EXCEPT !.discovery = t]
      OBVIOUS
    <2>4. h \in [discovery : ReviewerTask, critique : ReviewerTask] /\ h.discovery = t
      BY <2>2, <2>3, ReviewerReading
    <2>5. hosted' = [hosted EXCEPT ![r] = h]
      BY <1>1, <1>6, <2>1, <2>3, ReviewerReading DEF ReviewerInv, ReviewerTypes
    <2>6. ReviewerPlaced(p, s, h, github.pr)
      BY <1>2, <1>5, <1>6, <2>2, <2>4
        DEF ReviewerPlaced, ReviewerChosen, ReviewerJudged, ReviewerListed, ReviewerFound
    <2> QED
      BY <1>4, <1>5, <2>4, <2>5, <2>6, ReviewerQuiet
  <1>7. CASE phase = "critique"
    <2>1. PICK t : t = [hosted[r].critique EXCEPT !.status = status, !.out = out]
      OBVIOUS
    <2>2. t \in ReviewerTask
      BY <2>1, ReviewerReading DEF ReviewerTask
    <2>3. PICK h : h = [hosted[r] EXCEPT !.critique = t]
      OBVIOUS
    <2>4. h \in [discovery : ReviewerTask, critique : ReviewerTask] /\ h.discovery = hosted[r].discovery
      BY <2>2, <2>3, ReviewerReading
    <2>5. hosted' = [hosted EXCEPT ![r] = h]
      BY <1>1, <1>7, <2>1, <2>3, ReviewerReading DEF ReviewerInv, ReviewerTypes
    <2>6. ReviewerPlaced(p, s, h, github.pr)
      BY <1>2, <1>5, <1>7, <2>4 DEF ReviewerPlaced, ReviewerChosen, ReviewerJudged, ReviewerListed, ReviewerFound
    <2> QED
      BY <1>4, <1>5, <2>4, <2>5, <2>6, ReviewerQuiet
  <1> QED
    BY <1>6, <1>7

\* What a record knows of a base that it has seen at least as late.
LEMMA ReviewerBetween ==
  ASSUME NEW a \in ReviewerBase, NEW b \in ReviewerBase, Reviewer!Advanced(a, b), ReviewerEarlier(b, a)
  PROVE  a = b
  BY DEF Reviewer!Advanced, ReviewerEarlier, ReviewerBase

LEMMA ReviewerSame ==
  ASSUME NEW a \in ReviewerPr, NEW b \in ReviewerPr, a.head = b.head, a.text = b.text, a.base = b.base
  PROVE  a = b
  BY DEF ReviewerPr

LEMMA ReviewerCollectKeeps ==
  ASSUME Reviewer!PrReviewerAssumption, ReviewerInv, NEW r \in Runs, Reviewer!Collect(r)
  PROVE  ReviewerInv'
  <1>1. /\ proc[r].pc = "collect"
        /\ \/ state[r].phase = "discovery" /\ ~state[r].refreshed
           \/ state[r].phase = "critique" /\ ReviewerListed(state[r], hosted[r])
    BY ReviewerReading DEF Reviewer!Collect, ReviewerPlaced
  <1>2. PICK task, s : task = hosted[r][state[r].phase] /\
          s = [state[r] EXCEPT !.status = "completed", !.observed = Reviewer!Live]
    OBVIOUS
  <1>3. /\ s \in ReviewerFile /\ s.phase = state[r].phase /\ s.pr = state[r].pr /\ s.refreshed = state[r].refreshed
        /\ s.candidates = state[r].candidates
    BY <1>2, ReviewerReading DEF ReviewerFile, Reviewer!Live
  <1>4. CASE Reviewer!Fail(r)
    BY <1>1, <1>4, ReviewerFail
  <1>5. CASE Reviewer!SourceChanged(r, state[r])
    <2>1. PICK t : t = [state[r] EXCEPT !.status = "head_changed", !.outcome = "incomplete"]
      OBVIOUS
    <2>2. t \in ReviewerFile /\ Reviewer!End(r, t)
      BY <1>5, <2>1, ReviewerReading DEF Reviewer!SourceChanged, ReviewerFile, Reviewer!Outcomes
    <2> QED
      BY <1>1, <2>2, ReviewerEnd DEF ReviewerAfter
  <1>6. CASE ~Reviewer!Fail(r) /\ ~Reviewer!SourceChanged(r, state[r])
    <2>1. PICK pc : pc = IF s.phase = "critique" THEN "ready" ELSE IF Reviewer!Live.base # s.pr.base THEN "refresh" ELSE "discovered"
      OBVIOUS
    <2>2. Reviewer!Verified(s.pr, task) /\ Reviewer!Save(r, s) /\ UNCHANGED local /\ Reviewer!Goto(r, pc)
      BY <1>2, <1>6, <2>1 DEF Reviewer!Collect
    <2>3. pc \in Reviewer!Pcs
      BY <2>1 DEF Reviewer!Pcs
    <2>4. PICK p : p = [proc[r] EXCEPT !.pc = pc]
      OBVIOUS
    <2>5. p.pc = pc
      BY <2>4, ReviewerReading DEF ReviewerMemory
    <2>6. ReviewerPlaced(p, s, hosted[r], github.pr)
      <3>1. CASE s.phase = "critique"
        BY <1>1, <1>2, <1>3, <2>1, <2>2, <2>5, <3>1 DEF ReviewerPlaced, ReviewerJudged, ReviewerListed, ReviewerFound,
          Reviewer!Verified
      <3>2. CASE s.phase = "discovery"
        <4>1. /\ task = hosted[r].discovery /\ task.status = "completed" /\ task.seen.head = s.pr.head
              /\ task.seen.text = s.pr.text /\ Reviewer!Advanced(s.pr.base, task.seen.base)
              /\ ReviewerEarlier(task.seen.base, github.pr.base)
          BY <1>1, <1>2, <1>3, <2>2, <3>2, ReviewerReading DEF Reviewer!Verified, ReviewerPlaced
        <4>2. /\ s.pr \in ReviewerPr /\ task.seen \in ReviewerPr /\ github.pr \in ReviewerPr
              /\ s.pr.base \in ReviewerBase /\ task.seen.base \in ReviewerBase
          BY <1>3, <4>1, ReviewerReading DEF ReviewerPr, ReviewerFile, ReviewerTask
        <4>3. github.pr.base = s.pr.base => task.seen = s.pr
          BY <4>1, <4>2, ReviewerBetween, ReviewerSame
        <4> QED
          BY <2>1, <2>5, <3>2, <4>1, <4>3 DEF ReviewerPlaced, ReviewerFound, Reviewer!Live
      <3> QED
        BY <1>1, <1>3, <3>1, <3>2
    <2> QED
      BY <1>1, <1>3, <2>2, <2>3, <2>4, <2>6, ReviewerSave DEF ReviewerAfter, ReviewerInv, ReviewerTypes
  <1> QED
    BY <1>4, <1>5, <1>6

LEMMA ReviewerRefreshKeeps ==
  ASSUME Reviewer!PrReviewerAssumption, ReviewerInv, NEW r \in Runs, Reviewer!Refresh(r)
  PROVE  ReviewerInv'
  <1>1. /\ proc[r].pc = "refresh" /\ state[r].phase = "discovery" /\ hosted[r].discovery.status = "completed"
        /\ hosted[r].discovery.seen.head = state[r].pr.head /\ hosted[r].discovery.seen.text = state[r].pr.text
    BY ReviewerReading DEF Reviewer!Refresh, ReviewerPlaced
  <1>2. CASE Reviewer!Fail(r)
    BY <1>1, <1>2, ReviewerFail
  <1>3. CASE ~Reviewer!Fail(r)
    <2>1. PICK live, s : live = github.pr /\ s = [state[r] EXCEPT !.pr = live, !.refreshed = TRUE]
      OBVIOUS
    <2>2. live.head = state[r].pr.head /\ live.text = state[r].pr.text /\ Reviewer!Save(r, s) /\
            Reviewer!Goto(r, "discovered") /\ UNCHANGED local
      BY <1>3, <2>1 DEF Reviewer!Refresh, Reviewer!SameCandidate, Reviewer!Live
    <2>3. s \in ReviewerFile /\ s.pr = live /\ s.refreshed /\ s.phase = "discovery"
      BY <1>1, <2>1, ReviewerReading DEF ReviewerFile
    <2>4. ReviewerPlaced([proc[r] EXCEPT !.pc = "discovered"], s, hosted[r], github.pr)
      BY <1>1, <2>2, <2>3, ReviewerReading DEF ReviewerPlaced, ReviewerFound, ReviewerMemory
    <2> QED
      BY <1>1, <2>2, <2>3, <2>4, ReviewerSave DEF ReviewerAfter, Reviewer!Pcs, ReviewerInv, ReviewerTypes
  <1> QED
    BY <1>2, <1>3

LEMMA ReviewerNothing ==
  ASSUME Reviewer!PrReviewerAssumption, ReviewerInv, NEW r \in Runs, NEW s \in ReviewerFile,
         Reviewer!NothingFound(r, s),
         proc[r].pc \notin ReviewerAfter
  PROVE  ReviewerInv'
  <1>1. PICK outcome : outcome = IF Reviewer!Stale(s, {}) THEN "incomplete" ELSE "no_findings"
    OBVIOUS
  <1>2. PICK t : t = [s EXCEPT !.outcome = outcome]
    OBVIOUS
  <1>3. t \in ReviewerFile /\ Reviewer!End(r, t)
    BY <1>1, <1>2 DEF Reviewer!NothingFound, ReviewerFile, Reviewer!Outcomes
  <1> QED
    BY <1>3, ReviewerEnd

LEMMA ReviewerDiscoveredKeeps ==
  ASSUME Reviewer!PrReviewerAssumption, ReviewerInv, NEW r \in Runs, Reviewer!Discovered(r)
  PROVE  ReviewerInv'
  <1>1. proc[r].pc = "discovered" /\ state[r].phase = "discovery" /\ ReviewerFound(state[r], hosted[r])
    BY ReviewerReading DEF Reviewer!Discovered, ReviewerPlaced
  <1>2. PICK kept, s : kept = Reviewer!Kept(state[r], hosted[r].discovery.out) /\
          s = [state[r] EXCEPT !.candidates = kept]
    OBVIOUS
  <1>3. kept \subseteq hosted[r].discovery.out /\ kept \subseteq Candidates
    BY <1>2, ReviewerReading DEF Reviewer!Kept, ReviewerTask
  <1>4. s \in ReviewerFile /\ s.candidates = kept
    BY <1>2, <1>3, ReviewerReading DEF ReviewerFile
  <1>5. s.phase = "discovery" /\ s.pr = state[r].pr /\ s.refreshed = state[r].refreshed
    BY <1>1, <1>2, ReviewerReading DEF ReviewerFile
  <1>6. CASE Reviewer!Fail(r)
    BY <1>1, <1>6, ReviewerFail
  <1>7. CASE Reviewer!NothingFound(r, s)
    BY <1>1, <1>4, <1>7, ReviewerNothing DEF ReviewerAfter
  <1>8. CASE Reviewer!Save(r, s) /\ Reviewer!Goto(r, "begin") /\ UNCHANGED local
    <2>1. ReviewerPlaced([proc[r] EXCEPT !.pc = "begin"], s, hosted[r], github.pr)
      BY <1>1, <1>3, <1>4, <1>5, ReviewerReading DEF ReviewerPlaced, ReviewerMemory, ReviewerListed, ReviewerFound
    <2> QED
      BY <1>1, <1>4, <1>8, <2>1, ReviewerSave DEF ReviewerAfter, Reviewer!Pcs, ReviewerInv, ReviewerTypes
  <1> QED
    BY <1>2, <1>6, <1>7, <1>8 DEF Reviewer!Discovered

LEMMA ReviewerReadyKeeps ==
  ASSUME Reviewer!PrReviewerAssumption, ReviewerInv, NEW r \in Runs, Reviewer!Ready(r)
  PROVE  ReviewerInv'
  <1>1. proc[r].pc = "ready" /\ ReviewerJudged(state[r], hosted[r])
    BY ReviewerReading DEF Reviewer!Ready, ReviewerPlaced
  <1>2. CASE Reviewer!Fail(r)
    BY <1>1, <1>2, ReviewerFail
  <1>3. CASE ~Reviewer!Fail(r)
    <2>1. PICK out, s, t : /\ out = hosted[r].critique.out
                           /\ s = [state[r] EXCEPT !.comments = out] /\ t = [s EXCEPT !.outcome = "ready"]
      OBVIOUS
    <2>2. s \in ReviewerFile /\ s.comments = out /\ s.candidates = state[r].candidates
      BY <2>1, ReviewerReading DEF ReviewerFile, ReviewerTask
    <2>3. /\ t \in ReviewerFile /\ t.comments = out /\ t.candidates = state[r].candidates
          /\ t.pr = state[r].pr /\ t.refreshed = state[r].refreshed
      BY <2>1, <2>2, ReviewerReading DEF ReviewerFile, Reviewer!Outcomes
    <2>4. out \subseteq state[r].candidates
      BY <1>3, <2>1, <2>2 DEF Reviewer!Ready, Reviewer!Selected
    <2>5. CASE Reviewer!NothingFound(r, s)
      BY <1>1, <2>2, <2>5, ReviewerNothing DEF ReviewerAfter
    <2>6. CASE ~Reviewer!NothingFound(r, s)
      <3>1. s.comments # {} /\ Reviewer!Save(r, t) /\ Reviewer!Goto(r, "post") /\ UNCHANGED local
        BY <1>3, <2>1, <2>6 DEF Reviewer!Ready, Reviewer!Selected
      <3>2. ReviewerPlaced([proc[r] EXCEPT !.pc = "post"], t, hosted[r], github.pr)
        BY <1>1, <2>1, <2>2, <2>3, <2>4, <3>1, ReviewerReading
          DEF ReviewerPlaced, ReviewerMemory, ReviewerChosen, ReviewerJudged, ReviewerListed, ReviewerFound
      <3> QED
        BY <1>1, <2>3, <3>1, <3>2, ReviewerSave DEF ReviewerAfter, Reviewer!Pcs, ReviewerInv, ReviewerTypes
    <2> QED
      BY <2>5, <2>6
  <1> QED
    BY <1>2, <1>3

\* A step that only goes on.
LEMMA ReviewerGo ==
  ASSUME ReviewerInv, NEW r \in Runs, NEW p \in ReviewerMemory,
         proc' = [proc EXCEPT ![r] = p], UNCHANGED <<github, local, hosted, state, budget>>,
         ReviewerPlaced(p, state[r], hosted[r], github.pr), proc[r].pc \in ReviewerAfter => p.pc \in ReviewerAfter
  PROVE  ReviewerInv'
  <1>1. PICK s, h : s = state[r] /\ h = hosted[r]
    OBVIOUS
  <1>2. s \in ReviewerFile /\ h \in [discovery : ReviewerTask, critique : ReviewerTask]
    BY <1>1, ReviewerReading
  <1>3. state' = [state EXCEPT ![r] = s] /\ hosted' = [hosted EXCEPT ![r] = h] /\ local' \in SUBSET Runs
    BY <1>1 DEF ReviewerInv, ReviewerTypes
  <1>4. github.pending.by = r => p.pc \in ReviewerAfter /\ ReviewerPosted(github.pending, s, h)
    BY <1>1, ReviewerReading
  <1> QED
    BY <1>1, <1>2, <1>3, <1>4, ReviewerQuiet

LEMMA ReviewerPostKeeps ==
  ASSUME Reviewer!PrReviewerAssumption, ReviewerInv, NEW r \in Runs, Reviewer!Post(r) \/ Reviewer!ReadOnly(r)
  PROVE  ReviewerInv'
  <1>1. proc[r].pc = "post" /\ ReviewerChosen(state[r], hosted[r])
    BY ReviewerReading DEF Reviewer!Post, Reviewer!ReadOnly, ReviewerPlaced
  <1>2. CASE Reviewer!Fail(r)
    BY <1>1, <1>2, ReviewerFail
  <1>3. CASE Reviewer!End(r, state[r])
    BY <1>1, <1>3, ReviewerEnd, ReviewerReading DEF ReviewerAfter
  <1>4. CASE Reviewer!End(r, [state[r] EXCEPT !.outcome = "existing_pending_review"])
    <2>1. PICK s : s = [state[r] EXCEPT !.outcome = "existing_pending_review"]
      OBVIOUS
    <2>2. s \in ReviewerFile
      BY <2>1, ReviewerReading DEF ReviewerFile, Reviewer!Outcomes
    <2> QED
      BY <1>1, <1>4, <2>1, <2>2, ReviewerEnd DEF ReviewerAfter
  <1>5. CASE Reviewer!Goto(r, "guard") /\ UNCHANGED <<github, local, hosted, state, budget>>
    <2>1. PICK p : p = [proc[r] EXCEPT !.pc = "guard"]
      OBVIOUS
    <2>2. p \in ReviewerMemory /\ p.pc = "guard"
      BY <2>1, ReviewerReading DEF ReviewerMemory, Reviewer!Pcs
    <2>3. proc' = [proc EXCEPT ![r] = p]
      BY <1>5, <2>1 DEF Reviewer!Goto, ReviewerInv, ReviewerTypes
    <2>4. ReviewerPlaced(p, state[r], hosted[r], github.pr)
      BY <1>1, <2>2 DEF ReviewerPlaced
    <2> QED
      BY <1>1, <1>5, <2>2, <2>3, <2>4, ReviewerGo DEF ReviewerAfter
  <1> QED
    BY <1>2, <1>3, <1>4, <1>5 DEF Reviewer!Post, Reviewer!ReadOnly

LEMMA ReviewerLookKeeps ==
  ASSUME Reviewer!PrReviewerAssumption, ReviewerInv, NEW r \in Runs, Reviewer!LastLook(r)
  PROVE  ReviewerInv'
  <1>1. proc[r].pc = "guard" /\ ReviewerChosen(state[r], hosted[r])
    BY ReviewerReading DEF Reviewer!LastLook, ReviewerPlaced
  <1>2. CASE Reviewer!Fail(r)
    BY <1>1, <1>2, ReviewerFail
  <1>3. CASE ~Reviewer!Fail(r)
    <2>1. PICK p : p = [proc[r] EXCEPT !.pc = "claim", !.read = Reviewer!Live]
      OBVIOUS
    <2>2. /\ p \in ReviewerMemory /\ p.pc = "claim" /\ proc' = [proc EXCEPT ![r] = p]
          /\ UNCHANGED <<github, local, hosted, state, budget>>
          /\ p.read = github.pr /\ Reviewer!SameCandidate(state[r].pr, Reviewer!Live)
      BY <1>3, <2>1, ReviewerReading DEF Reviewer!LastLook, Reviewer!Live, ReviewerMemory, Reviewer!Pcs, ReviewerInv,
        ReviewerTypes
    <2>3. ReviewerPlaced(p, state[r], hosted[r], github.pr)
      BY <1>1, <2>2 DEF ReviewerPlaced, Reviewer!SameCandidate, Reviewer!Live
    <2> QED
      BY <1>1, <2>2, <2>3, ReviewerGo DEF ReviewerAfter
  <1> QED
    BY <1>2, <1>3

LEMMA ReviewerClaimKeeps ==
  ASSUME Reviewer!PrReviewerAssumption, ReviewerInv, NEW r \in Runs, Reviewer!ClaimMutation(r)
  PROVE  ReviewerInv'
  <1>1. /\ proc[r].pc = "claim" /\ ReviewerChosen(state[r], hosted[r])
        /\ proc[r].read.text = state[r].pr.text /\ proc[r].read.head = state[r].pr.head
    BY ReviewerReading DEF Reviewer!ClaimMutation, ReviewerPlaced
  <1>2. PICK s : s = [state[r] EXCEPT !.mutation = "attempted"]
    OBVIOUS
  <1>3. /\ s \in ReviewerFile /\ s.mutation = "attempted" /\ s.pr = state[r].pr /\ s.refreshed = state[r].refreshed
        /\ s.candidates = state[r].candidates /\ s.comments = state[r].comments
    BY <1>2, ReviewerReading DEF ReviewerFile
  <1>4. Reviewer!Save(r, s) /\ Reviewer!Goto(r, "send") /\ local' \in SUBSET Runs
    BY <1>2 DEF Reviewer!ClaimMutation, Reviewer!Claimed, ReviewerInv, ReviewerTypes
  <1>5. ReviewerPlaced([proc[r] EXCEPT !.pc = "send"], s, hosted[r], github.pr)
    BY <1>1, <1>3, ReviewerReading DEF ReviewerPlaced, ReviewerMemory, ReviewerChosen, ReviewerJudged, ReviewerListed,
      ReviewerFound
  <1> QED
    BY <1>1, <1>3, <1>4, <1>5, ReviewerSave DEF ReviewerAfter, Reviewer!Pcs

LEMMA ReviewerSendKeeps ==
  ASSUME Reviewer!PrReviewerAssumption, ReviewerInv, NEW r \in Runs, Reviewer!Send(r)
  PROVE  ReviewerInv'
  <1>1. proc[r].pc = "send" /\ ReviewerChosen(state[r], hosted[r]) /\ state[r].mutation # "not_attempted"
    BY ReviewerReading DEF Reviewer!Send, ReviewerPlaced
  <1>2. CASE Reviewer!Fail(r)
    BY <1>1, <1>2, ReviewerFail
  <1>3. CASE ~Reviewer!Fail(r)
    <2>1. PICK review, p : /\ review = [by |-> r, commit |-> state[r].pr.head, comments |-> state[r].comments]
                           /\ p = [proc[r] EXCEPT !.pc = "created"]
      OBVIOUS
    <2>2. github' = [github EXCEPT !.pending = review] /\ proc' = [proc EXCEPT ![r] = p] /\
            UNCHANGED <<local, hosted, state, budget>>
      BY <1>3, <2>1 DEF Reviewer!Send, Reviewer!Goto, ReviewerInv, ReviewerTypes
    <2>3. review \in [by : Runs \cup {0, Reviewer!Viewer}, commit : Nat, comments : SUBSET Candidates]
      BY <2>1, ReviewerReading DEF ReviewerFile, ReviewerPr
    <2>4. p \in ReviewerMemory /\ p.pc = "created"
      BY <2>1, ReviewerReading DEF ReviewerMemory, Reviewer!Pcs
    <2>5. ReviewerTypes'
      BY <2>2, <2>3, <2>4 DEF ReviewerInv, ReviewerTypes
    <2>6. /\ proc'[r] = p /\ \A q \in Runs \ {r} : proc'[q] = proc[q]
          /\ github'.pr = github.pr /\ github'.pending = review
      BY <2>2 DEF ReviewerInv, ReviewerTypes
    <2>7. \A q \in Runs : ReviewerPlaced(proc'[q], state'[q], hosted'[q], github'.pr)
      BY <1>1, <2>2, <2>4, <2>6 DEF ReviewerInv, ReviewerPlaced
    <2>8. ReviewerPosted(review, state[r], hosted[r])
      BY <1>1, <2>1 DEF ReviewerPosted, ReviewerChosen, ReviewerJudged, ReviewerListed, ReviewerFound
    <2>9. review.by = r
      BY <2>1
    <2>10. \A q \in Runs : github'.pending.by = q =>
             proc'[q].pc \in ReviewerAfter /\ ReviewerPosted(github'.pending, state'[q], hosted'[q])
      BY <2>2, <2>4, <2>6, <2>8, <2>9 DEF ReviewerAfter
    <2> QED
      BY <2>2, <2>5, <2>7, <2>10 DEF ReviewerInv, ReviewerPlaced, ReviewerPosted
  <1> QED
    BY <1>2, <1>3

LEMMA ReviewerCreatedKeeps ==
  ASSUME Reviewer!PrReviewerAssumption, ReviewerInv, NEW r \in Runs, Reviewer!Created(r)
  PROVE  ReviewerInv'
  <1>1. proc[r].pc = "created"
    BY DEF Reviewer!Created
  <1>2. PICK s : s = [state[r] EXCEPT !.mutation = "created"]
    OBVIOUS
  <1>3. s \in ReviewerFile /\ s.mutation = "created" /\ Reviewer!Save(r, s) /\ Reviewer!Goto(r, "verify") /\
          UNCHANGED local
    BY <1>2, ReviewerReading DEF Reviewer!Created, ReviewerFile
  <1>4. ReviewerPlaced([proc[r] EXCEPT !.pc = "verify"], s, hosted[r], github.pr)
    BY <1>3, ReviewerReading DEF ReviewerPlaced, ReviewerMemory
  <1> QED
    BY <1>3, <1>4, ReviewerSave DEF ReviewerAfter, Reviewer!Pcs, ReviewerInv, ReviewerTypes

LEMMA ReviewerVerifyKeeps ==
  ASSUME Reviewer!PrReviewerAssumption, ReviewerInv, NEW r \in Runs, Reviewer!VerifyCreated(r)
  PROVE  ReviewerInv'
  <1>1. PICK s : s = IF Reviewer!Landed(r) THEN [state[r] EXCEPT !.mutation = "verified",
          !.outcome = "created_pending_review"]
                     ELSE [state[r] EXCEPT !.mutation = "created_unverified", !.outcome = "error"]
    OBVIOUS
  <1>2. s \in ReviewerFile /\ s.mutation # "not_attempted"
    BY <1>1, ReviewerReading DEF ReviewerFile, Reviewer!Outcomes
  <1>3. Reviewer!End(r, s)
    BY <1>1 DEF Reviewer!VerifyCreated
  <1> QED
    BY <1>2, <1>3, ReviewerEnd

LEMMA ReviewerRaisedKeeps ==
  ASSUME Reviewer!PrReviewerAssumption, ReviewerInv, NEW r \in Runs, Reviewer!Raised(r)
  PROVE  ReviewerInv'
  BY ReviewerFail DEF Reviewer!Raised

LEMMA ReviewerCrashKeeps ==
  ASSUME Reviewer!PrReviewerAssumption, ReviewerInv, NEW r \in Runs, Reviewer!Crash(r)
  PROVE  ReviewerInv'
  <1>1. PICK p : p = Reviewer!Resting
    OBVIOUS
  <1>2. p \in ReviewerMemory /\ p.pc = "over"
    BY <1>1, ReviewerConstants
  <1>3. proc' = [proc EXCEPT ![r] = p] /\ UNCHANGED <<github, local, hosted, state, budget>>
    BY <1>1 DEF Reviewer!Crash
  <1>4. ReviewerPlaced(p, state[r], hosted[r], github.pr)
    BY <1>2 DEF ReviewerPlaced
  <1> QED
    BY <1>2, <1>3, <1>4, ReviewerGo DEF ReviewerAfter

LEMMA ReviewerOthers ==
  ASSUME ReviewerInv, Reviewer!OthersMove
  PROVE  \E pr \in ReviewerPr, review \in [by : Runs \cup {0, Reviewer!Viewer}, commit : Nat, comments :
         SUBSET Candidates] :
           /\ github' = [pr |-> pr, pending |-> review]
           /\ ReviewerEarlier(github.pr.base, pr.base)
           /\ review = github.pending \/ review.by \in {0, Reviewer!Viewer}
  <1>0. /\ github \in [pr : ReviewerPr, pending : [by : Runs \cup {0, Reviewer!Viewer}, commit : Nat, comments :
             SUBSET Candidates]]
        /\ github.pr \in ReviewerPr /\ github.pr.base \in ReviewerBase
    BY DEF ReviewerInv, ReviewerTypes, ReviewerPr
  <1>1. ReviewerEarlier(github.pr.base, github.pr.base)
    BY <1>0 DEF ReviewerEarlier, ReviewerBase
  <1>2. CASE github' \in {[github EXCEPT !.pr.head = @ + 1], [github EXCEPT !.pr.text = @ + 1]}
    <2>1. PICK pr : pr \in {[github.pr EXCEPT !.head = @ + 1], [github.pr EXCEPT !.text = @ + 1]} /\
            github' = [github EXCEPT !.pr = pr]
      BY <1>0, <1>2
    <2>2. pr \in ReviewerPr /\ pr.base = github.pr.base
      BY <1>0, <2>1 DEF ReviewerPr
    <2> QED
      BY <1>0, <1>1, <2>1, <2>2
  <1>3. CASE github' \in {[github EXCEPT !.pr.base.line = @ + 1]}
               \cup {[github EXCEPT !.pr.base.at = @ + 1, !.pr.base.gone = @ \cup s] : s \in SUBSET Candidates}
    <2>1. PICK base \in ReviewerBase : github' = [github EXCEPT !.pr.base = base] /\
            ReviewerEarlier(github.pr.base, base)
      <3>1. CASE github' = [github EXCEPT !.pr.base.line = @ + 1]
        <4>1. PICK base : base = [github.pr.base EXCEPT !.line = @ + 1]
          OBVIOUS
        <4>2. base \in ReviewerBase /\ github' = [github EXCEPT !.pr.base = base] /\
                ReviewerEarlier(github.pr.base, base)
          BY <1>0, <3>1, <4>1 DEF ReviewerEarlier, ReviewerBase
        <4> QED
          BY <4>2
      <3>2. CASE \E s \in SUBSET Candidates : github' = [github EXCEPT !.pr.base.at = @ + 1, !.pr.base.gone = @ \cup s]
        <4>1. PICK s \in SUBSET Candidates : github' = [github EXCEPT !.pr.base.at = @ + 1, !.pr.base.gone = @ \cup s]
          BY <3>2
        <4>2. PICK base : base = [github.pr.base EXCEPT !.at = @ + 1, !.gone = @ \cup s]
          OBVIOUS
        <4>3. base \in ReviewerBase /\ ReviewerEarlier(github.pr.base, base)
          <5>1. PICK gone \in SUBSET Candidates : gone = github.pr.base.gone \cup s
            BY <1>0 DEF ReviewerBase
          <5>2. PICK at \in Nat : at = github.pr.base.at + 1
            BY <1>0 DEF ReviewerBase
          <5>3. base = [github.pr.base EXCEPT !.at = at, !.gone = gone]
            BY <4>2, <5>1, <5>2
          <5>4. base \in ReviewerBase /\ base.line = github.pr.base.line /\ base.at = at
            BY <1>0, <5>3 DEF ReviewerBase
          <5> QED
            BY <1>0, <5>2, <5>4 DEF ReviewerEarlier, ReviewerBase
        <4>4. github' = [github EXCEPT !.pr.base = base]
          BY <1>0, <4>1, <4>2 DEF ReviewerBase, ReviewerPr
        <4> QED
          BY <4>3, <4>4
      <3> QED
        BY <1>3, <3>1, <3>2
    <2>2. PICK pr : pr = [github.pr EXCEPT !.base = base]
      OBVIOUS
    <2>3. pr \in ReviewerPr /\ pr.base = base /\ github' = [github EXCEPT !.pr = pr]
      BY <1>0, <2>1, <2>2 DEF ReviewerPr
    <2> QED
      BY <1>0, <2>1, <2>3
  <1>4. CASE github' = [github EXCEPT !.pending = IF @.by =
          0 THEN [Reviewer!NoReview EXCEPT !.by = Reviewer!Viewer] ELSE Reviewer!NoReview]
    <2>1. PICK review : review = IF github.pending.by =
            0 THEN [Reviewer!NoReview EXCEPT !.by = Reviewer!Viewer] ELSE Reviewer!NoReview
      OBVIOUS
    <2>2. review \in [by : {0, Reviewer!Viewer}, commit : Nat, comments : SUBSET Candidates]
      BY <2>1 DEF Reviewer!NoReview
    <2>3. github' = [github EXCEPT !.pending = review]
      BY <1>4, <2>1
    <2> QED
      BY <1>0, <1>1, <2>2, <2>3
  <1> QED
    BY <1>2, <1>3, <1>4 DEF Reviewer!OthersMove

LEMMA ReviewerOthersKeep ==
  ASSUME Reviewer!PrReviewerAssumption, ReviewerInv, Reviewer!OthersMove
  PROVE  ReviewerInv'
  <1>1. UNCHANGED <<local, hosted, state, proc>> /\ budget' \in 0..MaxEvents
    <2>1. UNCHANGED <<local, hosted, state, proc>> /\ budget > 0 /\ budget' = budget - 1
      BY DEF Reviewer!OthersMove
    <2>2. budget \in 0..MaxEvents /\ MaxEvents \in Nat
      BY ReviewerConstants DEF ReviewerInv, ReviewerTypes
    <2> QED
      BY <2>1, <2>2
  <1>2. /\ github \in [pr : ReviewerPr, pending : [by : Runs \cup {0, Reviewer!Viewer}, commit : Nat, comments :
             SUBSET Candidates]]
        /\ github.pr \in ReviewerPr /\ github.pr.base \in ReviewerBase
    BY DEF ReviewerInv, ReviewerTypes, ReviewerPr
  <1>3. PICK pr \in ReviewerPr, review \in [by : Runs \cup {0, Reviewer!Viewer}, commit : Nat, comments :
          SUBSET Candidates] :
          /\ github' = [pr |-> pr, pending |-> review]
          /\ ReviewerEarlier(github.pr.base, pr.base)
          /\ review = github.pending \/ review.by \in {0, Reviewer!Viewer}
    BY ReviewerOthers
  <1>4. ReviewerTypes'
    BY <1>1, <1>3 DEF ReviewerInv, ReviewerTypes
  <1>5. ASSUME NEW r \in Runs PROVE ReviewerPlaced(proc[r], state[r], hosted[r], pr)
    <2>1. proc[r].pc = "collect" /\ state[r].phase = "discovery" =>
            ReviewerEarlier(hosted[r].discovery.seen.base, pr.base)
      <3> SUFFICES ASSUME proc[r].pc = "collect", state[r].phase = "discovery"
                   PROVE  ReviewerEarlier(hosted[r].discovery.seen.base, pr.base)
        OBVIOUS
      <3>1. ReviewerEarlier(hosted[r].discovery.seen.base, github.pr.base)
        BY ReviewerReading DEF ReviewerPlaced
      <3>2. hosted[r].discovery.seen.base \in ReviewerBase /\ pr.base \in ReviewerBase
        BY <1>3, ReviewerReading DEF ReviewerTask, ReviewerPr
      <3> QED
        BY <1>2, <1>3, <3>1, <3>2 DEF ReviewerEarlier, ReviewerBase
    <2> QED
      BY <2>1, ReviewerReading DEF ReviewerPlaced
  <1>6. \A r \in Runs : github'.pending.by = r => github'.pending = github.pending
    BY <1>3, ReviewerConstants
  <1>7. github'.pr = pr
    BY <1>3
  <1>8. \A r \in Runs : ReviewerPlaced(proc[r], state[r], hosted[r], pr)'
    BY <1>1, <1>5, <1>7 DEF ReviewerPlaced
  <1> QED
    BY <1>1, <1>4, <1>5, <1>6, <1>7 DEF ReviewerInv, ReviewerPosted

LEMMA ReviewerNext ==
  ASSUME Reviewer!PrReviewerAssumption, ReviewerInv, [Reviewer!Next]_Reviewer!vars
  PROVE  ReviewerInv'
  <1>1. CASE UNCHANGED Reviewer!vars
    BY <1>1 DEF Reviewer!vars, ReviewerInv, ReviewerTypes, ReviewerPlaced, ReviewerPosted
  <1>2. CASE Reviewer!Next
    BY <1>1, <1>2, ReviewerCheckKeeps, ReviewerBeginKeeps, ReviewerAskKeeps, ReviewerHostedKeeps, ReviewerCollectKeeps,
       ReviewerRefreshKeeps, ReviewerDiscoveredKeeps, ReviewerReadyKeeps, ReviewerPostKeeps, ReviewerLookKeeps,
       ReviewerClaimKeeps, ReviewerSendKeeps, ReviewerCreatedKeeps, ReviewerVerifyKeeps, ReviewerRaisedKeeps,
       ReviewerCrashKeeps, ReviewerOthersKeep DEF Reviewer!Next, Reviewer!Rest
  <1> QED
    BY <1>1, <1>2

LEMMA ReviewerInvariance ==
  ASSUME Reviewer!PrReviewerAssumption
  PROVE  Reviewer!Spec => []ReviewerInv
  <1>1. Reviewer!Init => ReviewerInv
    BY ReviewerInit
  <1>2. ReviewerInv /\ [Reviewer!Next]_Reviewer!vars => ReviewerInv'
    BY ReviewerNext
  <1> QED
    BY <1>1, <1>2, PTL DEF Reviewer!Spec

\* The types of what pr_reviewer.py keeps, on disk and in its process.
THEOREM ReviewerTypesHold == ASSUME Reviewer!PrReviewerAssumption PROVE Reviewer!Spec => []Reviewer!TypeOK
  <1>1. ReviewerInv => Reviewer!TypeOK
    <2> SUFFICES ASSUME ReviewerInv PROVE Reviewer!TypeOK
      OBVIOUS
    <2>1. \A r \in Runs : /\ proc[r] \in ReviewerMemory /\ state[r] \in ReviewerFile
                          /\ hosted[r] \in [discovery : ReviewerTask, critique : ReviewerTask]
      BY ReviewerReading
    <2>2. \A r \in Runs : \A p \in {"discovery", "critique"} :
            hosted[r][p].status \in {"none", "running", "completed", "failed"}
      BY <2>1 DEF ReviewerTask
    <2> QED
      BY <2>1, <2>2 DEF Reviewer!TypeOK, ReviewerInv, ReviewerTypes, ReviewerMemory, ReviewerFile
  <1> QED
    BY <1>1, ReviewerInvariance, PTL

\* A pending review of a run is on record in its state file, of the head that both its
\* tasks saw (mutation).
THEOREM ReviewIsAccounted == ASSUME Reviewer!PrReviewerAssumption PROVE Reviewer!Spec => []Reviewer!Accounted
  <1>1. ReviewerInv => Reviewer!Accounted
    <2> SUFFICES ASSUME ReviewerInv PROVE Reviewer!Accounted
      OBVIOUS
    <2>1. \A r \in Runs : github.pending.by = r => ReviewerPosted(github.pending, state[r], hosted[r])
      BY ReviewerReading
    <2>2. ASSUME NEW r \in Runs, github.pending.by = r, NEW p \in {"discovery", "critique"}
          PROVE  hosted[r][p].seen.head = github.pending.commit
      <3>1. ReviewerPosted(github.pending, state[r], hosted[r])
        BY <2>1, <2>2
      <3>2. CASE p = "discovery"
        BY <3>1, <3>2 DEF ReviewerPosted
      <3>3. CASE p = "critique"
        BY <3>1, <3>3 DEF ReviewerPosted
      <3> QED
        BY <3>2, <3>3
    <2> QED
      BY <2>1, <2>2 DEF Reviewer!Accounted, ReviewerPosted
  <1> QED
    BY <1>1, ReviewerInvariance, PTL

\* A step that gives no verdict.
LEMMA ReviewerSilent ==
  ASSUME ReviewerInv, NEW r \in Runs, NEW q \in Runs, NEW s \in ReviewerFile, Reviewer!Save(q, s),
         s.outcome \in {state[q].outcome} \cup (Reviewer!Outcomes \ {"no_findings"}),
         s.mutation \in {state[q].mutation, "attempted", "created", "created_unverified"}
  PROVE  /\ github' = github
         /\ state'[r].outcome = "no_findings" => state[r].outcome = "no_findings"
         /\ state'[r].mutation = "verified" => state[r].mutation = "verified"
  <1>1. github' = github /\ state' = [state EXCEPT ![q] = s]
    BY DEF Reviewer!Save
  <1>2. CASE q = r
    BY <1>1, <1>2 DEF ReviewerInv, ReviewerTypes
  <1>3. CASE q # r
    BY <1>1, <1>3 DEF ReviewerInv, ReviewerTypes
  <1> QED
    BY <1>1, <1>2, <1>3

LEMMA ReviewerMoves ==
  ASSUME Reviewer!PrReviewerAssumption, ReviewerInv, Reviewer!Next, NEW r \in Runs
  PROVE  /\ github'.pending.by = r /\ github.pending.by # r => Reviewer!Send(r) /\ github.pending.by = 0
         /\ state'[r].outcome = "no_findings" /\ state[r].outcome = "none" => proc[r].pc \in {"discovered", "ready"} /\
              ~state[r].refreshed
         /\ state'[r].mutation = "verified" /\ state[r].mutation # "verified" => Reviewer!Landed(r)
  <1> DEFINE Still == /\ github' = github
                      /\ state'[r].outcome = "no_findings" => state[r].outcome = "no_findings"
                      /\ state'[r].mutation = "verified" => state[r].mutation = "verified"
  <1>1. ASSUME NEW q \in Runs, Reviewer!Fail(q) PROVE Still
    <2>1. PICK b : b = (state[q].exists /\ state[q].outcome = "none")
      OBVIOUS
    <2>2. PICK s : s = [state[q] EXCEPT !.outcome = "error", !.status = IF b THEN "failed" ELSE @]
      OBVIOUS
    <2>3. s \in ReviewerFile /\ s.outcome = "error" /\ s.mutation = state[q].mutation
      BY <2>2, ReviewerReading DEF ReviewerFile, Reviewer!Outcomes
    <2>4. Reviewer!Save(q, s)
      BY <1>1, <2>1, <2>2 DEF Reviewer!Fail, Reviewer!End
    <2> QED
      BY <2>3, <2>4, ReviewerSilent DEF Reviewer!Outcomes
  <1>2. ASSUME NEW q \in Runs, NEW s \in ReviewerFile, s.mutation = state[q].mutation, Reviewer!SourceChanged(q, s)
        PROVE Still
    <2>1. PICK t : t = [s EXCEPT !.status = "head_changed", !.outcome = "incomplete"]
      OBVIOUS
    <2>2. t \in ReviewerFile /\ t.outcome = "incomplete" /\ t.mutation = state[q].mutation
      BY <1>2, <2>1 DEF ReviewerFile, Reviewer!Outcomes
    <2>3. Reviewer!Save(q, t)
      BY <1>2, <2>1 DEF Reviewer!SourceChanged, Reviewer!End
    <2> QED
      BY <2>2, <2>3, ReviewerSilent DEF Reviewer!Outcomes
  <1>3. ASSUME NEW q \in Runs, Reviewer!End(q, [state[q] EXCEPT !.outcome = "existing_pending_review"]) PROVE Still
    <2>1. PICK s : s = [state[q] EXCEPT !.outcome = "existing_pending_review"]
      OBVIOUS
    <2>2. s \in ReviewerFile /\ s.outcome = "existing_pending_review" /\ s.mutation = state[q].mutation
      BY <2>1, ReviewerReading DEF ReviewerFile, Reviewer!Outcomes
    <2> QED
      BY <1>3, <2>1, <2>2, ReviewerSilent DEF Reviewer!End, Reviewer!Outcomes
  <1>4. ASSUME NEW q \in Runs, Reviewer!Check(q) PROVE Still
    <2>1. CASE Reviewer!End(q, [state[q] EXCEPT !.outcome = "existing_pending_review"])
      BY <1>3, <2>1
    <2>2. CASE ~Reviewer!End(q, [state[q] EXCEPT !.outcome = "existing_pending_review"])
      <3>1. PICK live, s : live = Reviewer!Live /\ s = [state[q] EXCEPT !.exists = TRUE, !.pr = live]
        OBVIOUS
      <3>2. s \in ReviewerFile /\ s.outcome = state[q].outcome /\ s.mutation = state[q].mutation
        BY <3>1, ReviewerReading DEF ReviewerFile, Reviewer!Live
      <3>3. Reviewer!Save(q, s)
        BY <1>4, <2>2, <3>1 DEF Reviewer!Check
      <3> QED
        BY <3>2, <3>3, ReviewerSilent
    <2> QED
      BY <2>1, <2>2
  <1>5. ASSUME NEW q \in Runs, Reviewer!BeginPhase(q) PROVE Still
    <2>1. PICK phase, s : phase = Reviewer!NextPhase(state[q].phase) /\
            s = [state[q] EXCEPT !.phase = phase, !.status = "running"]
      OBVIOUS
    <2>2. phase \in {"none", "discovery", "critique"}
      BY <2>1 DEF Reviewer!NextPhase
    <2>3. s \in ReviewerFile /\ s.outcome = state[q].outcome /\ s.mutation = state[q].mutation
      BY <2>1, <2>2, ReviewerReading DEF ReviewerFile
    <2>4. Reviewer!Save(q, s) \/ Reviewer!SourceChanged(q, s)
      BY <1>5, <2>1 DEF Reviewer!BeginPhase
    <2> QED
      BY <1>2, <2>3, <2>4, ReviewerSilent
  <1>6. ASSUME NEW q \in Runs, Reviewer!Collect(q) PROVE Still
    <2>1. PICK live, s : live = Reviewer!Live /\ s = [state[q] EXCEPT !.status = "completed", !.observed = live]
      OBVIOUS
    <2>2. s \in ReviewerFile /\ s.outcome = state[q].outcome /\ s.mutation = state[q].mutation
      BY <2>1, ReviewerReading DEF ReviewerFile, Reviewer!Live
    <2>3. Reviewer!Save(q, s) \/ Reviewer!SourceChanged(q, state[q]) \/ Reviewer!Fail(q)
      BY <1>6, <2>1 DEF Reviewer!Collect
    <2> QED
      BY <1>1, <1>2, <2>2, <2>3, ReviewerSilent, ReviewerReading
  <1>7. ASSUME NEW q \in Runs, Reviewer!Refresh(q) PROVE Still
    <2>1. PICK live, s : live = Reviewer!Live /\ s = [state[q] EXCEPT !.pr = live, !.refreshed = TRUE]
      OBVIOUS
    <2>2. s \in ReviewerFile /\ s.outcome = state[q].outcome /\ s.mutation = state[q].mutation
      BY <2>1, ReviewerReading DEF ReviewerFile, Reviewer!Live
    <2>3. Reviewer!Save(q, s) \/ Reviewer!Fail(q)
      BY <1>7, <2>1 DEF Reviewer!Refresh
    <2> QED
      BY <1>1, <2>2, <2>3, ReviewerSilent
  <1>8. ASSUME NEW q \in Runs, NEW s \in ReviewerFile, s.mutation = state[q].mutation, Reviewer!NothingFound(q, s)
        PROVE  /\ github' = github
               /\ state'[r].outcome = "no_findings" => state[r].outcome = "no_findings" \/ (q = r /\ ~s.refreshed)
               /\ state'[r].mutation = "verified" => state[r].mutation = "verified"
    <2>1. PICK outcome : outcome = IF Reviewer!Stale(s, {}) THEN "incomplete" ELSE "no_findings"
      OBVIOUS
    <2>2. PICK t : t = [s EXCEPT !.outcome = outcome]
      OBVIOUS
    <2>3. t.outcome = outcome /\ t.mutation = state[q].mutation /\ github' = github /\ state' = [state EXCEPT ![q] = t]
      BY <1>8, <2>1, <2>2 DEF Reviewer!NothingFound, Reviewer!End, Reviewer!Save, ReviewerFile
    <2>4. outcome = "no_findings" => ~s.refreshed
      BY <1>8, <2>1 DEF Reviewer!Stale
    <2>5. \A p \in Runs \ {q} : state'[p] = state[p]
      BY <2>3 DEF ReviewerInv, ReviewerTypes
    <2>6. state'[q] = t
      BY <2>3 DEF ReviewerInv, ReviewerTypes
    <2> QED
      BY <2>3, <2>4, <2>5, <2>6
  <1>9. ASSUME NEW q \in Runs, Reviewer!Discovered(q)
        PROVE  Still \/ /\ q = r /\ ~state[r].refreshed /\ github' = github
                        /\ state'[r].mutation = "verified" => state[r].mutation = "verified"
    <2>1. PICK kept, s : kept = Reviewer!Kept(state[q], hosted[q].discovery.out) /\
            s = [state[q] EXCEPT !.candidates = kept]
      OBVIOUS
    <2>2. kept \subseteq Candidates
      BY <2>1, ReviewerReading DEF Reviewer!Kept, ReviewerTask
    <2>3. s \in ReviewerFile /\ s.outcome = state[q].outcome /\ s.mutation = state[q].mutation /\
            s.refreshed = state[q].refreshed
      BY <2>1, <2>2, ReviewerReading DEF ReviewerFile
    <2>4. Reviewer!Save(q, s) \/ Reviewer!NothingFound(q, s) \/ Reviewer!Fail(q)
      BY <1>9, <2>1 DEF Reviewer!Discovered
    <2> QED
      BY <1>1, <1>8, <2>3, <2>4, ReviewerSilent
  <1>10. ASSUME NEW q \in Runs, Reviewer!Ready(q)
         PROVE  Still \/ /\ q = r /\ ~state[r].refreshed /\ github' = github
                         /\ state'[r].mutation = "verified" => state[r].mutation = "verified"
    <2>1. PICK out, s, t : out = hosted[q].critique.out /\ s = [state[q] EXCEPT !.comments = out] /\
            t = [s EXCEPT !.outcome = "ready"]
      OBVIOUS
    <2>2. s \in ReviewerFile /\ s.mutation = state[q].mutation /\ s.refreshed = state[q].refreshed
      BY <2>1, ReviewerReading DEF ReviewerFile, ReviewerTask
    <2>3. t \in ReviewerFile /\ t.outcome = "ready" /\ t.mutation = state[q].mutation
      BY <2>1, <2>2 DEF ReviewerFile, Reviewer!Outcomes
    <2>4. Reviewer!Save(q, t) \/ Reviewer!NothingFound(q, s) \/ Reviewer!Fail(q)
      BY <1>10, <2>1 DEF Reviewer!Ready, Reviewer!Selected
    <2> QED
      BY <1>1, <1>8, <2>2, <2>3, <2>4, ReviewerSilent DEF Reviewer!Outcomes
  <1>11. ASSUME NEW q \in Runs, Reviewer!ReadOnly(q) \/ Reviewer!Post(q) \/ Reviewer!LastLook(q) PROVE Still
    <2>1. \/ Reviewer!Fail(q) \/ Reviewer!End(q, [state[q] EXCEPT !.outcome = "existing_pending_review"]) \/
               Reviewer!Save(q, state[q])
          \/ UNCHANGED <<github, state>>
      BY <1>11 DEF Reviewer!ReadOnly, Reviewer!Post, Reviewer!LastLook, Reviewer!End
    <2> QED
      BY <1>1, <1>3, <2>1, ReviewerSilent, ReviewerReading
  <1>12. ASSUME NEW q \in Runs, Reviewer!ClaimMutation(q) \/ Reviewer!Created(q) PROVE Still
    <2>1. PICK mutation \in {"attempted", "created"} : Reviewer!Save(q, [state[q] EXCEPT !.mutation = mutation])
      BY <1>12 DEF Reviewer!ClaimMutation, Reviewer!Claimed, Reviewer!Created
    <2>2. PICK s : s = [state[q] EXCEPT !.mutation = mutation]
      OBVIOUS
    <2>3. s \in ReviewerFile /\ s.outcome = state[q].outcome /\ s.mutation = mutation
      BY <2>2, ReviewerReading DEF ReviewerFile
    <2> QED
      BY <2>1, <2>2, <2>3, ReviewerSilent
  <1>13. ASSUME NEW q \in Runs, Reviewer!VerifyCreated(q)
         PROVE  Still \/ /\ q = r /\ Reviewer!Landed(r) /\ github' = github
                         /\ state'[r].outcome = "no_findings" => state[r].outcome = "no_findings"
    <2>1. CASE Reviewer!Landed(q)
      <3>1. PICK s : s = [state[q] EXCEPT !.mutation = "verified", !.outcome = "created_pending_review"]
        OBVIOUS
      <3>2. s.outcome = "created_pending_review" /\ github' = github /\ state' = [state EXCEPT ![q] = s]
        BY <1>13, <2>1, <3>1, ReviewerReading DEF Reviewer!VerifyCreated, Reviewer!End, Reviewer!Save, ReviewerFile
      <3> QED
        BY <2>1, <3>2 DEF ReviewerInv, ReviewerTypes
    <2>2. CASE ~Reviewer!Landed(q)
      <3>1. PICK s : s = [state[q] EXCEPT !.mutation = "created_unverified", !.outcome = "error"]
        OBVIOUS
      <3>2. s \in ReviewerFile /\ s.outcome = "error" /\ s.mutation = "created_unverified"
        BY <3>1, ReviewerReading DEF ReviewerFile, Reviewer!Outcomes
      <3>3. Reviewer!Save(q, s)
        BY <1>13, <2>2, <3>1 DEF Reviewer!VerifyCreated, Reviewer!End
      <3> QED
        BY <3>2, <3>3, ReviewerSilent DEF Reviewer!Outcomes
    <2> QED
      BY <2>1, <2>2
  <1>14. ASSUME NEW q \in Runs, Reviewer!Send(q)
         PROVE  Still \/ (state' = state /\ github.pending.by = 0 /\ (github'.pending.by = r => q = r))
    <2>1. CASE Reviewer!Fail(q)
      BY <1>1, <2>1
    <2>2. CASE ~Reviewer!Fail(q)
      BY <1>14, <2>2 DEF Reviewer!Send, ReviewerInv, ReviewerTypes
    <2> QED
      BY <2>1, <2>2
  <1>15. ASSUME Reviewer!OthersMove
         PROVE  state' = state /\ (github'.pending.by = r => github.pending.by = r)
    <2>1. github'.pending = github.pending \/ github'.pending.by \in {0, Reviewer!Viewer}
      BY <1>15, ReviewerOthers
    <2> QED
      BY <1>15, <2>1, ReviewerConstants DEF Reviewer!OthersMove
  <1>16. ASSUME NEW q \in Runs, Reviewer!Raised(q) PROVE Still
    BY <1>1, <1>16 DEF Reviewer!Raised
  <1>17. ASSUME NEW q \in Runs, Reviewer!Ask(q) \/
           (\E phase \in {"discovery", "critique"} : Reviewer!HostedEnds(q, phase)) \/ Reviewer!Crash(q) PROVE Still
    BY <1>17 DEF Reviewer!Ask, Reviewer!HostedEnds, Reviewer!Crash
  <1>18. Reviewer!Rest => Still
    BY DEF Reviewer!Rest, Reviewer!vars
  <1>19. \A q \in Runs : (Reviewer!Discovered(q) => proc[q].pc = "discovered") /\ (Reviewer!Ready(q) =>
           proc[q].pc = "ready")
    BY DEF Reviewer!Discovered, Reviewer!Ready
  <1> HIDE DEF Still
  <1>20. CASE Still
    BY <1>20 DEF Still
  <1>21. CASE \E q \in Runs : Reviewer!Discovered(q) \/ Reviewer!Ready(q)
    BY <1>9, <1>10, <1>19, <1>20, <1>21
  <1>22. CASE \E q \in Runs : Reviewer!Send(q) \/ Reviewer!VerifyCreated(q)
    BY <1>13, <1>14, <1>20, <1>22
  <1> QED
    BY <1>4, <1>5, <1>6, <1>7, <1>11, <1>12, <1>15, <1>16, <1>17, <1>18, <1>20, <1>21, <1>22 DEF Reviewer!Next

\* A review of ours replaces none, and is of the source that the first task was asked
\* about.
THEOREM ReviewKeepsSource == ASSUME Reviewer!PrReviewerAssumption PROVE Reviewer!Spec =>
  [][Reviewer!SourceKept]_Reviewer!vars
  <1>1. ReviewerInv /\ [Reviewer!Next]_Reviewer!vars => [Reviewer!SourceKept]_Reviewer!vars
    <2> SUFFICES ASSUME ReviewerInv, Reviewer!Next, NEW r \in Runs, github'.pending.by = r, github.pending.by # r
                 PROVE  /\ github.pending.by = 0
                        /\ proc[r].read.text = hosted[r].discovery.seen.text
                        /\ proc[r].read.head = hosted[r].discovery.seen.head
      BY DEF Reviewer!SourceKept, Reviewer!vars
    <2>1. Reviewer!Send(r) /\ github.pending.by = 0
      BY ReviewerMoves
    <2> QED
      BY <2>1, ReviewerReading
        DEF Reviewer!Send, ReviewerPlaced, ReviewerChosen, ReviewerJudged, ReviewerListed, ReviewerFound
  <1> QED
    BY <1>1, ReviewerInvariance, PTL DEF Reviewer!Spec

\* No findings is said of the base that was reviewed; a review is verified only while it
\* stands on the live head.
THEOREM ReviewVerdictHolds == ASSUME Reviewer!PrReviewerAssumption PROVE Reviewer!Spec =>
  [][Reviewer!VerdictHolds]_Reviewer!vars
  <1>1. ReviewerInv /\ [Reviewer!Next]_Reviewer!vars => [Reviewer!VerdictHolds]_Reviewer!vars
    <2> SUFFICES ASSUME ReviewerInv, Reviewer!Next, NEW r \in Runs
                 PROVE  /\ state'[r].outcome = "no_findings" /\ state[r].outcome = "none" =>
                             hosted[r].discovery.seen = state[r].pr
                        /\ state'[r].mutation = "verified" /\ state[r].mutation # "verified" =>
                             github.pending.by = r /\ Reviewer!Live.head = github.pending.commit
      BY DEF Reviewer!VerdictHolds, Reviewer!vars
    <2>1. proc[r].pc \in {"discovered", "ready"} /\ ~state[r].refreshed => hosted[r].discovery.seen = state[r].pr
      BY ReviewerReading DEF ReviewerPlaced, ReviewerJudged, ReviewerListed, ReviewerFound
    <2>2. Reviewer!Landed(r) => github.pending.by = r /\ Reviewer!Live.head = github.pending.commit
      BY DEF Reviewer!Landed
    <2> QED
      BY <2>1, <2>2, ReviewerMoves
  <1> QED
    BY <1>1, ReviewerInvariance, PTL DEF Reviewer!Spec

-----------------------------------------------------------------------------
(* SelfReview: a head is called clean after a review of it, once paid for.  *)
SelfSnapshot == [head : Self!Heads, text : Nat]
SelfTask == [status : Self!TaskStates, run : Nat, snapshot : SelfSnapshot, commits : BOOLEAN, outcome : Self!Outcomes,
  confirmed : BOOLEAN,
             published : BOOLEAN]
SelfFile == [exists : BOOLEAN, scope : 0..MaxSweeps, base : Nat, iterations : Nat, task : SelfTask,
             review : {"none", "active", "clean", "continue", "exhausted", "budget_exhausted", "source_changed"},
               clean : Self!Heads]
SelfHosted == [status : {"none", "running", "success", "failure"}, snapshot : SelfSnapshot, commits : BOOLEAN, outcome :
  Self!Outcomes,
               asked : Nat, clean : SUBSET Self!Heads]
SelfShared == [clean : Self!Heads, at : Nat]
SelfPost == [clean : Self!Heads, at : Nat, seen : SelfShared, attempts : 0..MaxAttempts, next :
  {"none", "dispatch", "end"}]
SelfProcess == [pc : Self!Pcs, exit : {"none", "error", "waiting", "cleared", "exhausted", "source_changed"}, sweep :
  0..MaxSweeps, post : SelfPost]
SelfSource == [head : Self!Heads, text : Nat, shared : SelfShared, now : Nat]

\* The types in full.
SelfTypes ==
  /\ github \in SelfSource /\ local \in Self!Heads /\ hosted \in SelfHosted /\ state \in SelfFile
  /\ proc \in SelfProcess
  /\ budget \in 0..MaxMoves

SelfSharing == {"read_shared", "write_shared"}

\* Where the process stands: to publish the clean head is an excursion.
SelfAt(p) == IF p.pc \in SelfSharing THEN p.post.next ELSE p.pc

SelfFresh == {"none"} \cup Self!Done
SelfJudged == {"validated", "imported", "published_pending", "published"}
SelfOpen == {"preparing", "running", "result_ready"} \cup SelfJudged

\* Where the process stands the file says so.
SelfPlaced(p, s) ==
  /\ p.pc \in SelfSharing => p.post.next \in {"dispatch", "end"}
  /\ p.pc = "read_shared" => p.post.attempts < MaxAttempts
  /\ SelfAt(p) = "preflight" => s.task.status \in SelfFresh
  /\ SelfAt(p) = "dispatch" => s.task.status = "preparing"
  /\ SelfAt(p) \in {"send", "observe"} => s.task.status = "running"
  /\ SelfAt(p) = "accept" => s.task.status \in Self!Resumable
  /\ SelfAt(p) \in {"import", "record"} => s.task.status = "validated"
  /\ SelfAt(p) \in {"push", "send_push", "pushed"} => s.task.status = "imported"
  /\ SelfAt(p) \in {"confirm", "live"} => s.task.status \in {"imported", "published_pending"}
  /\ SelfAt(p) \in {"finalize", "complete"} => s.task.status \in {"published", "published_pending"}
  /\ SelfAt(p) = "end" => s.task.status = "completed"
  /\ s.task.status # "none" => s.exists

\* A task on its way can still be paid for.
SelfPaid(p, s) ==
  /\ s.base <= s.iterations /\ s.iterations - s.base <= MaxIterations /\ s.iterations <= MaxIterations * MaxSweeps
  /\ s.task.status \in SelfOpen => ~Self!Exhausted(s)
  /\ ~Bounded => s.base = 0 /\ (s.scope = 0 => s.iterations = 0 /\ s.task.status = "none") /\ (p.pc # "idle" =>
       p.sweep = 1)

\* The tasks that were asked for are those that were paid for, and the one on its way.
SelfAsked(p, s, h) ==
  /\ s.task.status \in SelfFresh => h.asked = s.iterations
  /\ s.task.status \in SelfOpen => s.task.run = s.iterations + 1 /\ h.asked \in {s.iterations, s.iterations + 1}
  /\ SelfAt(p) \in {"dispatch", "send"} => h.asked = s.iterations
  /\ SelfAt(p) \in Self!Pcs \ {"idle", "preflight", "dispatch", "send", "end"} => h.asked = s.task.run
  /\ s.task.status \in SelfOpen /\ h.asked = s.task.run => h.snapshot = s.task.snapshot
  /\ s.task.status \in SelfJudged \cup {"result_ready"} \/ SelfAt(p) = "accept" => h.status = "success"
  /\ Bounded /\ h.status = "running" =>
       /\ p.pc \in {"idle", "observe"}
       /\ s.task.status \in {"running", "failed", "failed_after_import", "failed_after_publication"}

\* A pass that is cleared is of a head that was reviewed and left as it was.
SelfClean(p, s, h, l) ==
  /\ h.status = "success" /\ h.outcome = "cleared" /\ ~h.commits => h.snapshot.head \in h.clean
  /\ s.task.status \in SelfJudged /\ s.task.outcome = "cleared" => ~s.task.commits /\ s.task.snapshot.head \in h.clean
  /\ s.task.status = "published_pending" \/ SelfAt(p) = "confirm" => s.task.commits
  /\ SelfAt(p) \in {"record", "push", "send_push", "pushed", "live", "finalize", "complete"} /\
       s.task.outcome = "cleared" =>
       l = s.task.snapshot.head
  /\ SelfAt(p) = "end" /\ s.review = "clean" => s.clean = l
  /\ s.clean \in h.clean \cup {Self!NoHead}

\* What is or may be published was found clean, and is not of a time to come.
SelfPosted(p, h, g) ==
  /\ {p.post.clean, p.post.seen.clean, g.shared.clean} \subseteq h.clean \cup {Self!NoHead}
  /\ p.post.at <= g.now /\ p.post.seen.at <= g.now /\ g.shared.at <= g.now

SelfGood(p, s, h, l, g) ==
  SelfPlaced(p, s) /\ SelfPaid(p, s) /\ SelfAsked(p, s, h) /\ SelfClean(p, s, h, l) /\ SelfPosted(p, h, g)

SelfInv == SelfTypes /\ SelfGood(proc, state, hosted, local, github)

LEMMA SelfConstants ==
  ASSUME Self!SelfReviewAssumption
  PROVE  /\ MaxIterations \in Nat \ {0} /\ MaxSweeps \in Nat \ {0} /\ MaxAttempts \in Nat \ {0} /\ MaxMoves \in Nat
         /\ Bounded \in BOOLEAN
         /\ MaxIterations * MaxSweeps \in Nat /\ MaxIterations <= MaxIterations * MaxSweeps
         /\ Self!NoHead \in Self!Heads /\ Self!NoSnapshot \in SelfSnapshot
         /\ Self!NoTask \in SelfTask /\ Self!NoTask.status = "none"
         /\ Self!NoFile \in SelfFile /\ Self!NoFile.task.status = "none" /\ Self!NoFile.scope = 0
         /\ Self!NoFile.base = 0 /\ Self!NoFile.iterations = 0
         /\ Self!NoFile.clean = Self!NoHead
         /\ Self!NoShared \in SelfShared /\ Self!NoShared.clean = Self!NoHead /\ Self!NoShared.at = 0
         /\ Self!NoPost \in SelfPost /\ Self!NoPost.clean = Self!NoHead /\ Self!NoPost.at = 0
         /\ Self!NoPost.seen = Self!NoShared
         /\ Self!NoPost.next = "none" /\ Self!NoPost.attempts = 0
  <1>1. MaxIterations \in Nat \ {0} /\ MaxSweeps \in Nat \ {0} /\ MaxAttempts \in Nat \ {0} /\ MaxMoves \in Nat /\
          Bounded \in BOOLEAN
    BY DEF Self!SelfReviewAssumption
  <1>2. \A a \in Nat \ {0}, b \in Nat \ {0} : a * b \in Nat /\ a <= a * b
    OBVIOUS
  <1>3. MaxIterations * MaxSweeps \in Nat /\ MaxIterations <= MaxIterations * MaxSweeps
    BY <1>1, <1>2
  <1>4. PICK head, snapshot : head = Self!NoHead /\ snapshot = Self!NoSnapshot
    OBVIOUS
  <1>5. head \in Self!Heads /\ snapshot \in SelfSnapshot
    BY <1>4 DEF Self!NoHead, Self!NoSnapshot, Self!Heads, SelfSnapshot
  <1>6. PICK task : task = Self!NoTask
    OBVIOUS
  <1>7. task = [status |-> "none", run |-> 0, snapshot |-> snapshot, commits |-> FALSE, outcome |-> "none",
          confirmed |-> FALSE,
                published |-> FALSE]
    BY <1>4, <1>6 DEF Self!NoTask
  <1>8. task \in SelfTask /\ task.status = "none"
    BY <1>5, <1>7 DEF SelfTask, Self!TaskStates, Self!Outcomes
  <1>9. Self!NoFile = [exists |-> FALSE, scope |-> 0, base |-> 0, iterations |-> 0, task |-> task, review |-> "none",
          clean |-> head]
    BY <1>4, <1>6 DEF Self!NoFile
  <1>10. /\ Self!NoFile \in SelfFile /\ Self!NoFile.task = task /\ Self!NoFile.scope = 0 /\ Self!NoFile.base = 0
         /\ Self!NoFile.iterations = 0
         /\ Self!NoFile.clean = head
    BY <1>1, <1>5, <1>8, <1>9 DEF SelfFile
  <1>11. PICK shared : shared = Self!NoShared
    OBVIOUS
  <1>12. shared = [clean |-> head, at |-> 0]
    BY <1>4, <1>11 DEF Self!NoShared
  <1>13. shared \in SelfShared /\ shared.clean = head /\ shared.at = 0
    BY <1>5, <1>12 DEF SelfShared
  <1>14. Self!NoPost = [clean |-> head, at |-> 0, seen |-> shared, attempts |-> 0, next |-> "none"]
    BY <1>4, <1>11 DEF Self!NoPost
  <1>15. Self!NoPost \in SelfPost /\ Self!NoPost.clean = head /\ Self!NoPost.at = 0 /\ Self!NoPost.seen = shared /\
           Self!NoPost.next = "none" /\ Self!NoPost.attempts = 0
    BY <1>1, <1>5, <1>13, <1>14 DEF SelfPost
  <1> QED
    BY <1>1, <1>3, <1>4, <1>5, <1>6, <1>8, <1>10, <1>11, <1>13, <1>15

LEMMA SelfRest ==
  ASSUME Self!SelfReviewAssumption, NEW exit \in {"none", "error", "waiting", "cleared", "exhausted", "source_changed"}
  PROVE  Self!Resting(exit) \in SelfProcess /\ Self!Resting(exit).pc = "idle" /\ Self!Resting(exit).post = Self!NoPost
  <1>1. PICK post : post = Self!NoPost
    OBVIOUS
  <1>2. Self!Resting(exit) = [pc |-> "idle", exit |-> exit, sweep |-> 0, post |-> post]
    BY <1>1 DEF Self!Resting
  <1>3. post \in SelfPost /\ 0 \in 0..MaxSweeps
    BY <1>1, SelfConstants
  <1> QED
    BY <1>1, <1>2, <1>3 DEF SelfProcess, Self!Pcs

LEMMA SelfReading ==
  ASSUME SelfInv
  PROVE  /\ github \in SelfSource /\ local \in Self!Heads /\ hosted \in SelfHosted /\ state \in SelfFile
         /\ proc \in SelfProcess
         /\ budget \in 0..MaxMoves
         /\ state.task \in SelfTask /\ state.task.snapshot \in SelfSnapshot /\ Self!Source \in Self!Heads
         /\ SelfPlaced(proc, state) /\ SelfPaid(proc, state) /\ SelfAsked(proc, state, hosted)
         /\ SelfClean(proc, state, hosted, local) /\ SelfPosted(proc, hosted, github)
  BY DEF SelfInv, SelfTypes, SelfGood, SelfFile, SelfTask, SelfSnapshot, Self!Source

LEMMA SelfInit ==
  ASSUME Self!SelfReviewAssumption, Self!Init
  PROVE  SelfInv
  <1>1. PICK head, snapshot, shared, file, p :
          head = <<1>> /\ snapshot = Self!NoSnapshot /\ shared = Self!NoShared /\ file = Self!NoFile /\
            p = Self!Resting("none")
    OBVIOUS
  <1>2. head \in Self!Heads
    BY <1>1 DEF Self!Heads
  <1>3. p \in SelfProcess /\ p.pc = "idle" /\ p.post = Self!NoPost
    BY <1>1, SelfRest
  <1>4. /\ github = [head |-> head, text |-> 0, shared |-> shared, now |-> 0] /\ local = head
        /\ hosted = [status |-> "none", snapshot |-> snapshot, commits |-> FALSE, outcome |-> "none", asked |-> 0,
             clean |-> {}]
        /\ state = file /\ proc = p /\ budget = MaxMoves
    BY <1>1 DEF Self!Init, Self!NoHosted
  <1>5. snapshot \in SelfSnapshot /\ shared \in SelfShared /\ file \in SelfFile /\ MaxMoves \in Nat
    BY <1>1, SelfConstants
  <1>6. github \in SelfSource /\ hosted \in SelfHosted
    BY <1>2, <1>4, <1>5 DEF SelfSource, SelfHosted, Self!Outcomes
  <1>7. SelfTypes
    BY <1>2, <1>3, <1>4, <1>5, <1>6 DEF SelfTypes
  <1>8. file.task.status = "none" /\ file.scope = 0 /\ file.base = 0 /\ file.iterations = 0 /\ file.clean = Self!NoHead
    BY <1>1, SelfConstants
  <1>9. SelfPlaced(proc, state)
    BY <1>3, <1>4, <1>8 DEF SelfPlaced, SelfAt, SelfSharing
  <1>10. SelfPaid(proc, state)
    BY <1>3, <1>4, <1>8, SelfConstants DEF SelfPaid, SelfOpen, SelfJudged
  <1>11. SelfAsked(proc, state, hosted)
    BY <1>3, <1>4, <1>8 DEF SelfAsked, SelfAt, SelfSharing, SelfFresh, Self!Done, SelfOpen, SelfJudged
  <1>12. SelfClean(proc, state, hosted, local)
    BY <1>3, <1>4, <1>8 DEF SelfClean, SelfAt, SelfSharing, SelfJudged
  <1>13. SelfPosted(proc, hosted, github)
    BY <1>1, <1>3, <1>4, SelfConstants DEF SelfPosted
  <1> QED
    BY <1>7, <1>9, <1>10, <1>11, <1>12, <1>13 DEF SelfInv, SelfGood

\* The invariant of the next state, from the values that it has.
LEMMA SelfThen ==
  ASSUME NEW g \in SelfSource, NEW l \in Self!Heads, NEW h \in SelfHosted, NEW s \in SelfFile, NEW p \in SelfProcess,
         github' = g, local' = l, hosted' = h, state' = s, proc' = p, budget' \in 0..MaxMoves,
         SelfGood(p, s, h, l, g)
  PROVE  SelfInv'
  BY DEF SelfInv, SelfTypes, SelfGood, SelfPlaced, SelfPaid, SelfAsked, SelfClean, SelfPosted

\* The process is gone and the file is as it was.
LEMMA SelfLeaves ==
  ASSUME Self!SelfReviewAssumption, SelfInv,
         NEW exit \in {"none", "error", "waiting", "cleared", "exhausted", "source_changed"},
         Self!Exit(exit), UNCHANGED <<github, local, hosted, state, budget>>
  PROVE  SelfInv'
  <1>1. PICK p : p = Self!Resting(exit)
    OBVIOUS
  <1>2. p \in SelfProcess /\ p.pc = "idle" /\ p.post = Self!NoPost /\ proc' = p
    BY <1>1, SelfRest DEF Self!Exit
  <1>3. SelfAt(p) = "idle"
    BY <1>2 DEF SelfAt, SelfSharing
  <1>4. SelfPlaced(p, state)
    BY <1>2, <1>3, SelfReading DEF SelfPlaced, SelfSharing
  <1>5. SelfPaid(p, state)
    BY <1>2, SelfReading DEF SelfPaid
  <1>6. SelfAsked(p, state, hosted)
    BY <1>2, <1>3, SelfReading DEF SelfAsked
  <1>7. SelfClean(p, state, hosted, local)
    BY <1>2, <1>3, SelfReading DEF SelfClean
  <1>8. SelfPosted(p, hosted, github)
    BY <1>2, SelfConstants, SelfReading DEF SelfPosted, SelfSource
  <1> QED
    BY <1>2, <1>4, <1>5, <1>6, <1>7, <1>8, SelfThen, SelfReading DEF SelfGood

SelfFailed == {"failed", "failed_after_import", "failed_after_publication"}

LEMMA SelfRaises ==
  ASSUME Self!SelfReviewAssumption, SelfInv, Self!Raise, proc.pc # "idle"
  PROVE  SelfInv'
  <1>1. CASE proc.pc \in {"preflight", "read_shared", "write_shared"}
    BY <1>1, SelfLeaves DEF Self!Raise, Self!Save
  <1>2. CASE proc.pc \notin {"preflight", "read_shared", "write_shared"}
    <2>1. PICK status : status = IF state.task.published \/ state.task.confirmed THEN "failed_after_publication"
                                 ELSE IF local # state.task.snapshot.head THEN "failed_after_import" ELSE "failed"
      OBVIOUS
    <2>2. PICK s, p : s = [state EXCEPT !.task.status = status] /\ p = Self!Resting("error")
      OBVIOUS
    <2>3. PICK task : task = [state.task EXCEPT !.status = status]
      OBVIOUS
    <2>4. status \in SelfFailed /\ s = [state EXCEPT !.task = task]
      BY <2>1, <2>2, <2>3, SelfReading DEF SelfFailed, SelfFile
    <2>5. task \in SelfTask /\ task.status = status
      BY <2>3, <2>4, SelfReading DEF SelfTask, SelfFailed, Self!TaskStates
    <2>6. /\ s \in SelfFile /\ s.task = task /\ s.base = state.base /\ s.iterations = state.iterations
          /\ s.scope = state.scope
          /\ s.clean = state.clean /\ s.exists = state.exists
      BY <2>4, <2>5, SelfReading DEF SelfFile
    <2>7. p \in SelfProcess /\ p.pc = "idle" /\ p.post = Self!NoPost
      BY <2>2, SelfRest
    <2>8. proc' = p /\ state' = s /\ UNCHANGED <<github, local, hosted, budget>>
      BY <1>2, <2>1, <2>2 DEF Self!Raise, Self!Exit, Self!Save, Self!Failed
    <2>9. SelfAt(p) = "idle"
      BY <2>7 DEF SelfAt, SelfSharing
    <2>10. state.task.status # "none"
      BY <1>2, SelfReading DEF SelfPlaced, SelfAt, SelfSharing, SelfProcess, Self!Pcs, Self!Resumable
    <2>11. SelfPlaced(p, s)
      BY <2>4, <2>5, <2>6, <2>7, <2>9, <2>10, SelfReading DEF SelfPlaced, SelfSharing, SelfFailed
    <2>12. SelfPaid(p, s)
      BY <2>4, <2>5, <2>6, <2>7, <2>10, SelfReading DEF SelfPaid, SelfOpen, SelfJudged, SelfFailed
    <2>13. SelfAsked(p, s, hosted)
      BY <2>4, <2>5, <2>6, <2>7, <2>9, SelfReading DEF SelfAsked, SelfFresh, Self!Done, SelfOpen, SelfJudged, SelfFailed
    <2>14. SelfClean(p, s, hosted, local)
      BY <2>4, <2>5, <2>6, <2>7, <2>9, SelfReading DEF SelfClean, SelfJudged, SelfFailed
    <2>15. SelfPosted(p, hosted, github)
      BY <2>7, SelfConstants, SelfReading DEF SelfPosted, SelfSource
    <2> QED
      BY <2>6, <2>7, <2>8, <2>11, <2>12, <2>13, <2>14, <2>15, SelfThen, SelfReading DEF SelfGood
  <1> QED
    BY <1>1, <1>2

-----------------------------------------------------------------------------
(* The steps of a pass *)

\* What a move to another place leaves of the process.
LEMMA SelfGoto ==
  ASSUME SelfInv, NEW pc \in Self!Pcs \ SelfSharing
  PROVE  /\ [proc EXCEPT !.pc = pc] \in SelfProcess /\ [proc EXCEPT !.pc = pc].pc = pc
         /\ SelfAt([proc EXCEPT !.pc = pc]) = pc
         /\ [proc EXCEPT !.pc = pc].post = proc.post /\ [proc EXCEPT !.pc = pc].sweep = proc.sweep
  <1>1. PICK p : p = [proc EXCEPT !.pc = pc]
    OBVIOUS
  <1>2. p \in SelfProcess /\ p.pc = pc /\ p.post = proc.post /\ p.sweep = proc.sweep
    BY <1>1, SelfReading DEF SelfProcess
  <1>3. SelfAt(p) = pc
    BY <1>2 DEF SelfAt
  <1> QED
    BY <1>1, <1>2, <1>3

\* What another task leaves of the file.
LEMMA SelfSave ==
  ASSUME SelfInv, NEW task \in SelfTask
  PROVE  /\ [state EXCEPT !.task = task] \in SelfFile /\ [state EXCEPT !.task = task].task = task
         /\ [state EXCEPT !.task = task].exists = state.exists /\ [state EXCEPT !.task = task].scope = state.scope
         /\ [state EXCEPT !.task = task].base = state.base /\ [state EXCEPT !.task = task].iterations = state.iterations
         /\ [state EXCEPT !.task = task].review = state.review /\ [state EXCEPT !.task = task].clean = state.clean
  BY SelfReading DEF SelfFile

\* A step of the process that spends nothing keeps what is left to show.
LEMMA SelfMoves ==
  ASSUME Self!SelfReviewAssumption, SelfInv, NEW p \in SelfProcess, NEW s \in SelfFile,
         proc.pc # "idle", p.post \in {proc.post, Self!NoPost}, p.pc # "idle" => p.sweep = proc.sweep,
         s.base = state.base, s.iterations = state.iterations, s.scope = state.scope,
         s.task.status \in SelfOpen => state.task.status \in SelfOpen, s.task.status # "none" =>
           state.task.status # "none",
         proc' = p, state' = s, UNCHANGED <<github, local, hosted, budget>>,
         SelfPlaced(p, s), SelfAsked(p, s, hosted), SelfClean(p, s, hosted, local)
  PROVE  SelfInv'
  <1>1. SelfPaid(p, s)
    BY SelfReading DEF SelfPaid, Self!Exhausted
  <1>2. SelfPosted(p, hosted, github)
    BY SelfConstants, SelfReading DEF SelfPosted, SelfSource
  <1> QED
    BY <1>1, <1>2, SelfThen, SelfReading DEF SelfGood

\* A move to another place with the same file.
LEMMA SelfGoes ==
  ASSUME Self!SelfReviewAssumption, SelfInv, NEW pc \in Self!Pcs \ (SelfSharing \cup {"idle"}), proc.pc # "idle",
         Self!Goto(pc), UNCHANGED <<github, local, hosted, state, budget>>,
         NEW p \in SelfProcess, p = [proc EXCEPT !.pc = pc],
         SelfPlaced(p, state), SelfAsked(p, state, hosted), SelfClean(p, state, hosted, local)
  PROVE  SelfInv'
  <1>1. p.post = proc.post /\ p.sweep = proc.sweep /\ proc' = p
    BY SelfGoto DEF Self!Goto
  <1> QED
    BY <1>1, SelfMoves, SelfReading

LEMMA SelfLaunchAlone ==
  ASSUME Self!SelfReviewAssumption, SelfInv, Self!LaunchAlone
  PROVE  SelfInv'
  <1>1. PICK p, rest, h, s : /\ rest = Self!Resting("none") /\ p = [rest EXCEPT !.pc = "preflight", !.sweep = 1]
                             /\ h = [hosted EXCEPT !.asked = 0] /\ s = Self!NoFile
    OBVIOUS
  <1>2. rest \in SelfProcess /\ rest.post = Self!NoPost
    BY <1>1, SelfRest
  <1>3. 1 \in 0..MaxSweeps
    BY SelfConstants
  <1>4. p \in SelfProcess /\ p.pc = "preflight" /\ p.sweep = 1 /\ p.post = Self!NoPost
    BY <1>1, <1>2, <1>3 DEF SelfProcess, Self!Pcs
  <1>5. /\ h \in SelfHosted /\ h.asked = 0 /\ h.status = hosted.status /\ h.outcome = hosted.outcome
        /\ h.commits = hosted.commits
        /\ h.snapshot = hosted.snapshot /\ h.clean = hosted.clean
    BY <1>1, SelfReading DEF SelfHosted
  <1>6. s \in SelfFile /\ s.task.status = "none" /\ s.scope = 0 /\ s.base = 0 /\ s.iterations = 0 /\
          s.clean = Self!NoHead
    BY <1>1, SelfConstants
  <1>7. /\ ~Bounded /\ proc.pc = "idle" /\ github' = github /\ local' = local /\ hosted' = h /\ state' = s /\ proc' = p
        /\ budget' \in 0..MaxMoves
    BY <1>1, SelfConstants, SelfReading DEF Self!LaunchAlone
  <1>8. SelfAt(p) = "preflight"
    BY <1>4 DEF SelfAt, SelfSharing
  <1>9. SelfPlaced(p, s)
    BY <1>4, <1>6, <1>8 DEF SelfPlaced, SelfSharing, SelfFresh
  <1>10. SelfPaid(p, s)
    BY <1>4, <1>6, SelfConstants DEF SelfPaid, SelfOpen, SelfJudged
  <1>11. SelfAsked(p, s, h)
    BY <1>4, <1>5, <1>6, <1>7, <1>8 DEF SelfAsked, SelfFresh, Self!Done, SelfOpen, SelfJudged
  <1>12. SelfClean(p, s, h, local)
    BY <1>4, <1>5, <1>6, <1>8, SelfReading DEF SelfClean, SelfJudged
  <1>13. SelfPosted(p, h, github)
    BY <1>4, <1>5, SelfConstants, SelfReading DEF SelfPosted, SelfSource
  <1> QED
    BY <1>4, <1>5, <1>6, <1>7, <1>9, <1>10, <1>11, <1>12, <1>13, SelfThen, SelfReading DEF SelfGood

LEMMA SelfLaunchBounded ==
  ASSUME Self!SelfReviewAssumption, SelfInv, Self!LaunchBounded
  PROVE  SelfInv'
  <1>1. PICK sweep \in {state.scope, state.scope + 1} \cap (1..MaxSweeps) :
          IF state.task.status \in Self!Resumable /\ sweep = state.scope
          THEN IF ~Self!Checkpointed THEN Self!Exit("error")
               ELSE proc' = [Self!Resting("none") EXCEPT !.sweep = sweep,
                               !.pc = IF state.task.status = "running" THEN "observe" ELSE "accept"]
          ELSE IF Self!MayEnter(sweep) THEN proc' = [Self!Resting("none") EXCEPT !.pc = "preflight", !.sweep = sweep]
          ELSE Self!Exit("error")
    BY DEF Self!LaunchBounded
  <1>2. Bounded /\ proc.pc = "idle" /\ UNCHANGED <<github, local, hosted, state, budget>>
    BY DEF Self!LaunchBounded
  <1>3. CASE Self!Exit("error")
    BY <1>2, <1>3, SelfLeaves
  <1>4. ASSUME ~Self!Exit("error")
        PROVE  SelfInv'
    <2>1. PICK pc : pc = IF state.task.status \in Self!Resumable /\ sweep = state.scope
                         THEN IF state.task.status = "running" THEN "observe" ELSE "accept" ELSE "preflight"
      OBVIOUS
    <2>2. PICK p, rest : rest = Self!Resting("none") /\ p = [rest EXCEPT !.pc = pc, !.sweep = sweep]
      OBVIOUS
    <2>3. rest \in SelfProcess /\ rest.post = Self!NoPost
      BY <2>2, SelfRest
    <2>4. pc \in {"observe", "accept", "preflight"} /\ sweep \in 0..MaxSweeps
      BY <2>1
    <2>5. p \in SelfProcess /\ p.pc = pc /\ p.post = Self!NoPost
      BY <2>2, <2>3, <2>4 DEF SelfProcess, Self!Pcs
    <2>6. proc' = p
      <3>1. CASE state.task.status \in Self!Resumable /\ sweep = state.scope
        <4>1. proc' = [Self!Resting("none") EXCEPT !.sweep = sweep, !.pc = IF state.task.status =
                "running" THEN "observe" ELSE "accept"]
          BY <1>1, <1>4, <3>1
        <4> QED
          BY <4>1, <3>1, <2>1, <2>2, <2>3 DEF SelfProcess
      <3>2. CASE ~(state.task.status \in Self!Resumable /\ sweep = state.scope)
        BY <1>1, <1>4, <3>2, <2>1, <2>2
      <3> QED
        BY <3>1, <3>2
    <2>7. SelfAt(p) = pc
      BY <2>4, <2>5 DEF SelfAt, SelfSharing
    <2>8. /\ pc = "observe" => state.task.status = "running" /\ hosted.asked = state.task.run
          /\ pc = "accept" => state.task.status \in {"result_ready", "published_pending"} /\
               hosted.asked = state.task.run
          /\ pc = "preflight" => state.task.status \in SelfFresh
      BY <1>1, <1>4, <2>1, SelfReading DEF Self!Resumable, Self!Checkpointed, Self!MayEnter, SelfFresh, SelfPlaced
    <2>9. SelfPlaced(p, state)
      BY <2>4, <2>5, <2>7, <2>8, SelfReading DEF SelfPlaced, SelfSharing, Self!Resumable
    <2>10. SelfPaid(p, state)
      BY <1>2, SelfReading DEF SelfPaid
    <2>11. SelfAsked(p, state, hosted)
      BY <2>4, <2>5, <2>7, <2>8, SelfReading DEF SelfAsked, SelfFresh, Self!Done, SelfOpen, SelfJudged
    <2>12. SelfClean(p, state, hosted, local)
      BY <2>4, <2>5, <2>7, SelfReading DEF SelfClean
    <2>13. SelfPosted(p, hosted, github)
      BY <2>5, SelfConstants, SelfReading DEF SelfPosted, SelfSource
    <2> QED
      BY <1>2, <2>5, <2>6, <2>9, <2>10, <2>11, <2>12, <2>13, SelfThen, SelfReading DEF SelfGood
  <1> QED
    BY <1>3, <1>4

LEMMA SelfReadShared ==
  ASSUME Self!SelfReviewAssumption, SelfInv, Self!ReadShared
  PROVE  SelfInv'
  <1>1. PICK post, p, attempts :
          /\ attempts = proc.post.attempts + 1 /\ post = [proc.post EXCEPT !.seen = github.shared,
               !.attempts = attempts]
          /\ p = [proc EXCEPT !.pc = "write_shared", !.post = post]
    OBVIOUS
  <1>2. proc.post \in SelfPost /\ proc.post.attempts \in 0..MaxAttempts /\ github.shared \in SelfShared
    BY SelfReading DEF SelfProcess, SelfPost, SelfSource
  <1>3. proc.pc = "read_shared" /\ proc.post.attempts < MaxAttempts
    BY SelfReading DEF Self!ReadShared, SelfPlaced
  <1>4. attempts \in 0..MaxAttempts
    BY <1>1, <1>2, <1>3, SelfConstants
  <1>5. /\ post \in SelfPost /\ post.clean = proc.post.clean /\ post.at = proc.post.at /\ post.seen = github.shared
        /\ post.next = proc.post.next
    BY <1>1, <1>2, <1>4 DEF SelfPost
  <1>6. p \in SelfProcess /\ p.pc = "write_shared" /\ p.post = post /\ p.sweep = proc.sweep
    BY <1>1, <1>5, SelfReading DEF SelfProcess, Self!Pcs
  <1>7. proc' = p /\ UNCHANGED <<github, local, hosted, state, budget>>
    BY <1>1, <1>2, SelfReading DEF Self!ReadShared, SelfProcess, SelfPost
  <1>8. SelfAt(p) = proc.post.next /\ SelfAt(proc) = proc.post.next
    BY <1>3, <1>5, <1>6 DEF SelfAt, SelfSharing
  <1>9. SelfPlaced(p, state)
    BY <1>3, <1>5, <1>6, <1>8, SelfReading DEF SelfPlaced, SelfSharing
  <1>10. SelfPaid(p, state)
    BY <1>3, <1>6, SelfReading DEF SelfPaid
  <1>11. SelfAsked(p, state, hosted)
    BY <1>3, <1>6, <1>8, SelfReading DEF SelfAsked
  <1>12. SelfClean(p, state, hosted, local)
    BY <1>8, SelfReading DEF SelfClean
  <1>13. SelfPosted(p, hosted, github)
    BY <1>5, <1>6, SelfReading DEF SelfPosted
  <1> QED
    BY <1>6, <1>7, <1>9, <1>10, <1>11, <1>12, <1>13, SelfThen, SelfReading DEF SelfGood

\* The process is back from the state repository.
LEMMA SelfReturns ==
  ASSUME Self!SelfReviewAssumption, SelfInv, proc.pc = "write_shared",
         proc' = [proc EXCEPT !.pc = proc.post.next, !.post = Self!NoPost],
         UNCHANGED <<local, hosted, state, budget>>,
         NEW g \in SelfSource, github' = g, g.shared.clean \in hosted.clean \cup {Self!NoHead}, g.shared.at <= g.now,
           g.now = github.now
  PROVE  SelfInv'
  <1>1. PICK p : p = [proc EXCEPT !.pc = proc.post.next, !.post = Self!NoPost]
    OBVIOUS
  <1>2. proc.post.next \in {"dispatch", "end"} /\ SelfAt(proc) = proc.post.next
    BY SelfReading DEF SelfPlaced, SelfAt, SelfSharing
  <1>3. Self!NoPost \in SelfPost
    BY SelfConstants
  <1>4. p \in SelfProcess /\ p.pc = proc.post.next /\ p.post = Self!NoPost /\ p.sweep = proc.sweep /\ proc' = p
    BY <1>1, <1>2, <1>3, SelfReading DEF SelfProcess, Self!Pcs
  <1>5. SelfAt(p) = SelfAt(proc)
    BY <1>2, <1>4 DEF SelfAt, SelfSharing
  <1>6. SelfPlaced(p, state)
    BY <1>2, <1>4, <1>5, SelfReading DEF SelfPlaced, SelfSharing
  <1>7. SelfPaid(p, state)
    BY <1>4, SelfReading DEF SelfPaid
  <1>8. SelfAsked(p, state, hosted)
    BY <1>5, SelfReading DEF SelfAsked
  <1>9. SelfClean(p, state, hosted, local)
    BY <1>5, SelfReading DEF SelfClean
  <1>10. SelfPosted(p, hosted, g)
    BY <1>4, SelfConstants, SelfReading DEF SelfPosted, SelfSource
  <1> QED
    BY <1>4, <1>6, <1>7, <1>8, <1>9, <1>10, SelfThen, SelfReading DEF SelfGood

LEMMA SelfMerged ==
  ASSUME SelfInv
  PROVE  Self!Merged(proc.post) \in SelfShared /\ Self!Merged(proc.post).clean \in hosted.clean \cup {Self!NoHead} /\
         Self!Merged(proc.post).at <= github.now
         /\ Self!Merged(proc.post).at >= proc.post.seen.at
  <1>1. proc.post \in SelfPost /\ proc.post.seen \in SelfShared /\ proc.post.clean \in Self!Heads /\
          proc.post.at \in Nat
        /\ proc.post.seen.at \in Nat
    BY SelfReading DEF SelfProcess, SelfPost, SelfShared
  <1>2. CASE proc.post.seen.at >= proc.post.at
    <2>1. Self!Merged(proc.post) = proc.post.seen
      BY <1>2 DEF Self!Merged
    <2> QED
      BY <1>1, <2>1, SelfReading DEF SelfPosted
  <1>3. CASE ~(proc.post.seen.at >= proc.post.at)
    <2>1. PICK m : m = [clean |-> proc.post.clean, at |-> proc.post.at]
      OBVIOUS
    <2>2. Self!Merged(proc.post) = m
      BY <1>3, <2>1 DEF Self!Merged
    <2>3. m \in SelfShared /\ m.clean = proc.post.clean /\ m.at = proc.post.at
      BY <1>1, <2>1 DEF SelfShared
    <2> QED
      BY <1>1, <1>3, <2>2, <2>3, SelfReading DEF SelfPosted
  <1> QED
    BY <1>2, <1>3

LEMMA SelfWriteShared ==
  ASSUME Self!SelfReviewAssumption, SelfInv, Self!WriteShared
  PROVE  SelfInv'
  <1>1. proc.pc = "write_shared" /\ UNCHANGED <<local, hosted, state, budget>>
    BY DEF Self!WriteShared
  <1>2. CASE proc' = [proc EXCEPT !.pc = proc.post.next, !.post = Self!NoPost] /\ UNCHANGED github
    BY <1>1, <1>2, SelfReturns, SelfReading DEF SelfPosted
  <1>3. CASE /\ github' = [github EXCEPT !.shared = Self!Merged(proc.post)]
             /\ proc' = [proc EXCEPT !.pc = proc.post.next, !.post = Self!NoPost]
    <2>1. PICK m, g : m = Self!Merged(proc.post) /\ g = [github EXCEPT !.shared = m]
      OBVIOUS
    <2>2. m \in SelfShared /\ m.clean \in hosted.clean \cup {Self!NoHead} /\ m.at <= github.now
      BY <2>1, SelfMerged
    <2>3. g \in SelfSource /\ g.shared = m /\ g.now = github.now
      BY <2>1, <2>2, SelfReading DEF SelfSource
    <2> QED
      BY <1>1, <1>3, <2>1, <2>2, <2>3, SelfReturns
  <1>4. CASE proc.post.attempts < MaxAttempts /\ Self!Goto("read_shared") /\ UNCHANGED github
    <2>1. PICK p : p = [proc EXCEPT !.pc = "read_shared"]
      OBVIOUS
    <2>2. p \in SelfProcess /\ p.pc = "read_shared" /\ p.post = proc.post /\ p.sweep = proc.sweep /\ proc' = p
      BY <1>4, <2>1, SelfReading DEF SelfProcess, Self!Pcs, Self!Goto
    <2>3. SelfAt(p) = SelfAt(proc)
      BY <1>1, <2>2 DEF SelfAt, SelfSharing
    <2>4. SelfPlaced(p, state)
      BY <1>1, <1>4, <2>2, <2>3, SelfReading DEF SelfPlaced, SelfSharing
    <2>5. SelfAsked(p, state, hosted)
      BY <1>1, <2>2, <2>3, SelfReading DEF SelfAsked
    <2>6. SelfClean(p, state, hosted, local)
      BY <2>3, SelfReading DEF SelfClean
    <2> QED
      BY <1>1, <1>4, <2>2, <2>4, <2>5, <2>6, SelfMoves, SelfReading
  <1> QED
    BY <1>2, <1>3, <1>4 DEF Self!WriteShared

LEMMA SelfPreflight ==
  ASSUME Self!SelfReviewAssumption, SelfInv, Self!Preflight
  PROVE  SelfInv'
  <1>1. PICK pre, s : /\ pre = IF state.task.status = "superseded" THEN Self!NoTask ELSE state.task
                      /\ s = [Self!Scoped(state) EXCEPT !.exists = TRUE, !.clean = Self!NoHead, !.task = pre]
    OBVIOUS
  <1>2. /\ proc.pc = "preflight" /\ proc.sweep \in 0..MaxSweeps /\ state.task.status \in SelfFresh
        /\ (~Bounded => proc.sweep = 1) /\ proc.post \in SelfPost /\ SelfAt(proc) = "preflight"
    BY SelfReading DEF Self!Preflight, SelfPlaced, SelfPaid, SelfAt, SelfSharing, SelfProcess
  <1>3. pre \in SelfTask /\ pre.status \in SelfFresh /\ state.task \in SelfTask
    BY <1>1, <1>2, SelfConstants, SelfReading DEF SelfFresh
  <1>4. PICK sc : sc = Self!Scoped(state)
    OBVIOUS
  <1>5. PICK base, scope : /\ base = (IF proc.sweep > state.scope THEN state.iterations ELSE state.base)
                           /\ scope = (IF proc.sweep > state.scope THEN proc.sweep ELSE state.scope)
    OBVIOUS
  <1>6. base \in Nat /\ scope \in 0..MaxSweeps /\ state.iterations \in Nat /\ state.base \in Nat /\
          state.scope \in 0..MaxSweeps
    BY <1>2, <1>5, SelfReading DEF SelfFile
  <1>7. sc = [state EXCEPT !.scope = scope, !.base = base]
    BY <1>4, <1>5, SelfReading DEF Self!Scoped, SelfFile
  <1>8. /\ sc \in SelfFile /\ sc.task = state.task /\ sc.base = base /\ sc.scope = scope
        /\ sc.iterations = state.iterations
    BY <1>6, <1>7, SelfReading DEF SelfFile
  <1>9. Self!NoHead \in Self!Heads
    BY SelfConstants
  <1>10. s = [Self!Scoped(state) EXCEPT !.exists = TRUE, !.clean = Self!NoHead,
           !.task = IF @.status = "superseded" THEN Self!NoTask ELSE @]
    BY <1>1, <1>4, <1>8 DEF SelfFile
  <1>11. /\ s \in SelfFile /\ s.exists /\ s.clean = Self!NoHead /\ s.task = pre /\ s.base = base /\ s.scope = scope
         /\ s.iterations = state.iterations
    BY <1>1, <1>3, <1>4, <1>8, <1>9 DEF SelfFile
  <1>12. /\ base <= state.iterations /\ state.iterations - base <= MaxIterations
         /\ state.iterations <= MaxIterations * MaxSweeps
         /\ (~Bounded => base = 0 /\ scope # 0)
    BY <1>2, <1>5, <1>6, SelfConstants, SelfReading DEF SelfPaid
  <1>13. hosted.asked = state.iterations /\ ~(Bounded /\ hosted.status = "running")
    BY <1>2, SelfReading DEF SelfAsked, SelfFresh, Self!Done
  <1>14. CASE local # github.head
    BY <1>2, <1>14, SelfRaises DEF Self!Preflight
  <1>15. CASE local = github.head /\ Self!Exhausted(s)
    <2>1. PICK f, p : f = [s EXCEPT !.review = "budget_exhausted"] /\ p = Self!Resting("exhausted")
      OBVIOUS
    <2>2. p \in SelfProcess /\ p.pc = "idle" /\ p.post = Self!NoPost
      BY <2>1, SelfRest
    <2>3. /\ f \in SelfFile /\ f.exists /\ f.clean = Self!NoHead /\ f.task = pre /\ f.base = base /\ f.scope = scope
          /\ f.iterations = state.iterations
      BY <2>1, <1>11 DEF SelfFile
    <2>4. state' = f /\ proc' = p /\ UNCHANGED <<github, local, hosted, budget>>
      BY <1>10, <1>15, <2>1 DEF Self!Preflight, Self!Exit
    <2>5. SelfAt(p) = "idle"
      BY <2>2 DEF SelfAt, SelfSharing
    <2>6. SelfPlaced(p, f)
      BY <2>2, <2>3, <2>5 DEF SelfPlaced, SelfSharing
    <2>7. SelfPaid(p, f)
      BY <1>3, <1>12, <2>2, <2>3 DEF SelfPaid, SelfFresh, Self!Done, SelfOpen, SelfJudged
    <2>8. SelfAsked(p, f, hosted)
      BY <1>3, <1>13, <2>2, <2>3, <2>5 DEF SelfAsked, SelfFresh, Self!Done, SelfOpen, SelfJudged
    <2>9. SelfClean(p, f, hosted, local)
      BY <1>3, <2>2, <2>3, <2>5, SelfReading DEF SelfClean, SelfFresh, Self!Done, SelfJudged
    <2>10. SelfPosted(p, hosted, github)
      BY <2>2, SelfConstants, SelfReading DEF SelfPosted, SelfSource
    <2> QED
      BY <2>2, <2>3, <2>4, <2>6, <2>7, <2>8, <2>9, <2>10, SelfThen, SelfReading DEF SelfGood
  <1>16. CASE local = github.head /\ ~Self!Exhausted(s)
    <2>1. PICK snapshot, asked : snapshot = [head |-> github.head, text |-> github.text] /\ asked = hosted.asked + 1
      OBVIOUS
    <2>2. PICK task : task = [Self!NoTask EXCEPT !.status = "preparing", !.run = asked, !.snapshot = snapshot]
      OBVIOUS
    <2>3. PICK f : f = [s EXCEPT !.review = "active", !.task = task]
      OBVIOUS
    <2>4. snapshot \in SelfSnapshot /\ asked \in Nat /\ hosted.asked \in Nat
      BY <2>1, SelfReading DEF SelfSnapshot, SelfSource, SelfHosted
    <2>5. task \in SelfTask /\ task.status = "preparing" /\ task.run = asked
      BY <2>2, <2>4, SelfConstants DEF SelfTask, Self!TaskStates
    <2>6. /\ f \in SelfFile /\ f.exists /\ f.clean = Self!NoHead /\ f.task = task /\ f.base = base /\ f.scope = scope
          /\ f.iterations = state.iterations
      BY <2>3, <2>5, <1>11 DEF SelfFile
    <2>7. /\ state' = f /\ UNCHANGED <<local, hosted, budget>>
          /\ \/ /\ ~Bounded /\ github' = [github EXCEPT !.now = @ + 1]
                /\ proc' = [proc EXCEPT !.pc = "read_shared",
                     !.post = [Self!Post(Self!NoHead, "dispatch") EXCEPT !.at = @ + 1]]
             \/ Self!Goto("dispatch") /\ UNCHANGED github
      BY <1>10, <1>16, <2>1, <2>2, <2>3 DEF Self!Preflight
    <2>8. ~Self!Exhausted(f)
      BY <1>11, <1>16, <2>6 DEF Self!Exhausted
    <2>9. ASSUME NEW p \in SelfProcess, NEW g \in SelfSource, proc' = p, github' = g, SelfAt(p) = "dispatch",
            p.pc # "idle",
                 p.pc \in SelfSharing => p.post.next = "dispatch" /\ p.post.attempts < MaxAttempts,
                   p.sweep = proc.sweep,
                 p.pc \in SelfSharing \cup {"dispatch"}, SelfPosted(p, hosted, g)
          PROVE  SelfInv'
      <3>1. SelfPlaced(p, f)
        BY <2>5, <2>6, <2>9 DEF SelfPlaced, SelfSharing
      <3>2. SelfPaid(p, f)
        BY <1>2, <1>12, <2>6, <2>8, <2>9 DEF SelfPaid
      <3>3. SelfAsked(p, f, hosted)
        BY <1>6, <1>13, <2>1, <2>4, <2>5, <2>6, <2>9 DEF SelfAsked, SelfFresh, Self!Done, SelfOpen, SelfJudged
      <3>4. SelfClean(p, f, hosted, local)
        BY <2>5, <2>6, <2>9, SelfReading DEF SelfClean, SelfJudged
      <3> QED
        BY <2>6, <2>7, <2>9, <3>1, <3>2, <3>3, <3>4, SelfThen, SelfReading DEF SelfGood
    <2>10. CASE ~Bounded /\ github' = [github EXCEPT !.now = @ + 1]
                /\ proc' = [proc EXCEPT !.pc = "read_shared",
                     !.post = [Self!Post(Self!NoHead, "dispatch") EXCEPT !.at = @ + 1]]
      <3>1. PICK now, g : now = github.now + 1 /\ g = [github EXCEPT !.now = now]
        OBVIOUS
      <3>2. github.now \in Nat /\ Self!NoShared \in SelfShared /\ Self!NoShared.clean = Self!NoHead /\
              Self!NoShared.at = 0 /\ MaxAttempts \in Nat \ {0}
        BY SelfConstants, SelfReading DEF SelfSource
      <3>3. g \in SelfSource /\ g.now = now /\ g.shared = github.shared /\ github' = g
        BY <2>10, <3>1, <3>2, SelfReading DEF SelfSource
      <3>4. PICK post, p : /\ post = [clean |-> Self!NoHead, at |-> now, seen |-> Self!NoShared, attempts |-> 0,
                                next |-> "dispatch"]
                           /\ p = [proc EXCEPT !.pc = "read_shared", !.post = post]
        OBVIOUS
      <3>5. post = [Self!Post(Self!NoHead, "dispatch") EXCEPT !.at = @ + 1]
        BY <3>1, <3>4 DEF Self!Post
      <3>6. post \in SelfPost /\ post.clean = Self!NoHead /\ post.at = now /\ post.seen = Self!NoShared /\
              post.attempts = 0 /\ post.next = "dispatch"
        BY <3>1, <3>2, <3>4, <1>9 DEF SelfPost
      <3>7. p \in SelfProcess /\ p.pc = "read_shared" /\ p.post = post /\ p.sweep = proc.sweep /\ proc' = p
        BY <2>10, <3>4, <3>5, <3>6, SelfReading DEF SelfProcess, Self!Pcs
      <3>8. SelfAt(p) = "dispatch"
        BY <3>6, <3>7 DEF SelfAt, SelfSharing
      <3>9. SelfPosted(p, hosted, g)
        BY <3>1, <3>2, <3>3, <3>6, <3>7, SelfReading DEF SelfPosted, SelfSource, SelfShared
      <3> QED
        BY <2>9, <3>2, <3>3, <3>6, <3>7, <3>8, <3>9 DEF SelfSharing
    <2>11. CASE Self!Goto("dispatch") /\ UNCHANGED github
      <3>1. PICK p : p = [proc EXCEPT !.pc = "dispatch"]
        OBVIOUS
      <3>2. p \in SelfProcess /\ p.pc = "dispatch" /\ p.post = proc.post /\ p.sweep = proc.sweep /\
              SelfAt(p) = "dispatch" /\ proc' = p
        BY <2>11, <3>1, SelfGoto DEF Self!Pcs, SelfSharing, Self!Goto
      <3>3. SelfPosted(p, hosted, github)
        BY <3>2, SelfReading DEF SelfPosted
      <3> QED
        BY <2>9, <2>11, <3>2, <3>3, SelfReading DEF SelfSharing
    <2> QED
      BY <2>7, <2>10, <2>11
  <1> QED
    BY <1>14, <1>15, <1>16

LEMMA SelfDispatch ==
  ASSUME Self!SelfReviewAssumption, SelfInv, Self!Dispatch
  PROVE  SelfInv'
  <1>1. PICK p, task : p = [proc EXCEPT !.pc = "send"] /\ task = [state.task EXCEPT !.status = "running"]
    OBVIOUS
  <1>2. PICK s : s = [state EXCEPT !.task = task]
    OBVIOUS
  <1>3. proc.pc = "dispatch" /\ SelfAt(proc) = "dispatch" /\ state.task.status = "preparing" /\ state.task \in SelfTask
    BY SelfReading DEF Self!Dispatch, SelfAt, SelfSharing, SelfPlaced
  <1>4. p \in SelfProcess /\ p.pc = "send" /\ SelfAt(p) = "send" /\ p.post = proc.post /\ p.sweep = proc.sweep
    BY <1>1, SelfGoto DEF Self!Pcs, SelfSharing
  <1>5. task \in SelfTask /\ task.status = "running" /\ task.run = state.task.run /\ task.snapshot = state.task.snapshot
    BY <1>1, <1>3 DEF SelfTask, Self!TaskStates
  <1>6. /\ s \in SelfFile /\ s.task = task /\ s.exists = state.exists /\ s.scope = state.scope /\ s.base = state.base
        /\ s.iterations = state.iterations /\ s.clean = state.clean
    BY <1>2, <1>5, SelfSave
  <1>7. proc' = p /\ state' = s /\ UNCHANGED <<github, local, hosted, budget>>
    BY <1>1, <1>2, SelfReading DEF Self!Dispatch, Self!Save, Self!Goto, SelfFile
  <1>8. SelfPlaced(p, s)
    BY <1>3, <1>4, <1>5, <1>6, SelfReading DEF SelfPlaced, SelfSharing
  <1>9. SelfAsked(p, s, hosted)
    BY <1>3, <1>4, <1>5, <1>6, SelfReading DEF SelfAsked, SelfFresh, Self!Done, SelfOpen, SelfJudged
  <1>10. SelfClean(p, s, hosted, local)
    BY <1>4, <1>5, <1>6, SelfReading DEF SelfClean, SelfJudged
  <1> QED
    BY <1>3, <1>4, <1>5, <1>6, <1>7, <1>8, <1>9, <1>10, SelfMoves DEF SelfOpen

LEMMA SelfSend ==
  ASSUME Self!SelfReviewAssumption, SelfInv, Self!Send
  PROVE  SelfInv'
  <1>1. PICK asked, h : asked = hosted.asked + 1 /\
          h = [hosted EXCEPT !.status = "running", !.snapshot = state.task.snapshot, !.asked = asked]
    OBVIOUS
  <1>2. proc.pc = "send" /\ SelfAt(proc) = "send" /\ state.task.status = "running"
    BY SelfReading DEF Self!Send, SelfAt, SelfSharing, SelfPlaced
  <1>3. hosted.asked \in Nat /\ asked \in Nat /\ hosted.asked = state.iterations /\ state.task.run = asked
    BY <1>1, <1>2, SelfReading DEF SelfAsked, SelfHosted, SelfOpen
  <1>4. h \in SelfHosted /\ h.status = "running" /\ h.snapshot = state.task.snapshot /\ h.asked = asked /\
          h.clean = hosted.clean
    BY <1>1, <1>3, SelfReading DEF SelfHosted
  <1>5. hosted' = h /\ UNCHANGED <<github, local, state, budget>>
    BY <1>1, SelfReading DEF Self!Send, SelfHosted
  <1>6. PICK p : p = IF Bounded THEN Self!Resting("waiting") ELSE [proc EXCEPT !.pc = "observe"]
    OBVIOUS
  <1>7. /\ p \in SelfProcess /\ proc' = p /\ p.post \in {proc.post, Self!NoPost} /\ (p.pc # "idle" =>
             p.sweep = proc.sweep)
        /\ SelfAt(p) = p.pc /\ p.pc = IF Bounded THEN "idle" ELSE "observe"
    <2>1. CASE Bounded
      BY <2>1, <1>6, SelfRest DEF Self!Send, Self!Exit, SelfAt, SelfSharing
    <2>2. CASE ~Bounded
      BY <2>2, <1>6, SelfGoto DEF Self!Send, Self!Goto, Self!Pcs, SelfSharing
    <2> QED
      BY <2>1, <2>2
  <1>8. SelfPlaced(p, state)
    BY <1>2, <1>7, SelfReading DEF SelfPlaced, SelfSharing
  <1>9. SelfPaid(p, state)
    BY <1>2, <1>7, SelfReading DEF SelfPaid
  <1>10. state.iterations \in Nat
    BY SelfReading DEF SelfFile
  <1>11. SelfAsked(p, state, h)
    BY <1>1, <1>2, <1>3, <1>4, <1>7, <1>10 DEF SelfAsked, SelfFresh, Self!Done, SelfOpen, SelfJudged
  <1>12. SelfClean(p, state, h, local)
    BY <1>2, <1>4, <1>7, SelfReading DEF SelfClean, SelfJudged
  <1>13. SelfPosted(p, h, github)
    BY <1>4, <1>7, SelfConstants, SelfReading DEF SelfPosted, SelfSource
  <1> QED
    BY <1>4, <1>5, <1>7, <1>8, <1>9, <1>11, <1>12, <1>13, SelfThen, SelfReading DEF SelfGood

LEMMA SelfObserve ==
  ASSUME Self!SelfReviewAssumption, SelfInv, Self!Observe
  PROVE  SelfInv'
  <1>1. proc.pc = "observe" /\ SelfAt(proc) = "observe" /\ state.task.status = "running" /\ state.task \in SelfTask
    BY SelfReading DEF Self!Observe, SelfAt, SelfSharing, SelfPlaced
  <1>2. hosted.status \in {"none", "running", "success", "failure"}
    BY SelfReading DEF SelfHosted
  <1>3. CASE hosted.status = "running"
    BY <1>3, SelfLeaves DEF Self!Observe, Self!Save
  <1>4. CASE hosted.status = "success" /\ Bounded
    <2>1. PICK p, task : p = Self!Resting("waiting") /\ task = [state.task EXCEPT !.status = "result_ready"]
      OBVIOUS
    <2>2. PICK s : s = [state EXCEPT !.task = task]
      OBVIOUS
    <2>3. p \in SelfProcess /\ p.pc = "idle" /\ p.post = Self!NoPost /\ SelfAt(p) = "idle"
      BY <2>1, SelfRest DEF SelfAt, SelfSharing
    <2>4. task \in SelfTask /\ task.status = "result_ready" /\ task.run = state.task.run /\
            task.snapshot = state.task.snapshot
      BY <1>1, <2>1 DEF SelfTask, Self!TaskStates
    <2>5. /\ s \in SelfFile /\ s.task = task /\ s.exists = state.exists /\ s.scope = state.scope /\ s.base = state.base
          /\ s.iterations = state.iterations /\ s.clean = state.clean
      BY <2>2, <2>4, SelfSave
    <2>6. proc' = p /\ state' = s /\ UNCHANGED <<github, local, hosted, budget>>
      BY <1>4, <2>1, <2>2, SelfReading DEF Self!Observe, Self!Save, Self!Exit, SelfFile
    <2>7. SelfPlaced(p, s)
      BY <1>1, <2>3, <2>4, <2>5, SelfReading DEF SelfPlaced, SelfSharing
    <2>8. SelfAsked(p, s, hosted)
      BY <1>1, <1>4, <2>3, <2>4, <2>5, SelfReading DEF SelfAsked, SelfFresh, Self!Done, SelfOpen, SelfJudged
    <2>9. SelfClean(p, s, hosted, local)
      BY <2>3, <2>4, <2>5, SelfReading DEF SelfClean, SelfJudged
    <2> QED
      BY <1>1, <2>3, <2>4, <2>5, <2>6, <2>7, <2>8, <2>9, SelfMoves DEF SelfOpen
  <1>5. CASE hosted.status = "success" /\ ~Bounded
    <2>1. PICK p : p = [proc EXCEPT !.pc = "accept"]
      OBVIOUS
    <2>2. p \in SelfProcess /\ p.pc = "accept" /\ SelfAt(p) = "accept"
      BY <2>1, SelfGoto DEF Self!Pcs, SelfSharing
    <2>3. SelfPlaced(p, state)
      BY <1>1, <2>2, SelfReading DEF SelfPlaced, SelfSharing, Self!Resumable
    <2>4. SelfAsked(p, state, hosted)
      BY <1>1, <1>5, <2>2, SelfReading DEF SelfAsked, Self!Pcs
    <2>5. SelfClean(p, state, hosted, local)
      BY <2>2, SelfReading DEF SelfClean
    <2> QED
      BY <1>1, <1>5, <2>1, <2>2, <2>3, <2>4, <2>5, SelfGoes DEF Self!Observe, Self!Save, Self!Pcs, SelfSharing
  <1>6. CASE hosted.status \in {"none", "failure"}
    BY <1>1, <1>6, SelfRaises DEF Self!Observe
  <1> QED
    BY <1>2, <1>3, <1>4, <1>5, <1>6

\* From the acceptance on the task was asked for, and its result is there.
LEMMA SelfJudging ==
  ASSUME SelfInv, proc.pc \in {"accept", "import", "record", "push", "send_push", "pushed", "confirm", "live",
         "finalize", "complete"}
  PROVE  /\ SelfAt(proc) = proc.pc /\ hosted.asked = state.task.run /\ hosted.snapshot = state.task.snapshot
         /\ hosted.status = "success" /\ state.task.status \in SelfOpen /\ state.task.run = state.iterations + 1
         /\ proc.pc # "accept" => state.task.status \in SelfJudged
  <1>1. SelfAt(proc) = proc.pc
    BY DEF SelfAt, SelfSharing
  <1>2. state.task.status \in SelfOpen /\ (proc.pc # "accept" => state.task.status \in SelfJudged)
    BY <1>1, SelfReading DEF SelfPlaced, SelfOpen, SelfJudged, Self!Resumable
  <1> QED
    BY <1>1, <1>2, SelfReading DEF SelfAsked, Self!Pcs

\* A step from there that puts the state of the task on record.
LEMMA SelfSaves ==
  ASSUME Self!SelfReviewAssumption, SelfInv,
         proc.pc \in {"accept", "import", "record", "push", "send_push", "pushed", "confirm", "live", "finalize",
           "complete"},
         NEW p \in SelfProcess, p.pc \in {"idle", "import", "push", "confirm", "live", "finalize"},
         p.post \in {proc.post, Self!NoPost}, p.pc # "idle" => p.sweep = proc.sweep,
         NEW task \in SelfTask, task.run = state.task.run, task.snapshot = state.task.snapshot,
           task.status \in SelfJudged,
         p.pc = "import" => task.status = "validated",
         p.pc = "push" => task.status = "imported",
         p.pc \in {"confirm", "live"} => task.status \in {"imported", "published_pending"},
         p.pc = "finalize" => task.status = "published",
         task.outcome = "cleared" => ~task.commits /\ task.snapshot.head \in hosted.clean,
         task.status = "published_pending" \/ p.pc = "confirm" => task.commits,
         p.pc \in {"push", "live", "finalize"} /\ task.outcome = "cleared" => local = task.snapshot.head,
         proc' = p, state' = [state EXCEPT !.task = task], UNCHANGED <<github, local, hosted, budget>>
  PROVE  SelfInv'
  <1>1. PICK s : s = [state EXCEPT !.task = task]
    OBVIOUS
  <1>2. /\ s \in SelfFile /\ s.task = task /\ s.exists = state.exists /\ s.scope = state.scope /\ s.base = state.base
        /\ s.iterations = state.iterations /\ s.clean = state.clean
    BY <1>1, SelfSave
  <1>3. SelfAt(p) = p.pc
    BY DEF SelfAt, SelfSharing
  <1>4. state.exists
    BY SelfJudging, SelfReading DEF SelfPlaced, SelfOpen, SelfJudged
  <1>5. SelfPlaced(p, s)
    BY <1>2, <1>3, <1>4 DEF SelfPlaced, SelfSharing
  <1>6. SelfAsked(p, s, hosted)
    BY <1>2, <1>3, SelfJudging, SelfReading DEF SelfAsked, SelfFresh, Self!Done, SelfOpen, SelfJudged
  <1>7. SelfClean(p, s, hosted, local)
    BY <1>2, <1>3, SelfReading DEF SelfClean
  <1> QED
    <2>1. state.task.status # "none" /\ proc.pc # "idle"
      BY SelfJudging DEF SelfOpen, SelfJudged
    <2>2. state' = s /\ s.task.status \in SelfOpen
      BY <1>1, <1>2 DEF SelfOpen
    <2> QED
      BY <1>2, <1>5, <1>6, <1>7, <2>1, <2>2, SelfMoves, SelfJudging

\* A clean outcome is of a head that was reviewed and left as it was.
LEMMA SelfCleared ==
  ASSUME SelfInv, proc.pc = "accept"
  PROVE  Self!Outcome = "cleared" => ~hosted.commits /\ state.task.snapshot.head \in hosted.clean
  BY SelfJudging, SelfReading DEF Self!Outcome, SelfClean

LEMMA SelfAccept ==
  ASSUME Self!SelfReviewAssumption, SelfInv, Self!Accept
  PROVE  SelfInv'
  <1>1. proc.pc = "accept" /\ state.task \in SelfTask /\ state.task.status \in Self!Resumable
    BY SelfReading, SelfJudging DEF Self!Accept, SelfPlaced
  <1>2. /\ Self!Outcome = "none" => Self!Raise
        /\ Self!Outcome # "none" /\ state.task.status = "published_pending" =>
             \/ state.task.published /\ Self!Save(state) /\ Self!Goto("finalize")
             \/ Self!Save(state) /\ Self!Goto("confirm")
             \/ Self!Raise
        /\ Self!Outcome # "none" /\ state.task.status # "published_pending" =>
             \/ Self!Save(Self!Superseded(state)) /\ Self!Exit("source_changed")
             \/ Self!Raise
             \/ /\ Self!Save([state EXCEPT !.task.status = "validated", !.task.commits = hosted.commits,
                     !.task.outcome = Self!Outcome])
                /\ Self!Goto("import")
    BY DEF Self!Accept
  <1>3. CASE Self!Raise
    BY <1>1, <1>3, SelfRaises
  <1>4. CASE Self!Outcome # "none" /\ state.task.status = "published_pending" /\ Self!Save(state) /\
          Self!Goto("finalize")
    <2>1. PICK p : p = [proc EXCEPT !.pc = "finalize"]
      OBVIOUS
    <2>2. p \in SelfProcess /\ p.pc = "finalize" /\ SelfAt(p) = "finalize"
      BY <2>1, SelfGoto DEF Self!Pcs, SelfSharing
    <2>3. SelfPlaced(p, state)
      BY <1>1, <1>4, <2>2, SelfReading DEF SelfPlaced, SelfSharing
    <2>4. SelfAsked(p, state, hosted)
      BY <1>1, <1>4, <2>2, SelfJudging, SelfReading DEF SelfAsked, SelfFresh, Self!Done
    <2>5. state.task.outcome = "cleared" => FALSE
      BY <1>4, SelfReading DEF SelfClean, SelfJudged
    <2>6. SelfClean(p, state, hosted, local)
      BY <1>1, <1>4, <2>2, <2>5, SelfReading DEF SelfClean
    <2> QED
      BY <1>1, <1>4, <2>1, <2>2, <2>3, <2>4, <2>6, SelfGoes DEF Self!Save, Self!Pcs, SelfSharing
  <1>5. CASE Self!Outcome # "none" /\ state.task.status = "published_pending" /\ Self!Save(state) /\
          Self!Goto("confirm")
    <2>1. PICK p : p = [proc EXCEPT !.pc = "confirm"]
      OBVIOUS
    <2>2. p \in SelfProcess /\ p.pc = "confirm" /\ SelfAt(p) = "confirm"
      BY <2>1, SelfGoto DEF Self!Pcs, SelfSharing
    <2>3. SelfPlaced(p, state)
      BY <1>1, <1>5, <2>2, SelfReading DEF SelfPlaced, SelfSharing
    <2>4. SelfAsked(p, state, hosted)
      BY <1>1, <1>5, <2>2, SelfJudging, SelfReading DEF SelfAsked, SelfFresh, Self!Done
    <2>5. SelfClean(p, state, hosted, local)
      BY <1>1, <1>5, <2>2, SelfReading DEF SelfClean
    <2> QED
      BY <1>1, <1>5, <2>1, <2>2, <2>3, <2>4, <2>5, SelfGoes DEF Self!Save, Self!Pcs, SelfSharing
  <1>6. CASE Self!Save(Self!Superseded(state)) /\ Self!Exit("source_changed")
    <2>1. PICK spent, task, p : /\ spent = state.iterations + 1 /\ task = [state.task EXCEPT !.status = "superseded"]
                                /\ p = Self!Resting("source_changed")
      OBVIOUS
    <2>2. PICK s : s = [state EXCEPT !.iterations = spent, !.task = task, !.review = "source_changed"]
      OBVIOUS
    <2>3. state.iterations \in Nat /\ state.base \in Nat /\ spent \in Nat
      BY <2>1, SelfReading DEF SelfFile
    <2>4. task \in SelfTask /\ task.status = "superseded"
      BY <1>1, <2>1 DEF SelfTask, Self!TaskStates
    <2>5. /\ s \in SelfFile /\ s.task = task /\ s.exists = state.exists /\ s.scope = state.scope /\ s.base = state.base
          /\ s.iterations = spent /\ s.clean = state.clean
      BY <2>2, <2>3, <2>4, SelfReading DEF SelfFile
    <2>6. s = Self!Superseded(state)
      BY <2>1, <2>2, SelfReading DEF Self!Superseded, Self!Charged, SelfFile
    <2>7. p \in SelfProcess /\ p.pc = "idle" /\ p.post = Self!NoPost /\ SelfAt(p) = "idle"
      BY <2>1, SelfRest DEF SelfAt, SelfSharing
    <2>8. proc' = p /\ state' = s /\ UNCHANGED <<github, local, hosted, budget>>
      BY <1>6, <2>1, <2>6 DEF Self!Save, Self!Exit
    <2>9. SelfPlaced(p, s)
      BY <1>1, <2>4, <2>5, <2>7, SelfReading DEF SelfPlaced, SelfSharing, Self!Resumable
    <2>10. ~Self!Exhausted(state)
      BY <1>1, SelfJudging, SelfReading DEF SelfPaid
    <2>11. SelfPaid(p, s)
      <3>1. state.base <= state.iterations /\ state.iterations - state.base < MaxIterations
        BY <2>3, <2>10, SelfConstants, SelfReading DEF Self!Exhausted, SelfPaid
      <3>2. spent <= MaxIterations * MaxSweeps
        <4>1. CASE Bounded
          BY <4>1, <2>1, <2>3, <2>10, SelfConstants DEF Self!Exhausted
        <4>2. CASE ~Bounded
          BY <4>2, <2>1, <2>3, <3>1, SelfConstants, SelfReading DEF SelfPaid
        <4> QED
          BY <4>1, <4>2
      <3>3. ~Bounded => state.base = 0 /\ state.scope # 0
        BY <1>1, SelfReading DEF SelfPaid, Self!Resumable
      <3> QED
        BY <2>1, <2>3, <2>4, <2>5, <2>7, <3>1, <3>2, <3>3, SelfConstants DEF SelfPaid, SelfOpen, SelfJudged
    <2>12. SelfAsked(p, s, hosted)
      BY <1>1, <2>1, <2>4, <2>5, <2>7, SelfJudging, SelfReading DEF SelfAsked, SelfFresh, Self!Done, SelfOpen,
        SelfJudged
    <2>13. SelfClean(p, s, hosted, local)
      BY <2>4, <2>5, <2>7, SelfReading DEF SelfClean, SelfJudged
    <2>14. SelfPosted(p, hosted, github)
      BY <2>7, SelfConstants, SelfReading DEF SelfPosted, SelfSource
    <2> QED
      BY <2>5, <2>7, <2>8, <2>9, <2>11, <2>12, <2>13, <2>14, SelfThen, SelfReading DEF SelfGood
  <1>7. CASE /\ Self!Save([state EXCEPT !.task.status = "validated", !.task.commits = hosted.commits,
                  !.task.outcome = Self!Outcome])
             /\ Self!Goto("import")
    <2>1. PICK p, outcome : p = [proc EXCEPT !.pc = "import"] /\ outcome = Self!Outcome
      OBVIOUS
    <2>2. outcome \in Self!Outcomes
      BY <2>1 DEF Self!Outcome, Self!Outcomes
    <2>3. PICK task : task = [state.task EXCEPT !.status = "validated", !.commits = hosted.commits, !.outcome = outcome]
      OBVIOUS
    <2>4. hosted.commits \in BOOLEAN
      BY SelfReading DEF SelfHosted
    <2>5. /\ task \in SelfTask /\ task.status = "validated" /\ task.run = state.task.run
          /\ task.snapshot = state.task.snapshot
          /\ task.commits = hosted.commits /\ task.outcome = outcome
      BY <1>1, <2>2, <2>3, <2>4 DEF SelfTask, Self!TaskStates
    <2>6. p \in SelfProcess /\ p.pc = "import" /\ p.post = proc.post /\ p.sweep = proc.sweep
      BY <2>1, SelfGoto DEF Self!Pcs, SelfSharing
    <2>7. proc' = p /\ state' = [state EXCEPT !.task = task] /\ UNCHANGED <<github, local, hosted, budget>>
      BY <1>7, <2>1, <2>3, SelfReading DEF Self!Save, Self!Goto, SelfFile
    <2>8. task.outcome = "cleared" => ~task.commits /\ task.snapshot.head \in hosted.clean
      BY <1>1, <2>1, <2>5, SelfCleared
    <2> QED
      BY <1>1, <2>5, <2>6, <2>7, <2>8, SelfSaves DEF SelfJudged
  <1> QED
    BY <1>2, <1>3, <1>4, <1>5, <1>6, <1>7

LEMMA SelfFinal ==
  ASSUME SelfInv
  PROVE  Self!Final \in Self!Heads /\ Self!Source \in Self!Heads /\ (~state.task.commits => Self!Final = Self!Source)
  <1>1. \A h \in Self!Heads : Append(h, 0) \in Self!Heads
    BY DEF Self!Heads
  <1> QED
    BY <1>1, SelfReading DEF Self!Final

LEMMA SelfImport ==
  ASSUME Self!SelfReviewAssumption, SelfInv, Self!Import
  PROVE  SelfInv'
  <1>1. proc.pc = "import" /\ state.task.status = "validated"
    BY SelfReading, SelfJudging DEF Self!Import, SelfPlaced
  <1>2. CASE Self!Raise
    BY <1>1, <1>2, SelfRaises
  <1>3. CASE ~Self!Raise
    <2>1. PICK p, l : p = [proc EXCEPT !.pc = "record"] /\ l = Self!Final
      OBVIOUS
    <2>2. p \in SelfProcess /\ p.pc = "record" /\ SelfAt(p) = "record" /\ p.post = proc.post /\ p.sweep = proc.sweep
      BY <2>1, SelfGoto DEF Self!Pcs, SelfSharing
    <2>3. proc' = p /\ local' = l /\ l \in Self!Heads /\ UNCHANGED <<github, hosted, state, budget>>
      BY <1>3, <2>1, SelfFinal DEF Self!Import, Self!Goto
    <2>4. state.task.outcome = "cleared" => l = state.task.snapshot.head
      BY <1>1, <2>1, SelfFinal, SelfReading DEF SelfClean, SelfJudged, Self!Source
    <2>5. SelfPlaced(p, state)
      BY <1>1, <2>2, SelfReading DEF SelfPlaced, SelfSharing
    <2>6. SelfPaid(p, state)
      BY <1>1, <2>2, SelfReading DEF SelfPaid
    <2>7. SelfAsked(p, state, hosted)
      BY <1>1, <2>2, SelfJudging, SelfReading DEF SelfAsked, SelfFresh, Self!Done
    <2>8. SelfClean(p, state, hosted, l)
      BY <1>1, <2>2, <2>4, SelfReading DEF SelfClean
    <2>9. SelfPosted(p, hosted, github)
      BY <2>2, SelfReading DEF SelfPosted
    <2> QED
      BY <2>2, <2>3, <2>5, <2>6, <2>7, <2>8, <2>9, SelfThen, SelfReading DEF SelfGood
  <1> QED
    BY <1>2, <1>3

\* What the record of the task keeps when only its state is put on record.
LEMMA SelfTasks ==
  ASSUME SelfInv, NEW status \in Self!TaskStates
  PROVE  /\ [state.task EXCEPT !.status = status] \in SelfTask
         /\ [state.task EXCEPT !.status = status].status = status
         /\ [state.task EXCEPT !.status = status].run = state.task.run
         /\ [state.task EXCEPT !.status = status].snapshot = state.task.snapshot
         /\ [state.task EXCEPT !.status = status].commits = state.task.commits
         /\ [state.task EXCEPT !.status = status].outcome = state.task.outcome
         /\ [state.task EXCEPT !.status = status].confirmed = state.task.confirmed
         /\ [state.task EXCEPT !.status = status].published = state.task.published
  BY SelfReading DEF SelfTask

\* Past the import a clean outcome is of the head that is here.
LEMMA SelfHere ==
  ASSUME SelfInv, proc.pc \in {"record", "push", "send_push", "pushed", "confirm", "live", "finalize", "complete"}
  PROVE  /\ state.task.outcome = "cleared" =>
              ~state.task.commits /\ state.task.snapshot.head \in hosted.clean /\ (proc.pc # "confirm" =>
                local = state.task.snapshot.head)
         /\ state.task.status = "published_pending" \/ proc.pc = "confirm" => state.task.commits
  BY SelfJudging, SelfReading DEF SelfClean

LEMMA SelfRecord ==
  ASSUME Self!SelfReviewAssumption, SelfInv, Self!Record
  PROVE  SelfInv'
  <1>1. PICK p, task : p = [proc EXCEPT !.pc = "push"] /\ task = [state.task EXCEPT !.status = "imported"]
    OBVIOUS
  <1>2. proc.pc = "record"
    BY DEF Self!Record
  <1>3. p \in SelfProcess /\ p.pc = "push" /\ p.post = proc.post /\ p.sweep = proc.sweep
    BY <1>1, SelfGoto DEF Self!Pcs, SelfSharing
  <1>4. /\ task \in SelfTask /\ task.status = "imported" /\ task.run = state.task.run
        /\ task.snapshot = state.task.snapshot
        /\ task.commits = state.task.commits /\ task.outcome = state.task.outcome
    BY <1>1, SelfTasks DEF Self!TaskStates
  <1>5. proc' = p /\ state' = [state EXCEPT !.task = task] /\ UNCHANGED <<github, local, hosted, budget>>
    BY <1>1, SelfReading DEF Self!Record, Self!Save, Self!Goto, SelfFile
  <1> QED
    BY <1>2, <1>3, <1>4, <1>5, SelfSaves, SelfHere DEF SelfJudged

LEMMA SelfPush ==
  ASSUME Self!SelfReviewAssumption, SelfInv, Self!Push
  PROVE  SelfInv'
  <1>1. proc.pc = "push" /\ state.task.status = "imported"
    BY SelfReading, SelfJudging DEF Self!Push, SelfPlaced
  <1>2. CASE Self!Raise
    BY <1>1, <1>2, SelfRaises
  <1>3. CASE ~Self!Raise
    <2>1. PICK pc \in {"send_push", "pushed"} : Self!Goto(pc)
      BY <1>3 DEF Self!Push
    <2>2. PICK p : p = [proc EXCEPT !.pc = pc]
      OBVIOUS
    <2>3. p \in SelfProcess /\ p.pc = pc /\ SelfAt(p) = pc
      BY <2>2, SelfGoto DEF Self!Pcs, SelfSharing
    <2>4. UNCHANGED <<github, local, hosted, state, budget>>
      BY <1>3 DEF Self!Push, Self!Save
    <2>5. SelfPlaced(p, state)
      BY <1>1, <2>3, SelfReading DEF SelfPlaced, SelfSharing
    <2>6. SelfAsked(p, state, hosted)
      BY <1>1, <2>3, SelfJudging, SelfReading DEF SelfAsked, SelfFresh, Self!Done
    <2>7. SelfClean(p, state, hosted, local)
      BY <1>1, <2>3, SelfHere, SelfReading DEF SelfClean
    <2> QED
      BY <1>1, <2>1, <2>2, <2>3, <2>4, <2>5, <2>6, <2>7, SelfGoes DEF Self!Pcs, SelfSharing
  <1> QED
    BY <1>2, <1>3

LEMMA SelfSendPush ==
  ASSUME Self!SelfReviewAssumption, SelfInv, Self!SendPush
  PROVE  SelfInv'
  <1>1. proc.pc = "send_push" /\ state.task.status = "imported"
    BY SelfReading, SelfJudging DEF Self!SendPush, SelfPlaced
  <1>2. CASE Self!Raise
    BY <1>1, <1>2, SelfRaises
  <1>3. CASE ~Self!Raise
    <2>1. PICK p, head : p = [proc EXCEPT !.pc = "pushed"] /\ head = Self!Final
      OBVIOUS
    <2>2. PICK g : g = [github EXCEPT !.head = head]
      OBVIOUS
    <2>3. p \in SelfProcess /\ p.pc = "pushed" /\ SelfAt(p) = "pushed" /\ p.post = proc.post /\ p.sweep = proc.sweep
      BY <2>1, SelfGoto DEF Self!Pcs, SelfSharing
    <2>4. head \in Self!Heads
      BY <2>1, SelfFinal
    <2>5. g \in SelfSource /\ g.shared = github.shared /\ g.now = github.now
      BY <2>2, <2>4, SelfReading DEF SelfSource
    <2>6. proc' = p /\ github' = g /\ UNCHANGED <<local, hosted, state, budget>>
      BY <1>3, <2>1, <2>2 DEF Self!SendPush, Self!Goto
    <2>7. SelfPlaced(p, state)
      BY <1>1, <2>3, SelfReading DEF SelfPlaced, SelfSharing
    <2>8. SelfPaid(p, state)
      BY <1>1, <2>3, SelfReading DEF SelfPaid
    <2>9. SelfAsked(p, state, hosted)
      BY <1>1, <2>3, SelfJudging, SelfReading DEF SelfAsked, SelfFresh, Self!Done
    <2>10. SelfClean(p, state, hosted, local)
      BY <1>1, <2>3, SelfHere, SelfReading DEF SelfClean
    <2>11. SelfPosted(p, hosted, g)
      BY <2>3, <2>5, SelfReading DEF SelfPosted
    <2> QED
      BY <2>3, <2>5, <2>6, <2>7, <2>8, <2>9, <2>10, <2>11, SelfThen, SelfReading DEF SelfGood
  <1> QED
    BY <1>2, <1>3

LEMMA SelfPushed ==
  ASSUME Self!SelfReviewAssumption, SelfInv, Self!Pushed
  PROVE  SelfInv'
  <1>1. PICK pc, status : /\ pc = (IF state.task.commits THEN "confirm" ELSE "live")
                          /\ status = IF Bounded /\ state.task.commits THEN "published_pending" ELSE "imported"
    OBVIOUS
  <1>2. PICK p, task : p = [proc EXCEPT !.pc = pc] /\ task = [state.task EXCEPT !.status = status]
    OBVIOUS
  <1>3. proc.pc = "pushed" /\ state.task.status = "imported" /\ state.task \in SelfTask
    BY SelfReading, SelfJudging DEF Self!Pushed, SelfPlaced
  <1>4. pc \in {"confirm", "live"} /\ status \in {"imported", "published_pending"}
    BY <1>1
  <1>5. p \in SelfProcess /\ p.pc = pc /\ p.post = proc.post /\ p.sweep = proc.sweep
    BY <1>2, <1>4, SelfGoto DEF Self!Pcs, SelfSharing
  <1>6. /\ task \in SelfTask /\ task.status = status /\ task.run = state.task.run /\ task.snapshot = state.task.snapshot
        /\ task.commits = state.task.commits /\ task.outcome = state.task.outcome
    BY <1>2, <1>4, SelfTasks DEF Self!TaskStates
  <1>7. state' = [state EXCEPT !.task = task]
    <2>1. CASE Bounded /\ state.task.commits
      BY <2>1, <1>1, <1>2, SelfReading DEF Self!Pushed, Self!Save, SelfFile
    <2>2. CASE ~(Bounded /\ state.task.commits)
      <3>1. task = state.task
        BY <2>2, <1>1, <1>2, <1>3 DEF SelfTask
      <3>2. state' = state
        BY <2>2 DEF Self!Pushed, Self!Save
      <3> QED
        BY <3>1, <3>2, SelfReading DEF SelfFile
    <2> QED
      BY <2>1, <2>2
  <1>8. proc' = p /\ UNCHANGED <<github, local, hosted, budget>>
    BY <1>1, <1>2 DEF Self!Pushed, Self!Save, Self!Goto
  <1> QED
    BY <1>1, <1>3, <1>4, <1>5, <1>6, <1>7, <1>8, SelfSaves, SelfHere DEF SelfJudged

LEMMA SelfConfirm ==
  ASSUME Self!SelfReviewAssumption, SelfInv, Self!Confirm
  PROVE  SelfInv'
  <1>1. proc.pc = "confirm" /\ state.task \in SelfTask
    BY SelfReading DEF Self!Confirm
  <1>2. CASE Self!Exit("waiting") /\ Self!Save(state)
    BY <1>2, SelfLeaves DEF Self!Save
  <1>3. CASE Self!Raise
    BY <1>1, <1>3, SelfRaises
  <1>4. CASE Self!Save([state EXCEPT !.task.status = "published_pending", !.task.confirmed = TRUE]) /\ Self!Goto("live")
    <2>1. PICK p, task : p = [proc EXCEPT !.pc = "live"] /\
            task = [state.task EXCEPT !.status = "published_pending", !.confirmed = TRUE]
      OBVIOUS
    <2>2. p \in SelfProcess /\ p.pc = "live" /\ p.post = proc.post /\ p.sweep = proc.sweep
      BY <2>1, SelfGoto DEF Self!Pcs, SelfSharing
    <2>3. /\ task \in SelfTask /\ task.status = "published_pending" /\ task.run = state.task.run
          /\ task.snapshot = state.task.snapshot /\ task.commits = state.task.commits
          /\ task.outcome = state.task.outcome
      BY <1>1, <2>1 DEF SelfTask, Self!TaskStates
    <2>4. proc' = p /\ state' = [state EXCEPT !.task = task] /\ UNCHANGED <<github, local, hosted, budget>>
      BY <1>4, <2>1, SelfReading DEF Self!Save, Self!Goto, SelfFile
    <2>5. task.commits /\ task.outcome # "cleared"
      BY <1>1, <2>3, SelfHere
    <2> QED
      BY <1>1, <2>2, <2>3, <2>4, <2>5, SelfSaves DEF SelfJudged
  <1> QED
    BY <1>2, <1>3, <1>4 DEF Self!Confirm

LEMMA SelfLive ==
  ASSUME Self!SelfReviewAssumption, SelfInv, Self!Live
  PROVE  SelfInv'
  <1>1. proc.pc = "live" /\ state.task \in SelfTask
    BY SelfReading DEF Self!Live
  <1>2. CASE Self!Raise
    BY <1>1, <1>2, SelfRaises
  <1>3. CASE Self!Save([state EXCEPT !.task.status = "published", !.task.published = TRUE]) /\ Self!Goto("finalize")
    <2>1. PICK p, task : p = [proc EXCEPT !.pc = "finalize"] /\
            task = [state.task EXCEPT !.status = "published", !.published = TRUE]
      OBVIOUS
    <2>2. p \in SelfProcess /\ p.pc = "finalize" /\ p.post = proc.post /\ p.sweep = proc.sweep
      BY <2>1, SelfGoto DEF Self!Pcs, SelfSharing
    <2>3. /\ task \in SelfTask /\ task.status = "published" /\ task.run = state.task.run
          /\ task.snapshot = state.task.snapshot /\ task.commits = state.task.commits
          /\ task.outcome = state.task.outcome
      BY <1>1, <2>1 DEF SelfTask, Self!TaskStates
    <2>4. proc' = p /\ state' = [state EXCEPT !.task = task] /\ UNCHANGED <<github, local, hosted, budget>>
      BY <1>3, <2>1, SelfReading DEF Self!Save, Self!Goto, SelfFile
    <2> QED
      BY <1>1, <2>2, <2>3, <2>4, SelfSaves, SelfHere DEF SelfJudged
  <1> QED
    BY <1>2, <1>3 DEF Self!Live

LEMMA SelfFinalize ==
  ASSUME Self!SelfReviewAssumption, SelfInv, Self!Finalize
  PROVE  SelfInv'
  <1>1. proc.pc = "finalize" /\ state.task.status \in {"published", "published_pending"}
    BY SelfReading, SelfJudging DEF Self!Finalize, SelfPlaced
  <1>2. CASE Self!Raise
    BY <1>1, <1>2, SelfRaises
  <1>3. CASE state.task.commits /\ Self!Exit("waiting") /\ Self!Save([state EXCEPT !.task.status = "published_pending"])
    <2>1. PICK p, task : p = Self!Resting("waiting") /\ task = [state.task EXCEPT !.status = "published_pending"]
      OBVIOUS
    <2>2. p \in SelfProcess /\ p.pc = "idle" /\ p.post = Self!NoPost
      BY <2>1, SelfRest
    <2>3. /\ task \in SelfTask /\ task.status = "published_pending" /\ task.run = state.task.run
          /\ task.snapshot = state.task.snapshot /\ task.commits = state.task.commits
          /\ task.outcome = state.task.outcome
      BY <2>1, SelfTasks DEF Self!TaskStates
    <2>4. proc' = p /\ state' = [state EXCEPT !.task = task] /\ UNCHANGED <<github, local, hosted, budget>>
      BY <1>3, <2>1, SelfReading DEF Self!Save, Self!Exit, SelfFile
    <2> QED
      BY <1>1, <1>3, <2>2, <2>3, <2>4, SelfSaves, SelfHere DEF SelfJudged
  <1>4. CASE Self!Save(state) /\ Self!Goto("complete")
    <2>1. PICK p : p = [proc EXCEPT !.pc = "complete"]
      OBVIOUS
    <2>2. p \in SelfProcess /\ p.pc = "complete" /\ SelfAt(p) = "complete"
      BY <2>1, SelfGoto DEF Self!Pcs, SelfSharing
    <2>3. SelfPlaced(p, state)
      BY <1>1, <2>2, SelfReading DEF SelfPlaced, SelfSharing
    <2>4. SelfAsked(p, state, hosted)
      BY <1>1, <2>2, SelfJudging, SelfReading DEF SelfAsked, SelfFresh, Self!Done
    <2>5. SelfClean(p, state, hosted, local)
      BY <1>1, <2>2, SelfHere, SelfReading DEF SelfClean
    <2> QED
      BY <1>1, <1>4, <2>1, <2>2, <2>3, <2>4, <2>5, SelfGoes DEF Self!Save, Self!Pcs, SelfSharing
  <1> QED
    BY <1>2, <1>3, <1>4 DEF Self!Finalize

\* The pass is over, and paid for.
LEMMA SelfCompleted ==
  ASSUME Self!SelfReviewAssumption, SelfInv, Self!Complete
  PROVE  \E s \in SelfFile :
           /\ state' = s /\ s = Self!Completed(state) /\ s.exists = state.exists /\ s.scope = state.scope
           /\ s.base = state.base
           /\ s.iterations = state.iterations + 1 /\ s.task.status = "completed"
           /\ s.review = "clean" => state.task.outcome = "cleared" /\ s.clean = Self!Source
           /\ s.review # "clean" => s.clean = Self!NoHead
  <1>1. proc.pc = "complete" /\ state.task \in SelfTask
    BY SelfReading DEF Self!Complete
  <1>2. PICK spent, charged : spent = state.iterations + 1 /\ charged = Self!Charged(state)
    OBVIOUS
  <1>3. spent \in Nat /\ charged = [state EXCEPT !.iterations = spent]
    BY <1>2, SelfReading DEF Self!Charged, SelfFile
  <1>4. /\ charged \in SelfFile /\ charged.exists = state.exists /\ charged.scope = state.scope
        /\ charged.base = state.base
        /\ charged.iterations = spent /\ charged.task = state.task
    BY <1>3, SelfReading DEF SelfFile
  <1>5. PICK outcome : outcome = IF state.task.outcome = "continue" /\
          Self!Exhausted(charged) THEN "max_iterations_reached"
                                 ELSE state.task.outcome
    OBVIOUS
  <1>6. PICK review, clean : /\ review = (CASE outcome = "cleared" -> "clean" [] outcome =
                                  "continue" -> "continue" [] OTHER -> "exhausted")
                             /\ clean = (IF outcome = "cleared" THEN Self!Final ELSE Self!NoHead)
    OBVIOUS
  <1>7. outcome \in Self!Outcomes /\ (outcome = "cleared" <=> state.task.outcome = "cleared")
    BY <1>1, <1>5 DEF SelfTask, Self!Outcomes
  <1>8. /\ review \in {"clean", "continue", "exhausted"} /\ (review = "clean" <=> outcome = "cleared")
    BY <1>6
  <1>9. clean \in Self!Heads /\ (outcome = "cleared" => clean = Self!Source) /\ (outcome # "cleared" =>
          clean = Self!NoHead)
    BY <1>1, <1>6, <1>7, SelfConstants, SelfFinal, SelfHere
  <1>10. PICK task, s : /\ task = [state.task EXCEPT !.status = "completed", !.outcome = outcome]
                        /\ s = [charged EXCEPT !.task = task, !.review = review, !.clean = clean]
    OBVIOUS
  <1>11. task \in SelfTask /\ task.status = "completed"
    BY <1>1, <1>7, <1>10 DEF SelfTask, Self!TaskStates
  <1>12. /\ s \in SelfFile /\ s.exists = state.exists /\ s.scope = state.scope /\ s.base = state.base
         /\ s.iterations = spent
         /\ s.task = task /\ s.review = review /\ s.clean = clean
    BY <1>4, <1>8, <1>9, <1>10, <1>11 DEF SelfFile
  <1>13. Self!Completed(state) = [charged EXCEPT !.task.status = "completed", !.task.outcome = outcome,
           !.review = review, !.clean = clean]
    BY <1>2, <1>5, <1>6 DEF Self!Completed
  <1>14. s = Self!Completed(state)
    BY <1>4, <1>10, <1>13 DEF SelfFile
  <1>15. state' = s
    BY <1>14 DEF Self!Complete
  <1> QED
    BY <1>2, <1>7, <1>8, <1>9, <1>11, <1>12, <1>14, <1>15

LEMMA SelfComplete ==
  ASSUME Self!SelfReviewAssumption, SelfInv, Self!Complete
  PROVE  SelfInv'
  <1>1. proc.pc = "complete" /\ proc.post \in SelfPost
    BY SelfReading DEF Self!Complete, SelfProcess
  <1>2. PICK s \in SelfFile :
           /\ state' = s /\ s.exists = state.exists /\ s.scope = state.scope /\ s.base = state.base
           /\ s.iterations = state.iterations + 1 /\ s.task.status = "completed"
           /\ s.review = "clean" => state.task.outcome = "cleared" /\ s.clean = Self!Source
           /\ s.review # "clean" => s.clean = Self!NoHead
    BY SelfCompleted
  <1>3. state.iterations \in Nat /\ state.base \in Nat /\ ~Self!Exhausted(state) /\ state.task.status # "none" /\
          state.exists
    BY <1>1, SelfJudging, SelfReading DEF SelfFile, SelfPaid, SelfOpen, SelfJudged, SelfPlaced
  <1>4. /\ s.base <= s.iterations /\ s.iterations - s.base <= MaxIterations /\ s.iterations <= MaxIterations * MaxSweeps
        /\ ~Bounded => s.base = 0 /\ s.scope # 0 /\ proc.sweep = 1
    <2>1. state.base <= state.iterations /\ state.iterations - state.base < MaxIterations
      BY <1>3, SelfConstants, SelfReading DEF Self!Exhausted, SelfPaid
    <2>2. ~Bounded => state.base = 0 /\ state.scope # 0 /\ proc.sweep = 1
      BY <1>1, <1>3, SelfReading DEF SelfPaid
    <2>3. state.iterations + 1 <= MaxIterations * MaxSweeps
      <3>1. CASE Bounded
        BY <3>1, <1>3, SelfConstants DEF Self!Exhausted
      <3>2. CASE ~Bounded
        BY <3>2, <1>3, <2>1, <2>2, SelfConstants
      <3> QED
        BY <3>1, <3>2
    <2> QED
      BY <1>2, <1>3, <2>1, <2>2, <2>3, SelfConstants
  <1>5. s.clean \in hosted.clean \cup {Self!NoHead} /\ (s.review = "clean" => s.clean = local)
    BY <1>1, <1>2, SelfHere DEF Self!Source
  <1>6. hosted.asked = s.iterations /\ hosted.status = "success"
    BY <1>1, <1>2, SelfJudging
  <1>7. UNCHANGED <<local, hosted, budget>>
    BY DEF Self!Complete
  <1>8. ASSUME NEW p \in SelfProcess, NEW g \in SelfSource, proc' = p, github' = g, SelfAt(p) = "end", p.pc # "idle",
               p.pc \in SelfSharing => p.post.next = "end" /\ p.post.attempts < MaxAttempts, p.sweep = proc.sweep,
               p.pc \in SelfSharing \cup {"end"}, SelfPosted(p, hosted, g)
        PROVE  SelfInv'
    <2>1. SelfPlaced(p, s)
      BY <1>2, <1>3, <1>8 DEF SelfPlaced, SelfSharing
    <2>2. SelfPaid(p, s)
      BY <1>2, <1>4, <1>8 DEF SelfPaid, SelfOpen, SelfJudged
    <2>3. SelfAsked(p, s, hosted)
      BY <1>2, <1>6, <1>8 DEF SelfAsked, SelfFresh, Self!Done, SelfOpen, SelfJudged
    <2>4. SelfClean(p, s, hosted, local)
      BY <1>2, <1>5, <1>8, SelfReading DEF SelfClean, SelfJudged
    <2> QED
      BY <1>2, <1>7, <1>8, <2>1, <2>2, <2>3, <2>4, SelfThen, SelfReading DEF SelfGood
  <1>9. CASE state.task.outcome = "cleared" /\ ~Bounded
    <2>1. PICK now, g, final : now = github.now + 1 /\ g = [github EXCEPT !.now = now] /\ final = Self!Final
      OBVIOUS
    <2>2. github.now \in Nat /\ Self!NoShared \in SelfShared /\ Self!NoShared.clean = Self!NoHead /\
            Self!NoShared.at = 0 /\ MaxAttempts \in Nat \ {0}
      BY SelfConstants, SelfReading DEF SelfSource
    <2>3. g \in SelfSource /\ g.now = now /\ g.shared = github.shared
      BY <2>1, <2>2, SelfReading DEF SelfSource
    <2>4. PICK post, p : /\ post = [clean |-> final, at |-> now, seen |-> Self!NoShared, attempts |-> 0, next |-> "end"]
                         /\ p = [proc EXCEPT !.pc = "read_shared", !.post = post]
      OBVIOUS
    <2>5. post = [Self!Post(Self!Final, "end") EXCEPT !.at = @ + 1]
      BY <2>1, <2>4 DEF Self!Post
    <2>6. final \in Self!Heads /\ final \in hosted.clean
      BY <1>1, <1>9, <2>1, SelfFinal, SelfHere DEF Self!Source
    <2>7. post \in SelfPost /\ post.clean = final /\ post.at = now /\ post.seen = Self!NoShared /\ post.attempts = 0 /\
            post.next = "end"
      BY <2>1, <2>2, <2>4, <2>6 DEF SelfPost
    <2>8. p \in SelfProcess /\ p.pc = "read_shared" /\ p.post = post /\ p.sweep = proc.sweep
      BY <2>4, <2>7, SelfReading DEF SelfProcess, Self!Pcs
    <2>9. proc' = p /\ github' = g
      BY <1>9, <2>1, <2>4, <2>5 DEF Self!Complete
    <2>10. SelfAt(p) = "end"
      BY <2>7, <2>8 DEF SelfAt, SelfSharing
    <2>11. SelfPosted(p, hosted, g)
      BY <2>1, <2>2, <2>3, <2>6, <2>7, <2>8, SelfReading DEF SelfPosted, SelfSource, SelfShared
    <2> QED
      BY <1>8, <2>2, <2>3, <2>7, <2>8, <2>9, <2>10, <2>11 DEF SelfSharing
  <1>10. CASE ~(state.task.outcome = "cleared" /\ ~Bounded)
    <2>1. PICK p : p = [proc EXCEPT !.pc = "end"]
      OBVIOUS
    <2>2. p \in SelfProcess /\ p.pc = "end" /\ p.post = proc.post /\ p.sweep = proc.sweep /\ SelfAt(p) = "end"
      BY <2>1, SelfGoto DEF Self!Pcs, SelfSharing
    <2>3. proc' = p /\ github' = github
      BY <1>10, <2>1 DEF Self!Complete, Self!Goto
    <2>4. SelfPosted(p, hosted, github)
      BY <2>2, SelfReading DEF SelfPosted
    <2> QED
      BY <1>8, <2>2, <2>3, <2>4, SelfReading DEF SelfSharing
  <1> QED
    BY <1>9, <1>10

LEMMA SelfFinish ==
  ASSUME Self!SelfReviewAssumption, SelfInv, Self!Finish
  PROVE  SelfInv'
  <1>1. proc.pc = "end" /\ SelfAt(proc) = "end" /\ UNCHANGED <<github, local, hosted, state, budget>>
    BY DEF Self!Finish, SelfAt, SelfSharing
  <1>2. (\E exit \in {"waiting", "cleared", "exhausted"} : Self!Exit(exit)) \/ Self!Goto("preflight")
    BY DEF Self!Finish
  <1>3. CASE \E exit \in {"waiting", "cleared", "exhausted"} : Self!Exit(exit)
    BY <1>1, <1>3, SelfLeaves
  <1>4. CASE Self!Goto("preflight")
    <2>1. PICK p : p = [proc EXCEPT !.pc = "preflight"]
      OBVIOUS
    <2>2. p \in SelfProcess /\ p.pc = "preflight" /\ SelfAt(p) = "preflight"
      BY <2>1, SelfGoto DEF Self!Pcs, SelfSharing
    <2>3. state.task.status = "completed"
      BY <1>1, SelfReading DEF SelfPlaced
    <2>4. SelfPlaced(p, state)
      BY <2>2, <2>3, SelfReading DEF SelfPlaced, SelfSharing, SelfFresh, Self!Done
    <2>5. SelfAsked(p, state, hosted)
      BY <1>1, <2>2, <2>3, SelfReading DEF SelfAsked
    <2>6. SelfClean(p, state, hosted, local)
      BY <2>2, SelfReading DEF SelfClean
    <2> QED
      BY <1>1, <1>4, <2>1, <2>2, <2>4, <2>5, <2>6, SelfGoes DEF Self!Pcs, SelfSharing
  <1> QED
    BY <1>2, <1>3, <1>4

LEMMA SelfHostedEnds ==
  ASSUME Self!SelfReviewAssumption, SelfInv, Self!HostedEnds
  PROVE  SelfInv'
  <1>1. PICK commits \in BOOLEAN, outcome \in {"none", "cleared", "incomplete"}, status \in {"success", "failure"} :
          hosted' = [hosted EXCEPT !.status = status, !.commits = commits, !.outcome = outcome,
                       !.clean = IF status = "success" /\ outcome = "cleared" /\
                         ~commits THEN @ \cup {hosted.snapshot.head} ELSE @]
    BY DEF Self!HostedEnds
  <1>2. hosted.status = "running" /\ UNCHANGED <<github, local, state, proc, budget>>
    BY DEF Self!HostedEnds
  <1>3. PICK clean : clean = IF status = "success" /\ outcome = "cleared" /\ ~commits
                             THEN hosted.clean \cup {hosted.snapshot.head} ELSE hosted.clean
    OBVIOUS
  <1>4. PICK h : h = [hosted EXCEPT !.status = status, !.commits = commits, !.outcome = outcome, !.clean = clean]
    OBVIOUS
  <1>5. hosted.snapshot.head \in Self!Heads /\ hosted.clean \subseteq Self!Heads
    BY SelfReading DEF SelfHosted, SelfSnapshot
  <1>6. clean \subseteq Self!Heads /\ hosted.clean \subseteq clean
    BY <1>3, <1>5
  <1>7. /\ h \in SelfHosted /\ h.status = status /\ h.commits = commits /\ h.outcome = outcome /\ h.clean = clean
        /\ h.snapshot = hosted.snapshot /\ h.asked = hosted.asked
    BY <1>1, <1>4, <1>6, SelfReading DEF SelfHosted, Self!Outcomes
  <1>8. hosted' = h
    BY <1>1, <1>3, <1>4, SelfReading DEF SelfHosted
  <1>9. SelfAsked(proc, state, h)
    BY <1>2, <1>7, SelfReading DEF SelfAsked
  <1>10. SelfClean(proc, state, h, local)
    BY <1>3, <1>6, <1>7, SelfReading DEF SelfClean
  <1>11. SelfPosted(proc, h, github)
    BY <1>6, <1>7, SelfReading DEF SelfPosted
  <1> QED
    BY <1>2, <1>7, <1>8, <1>9, <1>10, <1>11, SelfThen, SelfReading DEF SelfGood

LEMMA SelfAlign ==
  ASSUME Self!SelfReviewAssumption, SelfInv, Self!Align
  PROVE  SelfInv'
  <1>1. PICK l : l = github.head
    OBVIOUS
  <1>2. l \in Self!Heads /\ local' = l /\ proc.pc = "idle" /\ UNCHANGED <<github, hosted, state, proc, budget>>
    BY <1>1, SelfReading DEF Self!Align, SelfSource
  <1>3. SelfAt(proc) = "idle"
    BY <1>2 DEF SelfAt, SelfSharing
  <1>4. SelfClean(proc, state, hosted, l)
    BY <1>3, SelfReading DEF SelfClean
  <1> QED
    BY <1>2, <1>4, SelfThen, SelfReading DEF SelfGood

LEMMA SelfOthersMove ==
  ASSUME Self!SelfReviewAssumption, SelfInv, Self!OthersMove
  PROVE  SelfInv'
  <1>1. budget > 0 /\ budget' = budget - 1 /\ UNCHANGED <<local, hosted, state, proc>> /\ budget \in 0..MaxMoves
    BY SelfReading DEF Self!OthersMove
  <1>2. budget' \in 0..MaxMoves
    BY <1>1, SelfConstants
  <1>3. /\ github.head \in Self!Heads /\ github.text \in Nat /\ github.now \in Nat /\ github.shared \in SelfShared
        /\ Self!NoHead \in Self!Heads /\ github \in SelfSource /\ github.shared.at <= github.now
        /\ github.now <= github.now
    BY SelfConstants, SelfReading DEF SelfSource, SelfPosted
  <1>4. ASSUME NEW g \in SelfSource, github' = g, g.shared.clean \in {github.shared.clean, Self!NoHead},
          github.now <= g.now, g.shared.at <= g.now
        PROVE  SelfInv'
    <2>1. g.now \in Nat /\ g.shared.at \in Nat /\ proc.post.at \in Nat /\ proc.post.seen.at \in Nat
      BY SelfReading DEF SelfSource, SelfShared, SelfProcess, SelfPost
    <2>2. SelfPosted(proc, hosted, g)
      BY <1>3, <1>4, <2>1, SelfReading DEF SelfPosted
    <2> QED
      BY <1>1, <1>2, <1>4, <2>2, SelfThen, SelfReading DEF SelfGood
  <1>5. CASE \E head \in {Append(github.head, budget), <<1 + budget>>} : github' = [github EXCEPT !.head = head]
    <2>1. PICK head \in {Append(github.head, budget), <<1 + budget>>} : github' = [github EXCEPT !.head = head]
      BY <1>5
    <2>2. budget \in Nat /\ 1 + budget \in Nat
      BY <1>1, SelfConstants
    <2>3. head \in Self!Heads
      <3>1. \A h \in Self!Heads, n \in Nat : Append(h, n) \in Self!Heads /\ <<n>> \in Self!Heads
        BY DEF Self!Heads
      <3> QED
        BY <1>3, <2>1, <2>2, <3>1
    <2>4. PICK g : g = [github EXCEPT !.head = head]
      OBVIOUS
    <2>5. g \in SelfSource /\ g.shared = github.shared /\ g.now = github.now
      BY <1>3, <2>3, <2>4 DEF SelfSource
    <2> QED
      BY <1>3, <1>4, <2>1, <2>4, <2>5
  <1>6. CASE github' = [github EXCEPT !.text = @ + 1]
    <2>1. PICK text, g : text = github.text + 1 /\ g = [github EXCEPT !.text = text]
      OBVIOUS
    <2>2. text \in Nat
      BY <1>3, <2>1
    <2>3. g \in SelfSource /\ g.shared = github.shared /\ g.now = github.now
      BY <1>3, <2>1, <2>2 DEF SelfSource
    <2> QED
      BY <1>3, <1>4, <1>6, <2>1, <2>3
  <1>7. CASE github' = [github EXCEPT !.now = @ + 1, !.shared = [clean |-> Self!NoHead, at |-> github.now + 1]]
    <2>1. PICK now, shared : now = github.now + 1 /\ shared = [clean |-> Self!NoHead, at |-> now]
      OBVIOUS
    <2>2. PICK g : g = [github EXCEPT !.now = now, !.shared = shared]
      OBVIOUS
    <2>3. now \in Nat /\ github.now <= now
      BY <1>3, <2>1
    <2>4. shared \in SelfShared /\ shared.clean = Self!NoHead /\ shared.at = now
      BY <1>3, <2>1, <2>3 DEF SelfShared
    <2>5. g \in SelfSource /\ g.shared = shared /\ g.now = now
      BY <1>3, <2>2, <2>3, <2>4 DEF SelfSource
    <2>6. github' = g
      BY <1>7, <2>1, <2>2
    <2> QED
      BY <1>4, <2>3, <2>4, <2>5, <2>6
  <1> QED
    BY <1>5, <1>6, <1>7 DEF Self!OthersMove

LEMMA SelfNext ==
  ASSUME Self!SelfReviewAssumption, SelfInv, [Self!Next]_Self!vars
  PROVE  SelfInv'
  <1>1. CASE UNCHANGED Self!vars
    BY <1>1 DEF Self!vars, SelfInv, SelfTypes, SelfGood, SelfPlaced, SelfPaid, SelfAsked, SelfClean, SelfPosted
  <1>2. CASE Self!Rest
    BY <1>1, <1>2 DEF Self!Rest
  <1>3. CASE Self!Raised
    BY <1>3, SelfRaises DEF Self!Raised
  <1>4. CASE Self!Crash
    BY <1>4, SelfLeaves DEF Self!Crash
  <1> QED
    BY <1>1, <1>2, <1>3, <1>4, SelfLaunchAlone, SelfLaunchBounded, SelfReadShared, SelfWriteShared, SelfPreflight,
      SelfDispatch, SelfSend,
       SelfObserve, SelfAccept, SelfImport, SelfRecord, SelfPush, SelfSendPush, SelfPushed, SelfConfirm, SelfLive,
         SelfFinalize,
       SelfComplete, SelfFinish, SelfHostedEnds, SelfAlign, SelfOthersMove DEF Self!Next

LEMMA SelfInvariance ==
  ASSUME Self!SelfReviewAssumption
  PROVE  Self!Spec => []SelfInv
  <1>1. Self!Init => SelfInv
    BY SelfInit
  <1>2. SelfInv /\ [Self!Next]_Self!vars => SelfInv'
    BY SelfNext
  <1> QED
    BY <1>1, <1>2, PTL DEF Self!Spec

-----------------------------------------------------------------------------
(* The results *)

\* Types of the source, the checkout, the hosted task, the state file and the process.
THEOREM SelfTypesHold ==
  ASSUME Self!SelfReviewAssumption
  PROVE  Self!Spec => []Self!TypeOK
  <1>1. SelfInv => Self!TypeOK
    <2>1. SUFFICES ASSUME SelfInv PROVE Self!TypeOK
      OBVIOUS
    <2>2. /\ github.head \in Self!Heads /\ github.text \in Nat /\ github.shared \in [clean : Self!Heads, at : Nat] /\
               github.now \in Nat
          /\ local \in Self!Heads
      BY <2>1, SelfReading DEF SelfSource, SelfShared
    <2>3. /\ proc.pc \in Self!Pcs /\ proc.sweep \in 0..MaxSweeps /\ proc.post.attempts \in 0..MaxAttempts
          /\ proc.exit \in {"none", "error", "waiting", "cleared", "exhausted", "source_changed"}
      BY <2>1, SelfReading DEF SelfProcess, SelfPost
    <2>4. /\ hosted.status \in {"none", "running", "success", "failure"} /\ hosted.clean \subseteq Self!Heads
          /\ hosted.outcome \in Self!Outcomes
      BY <2>1, SelfReading DEF SelfHosted
    <2>5. /\ state.task.status \in Self!TaskStates /\ state.task.outcome \in Self!Outcomes /\ state.clean \in Self!Heads
          /\ state.iterations \in Nat /\ state.base \in Nat /\ state.scope \in 0..MaxSweeps
          /\ state.review \in {"none", "active", "clean", "continue", "exhausted", "budget_exhausted", "source_changed"}
      BY <2>1, SelfReading DEF SelfFile, SelfTask
    <2> QED
      BY <2>1, <2>2, <2>3, <2>4, <2>5, SelfReading DEF Self!TypeOK
  <1> QED
    BY <1>1, SelfInvariance, PTL

\* A head on record as clean, in the file or in the state repository, is one that
\* a hosted task reviewed and left as it was: of whom a run merges the entry, and
\* however often it tries again.
THEOREM SelfCleanIsReviewed ==
  ASSUME Self!SelfReviewAssumption
  PROVE  Self!Spec => []Self!CleanIsReviewed
  <1>1. SelfInv => Self!CleanIsReviewed
    BY SelfReading DEF Self!CleanIsReviewed, SelfClean, SelfPosted
  <1> QED
    BY <1>1, SelfInvariance, PTL

\* The iterations of a sweep and of the run are bounded, crashes and superseded
\* tasks included.
THEOREM SelfBudgetHolds ==
  ASSUME Self!SelfReviewAssumption
  PROVE  Self!Spec => []Self!BudgetHolds
  <1>1. SelfInv => Self!BudgetHolds
    BY SelfReading DEF Self!BudgetHolds, SelfPaid
  <1> QED
    BY <1>1, SelfInvariance, PTL

\* What becomes of the exit that is on record.
LEMMA SelfExits ==
  ASSUME SelfInv, Self!Next, proc'.exit = "cleared", proc.exit # "cleared"
  PROVE  Self!Finish /\ state.review = "clean"
  <1>1. proc \in SelfProcess /\ \A exit : Self!Resting(exit).exit = exit
    BY SelfReading DEF Self!Resting
  <1>2. /\ \A pc : Self!Goto(pc) => proc'.exit = proc.exit
        /\ \A exit : Self!Exit(exit) => proc'.exit = exit
        /\ Self!Raise => proc'.exit = "error"
        /\ \A pc : \A post : proc' = [proc EXCEPT !.pc = pc, !.post = post] => proc'.exit = proc.exit
    BY <1>1 DEF Self!Goto, Self!Exit, Self!Raise, SelfProcess
  <1>3. ~Self!LaunchAlone /\ ~Self!Rest
    BY <1>1 DEF Self!LaunchAlone, Self!Rest, Self!vars, Self!Resting
  <1>4. ~Self!LaunchBounded
    BY <1>1, <1>2 DEF Self!LaunchBounded, Self!Resting
  <1>5. ~Self!ReadShared
    BY <1>1 DEF Self!ReadShared, SelfProcess
  <1>6. ~Self!WriteShared
    BY <1>2 DEF Self!WriteShared
  <1>7. ~Self!Preflight
    <2>1. Self!Preflight => \/ Self!Raise \/ Self!Exit("exhausted") \/ Self!Goto("dispatch")
                       \/ \E post : proc' = [proc EXCEPT !.pc = "read_shared", !.post = post]
      BY DEF Self!Preflight
    <2> QED
      BY <1>2, <2>1
  <1>8. ~Self!Dispatch /\ ~Self!Send /\ ~Self!Observe
    BY <1>2 DEF Self!Dispatch, Self!Send, Self!Observe
  <1>9. ~Self!Accept
    BY <1>2 DEF Self!Accept
  <1>10. ~Self!Import /\ ~Self!Record /\ ~Self!Push /\ ~Self!SendPush
    BY <1>2 DEF Self!Import, Self!Record, Self!Push, Self!SendPush
  <1>11. ~Self!Pushed /\ ~Self!Confirm /\ ~Self!Live /\ ~Self!Finalize
    BY <1>2 DEF Self!Pushed, Self!Confirm, Self!Live, Self!Finalize
  <1>12. ~Self!Complete
    <2>1. Self!Complete => Self!Goto("end") \/ \E post : proc' = [proc EXCEPT !.pc = "read_shared", !.post = post]
      BY DEF Self!Complete
    <2> QED
      BY <1>2, <2>1
  <1>13. ~Self!Raised /\ ~Self!Crash /\ ~Self!HostedEnds /\ ~Self!Align /\ ~Self!OthersMove
    BY <1>2 DEF Self!Raised, Self!Crash, Self!HostedEnds, Self!Align, Self!OthersMove
  <1>14. Self!Finish
    BY <1>3, <1>4, <1>5, <1>6, <1>7, <1>8, <1>9, <1>10, <1>11, <1>12, <1>13 DEF Self!Next
  <1> QED
    BY <1>2, <1>14 DEF Self!Finish

\* A process that exits cleared leaves the head of the checkout on record.
THEOREM SelfClearedIsLocal ==
  ASSUME Self!SelfReviewAssumption
  PROVE  Self!Spec => [][Self!ClearedIsLocal]_Self!vars
  <1>1. SelfInv /\ [Self!Next]_Self!vars => [Self!ClearedIsLocal]_Self!vars
    <2>1. SUFFICES ASSUME SelfInv, Self!Next, proc'.exit = "cleared", proc.exit # "cleared"
                   PROVE  state.clean = local /\ state.task.status = "completed"
      BY DEF Self!ClearedIsLocal, Self!vars
    <2>2. Self!Finish /\ state.review = "clean"
      BY <2>1, SelfExits
    <2>3. SelfAt(proc) = "end"
      BY <2>2 DEF Self!Finish, SelfAt, SelfSharing
    <2> QED
      BY <2>1, <2>2, <2>3, SelfReading DEF SelfPlaced, SelfClean
  <1> QED
    BY <1>1, SelfInvariance, PTL DEF Self!Spec

\* The state repository never goes back to an older entry: a write is of the
\* newer of the two, and only over what was read.
THEOREM SelfSharedNeverOlder ==
  ASSUME Self!SelfReviewAssumption
  PROVE  Self!Spec => [][Self!SharedNeverOlder]_Self!vars
  <1>1. SelfInv /\ [Self!Next]_Self!vars => [Self!SharedNeverOlder]_Self!vars
    <2>1. SUFFICES ASSUME SelfInv, Self!Next
                   PROVE  github'.shared.at >= github.shared.at
      BY DEF Self!SharedNeverOlder
    <2>2. github \in SelfSource /\ github.shared.at \in Nat /\ github.now \in Nat /\ github.shared.at <= github.now
      BY <2>1, SelfReading DEF SelfSource, SelfShared, SelfPosted
    <2>3. CASE github'.shared = github.shared
      BY <2>2, <2>3
    <2>4. CASE Self!WriteShared
      <3>1. \/ UNCHANGED github
            \/ Self!Unwritten(proc.post) /\ github' = [github EXCEPT !.shared = Self!Merged(proc.post)]
        BY <2>4 DEF Self!WriteShared
      <3>2. CASE Self!Unwritten(proc.post) /\ github' = [github EXCEPT !.shared = Self!Merged(proc.post)]
        <4>1. github'.shared = Self!Merged(proc.post) /\ github.shared = proc.post.seen
          BY <3>2, <2>2 DEF Self!Unwritten, SelfSource
        <4> QED
          BY <2>1, <4>1, SelfMerged
      <3> QED
        BY <2>3, <3>1, <3>2
    <2>5. CASE Self!OthersMove
      <3>1. CASE github' = [github EXCEPT !.now = @ + 1, !.shared = [clean |-> Self!NoHead, at |-> github.now + 1]]
        <4>1. github'.shared.at = github.now + 1
          BY <2>2, <3>1 DEF SelfSource
        <4> QED
          BY <2>2, <4>1
      <3>2. CASE (\E head : github' = [github EXCEPT !.head = head]) \/ github' = [github EXCEPT !.text = @ + 1]
        BY <2>2, <2>3, <3>2 DEF SelfSource
      <3> QED
        BY <2>5, <3>1, <3>2 DEF Self!OthersMove
    <2>6. CASE Self!Preflight \/ Self!Complete \/ Self!SendPush
      <3>1. \/ UNCHANGED github
            \/ github' = [github EXCEPT !.now = @ + 1]
            \/ \E head : github' = [github EXCEPT !.head = head]
        BY <2>6 DEF Self!Preflight, Self!Complete, Self!SendPush, Self!Raise, Self!Save
      <3> QED
        BY <2>2, <2>3, <3>1 DEF SelfSource
    <2>7. CASE UNCHANGED github
      BY <2>3, <2>7
    <2>8. Self!LaunchAlone \/ Self!Rest \/ Self!LaunchBounded \/ Self!ReadShared \/ Self!Dispatch \/ Self!Send \/
            Self!Observe => UNCHANGED github
      BY DEF Self!LaunchAlone, Self!Rest, Self!vars, Self!LaunchBounded, Self!ReadShared, Self!Dispatch, Self!Send,
        Self!Observe, Self!Save, Self!Raise
    <2>9. Self!Accept => UNCHANGED github
      BY DEF Self!Accept, Self!Save, Self!Raise
    <2>10. Self!Import \/ Self!Record \/ Self!Push \/ Self!Pushed \/ Self!Confirm \/ Self!Live \/ Self!Finalize \/
             Self!Finish => UNCHANGED github
      BY DEF Self!Import, Self!Record, Self!Push, Self!Pushed, Self!Confirm, Self!Live, Self!Finalize, Self!Finish,
        Self!Save, Self!Raise
    <2>11. Self!Raised \/ Self!Crash \/ Self!HostedEnds \/ Self!Align => UNCHANGED github
      BY DEF Self!Raised, Self!Crash, Self!HostedEnds, Self!Align, Self!Save, Self!Raise
    <2> QED
      BY <2>1, <2>4, <2>5, <2>6, <2>7, <2>8, <2>9, <2>10, <2>11 DEF Self!Next
  <1> QED
    BY <1>1, SelfInvariance, PTL DEF Self!Spec

\* Only Send asks for a task.
LEMMA SelfAsksInSend ==
  ASSUME SelfInv, Self!Next, hosted'.asked > hosted.asked
  PROVE  Self!Send
  <1>1. hosted \in SelfHosted /\ hosted.asked \in Nat
    BY SelfReading DEF SelfHosted
  <1>2. hosted'.asked # hosted.asked /\ hosted' # hosted
    BY <1>1
  <1>3. ~Self!LaunchAlone
    <2>1. Self!LaunchAlone => hosted'.asked = 0
      BY <1>1 DEF Self!LaunchAlone, SelfHosted
    <2> QED
      BY <1>1, <2>1
  <1>4. ~Self!HostedEnds
    BY <1>1, <1>2 DEF Self!HostedEnds, SelfHosted
  <1>5. ~Self!Rest /\ ~Self!LaunchBounded /\ ~Self!ReadShared /\ ~Self!WriteShared /\ ~Self!Preflight /\
          ~Self!Dispatch /\ ~Self!Observe
    BY <1>2 DEF Self!Rest, Self!vars, Self!LaunchBounded, Self!ReadShared, Self!WriteShared, Self!Preflight,
      Self!Dispatch, Self!Observe, Self!Save, Self!Raise
  <1>6. ~Self!Accept
    BY <1>2 DEF Self!Accept, Self!Save, Self!Raise
  <1>7. ~Self!Import /\ ~Self!Record /\ ~Self!Push /\ ~Self!SendPush /\ ~Self!Pushed /\ ~Self!Confirm /\ ~Self!Live /\
          ~Self!Finalize /\ ~Self!Complete /\ ~Self!Finish
    BY <1>2 DEF Self!Import, Self!Record, Self!Push, Self!SendPush, Self!Pushed, Self!Confirm, Self!Live, Self!Finalize,
      Self!Complete, Self!Finish, Self!Save, Self!Raise
  <1>8. ~Self!Raised /\ ~Self!Crash /\ ~Self!Align /\ ~Self!OthersMove
    BY <1>2 DEF Self!Raised, Self!Crash, Self!Align, Self!OthersMove, Self!Save, Self!Raise
  <1> QED
    BY <1>3, <1>4, <1>5, <1>6, <1>7, <1>8 DEF Self!Next

\* In a pipeline a task is asked for only when every one before is over.
THEOREM SelfIsAlone ==
  ASSUME Self!SelfReviewAssumption
  PROVE  Self!Spec => [][Self!Alone]_Self!vars
  <1>1. SelfInv /\ [Self!Next]_Self!vars => [Self!Alone]_Self!vars
    <2>1. SUFFICES ASSUME SelfInv, Self!Next, Bounded, hosted'.asked > hosted.asked
                   PROVE  hosted.status # "running"
      BY DEF Self!Alone, Self!vars
    <2>2. proc.pc = "send"
      BY <2>1, SelfAsksInSend DEF Self!Send
    <2> QED
      BY <2>1, <2>2, SelfReading DEF SelfAsked
  <1> QED
    BY <1>1, SelfInvariance, PTL DEF Self!Spec

\* A task is asked for only when every one before is paid for.
THEOREM SelfAskedWhenPaid ==
  ASSUME Self!SelfReviewAssumption
  PROVE  Self!Spec => [][Self!AskedWhenPaid]_Self!vars
  <1>1. SelfInv /\ [Self!Next]_Self!vars => [Self!AskedWhenPaid]_Self!vars
    <2>1. SUFFICES ASSUME SelfInv, Self!Next, hosted'.asked > hosted.asked
                   PROVE  hosted.asked = state.iterations
      BY DEF Self!AskedWhenPaid, Self!vars
    <2>2. SelfAt(proc) = "send"
      BY <2>1, SelfAsksInSend DEF Self!Send, SelfAt, SelfSharing
    <2> QED
      BY <2>1, <2>2, SelfReading DEF SelfAsked
  <1> QED
    BY <1>1, SelfInvariance, PTL DEF Self!Spec

\* A push of the review only extends the branch, whatever others pushed between
\* the look at the head and the push.
THEOREM SelfExtends ==
  ASSUME Self!SelfReviewAssumption
  PROVE  Self!Spec => [][Self!Extends]_Self!vars
  <1>1. SelfInv /\ [Self!Next]_Self!vars => [Self!Extends]_Self!vars
    <2>1. SUFFICES ASSUME SelfInv, Self!Next, github'.head # github.head, budget' = budget
                   PROVE  Self!IsPrefix(github.head, github'.head)
      BY DEF Self!Extends, Self!vars
    <2>2. github \in SelfSource /\ github' # github /\ budget \in 0..MaxMoves
      BY <2>1, SelfReading
    <2>3. ~Self!OthersMove
      BY <2>1, <2>2, SelfConstants DEF Self!OthersMove
    <2>4. ~Self!Preflight /\ ~Self!Complete
      BY <2>1, <2>2 DEF Self!Preflight, Self!Complete, Self!Raise, Self!Save, SelfSource
    <2>5. ~Self!WriteShared
      BY <2>1, <2>2 DEF Self!WriteShared, SelfSource
    <2>6. ~Self!LaunchAlone /\ ~Self!Rest /\ ~Self!LaunchBounded /\ ~Self!ReadShared /\ ~Self!Dispatch /\ ~Self!Send /\
            ~Self!Observe
      BY <2>2 DEF Self!LaunchAlone, Self!Rest, Self!vars, Self!LaunchBounded, Self!ReadShared, Self!Dispatch, Self!Send,
        Self!Observe, Self!Save, Self!Raise
    <2>7. ~Self!Accept
      BY <2>2 DEF Self!Accept, Self!Save, Self!Raise
    <2>8. ~Self!Import /\ ~Self!Record /\ ~Self!Push /\ ~Self!Pushed /\ ~Self!Confirm /\ ~Self!Live /\ ~Self!Finalize /\
            ~Self!Finish
      BY <2>2 DEF Self!Import, Self!Record, Self!Push, Self!Pushed, Self!Confirm, Self!Live, Self!Finalize, Self!Finish,
        Self!Save, Self!Raise
    <2>9. ~Self!Raised /\ ~Self!Crash /\ ~Self!HostedEnds /\ ~Self!Align
      BY <2>2 DEF Self!Raised, Self!Crash, Self!HostedEnds, Self!Align, Self!Save, Self!Raise
    <2>10. Self!SendPush
      BY <2>1, <2>3, <2>4, <2>5, <2>6, <2>7, <2>8, <2>9 DEF Self!Next
    <2>11. Self!IsPrefix(github.head, Self!Final) /\ github' = [github EXCEPT !.head = Self!Final]
      BY <2>2, <2>10 DEF Self!SendPush, Self!Raise, Self!Save
    <2> QED
      BY <2>2, <2>11 DEF SelfSource
  <1> QED
    BY <1>1, SelfInvariance, PTL DEF Self!Spec

=============================================================================
