---------------------------- MODULE UpkeepProofs ----------------------------
(***************************************************************************)
(* Theorems about the coordinators that keep a pull request true to its    *)
(* branch: PrDescription, which keeps what it says, and ConflictResolver,  *)
(* which keeps its commits, for every value of their constants.  Each is an*)
(* instance over the six variables of a coordinator.                       *)
(***************************************************************************)
EXTENDS Integers, Sequences, FiniteSetsExt, SequencesExt, FiniteSetTheorems, TLAPS

CONSTANTS Runs, Bounded, MaxSweeps, MaxAttempts, MaxEvents, N, MaxMoves

VARIABLES github, local, hosted, state, proc, budget

Describe == INSTANCE PrDescription

-----------------------------------------------------------------------------
(* PrDescription: the text is of the head, and nobody's edit is overwritten.*)
DescribeText == [by : Runs \cup {0}, n : Nat]
DescribePr == [head : Nat, text : DescribeText]
DescribeTask == [status : Describe!Statuses, run : Nat, decision : Describe!Decisions]
DescribeFile == [exists : BOOLEAN, at : Nat, sweep : 0..MaxSweeps, pr : DescribePr, task : DescribeTask, validated :
  Nat, cleared : BOOLEAN]
DescribeHosted == [status : {"none", "running", "success", "failure"}, pr : DescribePr, decision : Describe!Decisions,
  asked : Nat]
DescribeIndex == [at : Nat, run : Runs \cup {0}, validated : Nat \cup {-1}]
DescribeShared == [value : Nat, at : Nat]
DescribePost == [value : Nat, at : Nat, seen : DescribeShared, attempts : 0..MaxAttempts]
DescribeProcess == [pc : Describe!Pcs, next : Describe!Pcs \cup {"none"}, exit :
  {"none", "waiting", "done", "head_changed", "error"}, sweep : 0..MaxSweeps,
                    index : DescribeIndex, read : Nat, post : DescribePost]
DescribeLocal == [index : DescribeIndex, guard : Runs \cup {0}, file : Runs \cup {0, Describe!Dead}, sourceOnly :
  BOOLEAN, now : Nat]
DescribeSource == [past : Seq(DescribePr), shared : DescribeShared]

\* The types in full.
DescribeTypes ==
  /\ github \in DescribeSource /\ github.past # <<>> /\ local \in DescribeLocal /\ hosted \in [Runs -> DescribeHosted]
  /\ state \in [Runs -> DescribeFile] /\ proc \in [Runs -> DescribeProcess] /\ budget \in 0..MaxEvents

DescribeSharing == {"read_shared", "write_shared"}
DescribeIndexing == {"lock", "update"} \cup DescribeSharing

\* Where the process stands: to bring the index up to date is an excursion.
DescribeAt(p) == IF p.pc \in DescribeIndexing THEN p.next ELSE p.pc

DescribeNext == {"dispatch", "send", "waiting", "head_changed", "clear", "finalize", "done", "failed"}
DescribeFailed == {"failed", "failed_after_mutation"}
DescribeProposing == {"propose", "check", "patch", "verify"}

\* Where the process stands the file says so.
DescribePlaced(p, s) ==
  /\ p.pc \in DescribeIndexing => p.next \in DescribeNext
  /\ p.pc \notin DescribeIndexing \cup {"error"} => p.next = "none"
  /\ p.pc = "error" => p.next \in DescribeNext \cup {"none"}
  /\ p.pc = "read_shared" => p.post.attempts < MaxAttempts
  /\ DescribeAt(p) = "dispatch" => s.task.status = "reserved"
  /\ p.pc = "error" /\ p.next = "dispatch" => s.task.status = "reserved"
  /\ DescribeAt(p) \in {"send", "observe"} => s.task.status = "running"
  /\ DescribeAt(p) = "accept" => s.task.status \in Describe!Resumable
  /\ DescribeAt(p) \in DescribeProposing \cup {"keep", "clear"} => s.task.status = "validated"
  /\ DescribeAt(p) \in {"finalize", "done"} => s.task.status = "completed"
  /\ DescribeAt(p) = "head_changed" => s.task.status = "head_changed"
  /\ DescribeAt(p) = "failed" => s.task.status \in DescribeFailed
  /\ s.exists => s.task.run \in 1..s.sweep
  /\ ~s.exists => s.task.run = 0 /\ s.task.status = "none" /\ s.sweep = 0 /\ s.validated = 0
  /\ p.pc # "idle" => s.exists

\* The task that is on record is the one that was asked for, of the pull request on record.
DescribeAsked(p, s, h) ==
  /\ h.asked <= s.task.run
  /\ s.task.status = "reserved" \/ DescribeAt(p) = "send" => h.asked < s.task.run
  /\ DescribeAt(p) \in {"observe", "accept", "keep"} \cup DescribeProposing => h.asked = s.task.run /\ h.pr = s.pr
  /\ s.task.status \in Describe!Resumable /\ h.asked = s.task.run => h.pr = s.pr
  /\ s.task.status \in {"result_ready", "validated", "completed", "head_changed"} => h.status = "success"
  /\ DescribeAt(p) \in {"accept", "keep"} \cup DescribeProposing => h.status = "success"
  /\ h.status = "running" => h.asked = s.task.run /\ s.task.status \in {"running", "failed"} /\ s.validated = 0
  /\ s.task.status \in {"none", "reserved", "running", "result_ready", "head_changed"} => s.validated = 0

\* A head on record as settled was live as the file has it; what the task said decides.
DescribeSettled(r, s, h, g) ==
  s.validated # 0 =>
    /\ \E i \in 1..Len(g.past) : g.past[i] = s.pr
    /\ s.validated = s.pr.head /\ h.pr.head = s.validated
    /\ s.pr.text = IF h.decision = "keep" THEN h.pr.text ELSE [by |-> r, n |-> s.task.run]

\* What decides between to keep and to replace, and what is written over.
DescribeDecided(p, s, h, l, g) ==
  /\ DescribeAt(p) = "keep" => h.decision = "keep"
  /\ DescribeAt(p) \in DescribeProposing => h.decision # "keep" /\ ~l.sourceOnly
  /\ p.pc = "patch" => p.read \in 1..Len(g.past) /\ g.past[p.read] = s.pr

\* Who updates the index has the lock, and a copy that is not stale; an entry that
\* was read is not newer than what there is.
DescribeLocked(r, p, l, g) ==
  /\ p.pc = "update" => l.guard = r /\ l.file = r /\ p.index = l.index
  /\ p.pc = "write_shared" => p.post.seen.at <= g.shared.at

DescribeRun(r, p, s, h, l, g) ==
  /\ DescribePlaced(p, s) /\ DescribeAsked(p, s, h) /\ DescribeSettled(r, s, h, g) /\ DescribeDecided(p, s, h, l, g)
  /\ DescribeLocked(r, p, l, g)

\* Where only the source may be changed nobody of ours writes a text.
DescribeKept(l, g) == l.sourceOnly => \A i \in 1..Len(g.past) : g.past[i].text.by = 0

DescribeInv ==
  /\ DescribeTypes /\ DescribeKept(local, github)
  /\ \A r \in Runs : DescribeRun(r, proc[r], state[r], hosted[r], local, github)

\* As long as nothing happens to a run: a file that the index does not have yet.
DescribeBehind == {"lock", "update", "keep", "propose", "check", "patch", "verify", "clear", "error"}

DescribeIndexed ==
  /\ local.index.at <= local.now /\ \A r \in Runs : state[r].at <= local.now
  /\ local.index.run = 0 => local.index.at = 0 /\ local.index.validated = -1
  /\ \A r \in Runs :
       /\ proc[r].pc = "error" => proc[r].next = "none"
       /\ proc[r].pc \notin DescribeBehind => state[r].at <= local.index.at
       /\ local.index.run = r => local.index.at <= state[r].at
       /\ local.index.run = r /\ proc[r].pc \notin DescribeBehind => local.index.validated = state[r].validated

DescribeShares == {r \in Runs : proc[r].pc \in DescribeSharing}

\* The one that is to be the last to write, which it is in time for.
DescribeTop(r) ==
  /\ r \in DescribeShares /\ proc[r].post.value = local.index.validated /\ github.shared.at < proc[r].post.at
  /\ \A q \in DescribeShares \ {r} : proc[q].post.at < proc[r].post.at
  /\ LET tries == proc[r].post.attempts + Cardinality(DescribeShares \ {r}) IN
     IF proc[r].pc = "write_shared" /\ proc[r].post.seen =
       github.shared THEN tries <= MaxAttempts ELSE tries < MaxAttempts

DescribePublished ==
  /\ github.shared.at <= local.now /\ \A r \in Runs : proc[r].post.at <= local.now
  /\ ~local.sourceOnly /\ local.index.run # 0 =>
       \/ \E r \in Runs : DescribeTop(r)
       \/ github.shared.value = local.index.validated /\ \A r \in DescribeShares : proc[r].post.at <= github.shared.at

DescribeQuiet == budget = MaxEvents => DescribeIndexed /\ DescribePublished

LEMMA DescribeConstants ==
  ASSUME Describe!PrDescriptionAssumption
  PROVE  /\ Runs \subseteq Nat \ {0} /\ MaxSweeps \in Nat \ {0} /\ MaxAttempts \in Nat \ {0} /\ MaxEvents \in Nat
         /\ Bounded \in BOOLEAN
         /\ \A r \in Runs : r # 0 /\ r # Describe!Dead
         /\ Describe!NoText \in DescribeText /\ Describe!NoText.by = 0 /\ Describe!NoPr \in DescribePr
         /\ Describe!NoFile \in DescribeFile /\ ~Describe!NoFile.exists /\ Describe!NoFile.at = 0 /\
              Describe!NoFile.sweep = 0 /\ Describe!NoFile.validated = 0
         /\ Describe!NoFile.task.status = "none" /\ Describe!NoFile.task.run = 0
         /\ Describe!NoHosted \in DescribeHosted /\ Describe!NoHosted.status = "none" /\ Describe!NoHosted.asked = 0
         /\ Describe!NoIndex \in DescribeIndex /\ Describe!NoIndex.at = 0 /\ Describe!NoIndex.run = 0
         /\ Describe!NoIndex.validated = -1
         /\ Describe!NoShared \in DescribeShared /\ Describe!NoShared.at = 0
         /\ Describe!NoPost \in DescribePost /\ Describe!NoPost.at = 0 /\ Describe!NoPost.attempts = 0
         /\ Describe!NoPost.seen = Describe!NoShared
  <1>1. /\ Runs \subseteq Nat \ {0} /\ MaxSweeps \in Nat \ {0} /\ MaxAttempts \in Nat \ {0} /\ MaxEvents \in Nat
        /\ Bounded \in BOOLEAN
        /\ \A r \in Runs : r # 0 /\ r # Describe!Dead
    BY DEF Describe!PrDescriptionAssumption, Describe!Dead
  <1>2. PICK text, pr, task : text = Describe!NoText /\ pr = Describe!NoPr /\ task = Describe!NoTask
    OBVIOUS
  <1>3. text = [by |-> 0, n |-> 0] /\ pr = [head |-> 0, text |-> text] /\
          task = [status |-> "none", run |-> 0, decision |-> "none"]
    BY <1>2 DEF Describe!NoText, Describe!NoPr, Describe!NoTask
  <1>4. text \in DescribeText /\ text.by = 0
    BY <1>3 DEF DescribeText
  <1>5. pr \in DescribePr
    BY <1>3, <1>4 DEF DescribePr
  <1>6. task \in DescribeTask /\ task.status = "none" /\ task.run = 0
    BY <1>3 DEF DescribeTask, Describe!Statuses, Describe!Decisions
  <1>7. PICK file, asked : file = Describe!NoFile /\ asked = Describe!NoHosted
    OBVIOUS
  <1>8. /\ file = [exists |-> FALSE, at |-> 0, sweep |-> 0, pr |-> pr, task |-> task, validated |-> 0,
             cleared |-> FALSE]
        /\ asked = [status |-> "none", pr |-> pr, decision |-> "none", asked |-> 0]
    BY <1>2, <1>7 DEF Describe!NoFile, Describe!NoHosted
  <1>9. file \in DescribeFile /\ ~file.exists /\ file.at = 0 /\ file.sweep = 0 /\ file.validated = 0 /\ file.task = task
    BY <1>1, <1>5, <1>6, <1>8 DEF DescribeFile
  <1>10. asked \in DescribeHosted /\ asked.status = "none" /\ asked.asked = 0
    BY <1>5, <1>8 DEF DescribeHosted, Describe!Decisions
  <1>11. Describe!NoIndex \in DescribeIndex /\ Describe!NoIndex.at = 0 /\ Describe!NoIndex.run = 0 /\
           Describe!NoIndex.validated = -1
    BY DEF Describe!NoIndex, DescribeIndex
  <1>12. PICK shared : shared = Describe!NoShared
    OBVIOUS
  <1>13. shared \in DescribeShared /\ shared.at = 0
    BY <1>12 DEF Describe!NoShared, DescribeShared
  <1>14. Describe!NoPost = [value |-> 0, at |-> 0, seen |-> shared, attempts |-> 0]
    BY <1>12 DEF Describe!NoPost
  <1>15. Describe!NoPost \in DescribePost /\ Describe!NoPost.at = 0 /\ Describe!NoPost.attempts = 0 /\
           Describe!NoPost.seen = shared
    BY <1>1, <1>13, <1>14 DEF DescribePost
  <1> QED
    BY <1>1, <1>2, <1>4, <1>5, <1>6, <1>7, <1>9, <1>10, <1>11, <1>12, <1>13, <1>15

LEMMA DescribeRest ==
  ASSUME Describe!PrDescriptionAssumption, NEW exit \in {"none", "waiting", "done", "head_changed", "error"}
  PROVE  /\ Describe!Resting(exit) \in DescribeProcess /\ Describe!Resting(exit).pc = "idle"
         /\ Describe!Resting(exit).next = "none" /\ Describe!Resting(exit).post = Describe!NoPost
         /\ Describe!Resting(exit).exit = exit
  <1>1. PICK index, post : index = Describe!NoIndex /\ post = Describe!NoPost
    OBVIOUS
  <1>2. index \in DescribeIndex /\ post \in DescribePost /\ 0 \in 0..MaxSweeps
    BY <1>1, DescribeConstants
  <1>3. Describe!Resting(exit) = [pc |-> "idle", next |-> "none", exit |-> exit, sweep |-> 0, index |-> index,
          read |-> 0, post |-> post]
    BY <1>1 DEF Describe!Resting
  <1> QED
    BY <1>1, <1>2, <1>3 DEF DescribeProcess, Describe!Pcs

LEMMA DescribeReading ==
  ASSUME DescribeInv
  PROVE  /\ github \in DescribeSource /\ github.past \in Seq(DescribePr) /\ github.past # <<>>
         /\ Len(github.past) \in Nat \ {0}
         /\ Describe!Live \in DescribePr /\ Describe!Live = github.past[Len(github.past)]
         /\ \A i \in 1..Len(github.past) : github.past[i] \in DescribePr
         /\ github.shared \in DescribeShared /\ local \in DescribeLocal /\ budget \in 0..MaxEvents
         /\ DescribeKept(local, github)
  <1>1. github \in DescribeSource /\ github.past # <<>> /\ local \in DescribeLocal /\ budget \in 0..MaxEvents /\
          DescribeKept(local, github)
    BY DEF DescribeInv, DescribeTypes
  <1>2. github.past \in Seq(DescribePr) /\ github.shared \in DescribeShared
    BY <1>1 DEF DescribeSource
  <1>3. Len(github.past) \in Nat \ {0} /\ \A i \in 1..Len(github.past) : github.past[i] \in DescribePr
    BY <1>1, <1>2
  <1>4. Describe!Live = github.past[Len(github.past)]
    BY DEF Describe!Live, Describe!Last
  <1> QED
    BY <1>1, <1>2, <1>3, <1>4

LEMMA DescribeOne ==
  ASSUME DescribeInv, NEW r \in Runs
  PROVE  /\ proc[r] \in DescribeProcess /\ state[r] \in DescribeFile /\ state[r].task \in DescribeTask
         /\ state[r].pr \in DescribePr
         /\ hosted[r] \in DescribeHosted
         /\ DescribePlaced(proc[r], state[r]) /\ DescribeAsked(proc[r], state[r], hosted[r])
         /\ DescribeSettled(r, state[r], hosted[r], github)
         /\ DescribeDecided(proc[r], state[r], hosted[r], local, github)
         /\ DescribeLocked(r, proc[r], local, github)
  BY DEF DescribeInv, DescribeTypes, DescribeRun, DescribeFile

LEMMA DescribeInit ==
  ASSUME Describe!PrDescriptionAssumption, Describe!Init
  PROVE  DescribeInv
  <1>1. PICK text, shared, index, asked, file, p :
          text = Describe!NoText /\ shared = Describe!NoShared /\ index = Describe!NoIndex /\
            asked = Describe!NoHosted /\ file = Describe!NoFile /\ p = Describe!Resting("none")
    OBVIOUS
  <1>2. PICK only \in BOOLEAN : local = [index |-> index, guard |-> 0, file |-> 0, sourceOnly |-> only, now |-> 0]
    BY <1>1 DEF Describe!Init
  <1>3. /\ p \in DescribeProcess /\ p.pc = "idle" /\ p.next = "none"
        /\ text \in DescribeText /\ text.by = 0 /\ shared \in DescribeShared /\ index \in DescribeIndex
        /\ asked \in DescribeHosted
        /\ asked.asked = 0 /\ asked.status = "none"
        /\ file \in DescribeFile /\ ~file.exists /\ file.sweep = 0 /\ file.validated = 0 /\ file.task.status = "none" /\
             file.task.run = 0
        /\ MaxEvents \in Nat
    BY <1>1, DescribeConstants, DescribeRest
  <1>4. PICK pr, past : pr = [head |-> 1, text |-> text] /\ past = <<pr>>
    OBVIOUS
  <1>5. pr \in DescribePr /\ pr.text = text
    BY <1>3, <1>4 DEF DescribePr
  <1>6. past \in Seq(DescribePr) /\ past # <<>> /\ Len(past) = 1 /\ past[1] = pr
    BY <1>4, <1>5
  <1>7. /\ github = [past |-> past, shared |-> shared] /\ hosted = [r \in Runs |-> asked]
        /\ state = [r \in Runs |-> file]
        /\ proc = [r \in Runs |-> p] /\ budget = MaxEvents
    BY <1>1, <1>4 DEF Describe!Init
  <1>8. local \in DescribeLocal
    BY <1>2, <1>3 DEF DescribeLocal
  <1>9. github \in DescribeSource /\ github.past = past
    BY <1>3, <1>6, <1>7 DEF DescribeSource
  <1>10. DescribeTypes
    BY <1>3, <1>6, <1>7, <1>8, <1>9 DEF DescribeTypes
  <1>11. DescribeKept(local, github)
    <2>1. Len(github.past) = 1 /\ github.past[1] = pr
      BY <1>6, <1>9
    <2>2. \A i \in 1..Len(github.past) : github.past[i].text.by = 0
      BY <1>3, <1>5, <2>1
    <2> QED
      BY <2>2 DEF DescribeKept
  <1>12. ASSUME NEW r \in Runs PROVE DescribeRun(r, proc[r], state[r], hosted[r], local, github)
    <2>1. proc[r] = p /\ state[r] = file /\ hosted[r] = asked
      BY <1>7
    <2>2. DescribeAt(p) = "idle"
      BY <1>3 DEF DescribeAt, DescribeIndexing, DescribeSharing
    <2>3. DescribePlaced(p, file)
      BY <1>3, <2>2 DEF DescribePlaced, DescribeIndexing, DescribeSharing, DescribeProposing
    <2>4. DescribeAsked(p, file, asked)
      BY <1>3, <2>2 DEF DescribeAsked, DescribeProposing, Describe!Resumable
    <2>5. DescribeSettled(r, file, asked, github) /\ DescribeDecided(p, file, asked, local, github) /\
            DescribeLocked(r, p, local, github)
      BY <1>3, <2>2 DEF DescribeSettled, DescribeDecided, DescribeLocked, DescribeProposing
    <2> QED
      BY <2>1, <2>3, <2>4, <2>5 DEF DescribeRun
  <1> QED
    BY <1>10, <1>11, <1>12 DEF DescribeInv

\* What a later source keeps of an earlier one.
DescribeLater(g, f) ==
  /\ Len(g.past) <= Len(f.past) /\ \A i \in 1..Len(g.past) : f.past[i] = g.past[i]
  /\ g.shared.at <= f.shared.at

\* A step of one run: the others only see a later source, and a lock that is theirs stays so.
LEMMA DescribeThen ==
  ASSUME Describe!PrDescriptionAssumption, DescribeInv, NEW r \in Runs,
         NEW p \in DescribeProcess, NEW s \in DescribeFile, NEW h \in DescribeHosted, NEW l \in DescribeLocal,
           NEW g \in DescribeSource,
         proc' = [proc EXCEPT ![r] = p], state' = [state EXCEPT ![r] = s], hosted' = [hosted EXCEPT ![r] = h],
           local' = l, github' = g,
         budget' \in 0..MaxEvents, g.past # <<>>, DescribeLater(github, g), l.sourceOnly = local.sourceOnly,
         local.guard \notin {0, r} => l.guard = local.guard /\ l.index = local.index,
         local.file \notin {0, r, Describe!Dead} => l.file = local.file,
         DescribeKept(l, g), DescribeRun(r, p, s, h, l, g)
  PROVE  DescribeInv'
  <1>1. DescribeTypes'
    BY DEF DescribeInv, DescribeTypes
  <1>2. /\ hosted'[r] = h /\ state'[r] = s /\ proc'[r] = p
        /\ \A q \in Runs \ {r} : hosted'[q] = hosted[q] /\ state'[q] = state[q] /\ proc'[q] = proc[q]
    BY DEF DescribeInv, DescribeTypes
  <1>3. ASSUME NEW q \in Runs \ {r} PROVE DescribeRun(q, proc[q], state[q], hosted[q], l, g)
    <2>1. DescribePlaced(proc[q], state[q]) /\ DescribeAsked(proc[q], state[q], hosted[q])
      BY DescribeOne
    <2>2. Len(github.past) \in Nat /\ Len(g.past) \in Nat
      BY DescribeReading DEF DescribeSource
    <2>3. DescribeSettled(q, state[q], hosted[q], g)
      BY <2>2, DescribeOne DEF DescribeSettled, DescribeLater
    <2>4. DescribeDecided(proc[q], state[q], hosted[q], l, g)
      BY <2>2, DescribeOne DEF DescribeDecided, DescribeLater
    <2>5. q # 0 /\ q # Describe!Dead /\ q # r
      BY DescribeConstants
    <2>6. proc[q].pc = "update" => l.guard = q /\ l.file = q /\ proc[q].index = l.index
      BY <2>5, DescribeOne DEF DescribeLocked
    <2>7. proc[q].pc = "write_shared" => proc[q].post.seen.at <= g.shared.at
      <3>1. proc[q].post.seen.at \in Nat /\ github.shared.at \in Nat /\ g.shared.at \in Nat
        BY DescribeOne, DescribeReading DEF DescribeProcess, DescribePost, DescribeShared, DescribeSource
      <3> QED
        BY <3>1, DescribeOne DEF DescribeLocked, DescribeLater
    <2> QED
      BY <2>1, <2>3, <2>4, <2>6, <2>7 DEF DescribeRun, DescribeLocked
  <1>4. DescribeKept(local', github') /\ \A q \in Runs : DescribeRun(q, proc'[q], state'[q], hosted'[q], local',
          github')
    BY <1>2, <1>3
  <1> QED
    BY <1>1, <1>4 DEF DescribeInv, DescribeKept, DescribeRun, DescribePlaced, DescribeAsked, DescribeSettled,
      DescribeDecided, DescribeLocked

\* What a move to another place leaves of the process.
LEMMA DescribeGoto ==
  ASSUME DescribeInv, NEW r \in Runs, NEW pc \in Describe!Pcs
  PROVE  \E p \in DescribeProcess :
           /\ Describe!Goto(r, pc) => proc' = [proc EXCEPT ![r] = p]
           /\ p.pc = pc /\ p.next = proc[r].next /\ p.post = proc[r].post /\ p.index = proc[r].index
           /\ p.read = proc[r].read
           /\ p.exit = proc[r].exit
  <1>1. PICK p : p = [proc[r] EXCEPT !.pc = pc]
    OBVIOUS
  <1>2. /\ p \in DescribeProcess /\ p.pc = pc /\ p.next = proc[r].next /\ p.post = proc[r].post
        /\ p.index = proc[r].index
        /\ p.read = proc[r].read /\ p.exit = proc[r].exit
    BY <1>1, DescribeOne DEF DescribeProcess
  <1>3. Describe!Goto(r, pc) => proc' = [proc EXCEPT ![r] = p]
    BY <1>1 DEF DescribeInv, DescribeTypes, Describe!Goto
  <1> QED
    BY <1>2, <1>3

\* The index is to be brought up to date.
LEMMA DescribeRefresh ==
  ASSUME DescribeInv, NEW r \in Runs, NEW next \in DescribeNext
  PROVE  \E p \in DescribeProcess :
           /\ [proc EXCEPT ![r].pc = "lock", ![r].next = next] = [proc EXCEPT ![r] = p]
           /\ p.pc = "lock" /\ p.next = next /\ p.post = proc[r].post /\ p.exit = proc[r].exit /\ DescribeAt(p) = next
  <1>1. PICK p : p = [proc[r] EXCEPT !.pc = "lock", !.next = next]
    OBVIOUS
  <1>2. next \in Describe!Pcs
    BY DEF DescribeNext, Describe!Pcs
  <1>3. p \in DescribeProcess /\ p.pc = "lock" /\ p.next = next /\ p.post = proc[r].post /\ p.exit = proc[r].exit
    BY <1>1, <1>2, DescribeOne DEF DescribeProcess, Describe!Pcs
  <1>4. [proc EXCEPT ![r].pc = "lock", ![r].next = next] = [proc EXCEPT ![r] = p]
    BY <1>1 DEF DescribeInv, DescribeTypes
  <1>5. DescribeAt(p) = next
    BY <1>3 DEF DescribeAt, DescribeIndexing
  <1> QED
    BY <1>3, <1>4, <1>5

\* A file on record is the one that was written, at the time of the clock.
LEMMA DescribeSaved ==
  ASSUME DescribeInv, NEW r \in Runs, NEW f \in DescribeFile, Describe!Saved(r, f)
  PROVE  \E s \in DescribeFile, l \in DescribeLocal :
           /\ state' = [state EXCEPT ![r] = s] /\ local' = l
           /\ s.at = local.now + 1 /\ s.exists = f.exists /\ s.sweep = f.sweep /\ s.pr = f.pr /\ s.task = f.task
           /\ s.validated = f.validated /\ s.cleared = f.cleared
           /\ l.now = local.now + 1 /\ l.index = local.index /\ l.guard = local.guard /\ l.file = local.file
           /\ l.sourceOnly = local.sourceOnly
  <1>1. PICK now : now = local.now + 1
    OBVIOUS
  <1>2. local.now \in Nat /\ now \in Nat /\ local \in DescribeLocal
    BY <1>1, DescribeReading DEF DescribeLocal
  <1>3. PICK s, l : s = [f EXCEPT !.at = now] /\ l = [local EXCEPT !.now = now]
    OBVIOUS
  <1>4. /\ s \in DescribeFile /\ s.at = now /\ s.exists = f.exists /\ s.sweep = f.sweep /\ s.pr = f.pr
        /\ s.task = f.task
        /\ s.validated = f.validated /\ s.cleared = f.cleared
    BY <1>2, <1>3 DEF DescribeFile
  <1>5. /\ l \in DescribeLocal /\ l.now = now /\ l.index = local.index /\ l.guard = local.guard /\ l.file = local.file
        /\ l.sourceOnly = local.sourceOnly
    BY <1>2, <1>3 DEF DescribeLocal
  <1>6. state' = [state EXCEPT ![r] = s] /\ local' = l
    BY <1>1, <1>3 DEF Describe!Saved
  <1> QED
    BY <1>1, <1>4, <1>5, <1>6

\* A step of one run that leaves the source, the task and the locks alone.
LEMMA DescribeQuietly ==
  ASSUME Describe!PrDescriptionAssumption, DescribeInv, NEW r \in Runs,
         NEW p \in DescribeProcess, NEW s \in DescribeFile, NEW l \in DescribeLocal,
           p.pc \notin {"update", "write_shared"},
         proc' = [proc EXCEPT ![r] = p], state' = [state EXCEPT ![r] = s], local' = l,
           UNCHANGED <<github, hosted, budget>>,
         l.sourceOnly = local.sourceOnly, l.guard = local.guard, l.index = local.index, l.file = local.file,
         DescribePlaced(p, s), DescribeAsked(p, s, hosted[r]), DescribeSettled(r, s, hosted[r], github),
         DescribeDecided(p, s, hosted[r], local, github)
  PROVE  DescribeInv'
  <1>1. PICK h, g : h = hosted[r] /\ g = github
    OBVIOUS
  <1>2. h \in DescribeHosted /\ g \in DescribeSource /\ hosted' = [hosted EXCEPT ![r] = h] /\ github' = g /\
          g.past # <<>>
    BY <1>1, DescribeOne, DescribeReading DEF DescribeInv, DescribeTypes
  <1>3. DescribeLater(github, g)
    BY <1>1, DescribeReading DEF DescribeLater, DescribeShared
  <1>4. DescribeKept(l, g) /\ budget' \in 0..MaxEvents
    BY <1>1, DescribeReading DEF DescribeKept
  <1>5. DescribeDecided(p, s, h, l, g) /\ DescribeLocked(r, p, l, g)
    BY <1>1 DEF DescribeDecided, DescribeLocked
  <1>6. DescribeRun(r, p, s, h, l, g)
    BY <1>1, <1>5 DEF DescribeRun
  <1> QED
    BY <1>2, <1>3, <1>4, <1>6, DescribeThen

\* The file is written, and the process goes on at p.
LEMMA DescribeWrites ==
  ASSUME Describe!PrDescriptionAssumption, DescribeInv, NEW r \in Runs, NEW p \in DescribeProcess,
         NEW f \in DescribeFile,
         p.pc \notin {"update", "write_shared"},
         Describe!Save(r, f), proc' = [proc EXCEPT ![r] = p],
         DescribePlaced(p, f), DescribeAsked(p, f, hosted[r]), DescribeSettled(r, f, hosted[r], github),
         DescribeDecided(p, f, hosted[r], local, github)
  PROVE  DescribeInv'
  <1>1. Describe!Saved(r, f) /\ UNCHANGED <<github, hosted, budget>>
    BY DEF Describe!Save
  <1>2. PICK s \in DescribeFile, l \in DescribeLocal :
           /\ state' = [state EXCEPT ![r] = s] /\ local' = l
           /\ s.at = local.now + 1 /\ s.exists = f.exists /\ s.sweep = f.sweep /\ s.pr = f.pr /\ s.task = f.task
           /\ s.validated = f.validated /\ s.cleared = f.cleared
           /\ l.now = local.now + 1 /\ l.index = local.index /\ l.guard = local.guard /\ l.file = local.file
           /\ l.sourceOnly = local.sourceOnly
    BY <1>1, DescribeSaved
  <1>3. DescribePlaced(p, s)
    BY <1>2 DEF DescribePlaced
  <1>4. DescribeAsked(p, s, hosted[r])
    BY <1>2 DEF DescribeAsked
  <1>5. DescribeSettled(r, s, hosted[r], github) /\ DescribeDecided(p, s, hosted[r], local, github)
    BY <1>2 DEF DescribeSettled, DescribeDecided
  <1> QED
    BY <1>1, <1>2, <1>3, <1>4, <1>5, DescribeQuietly

\* The process goes to another place, with the same file.
LEMMA DescribeGoes ==
  ASSUME Describe!PrDescriptionAssumption, DescribeInv, NEW r \in Runs, NEW p \in DescribeProcess,
         p.pc \notin {"update", "write_shared"},
         proc' = [proc EXCEPT ![r] = p], UNCHANGED <<github, local, hosted, state, budget>>,
         DescribePlaced(p, state[r]), DescribeAsked(p, state[r], hosted[r]),
           DescribeDecided(p, state[r], hosted[r], local, github)
  PROVE  DescribeInv'
  <1>1. PICK s, l : s = state[r] /\ l = local
    OBVIOUS
  <1>2. s \in DescribeFile /\ state' = [state EXCEPT ![r] = s] /\ l \in DescribeLocal /\ local' = l
    BY <1>1, DescribeOne, DescribeReading DEF DescribeInv, DescribeTypes
  <1> QED
    BY <1>1, <1>2, DescribeQuietly, DescribeOne

\* An error may come at any place; it is no place of a task.
LEMMA DescribeErrs ==
  ASSUME Describe!PrDescriptionAssumption, DescribeInv, NEW r \in Runs, Describe!Goto(r, "error"),
         UNCHANGED <<github, local, hosted, state, budget>>,
         proc[r].pc \notin DescribeIndexing \cup {"error", "idle"}
  PROVE  DescribeInv'
  <1>1. PICK p \in DescribeProcess :
           p.pc = "error" /\ p.next = proc[r].next /\ proc' = [proc EXCEPT ![r] = p]
    BY DescribeGoto DEF Describe!Pcs
  <1>2. DescribeAt(p) = "error" /\ p.next = "none"
    BY <1>1, DescribeOne DEF DescribeAt, DescribeIndexing, DescribeSharing, DescribePlaced
  <1>3. DescribePlaced(p, state[r])
    BY <1>1, <1>2, DescribeOne DEF DescribePlaced, DescribeIndexing, DescribeSharing, DescribeProposing
  <1>4. DescribeAsked(p, state[r], hosted[r])
    BY <1>1, <1>2, DescribeOne DEF DescribeAsked, DescribeProposing
  <1>5. DescribeDecided(p, state[r], hosted[r], local, github)
    BY <1>1, <1>2 DEF DescribeDecided, DescribeProposing
  <1> QED
    BY <1>1, <1>3, <1>4, <1>5, DescribeGoes

-----------------------------------------------------------------------------
(* The steps of a run *)

LEMMA DescribeLock ==
  ASSUME Describe!PrDescriptionAssumption, DescribeInv, NEW r \in Runs, Describe!Lock(r)
  PROVE  DescribeInv'
  <1>1. PICK l, p : /\ l = [local EXCEPT !.guard = r, !.file = r]
                    /\ p = [proc[r] EXCEPT !.pc = "update", !.index = local.index]
    OBVIOUS
  <1>2. local \in DescribeLocal /\ local.index \in DescribeIndex /\ r \in Runs \cup {0} /\
          r \in Runs \cup {0, Describe!Dead}
    BY DescribeReading DEF DescribeLocal
  <1>3. /\ l \in DescribeLocal /\ l.guard = r /\ l.file = r /\ l.index = local.index /\ l.now = local.now
        /\ l.sourceOnly = local.sourceOnly
    BY <1>1, <1>2 DEF DescribeLocal
  <1>4. p \in DescribeProcess /\ p.pc = "update" /\ p.next = proc[r].next /\ p.index = local.index
    BY <1>1, <1>2, DescribeOne DEF DescribeProcess, Describe!Pcs
  <1>5. PICK s, h, g : s = state[r] /\ h = hosted[r] /\ g = github
    OBVIOUS
  <1>6. /\ proc' = [proc EXCEPT ![r] = p] /\ state' = [state EXCEPT ![r] = s] /\ hosted' = [hosted EXCEPT ![r] = h]
        /\ local' = l
        /\ github' = g /\ s \in DescribeFile /\ h \in DescribeHosted /\ g \in DescribeSource /\ g.past # <<>>
        /\ budget' \in 0..MaxEvents
    BY <1>1, <1>5, DescribeOne, DescribeReading DEF Describe!Lock, DescribeInv, DescribeTypes
  <1>7. proc[r].pc = "lock" /\ local.guard = 0 /\ local.file \in {0, Describe!Dead}
    BY DEF Describe!Lock, Describe!LockFree, Describe!GuardFree
  <1>8. DescribeAt(p) = DescribeAt(proc[r])
    BY <1>4, <1>7 DEF DescribeAt, DescribeIndexing
  <1>9. DescribePlaced(p, s) /\ DescribeAsked(p, s, h)
    BY <1>4, <1>5, <1>7, <1>8, DescribeOne DEF DescribePlaced, DescribeAsked, DescribeIndexing
  <1>10. DescribeSettled(r, s, h, g) /\ DescribeDecided(p, s, h, l, g)
    BY <1>3, <1>4, <1>5, <1>8, DescribeOne DEF DescribeDecided
  <1>11. DescribeLocked(r, p, l, g)
    BY <1>3, <1>4 DEF DescribeLocked
  <1>12. DescribeRun(r, p, s, h, l, g)
    BY <1>9, <1>10, <1>11 DEF DescribeRun
  <1>13. DescribeLater(github, g) /\ DescribeKept(l, g)
    BY <1>3, <1>5, DescribeReading DEF DescribeLater, DescribeShared, DescribeKept
  <1> QED
    BY <1>3, <1>4, <1>6, <1>7, <1>12, <1>13, DescribeThen

\* The entry that the index gets, and the time of it.
LEMMA DescribeUpdates ==
  ASSUME Describe!PrDescriptionAssumption, DescribeInv, NEW r \in Runs, proc[r].pc = "update"
  PROVE  /\ Describe!Updated(r, proc[r].index) \in DescribeIndex
         /\ Describe!Updated(r, proc[r].index).at >= local.index.at
         /\ Describe!Updated(r, proc[r].index).at >= state[r].at
         /\ Describe!Updated(r, proc[r].index).validated # proc[r].index.validated =>
              Describe!Updated(r, proc[r].index).validated \in Nat
         /\ proc[r].index = local.index
         /\ \/ state[r].at < local.index.at /\ Describe!Updated(r, proc[r].index) = local.index
            \/ /\ local.index.at <= state[r].at /\ Describe!Updated(r, proc[r].index).at = state[r].at /\
                    Describe!Updated(r, proc[r].index).run = r
               /\ Describe!Updated(r, proc[r].index).validated = state[r].validated
  <1>1. proc[r].index = local.index /\ local.index \in DescribeIndex /\ local.index.at \in Nat
    BY DescribeOne, DescribeReading DEF DescribeLocked, DescribeLocal, DescribeIndex
  <1>2. state[r].at \in Nat /\ state[r].validated \in Nat
    BY DescribeOne DEF DescribeFile
  <1>3. CASE state[r].at >= local.index.at
    <2>1. PICK index : index = [at |-> state[r].at, run |-> r, validated |-> state[r].validated]
      OBVIOUS
    <2>2. Describe!Updated(r, proc[r].index) = index
      BY <1>1, <1>3, <2>1 DEF Describe!Updated
    <2>3. index \in DescribeIndex /\ index.at = state[r].at /\ index.validated \in Nat /\ index.run = r /\
            index.validated = state[r].validated
      BY <1>2, <2>1 DEF DescribeIndex
    <2> QED
      BY <1>1, <1>2, <1>3, <2>2, <2>3
  <1>4. CASE ~(state[r].at >= local.index.at)
    <2>1. Describe!Updated(r, proc[r].index) = local.index
      BY <1>1, <1>4 DEF Describe!Updated
    <2> QED
      BY <1>1, <1>2, <1>4, <2>1
  <1> QED
    BY <1>3, <1>4

\* The state of the index, the locks and the process after the index is up to date.
LEMMA DescribeUpdated ==
  ASSUME Describe!PrDescriptionAssumption, DescribeInv, NEW r \in Runs, Describe!UpdateIndex(r)
  PROVE  \E p \in DescribeProcess, l \in DescribeLocal :
           /\ proc' = [proc EXCEPT ![r] = p] /\ local' = l /\ UNCHANGED <<github, hosted, state, budget>>
           /\ l.index = Describe!Updated(r, proc[r].index) /\ l.guard = 0 /\ l.file = 0 /\ l.now = local.now + 1
           /\ l.sourceOnly = local.sourceOnly
           /\ p.pc = (IF l.index.validated # local.index.validated /\
                ~local.sourceOnly THEN "read_shared" ELSE proc[r].next)
           /\ p.next = (IF p.pc = "read_shared" THEN proc[r].next ELSE "none")
           /\ p.exit = proc[r].exit
           /\ p.pc = "read_shared" => p.post.value = l.index.validated /\ p.post.at = local.now + 1 /\
                p.post.attempts = 0
           /\ p.pc # "read_shared" => p.post = Describe!NoPost
  <1>0. PICK index, now : index = Describe!Updated(r, proc[r].index) /\ now = local.now + 1
    OBVIOUS
  <1>1. PICK changed \in BOOLEAN :
          /\ index = Describe!Updated(r, proc[r].index) /\ now = local.now + 1
          /\ changed <=> index.validated # proc[r].index.validated /\ ~local.sourceOnly
    BY <1>0
  <1>2. proc[r].pc = "update" /\ local.guard = r /\ local.file = r /\ proc[r].index = local.index /\
          proc[r].next \in DescribeNext
    BY DescribeOne DEF Describe!UpdateIndex, DescribeLocked, DescribePlaced, DescribeIndexing
  <1>3. index \in DescribeIndex /\ now \in Nat /\ (changed => index.validated \in Nat) /\ local \in DescribeLocal /\
          changed \in BOOLEAN
    <2>1. index \in DescribeIndex /\ (index.validated # proc[r].index.validated => index.validated \in Nat)
      BY <1>1, <1>2, DescribeUpdates
    <2>2. local \in DescribeLocal /\ local.now \in Nat
      BY DescribeReading DEF DescribeLocal
    <2> QED
      BY <1>1, <2>1, <2>2
  <1>4. PICK l : l = [local EXCEPT !.index = index, !.now = now, !.guard = 0, !.file = 0]
    OBVIOUS
  <1>5. l \in DescribeLocal /\ l.index = index /\ l.now = now /\ l.guard = 0 /\ l.file = 0 /\
          l.sourceOnly = local.sourceOnly
    BY <1>3, <1>4 DEF DescribeLocal
  <1>6. PICK post, shared : shared = Describe!NoShared /\
          post = IF changed THEN [Describe!NoPost EXCEPT !.value = index.validated, !.at = now] ELSE Describe!NoPost
    OBVIOUS
  <1>7. Describe!NoPost \in DescribePost /\ Describe!NoPost.attempts = 0 /\ Describe!NoIndex \in DescribeIndex
    BY DescribeConstants
  <1>8. post \in DescribePost /\ (changed => post.value = index.validated /\ post.at = now /\ post.attempts = 0) /\
          (~changed => post = Describe!NoPost)
    BY <1>3, <1>6, <1>7 DEF DescribePost
  <1>9. PICK pc, next, none : /\ pc = (IF changed THEN "read_shared" ELSE proc[r].next) /\
                                   next = (IF changed THEN proc[r].next ELSE "none")
                              /\ none = Describe!NoIndex
    OBVIOUS
  <1>10. pc \in Describe!Pcs /\ next \in Describe!Pcs \cup {"none"} /\ (pc = "read_shared" <=> changed)
    BY <1>2, <1>9 DEF DescribeNext, Describe!Pcs
  <1>11. PICK p : p = [proc[r] EXCEPT !.index = none, !.pc = pc, !.next = next, !.post = post]
    OBVIOUS
  <1>12. p \in DescribeProcess /\ p.pc = pc /\ p.next = next /\ p.post = post /\ p.exit = proc[r].exit
    BY <1>7, <1>8, <1>9, <1>10, <1>11, DescribeOne DEF DescribeProcess
  <1>13. Describe!Released(r) /\ UNCHANGED <<github, hosted, state, budget>>
    BY <1>2 DEF Describe!UpdateIndex, Describe!Released
  <1>14. local' = l
    BY <1>1, <1>2, <1>4, <1>13 DEF Describe!UpdateIndex
  <1>15. proc' = [proc EXCEPT ![r].index = none, ![r].pc = pc, ![r].next = next, ![r].post = post]
    <2>1. proc' = [proc EXCEPT ![r].index = Describe!NoIndex,
                      ![r].pc = IF ~Describe!Released(r) THEN "error" ELSE IF changed THEN "read_shared" ELSE proc[r].next,
                      ![r].next = IF Describe!Released(r) /\ ~changed THEN "none" ELSE @,
                      ![r].post = IF changed THEN [Describe!NoPost EXCEPT !.value = index.validated,
                        !.at = local.now + 1] ELSE Describe!NoPost]
      BY <1>1 DEF Describe!UpdateIndex
    <2>2. CASE changed
      BY <1>1, <1>3, <1>6, <1>9, <1>13, <2>1, <2>2
    <2>3. CASE ~changed
      BY <1>1, <1>3, <1>6, <1>9, <1>13, <2>1, <2>3
    <2> QED
      BY <2>2, <2>3
  <1>16. proc' = [proc EXCEPT ![r] = p]
    BY <1>11, <1>15 DEF DescribeInv, DescribeTypes
  <1> QED
    BY <1>1, <1>2, <1>5, <1>8, <1>9, <1>10, <1>12, <1>13, <1>14, <1>16

LEMMA DescribeUpdateIndex ==
  ASSUME Describe!PrDescriptionAssumption, DescribeInv, NEW r \in Runs, Describe!UpdateIndex(r)
  PROVE  DescribeInv'
  <1>1. PICK p \in DescribeProcess, l \in DescribeLocal :
           /\ proc' = [proc EXCEPT ![r] = p] /\ local' = l /\ UNCHANGED <<github, hosted, state, budget>>
           /\ l.sourceOnly = local.sourceOnly
           /\ p.pc = (IF l.index.validated # local.index.validated /\
                ~local.sourceOnly THEN "read_shared" ELSE proc[r].next)
           /\ p.next = (IF p.pc = "read_shared" THEN proc[r].next ELSE "none")
           /\ p.pc = "read_shared" => p.post.attempts = 0
    BY DescribeUpdated
  <1>2. proc[r].pc = "update" /\ local.guard = r /\ local.file = r /\ proc[r].next \in DescribeNext
    BY DescribeOne DEF Describe!UpdateIndex, DescribeLocked, DescribePlaced, DescribeIndexing
  <1>3. PICK s, h, g : s = state[r] /\ h = hosted[r] /\ g = github
    OBVIOUS
  <1>4. /\ state' = [state EXCEPT ![r] = s] /\ hosted' = [hosted EXCEPT ![r] = h]
        /\ github' = g /\ s \in DescribeFile /\ h \in DescribeHosted /\ g \in DescribeSource /\ g.past # <<>>
        /\ budget' \in 0..MaxEvents
    BY <1>1, <1>3, DescribeOne, DescribeReading DEF DescribeInv, DescribeTypes
  <1>5. DescribeAt(p) = proc[r].next /\ DescribeAt(proc[r]) = proc[r].next /\ p.pc \in DescribeNext \cup {"read_shared"}
    BY <1>1, <1>2 DEF DescribeAt, DescribeIndexing, DescribeSharing, DescribeNext
  <1>6. DescribePlaced(p, s)
    <2>1. p.pc \notin {"error", "lock", "update", "write_shared"} /\
            (p.pc \in DescribeIndexing <=> p.pc = "read_shared")
      BY <1>5 DEF DescribeNext, DescribeIndexing, DescribeSharing
    <2>2. p.pc = "read_shared" => p.post.attempts < MaxAttempts
      BY <1>1, DescribeConstants
    <2> QED
      BY <1>1, <1>2, <1>3, <1>5, <2>1, <2>2, DescribeOne DEF DescribePlaced
  <1>7. DescribeAsked(p, s, h)
    BY <1>3, <1>5, DescribeOne DEF DescribeAsked
  <1>8. DescribeSettled(r, s, h, g) /\ DescribeDecided(p, s, h, l, g) /\ DescribeLocked(r, p, l, g)
    BY <1>1, <1>3, <1>5, DescribeOne DEF DescribeDecided, DescribeLocked, DescribeNext
  <1>9. DescribeRun(r, p, s, h, l, g)
    BY <1>6, <1>7, <1>8 DEF DescribeRun
  <1>10. DescribeLater(github, g) /\ DescribeKept(l, g)
    BY <1>1, <1>3, DescribeReading DEF DescribeLater, DescribeShared, DescribeKept
  <1>11. /\ proc' = [proc EXCEPT ![r] = p] /\ local' = l /\ l.sourceOnly = local.sourceOnly
         /\ local.guard \notin {0, r} => l.guard = local.guard /\ l.index = local.index
         /\ local.file \notin {0, r, Describe!Dead} => l.file = local.file
    BY <1>1, <1>2
  <1> QED
    BY <1>4, <1>9, <1>10, <1>11, DescribeThen

\* What a process knows that read the state repository.
LEMMA DescribeRead ==
  ASSUME Describe!PrDescriptionAssumption, DescribeInv, NEW r \in Runs, Describe!ReadShared(r)
  PROVE  \E p \in DescribeProcess :
           /\ proc' = [proc EXCEPT ![r] = p] /\ UNCHANGED <<github, local, hosted, state, budget>>
           /\ proc[r].pc = "read_shared" /\ p.pc = "write_shared" /\ p.next = proc[r].next
           /\ p.post.seen = github.shared
           /\ p.post.attempts = proc[r].post.attempts + 1 /\ p.post.at = proc[r].post.at
           /\ p.post.value = proc[r].post.value
  <1>1. PICK attempts, seen : attempts = proc[r].post.attempts + 1 /\
          seen = [proc[r].post EXCEPT !.seen = github.shared]
    OBVIOUS
  <1>2. proc[r].post \in DescribePost /\ proc[r].post.attempts \in 0..MaxAttempts /\ github.shared \in DescribeShared
    BY DescribeOne, DescribeReading DEF DescribeProcess, DescribePost
  <1>3. proc[r].pc = "read_shared" /\ proc[r].post.attempts < MaxAttempts
    BY DescribeOne DEF Describe!ReadShared, DescribePlaced
  <1>4. attempts \in 0..MaxAttempts
    BY <1>1, <1>2, <1>3, DescribeConstants
  <1>5. /\ seen \in DescribePost /\ seen.seen = github.shared /\ seen.attempts = proc[r].post.attempts
        /\ seen.at = proc[r].post.at /\ seen.value = proc[r].post.value
    BY <1>1, <1>2 DEF DescribePost
  <1>6. PICK post : post = [seen EXCEPT !.attempts = attempts]
    OBVIOUS
  <1>7. /\ post \in DescribePost /\ post.seen = github.shared /\ post.attempts = attempts
        /\ post.at = proc[r].post.at /\ post.value = proc[r].post.value
    BY <1>4, <1>5, <1>6 DEF DescribePost
  <1>8. PICK p1 : p1 = [proc[r] EXCEPT !.pc = "write_shared"]
    OBVIOUS
  <1>9. p1 \in DescribeProcess /\ p1.pc = "write_shared" /\ p1.post = proc[r].post /\ p1.next = proc[r].next
    BY <1>8, DescribeOne DEF DescribeProcess, Describe!Pcs
  <1>10. PICK p2 : p2 = [p1 EXCEPT !.post = seen]
    OBVIOUS
  <1>11. p2 \in DescribeProcess /\ p2.pc = "write_shared" /\ p2.post = seen /\ p2.next = proc[r].next
    BY <1>5, <1>9, <1>10 DEF DescribeProcess
  <1>12. PICK p : p = [p2 EXCEPT !.post = post]
    OBVIOUS
  <1>13. p \in DescribeProcess /\ p.pc = "write_shared" /\ p.post = post /\ p.next = proc[r].next
    BY <1>7, <1>11, <1>12 DEF DescribeProcess
  <1>14. UNCHANGED <<github, local, hosted, state, budget>>
    BY DEF Describe!ReadShared
  <1>15. proc' = [proc EXCEPT ![r] = p]
    <2>1. proc' = [proc EXCEPT ![r].pc = "write_shared", ![r].post.seen = github.shared, ![r].post.attempts = @ + 1]
      BY DEF Describe!ReadShared
    <2>2. PICK q1 : q1 = [proc EXCEPT ![r].pc = "write_shared"]
      OBVIOUS
    <2>3. q1 = [proc EXCEPT ![r] = p1] /\ q1[r] = p1
      BY <1>8, <2>2 DEF DescribeInv, DescribeTypes
    <2>4. PICK q2 : q2 = [q1 EXCEPT ![r].post.seen = github.shared]
      OBVIOUS
    <2>5. q2 = [q1 EXCEPT ![r] = p2]
      BY <1>1, <1>9, <1>10, <2>3, <2>4
    <2>6. q2 = [proc EXCEPT ![r] = p2] /\ q2[r] = p2
      BY <2>3, <2>5 DEF DescribeInv, DescribeTypes
    <2>7. proc' = [q2 EXCEPT ![r].post.attempts = attempts]
      BY <1>1, <2>1, <2>2, <2>4
    <2>8. proc' = [q2 EXCEPT ![r] = p]
      BY <1>6, <1>11, <1>12, <2>6, <2>7
    <2> QED
      BY <2>6, <2>8 DEF DescribeInv, DescribeTypes
  <1> QED
    BY <1>1, <1>3, <1>7, <1>13, <1>14, <1>15

LEMMA DescribeReadShared ==
  ASSUME Describe!PrDescriptionAssumption, DescribeInv, NEW r \in Runs, Describe!ReadShared(r)
  PROVE  DescribeInv'
  <1>1. PICK p \in DescribeProcess :
           /\ proc' = [proc EXCEPT ![r] = p] /\ UNCHANGED <<github, local, hosted, state, budget>>
           /\ proc[r].pc = "read_shared" /\ p.pc = "write_shared" /\ p.next = proc[r].next
           /\ p.post.seen = github.shared
    BY DescribeRead
  <1>2. PICK s, h, l, g : s = state[r] /\ h = hosted[r] /\ l = local /\ g = github
    OBVIOUS
  <1>3. /\ state' = [state EXCEPT ![r] = s] /\ hosted' = [hosted EXCEPT ![r] = h] /\ local' = l /\ l \in DescribeLocal
        /\ github' = g /\ s \in DescribeFile /\ h \in DescribeHosted /\ g \in DescribeSource /\ g.past # <<>>
        /\ budget' \in 0..MaxEvents
    BY <1>1, <1>2, DescribeOne, DescribeReading DEF DescribeInv, DescribeTypes
  <1>4. DescribeAt(p) = DescribeAt(proc[r])
    BY <1>1, <1>1 DEF DescribeAt, DescribeIndexing, DescribeSharing
  <1>5. DescribePlaced(p, s)
    BY <1>1, <1>2, <1>4, DescribeOne DEF DescribePlaced, DescribeIndexing, DescribeSharing
  <1>6. DescribeAsked(p, s, h)
    BY <1>2, <1>4, DescribeOne DEF DescribeAsked
  <1>7. DescribeSettled(r, s, h, g) /\ DescribeDecided(p, s, h, l, g)
    BY <1>1, <1>2, <1>4, DescribeOne DEF DescribeDecided
  <1>8. DescribeLocked(r, p, l, g)
    BY <1>1, <1>2, DescribeReading DEF DescribeLocked, DescribeShared
  <1>9. DescribeRun(r, p, s, h, l, g)
    BY <1>5, <1>6, <1>7, <1>8 DEF DescribeRun
  <1>10. DescribeLater(github, g) /\ DescribeKept(l, g)
    BY <1>2, DescribeReading DEF DescribeLater, DescribeShared
  <1> QED
    BY <1>1, <1>2, <1>3, <1>9, <1>10, DescribeThen

\* The process is back from the state repository.
LEMMA DescribeReturned ==
  ASSUME Describe!PrDescriptionAssumption, DescribeInv, NEW r \in Runs, proc[r].pc \in DescribeSharing
  PROVE  \E p \in DescribeProcess :
           /\ [proc EXCEPT ![r] = Describe!Shared(@)] = [proc EXCEPT ![r] = p]
           /\ p.pc = proc[r].next /\ p.next = "none" /\ p.post = Describe!NoPost /\ p.exit = proc[r].exit
           /\ p.pc \in DescribeNext /\ DescribePlaced(p, state[r]) /\ DescribeAsked(p, state[r], hosted[r])
           /\ DescribeDecided(p, state[r], hosted[r], local, github)
  <1>1. PICK next, post : next = proc[r].next /\ post = Describe!NoPost
    OBVIOUS
  <1>2. PICK p : p = [proc[r] EXCEPT !.pc = next, !.next = "none", !.post = post]
    OBVIOUS
  <1>3. next \in DescribeNext /\ post \in DescribePost
    BY <1>1, DescribeConstants, DescribeOne DEF DescribePlaced, DescribeIndexing
  <1>4. p \in DescribeProcess /\ p.pc = next /\ p.next = "none" /\ p.post = post /\ p.exit = proc[r].exit
    BY <1>2, <1>3, DescribeOne DEF DescribeProcess, DescribeNext, Describe!Pcs
  <1>5. [proc EXCEPT ![r] = Describe!Shared(@)] = [proc EXCEPT ![r] = p]
    BY <1>1, <1>2 DEF Describe!Shared, DescribeInv, DescribeTypes
  <1>6. next \notin DescribeIndexing /\ next \notin {"error", "patch"} /\ DescribeAt(p) = next /\
          DescribeAt(proc[r]) = next
    BY <1>1, <1>3, <1>4 DEF DescribeAt, DescribeIndexing, DescribeNext, DescribeSharing
  <1>7. DescribePlaced(p, state[r])
    BY <1>4, <1>6, DescribeOne DEF DescribePlaced, DescribeIndexing, DescribeSharing
  <1>8. DescribeAsked(p, state[r], hosted[r])
    BY <1>6, DescribeOne DEF DescribeAsked
  <1>9. DescribeDecided(p, state[r], hosted[r], local, github)
    BY <1>4, <1>6, DescribeOne DEF DescribeDecided
  <1> QED
    BY <1>1, <1>3, <1>4, <1>5, <1>7, <1>8, <1>9

LEMMA DescribeMerged ==
  ASSUME DescribeInv, NEW r \in Runs
  PROVE  /\ Describe!Merged(proc[r].post) \in DescribeShared /\ proc[r].post \in DescribePost
         /\ proc[r].post.seen.at >= proc[r].post.at => Describe!Merged(proc[r].post) = proc[r].post.seen
         /\ proc[r].post.seen.at < proc[r].post.at =>
              Describe!Merged(proc[r].post).at = proc[r].post.at /\
                Describe!Merged(proc[r].post).value = proc[r].post.value
         /\ Describe!Merged(proc[r].post).at >= proc[r].post.seen.at
  <1>1. /\ proc[r].post \in DescribePost /\ proc[r].post.seen \in DescribeShared /\ proc[r].post.at \in Nat
        /\ proc[r].post.value \in Nat
        /\ proc[r].post.seen.at \in Nat
    BY DescribeOne DEF DescribeProcess, DescribePost, DescribeShared
  <1>2. CASE proc[r].post.seen.at >= proc[r].post.at
    BY <1>1, <1>2 DEF Describe!Merged
  <1>3. CASE proc[r].post.seen.at < proc[r].post.at
    <2>1. PICK m : m = [value |-> proc[r].post.value, at |-> proc[r].post.at]
      OBVIOUS
    <2>2. Describe!Merged(proc[r].post) = m
      BY <1>1, <1>3, <2>1 DEF Describe!Merged
    <2>3. m \in DescribeShared /\ m.at = proc[r].post.at /\ m.value = proc[r].post.value
      BY <1>1, <2>1 DEF DescribeShared
    <2> QED
      BY <1>1, <1>3, <2>2, <2>3
  <1> QED
    BY <1>1, <1>2, <1>3

\* The state repository after a write, and where the process goes.
LEMMA DescribeWritten ==
  ASSUME Describe!PrDescriptionAssumption, DescribeInv, NEW r \in Runs, Describe!WriteShared(r)
  PROVE  \E p \in DescribeProcess, g \in DescribeSource :
           /\ proc' = [proc EXCEPT ![r] = p] /\ github' = g /\ g.past = github.past
           /\ g.shared = IF github.shared = proc[r].post.seen THEN Describe!Merged(proc[r].post) ELSE github.shared
           /\ github.shared.at <= g.shared.at /\ p.exit = proc[r].exit
           /\ \/ /\ p.pc = "read_shared" /\ p.next = proc[r].next /\ p.post = proc[r].post /\
                      p.post.attempts < MaxAttempts
                 /\ github.shared # proc[r].post.seen /\ Describe!Merged(proc[r].post) # proc[r].post.seen
              \/ /\ p.pc = proc[r].next /\ p.next = "none" /\ p.post = Describe!NoPost
                 /\ github.shared = proc[r].post.seen \/ Describe!Merged(proc[r].post) = proc[r].post.seen \/
                      proc[r].post.attempts >= MaxAttempts
           /\ p.pc \notin {"update", "write_shared", "error"} /\ DescribePlaced(p, state[r])
           /\ DescribeAsked(p, state[r], hosted[r])
           /\ DescribeDecided(p, state[r], hosted[r], local, github)
  <1>1. PICK m : m = Describe!Merged(proc[r].post)
    OBVIOUS
  <1>2. PICK shared : shared = IF github.shared = proc[r].post.seen THEN m ELSE github.shared
    OBVIOUS
  <1>3. PICK g : g = [github EXCEPT !.shared = shared]
    OBVIOUS
  <1>4. m \in DescribeShared /\ m.at >= proc[r].post.seen.at /\ proc[r].post \in DescribePost /\
          github \in DescribeSource
        /\ github.shared \in DescribeShared
    BY <1>1, DescribeMerged, DescribeReading
  <1>5. g \in DescribeSource /\ g.past = github.past /\ g.shared = shared /\ github.shared.at <= g.shared.at
    BY <1>2, <1>3, <1>4 DEF DescribeSource, DescribeShared
  <1>6. github' = g
    <2>1. github' = IF github.shared # proc[r].post.seen THEN github ELSE [github EXCEPT !.shared = m]
      BY <1>1 DEF Describe!WriteShared, Describe!Unwritten
    <2> QED
      BY <1>2, <1>3, <1>4, <2>1 DEF DescribeSource
  <1>7. proc[r].pc = "write_shared" /\ proc[r].pc \in DescribeSharing
    BY DEF Describe!WriteShared, DescribeSharing
  <1>8. CASE github.shared # proc[r].post.seen /\ m # proc[r].post.seen /\ proc[r].post.attempts < MaxAttempts
    <2>1. PICK p : p = [proc[r] EXCEPT !.pc = "read_shared"]
      OBVIOUS
    <2>2. p \in DescribeProcess /\ p.pc = "read_shared" /\ p.next = proc[r].next /\ p.post = proc[r].post /\
            p.exit = proc[r].exit
      BY <2>1, DescribeOne DEF DescribeProcess, Describe!Pcs
    <2>3. proc' = [proc EXCEPT ![r] = p]
      BY <1>1, <1>8, <2>1 DEF Describe!WriteShared, Describe!Unwritten, DescribeInv, DescribeTypes
    <2>4. DescribeAt(p) = DescribeAt(proc[r])
      BY <1>7, <2>2 DEF DescribeAt, DescribeIndexing, DescribeSharing
    <2>5. DescribePlaced(p, state[r])
      BY <1>7, <1>8, <2>2, <2>4, DescribeOne DEF DescribePlaced, DescribeIndexing, DescribeSharing
    <2>6. DescribeAsked(p, state[r], hosted[r])
      BY <2>4, DescribeOne DEF DescribeAsked
    <2>7. DescribeDecided(p, state[r], hosted[r], local, github)
      BY <2>2, <2>4, DescribeOne DEF DescribeDecided
    <2> QED
      BY <1>1, <1>2, <1>5, <1>6, <1>8, <2>2, <2>3, <2>5, <2>6, <2>7
  <1>9. CASE ~(github.shared # proc[r].post.seen /\ m # proc[r].post.seen /\ proc[r].post.attempts < MaxAttempts)
    <2>1. PICK p \in DescribeProcess :
            /\ [proc EXCEPT ![r] = Describe!Shared(@)] = [proc EXCEPT ![r] = p]
            /\ p.pc = proc[r].next /\ p.next = "none" /\ p.post = Describe!NoPost /\ p.exit = proc[r].exit
            /\ p.pc \in DescribeNext /\ DescribePlaced(p, state[r]) /\ DescribeAsked(p, state[r], hosted[r])
            /\ DescribeDecided(p, state[r], hosted[r], local, github)
      BY <1>7, DescribeReturned
    <2>2. proc' = [proc EXCEPT ![r] = Describe!Shared(@)]
      BY <1>1, <1>9 DEF Describe!WriteShared, Describe!Unwritten
    <2>3. proc[r].post.attempts \in Nat /\ MaxAttempts \in Nat
      BY <1>4, DescribeConstants DEF DescribePost
    <2>4. github.shared = proc[r].post.seen \/ Describe!Merged(proc[r].post) = proc[r].post.seen \/
            proc[r].post.attempts >= MaxAttempts
      BY <1>1, <1>9, <2>3
    <2>5. p.pc \notin {"update", "write_shared", "error"}
      BY <2>1 DEF DescribeNext
    <2> QED
      BY <1>1, <1>2, <1>5, <1>6, <2>1, <2>2, <2>4, <2>5
  <1> QED
    BY <1>8, <1>9

LEMMA DescribeWriteShared ==
  ASSUME Describe!PrDescriptionAssumption, DescribeInv, NEW r \in Runs, Describe!WriteShared(r)
  PROVE  DescribeInv'
  <1>1. PICK p \in DescribeProcess, g \in DescribeSource :
           /\ proc' = [proc EXCEPT ![r] = p] /\ github' = g /\ g.past = github.past /\ github.shared.at <= g.shared.at
           /\ p.pc \notin {"update", "write_shared", "error"} /\ DescribePlaced(p, state[r])
           /\ DescribeAsked(p, state[r], hosted[r])
           /\ DescribeDecided(p, state[r], hosted[r], local, github)
    BY DescribeWritten
  <1>2. PICK s, h, l : s = state[r] /\ h = hosted[r] /\ l = local
    OBVIOUS
  <1>3. /\ state' = [state EXCEPT ![r] = s] /\ hosted' = [hosted EXCEPT ![r] = h] /\ local' = l /\ l \in DescribeLocal
        /\ s \in DescribeFile /\ h \in DescribeHosted /\ g.past # <<>> /\ budget' \in 0..MaxEvents
    BY <1>1, <1>2, DescribeOne, DescribeReading DEF Describe!WriteShared, DescribeInv, DescribeTypes
  <1>4. DescribeSettled(r, s, h, g) /\ DescribeDecided(p, s, h, l, g) /\ DescribeLocked(r, p, l, g)
    BY <1>1, <1>2, DescribeOne DEF DescribeSettled, DescribeDecided, DescribeLocked
  <1>5. DescribeRun(r, p, s, h, l, g)
    BY <1>1, <1>2, <1>4 DEF DescribeRun
  <1>6. DescribeLater(github, g) /\ DescribeKept(l, g)
    BY <1>1, <1>2, DescribeReading DEF DescribeLater, DescribeKept
  <1> QED
    BY <1>1, <1>2, <1>3, <1>5, <1>6, DescribeThen

\* The budget only gets smaller.
LEMMA DescribeSpends ==
  ASSUME Describe!PrDescriptionAssumption, DescribeInv, budget > 0, budget' = budget - 1
  PROVE  budget' \in 0..MaxEvents /\ budget' # MaxEvents
  BY DescribeConstants, DescribeReading

LEMMA DescribeShareFails ==
  ASSUME Describe!PrDescriptionAssumption, DescribeInv, NEW r \in Runs, Describe!ShareFails(r)
  PROVE  DescribeInv'
  <1>1. proc[r].pc \in DescribeSharing
    BY DEF Describe!ShareFails, DescribeSharing
  <1>2. PICK p \in DescribeProcess :
            /\ [proc EXCEPT ![r] = Describe!Shared(@)] = [proc EXCEPT ![r] = p]
            /\ p.pc \in DescribeNext /\ DescribePlaced(p, state[r]) /\ DescribeAsked(p, state[r], hosted[r])
            /\ DescribeDecided(p, state[r], hosted[r], local, github)
    BY <1>1, DescribeReturned
  <1>3. PICK s, h, l, g : s = state[r] /\ h = hosted[r] /\ l = local /\ g = github
    OBVIOUS
  <1>4. budget' \in 0..MaxEvents
    BY DescribeSpends DEF Describe!ShareFails
  <1>5. /\ proc' = [proc EXCEPT ![r] = p] /\ UNCHANGED <<github, local, hosted, state>>
    BY <1>2 DEF Describe!ShareFails
  <1>6. /\ state' = [state EXCEPT ![r] = s] /\ hosted' = [hosted EXCEPT ![r] = h] /\ local' = l /\ l \in DescribeLocal
        /\ github' = g /\ s \in DescribeFile /\ h \in DescribeHosted /\ g \in DescribeSource /\ g.past # <<>>
    BY <1>3, <1>5, DescribeOne, DescribeReading DEF DescribeInv, DescribeTypes
  <1>7. DescribeLocked(r, p, l, g)
    BY <1>2 DEF DescribeLocked, DescribeNext
  <1>8. DescribeRun(r, p, s, h, l, g)
    BY <1>2, <1>3, <1>7, DescribeOne DEF DescribeRun
  <1>9. DescribeLater(github, g) /\ DescribeKept(l, g)
    BY <1>3, DescribeReading DEF DescribeLater, DescribeShared
  <1> QED
    BY <1>3, <1>4, <1>5, <1>6, <1>8, <1>9, DescribeThen

-----------------------------------------------------------------------------
(* The task of a run *)

\* A sweep begins: a file with a task that is not asked for yet.
LEMMA DescribeReserve ==
  ASSUME Describe!PrDescriptionAssumption, DescribeInv, NEW r \in Runs, NEW sweep \in 1..MaxSweeps,
         Describe!Reserve(r, sweep),
         UNCHANGED <<github, hosted, budget>>,
         state[r].exists => state[r].sweep < sweep /\ state[r].task.status \in {"completed", "head_changed"}
  PROVE  DescribeInv'
  <1>1. PICK run, pr, now : run = state[r].task.run + 1 /\ pr = Describe!Live /\ now = local.now + 1
    OBVIOUS
  <1>2. PICK task : task = [status |-> "reserved", run |-> run, decision |-> "none"]
    OBVIOUS
  <1>3. PICK f : f = [exists |-> TRUE, at |-> now, sweep |-> sweep, pr |-> pr, validated |-> 0, cleared |-> FALSE,
          task |-> task]
    OBVIOUS
  <1>4. state[r].task.run \in Nat /\ state[r].sweep \in Nat /\ local.now \in Nat /\ pr \in DescribePr /\
          sweep \in 0..MaxSweeps
    <2>1. state[r].task \in DescribeTask /\ state[r] \in DescribeFile /\ local \in DescribeLocal /\
            Describe!Live \in DescribePr
      BY DescribeOne, DescribeReading
    <2>2. sweep \in 0..MaxSweeps
      BY DescribeConstants
    <2>3. state[r].task.run \in Nat /\ local.now \in Nat
      BY <2>1 DEF DescribeTask, DescribeLocal
    <2>4. state[r].sweep \in Nat
      BY <2>1, DescribeConstants DEF DescribeFile
    <2> QED
      BY <1>1, <2>1, <2>2, <2>3, <2>4
  <1>5. task \in DescribeTask /\ task.status = "reserved" /\ task.run = state[r].task.run + 1
    BY <1>1, <1>2, <1>4 DEF DescribeTask, Describe!Statuses, Describe!Decisions
  <1>6. f \in DescribeFile /\ f.exists /\ f.sweep = sweep /\ f.task = task /\ f.validated = 0
    BY <1>1, <1>3, <1>4, <1>5 DEF DescribeFile
  <1>7. f = Describe!Reserved(r, sweep)
    BY <1>1, <1>2, <1>3 DEF Describe!Reserved
  <1>8. PICK rest : rest = Describe!Resting("none")
    OBVIOUS
  <1>9. rest \in DescribeProcess
    BY <1>8, DescribeRest
  <1>10. PICK p : p = [rest EXCEPT !.pc = "lock", !.next = "dispatch", !.sweep = sweep]
    OBVIOUS
  <1>11. p \in DescribeProcess /\ p.pc = "lock" /\ p.next = "dispatch"
    BY <1>4, <1>9, <1>10 DEF DescribeProcess, Describe!Pcs
  <1>12. proc' = [proc EXCEPT ![r] = p] /\ Describe!Save(r, f)
    BY <1>7, <1>8, <1>10 DEF Describe!Reserve, Describe!Save
  <1>13. DescribeAt(p) = "dispatch"
    BY <1>11 DEF DescribeAt, DescribeIndexing
  <1>14. f.task.run \in 1..f.sweep
    BY <1>4, <1>5, <1>6, DescribeOne DEF DescribePlaced
  <1>15. DescribePlaced(p, f)
    BY <1>5, <1>6, <1>11, <1>13, <1>14 DEF DescribePlaced, DescribeIndexing, DescribeNext, DescribeProposing
  <1>16. hosted[r].asked < f.task.run /\ hosted[r].status # "running"
    <2>1. hosted[r].asked <= state[r].task.run /\ hosted[r].asked \in Nat
      BY DescribeOne DEF DescribeAsked, DescribeHosted
    <2>2. state[r].task.status \notin {"running", "failed"}
      BY DescribeOne DEF DescribePlaced
    <2> QED
      BY <1>4, <1>5, <1>6, <2>1, <2>2, DescribeOne DEF DescribeAsked
  <1>17. DescribeAsked(p, f, hosted[r])
    BY <1>4, <1>5, <1>6, <1>13, <1>16, DescribeOne DEF DescribeAsked, DescribeHosted, Describe!Resumable,
      DescribeProposing
  <1>18. DescribeSettled(r, f, hosted[r], github) /\ DescribeDecided(p, f, hosted[r], local, github)
    BY <1>6, <1>11, <1>13 DEF DescribeSettled, DescribeDecided, DescribeProposing
  <1> QED
    BY <1>6, <1>11, <1>12, <1>15, <1>17, <1>18, DescribeWrites

LEMMA DescribeLaunchAlone ==
  ASSUME Describe!PrDescriptionAssumption, DescribeInv, NEW r \in Runs, Describe!LaunchAlone(r)
  PROVE  DescribeInv'
  <1>1. 1 \in 1..MaxSweeps
    BY DescribeConstants
  <1> QED
    BY <1>1, DescribeReserve DEF Describe!LaunchAlone

\* The process is gone.
LEMMA DescribeExits ==
  ASSUME Describe!PrDescriptionAssumption, DescribeInv, NEW r \in Runs,
         NEW exit \in {"none", "waiting", "done", "head_changed", "error"},
         Describe!Exit(r, exit), UNCHANGED <<github, local, hosted, state, budget>>
  PROVE  DescribeInv'
  <1>1. PICK p : p = Describe!Resting(exit)
    OBVIOUS
  <1>2. p \in DescribeProcess /\ p.pc = "idle" /\ p.next = "none" /\ proc' = [proc EXCEPT ![r] = p]
    BY <1>1, DescribeRest DEF Describe!Exit
  <1>3. DescribeAt(p) = "idle"
    BY <1>2 DEF DescribeAt, DescribeIndexing, DescribeSharing
  <1>4. DescribePlaced(p, state[r])
    BY <1>2, <1>3, DescribeOne DEF DescribePlaced, DescribeIndexing, DescribeSharing, DescribeProposing
  <1>5. DescribeAsked(p, state[r], hosted[r]) /\ DescribeDecided(p, state[r], hosted[r], local, github)
    BY <1>2, <1>3, DescribeOne DEF DescribeAsked, DescribeDecided, DescribeProposing
  <1> QED
    BY <1>2, <1>4, <1>5, DescribeGoes

\* A bounded call goes on with a task, begins the next sweep, or is refused.
LEMMA DescribeLaunchBounded ==
  ASSUME Describe!PrDescriptionAssumption, DescribeInv, NEW r \in Runs, Describe!LaunchBounded(r)
  PROVE  DescribeInv'
  <1>1. PICK sweep \in {state[r].sweep, state[r].sweep + 1} \cap (1..MaxSweeps) :
          IF state[r].task.status \in Describe!Resumable
          THEN /\ proc' = [proc EXCEPT ![r] =
                 IF state[r].sweep # sweep THEN Describe!Resting("error")
                 ELSE [Describe!Resting("none") EXCEPT !.sweep = sweep,
                         !.pc = IF ~Describe!Checkpointed(r) THEN "error" ELSE IF state[r].task.status =
                           "running" THEN "observe" ELSE "accept"]]
               /\ UNCHANGED <<state, local>>
          ELSE IF Describe!MayEnter(r, sweep) THEN Describe!Reserve(r, sweep)
          ELSE Describe!Exit(r, "error") /\ UNCHANGED <<state, local>>
    BY DEF Describe!LaunchBounded
  <1>2. sweep \in 1..MaxSweeps /\ sweep \in 0..MaxSweeps /\ UNCHANGED <<github, hosted, budget>>
    BY <1>1, DescribeConstants DEF Describe!LaunchBounded
  <1>3. CASE state[r].task.status \in Describe!Resumable /\ state[r].sweep = sweep
    <2>1. PICK pc, rest : /\ rest = Describe!Resting("none")
                          /\ pc = IF ~Describe!Checkpointed(r) THEN "error" ELSE IF state[r].task.status =
                               "running" THEN "observe" ELSE "accept"
      OBVIOUS
    <2>2. PICK p : p = [rest EXCEPT !.sweep = sweep, !.pc = pc]
      OBVIOUS
    <2>3. rest \in DescribeProcess /\ rest.next = "none"
      BY <2>1, DescribeRest
    <2>4. pc \in {"error", "observe", "accept"} /\ pc \in Describe!Pcs
      BY <2>1 DEF Describe!Pcs
    <2>5. p \in DescribeProcess /\ p.pc = pc /\ p.next = "none"
      BY <1>2, <2>2, <2>3, <2>4 DEF DescribeProcess
    <2>6. proc' = [proc EXCEPT ![r] = p] /\ UNCHANGED <<github, local, hosted, state, budget>>
      BY <1>1, <1>2, <1>3, <2>1, <2>2
    <2>7. DescribeAt(p) = pc
      BY <2>4, <2>5 DEF DescribeAt, DescribeIndexing, DescribeSharing
    <2>8. state[r].task.status \in {"running", "result_ready"} /\ state[r].exists
      BY <1>3, DescribeOne DEF Describe!Resumable, DescribePlaced
    <2>9. pc = "observe" => state[r].task.status = "running"
      BY <2>1
    <2>10. pc = "accept" => state[r].task.status = "result_ready"
      BY <2>1, <2>8
    <2>11. pc # "error" => hosted[r].asked = state[r].task.run
      BY <2>1 DEF Describe!Checkpointed
    <2>12. DescribePlaced(p, state[r])
      BY <2>4, <2>5, <2>7, <2>8, <2>9, DescribeOne DEF DescribePlaced, DescribeIndexing, DescribeSharing,
        DescribeProposing, Describe!Resumable, DescribeNext
    <2>13. DescribeAsked(p, state[r], hosted[r])
      BY <2>4, <2>7, <2>8, <2>10, <2>11, DescribeOne DEF DescribeAsked, DescribeProposing, Describe!Resumable
    <2>14. DescribeDecided(p, state[r], hosted[r], local, github)
      BY <2>4, <2>5, <2>7 DEF DescribeDecided, DescribeProposing
    <2> QED
      BY <2>4, <2>5, <2>6, <2>12, <2>13, <2>14, DescribeGoes
  <1>4. CASE state[r].task.status \in Describe!Resumable /\ state[r].sweep # sweep
    BY <1>1, <1>2, <1>4, DescribeExits DEF Describe!Exit
  <1>5. CASE state[r].task.status \notin Describe!Resumable /\ Describe!MayEnter(r, sweep)
    BY <1>1, <1>2, <1>5, DescribeReserve DEF Describe!MayEnter
  <1>6. CASE state[r].task.status \notin Describe!Resumable /\ ~Describe!MayEnter(r, sweep)
    BY <1>1, <1>2, <1>6, DescribeExits
  <1> QED
    BY <1>3, <1>4, <1>5, <1>6

\* The file with another state of its task.
LEMMA DescribeMarks ==
  ASSUME DescribeInv, NEW r \in Runs, NEW status \in Describe!Statuses
  PROVE  \E f \in DescribeFile :
           /\ f = [state[r] EXCEPT !.task.status = status]
           /\ f.exists = state[r].exists /\ f.sweep = state[r].sweep /\ f.pr = state[r].pr
           /\ f.validated = state[r].validated
           /\ f.cleared = state[r].cleared /\ f.task.status = status /\ f.task.run = state[r].task.run
  <1>1. PICK task : task = [state[r].task EXCEPT !.status = status]
    OBVIOUS
  <1>2. task \in DescribeTask /\ task.status = status /\ task.run = state[r].task.run
    BY <1>1, DescribeOne DEF DescribeTask
  <1>3. PICK f : f = [state[r] EXCEPT !.task = task]
    OBVIOUS
  <1>4. /\ f \in DescribeFile /\ f.exists = state[r].exists /\ f.sweep = state[r].sweep /\ f.pr = state[r].pr
        /\ f.validated = state[r].validated /\ f.cleared = state[r].cleared /\ f.task = task
    BY <1>2, <1>3, DescribeOne DEF DescribeFile
  <1>5. f = [state[r] EXCEPT !.task.status = status]
    BY <1>1, <1>3
  <1> QED
    BY <1>2, <1>4, <1>5

\* The file is written, and the index is to be brought up to date.
LEMMA DescribeRefreshes ==
  ASSUME DescribeInv, NEW r \in Runs, NEW f, NEW next \in DescribeNext, Describe!SaveAndRefresh(r, f, next)
  PROVE  \E p \in DescribeProcess :
           /\ Describe!Save(r, f) /\ proc' = [proc EXCEPT ![r] = p] /\ p.pc = "lock" /\ p.next = next
           /\ p.post = proc[r].post
           /\ DescribeAt(p) = next
  BY DescribeRefresh DEF Describe!SaveAndRefresh

LEMMA DescribeDispatch ==
  ASSUME Describe!PrDescriptionAssumption, DescribeInv, NEW r \in Runs, Describe!Dispatch(r)
  PROVE  DescribeInv'
  <1>1. PICK f \in DescribeFile :
           /\ f = [state[r] EXCEPT !.task.status = "running"]
           /\ f.exists = state[r].exists /\ f.sweep = state[r].sweep /\ f.pr = state[r].pr
           /\ f.validated = state[r].validated
           /\ f.cleared = state[r].cleared /\ f.task.status = "running" /\ f.task.run = state[r].task.run
    BY DescribeMarks DEF Describe!Statuses
  <1>2. PICK p \in DescribeProcess : Describe!Save(r, f) /\ proc' = [proc EXCEPT ![r] = p] /\ p.pc = "lock" /\
          p.next = "send" /\ DescribeAt(p) = "send"
    BY <1>1, DescribeRefreshes DEF Describe!Dispatch, DescribeNext
  <1>3. Describe!Save(r, f) /\ proc' = [proc EXCEPT ![r] = p] /\ proc[r].pc = "dispatch"
    BY <1>1, <1>2 DEF Describe!Dispatch
  <1>4. DescribeAt(proc[r]) = "dispatch"
    BY <1>3 DEF DescribeAt, DescribeIndexing, DescribeSharing
  <1>5. state[r].task.status = "reserved" /\ state[r].exists
    BY <1>3, <1>4, DescribeOne DEF DescribePlaced
  <1>6. DescribePlaced(p, f)
    BY <1>1, <1>2, <1>5, DescribeOne DEF DescribePlaced, DescribeIndexing, DescribeProposing, DescribeNext
  <1>7. hosted[r].asked < state[r].task.run /\ hosted[r].status # "running" /\ state[r].validated = 0
    BY <1>5, DescribeOne DEF DescribeAsked
  <1>8. hosted[r].asked \in Nat /\ state[r].task.run \in Nat
    BY DescribeOne DEF DescribeHosted, DescribeTask
  <1>9. DescribeAsked(p, f, hosted[r])
    BY <1>1, <1>2, <1>7, <1>8 DEF DescribeAsked, DescribeProposing
  <1>10. DescribeSettled(r, f, hosted[r], github) /\ DescribeDecided(p, f, hosted[r], local, github)
    BY <1>1, <1>2, <1>7 DEF DescribeSettled, DescribeDecided, DescribeProposing
  <1> QED
    BY <1>2, <1>3, <1>6, <1>9, <1>10, DescribeWrites

\* What the hosted side has after the task is asked for.
LEMMA DescribeSent ==
  ASSUME Describe!PrDescriptionAssumption, DescribeInv, NEW r \in Runs, Describe!Send(r)
  PROVE  \E h \in DescribeHosted, p \in DescribeProcess :
           /\ hosted' = [hosted EXCEPT ![r] = h] /\ proc' = [proc EXCEPT ![r] = p]
           /\ UNCHANGED <<github, local, state, budget>>
           /\ h.status = "running" /\ h.pr = state[r].pr /\ h.asked = state[r].task.run
           /\ p.pc \in {"waiting", "observe"} /\ p.next = proc[r].next
           /\ state[r].task.status = "running" /\ hosted[r].asked < state[r].task.run /\ hosted[r].status # "running"
           /\ state[r].exists /\ proc[r].next = "none"
  <1>1. PICK h, pr, run : pr = state[r].pr /\ run = state[r].task.run /\
          h = [status |-> "running", pr |-> pr, decision |-> "none", asked |-> run]
    <2>1. PICK pr, run : pr = state[r].pr /\ run = state[r].task.run
      OBVIOUS
    <2> QED
      BY <2>1
  <1>2. pr \in DescribePr /\ run \in Nat
    BY <1>1, DescribeOne DEF DescribeTask
  <1>3. h \in DescribeHosted /\ h.status = "running" /\ h.pr = pr /\ h.asked = run
    BY <1>1, <1>2 DEF DescribeHosted, Describe!Decisions
  <1>4. PICK pc : pc = IF Bounded THEN "waiting" ELSE "observe"
    OBVIOUS
  <1>5. pc \in {"waiting", "observe"} /\ pc \in Describe!Pcs
    BY <1>4 DEF Describe!Pcs
  <1>6. PICK p \in DescribeProcess : (Describe!Goto(r, pc) => proc' = [proc EXCEPT ![r] = p]) /\ p.pc = pc /\
          p.next = proc[r].next
    BY <1>5, DescribeGoto
  <1>7. hosted' = [hosted EXCEPT ![r] = h] /\ proc' = [proc EXCEPT ![r] = p] /\
          UNCHANGED <<github, local, state, budget>> /\ proc[r].pc = "send"
    BY <1>1, <1>4, <1>6 DEF Describe!Send
  <1>8. DescribeAt(proc[r]) = "send"
    BY <1>7 DEF DescribeAt, DescribeIndexing, DescribeSharing
  <1>9. state[r].task.status = "running" /\ state[r].exists /\ proc[r].next = "none"
    BY <1>7, <1>8, DescribeOne DEF DescribePlaced, DescribeIndexing, DescribeSharing
  <1>10. hosted[r].asked < state[r].task.run
    BY <1>8, DescribeOne DEF DescribeAsked
  <1>11. hosted[r].status # "running"
    BY <1>2, <1>1, <1>10, DescribeOne DEF DescribeAsked, DescribeHosted
  <1> QED
    BY <1>1, <1>3, <1>5, <1>6, <1>7, <1>9, <1>10, <1>11

LEMMA DescribeSend ==
  ASSUME Describe!PrDescriptionAssumption, DescribeInv, NEW r \in Runs, Describe!Send(r)
  PROVE  DescribeInv'
  <1>1. PICK h \in DescribeHosted, p \in DescribeProcess :
           /\ hosted' = [hosted EXCEPT ![r] = h] /\ proc' = [proc EXCEPT ![r] = p]
           /\ UNCHANGED <<github, local, state, budget>>
           /\ h.status = "running" /\ h.pr = state[r].pr /\ h.asked = state[r].task.run
           /\ p.pc \in {"waiting", "observe"} /\ p.next = proc[r].next
           /\ state[r].task.status = "running" /\ state[r].exists /\ proc[r].next = "none"
    BY DescribeSent
  <1>2. PICK s, l, g : s = state[r] /\ l = local /\ g = github
    OBVIOUS
  <1>3. /\ state' = [state EXCEPT ![r] = s] /\ local' = l /\ github' = g /\ s \in DescribeFile /\ l \in DescribeLocal
        /\ g \in DescribeSource
        /\ g.past # <<>> /\ budget' \in 0..MaxEvents
    BY <1>1, <1>2, DescribeOne, DescribeReading DEF DescribeInv, DescribeTypes
  <1>4. DescribeAt(p) = p.pc
    BY <1>1 DEF DescribeAt, DescribeIndexing, DescribeSharing
  <1>5. DescribePlaced(p, s)
    BY <1>1, <1>2, <1>4, DescribeOne DEF DescribePlaced, DescribeIndexing, DescribeSharing, DescribeProposing
  <1>6. s.validated = 0 /\ s.task.run \in Nat
    BY <1>1, <1>2, DescribeOne DEF DescribeAsked, DescribeTask
  <1>7. DescribeAsked(p, s, h)
    BY <1>1, <1>2, <1>4, <1>6 DEF DescribeAsked, DescribeProposing
  <1>8. DescribeSettled(r, s, h, g) /\ DescribeDecided(p, s, h, l, g) /\ DescribeLocked(r, p, l, g)
    BY <1>1, <1>4, <1>6 DEF DescribeSettled, DescribeDecided, DescribeLocked, DescribeProposing
  <1>9. DescribeRun(r, p, s, h, l, g)
    BY <1>5, <1>7, <1>8 DEF DescribeRun
  <1>10. DescribeLater(github, g) /\ DescribeKept(l, g)
    BY <1>2, DescribeReading DEF DescribeLater, DescribeShared
  <1> QED
    BY <1>1, <1>2, <1>3, <1>9, <1>10, DescribeThen

\* The hosted task ends, with the same process and file.
LEMMA DescribeEnds ==
  ASSUME DescribeInv, NEW r \in Runs, Describe!HostedEnds(r)
  PROVE  \E h \in DescribeHosted :
           /\ hosted' = [hosted EXCEPT ![r] = h] /\ UNCHANGED <<github, local, state, proc, budget>>
           /\ h.status \in {"success", "failure"} /\ h.pr = hosted[r].pr /\ h.asked = hosted[r].asked
           /\ hosted[r].status = "running"
  <1>1. PICK status \in {"success", "failure"}, said \in {"keep", "replace"} :
          hosted' = [hosted EXCEPT ![r].status = status, ![r].decision = IF status = "success" THEN said ELSE "none"]
    BY DEF Describe!HostedEnds
  <1>2. PICK decision : decision = IF status = "success" THEN said ELSE "none"
    OBVIOUS
  <1>3. decision \in Describe!Decisions
    BY <1>1, <1>2 DEF Describe!Decisions
  <1>4. PICK h : h = [hosted[r] EXCEPT !.status = status, !.decision = decision]
    OBVIOUS
  <1>5. h \in DescribeHosted /\ h.status = status /\ h.pr = hosted[r].pr /\ h.asked = hosted[r].asked
    BY <1>1, <1>3, <1>4, DescribeOne DEF DescribeHosted
  <1>6. hosted' = [hosted EXCEPT ![r] = h]
    BY <1>1, <1>2, <1>4 DEF DescribeInv, DescribeTypes
  <1> QED
    BY <1>1, <1>5, <1>6 DEF Describe!HostedEnds

LEMMA DescribeHostedEnds ==
  ASSUME Describe!PrDescriptionAssumption, DescribeInv, NEW r \in Runs, Describe!HostedEnds(r)
  PROVE  DescribeInv'
  <1>1. PICK h \in DescribeHosted :
           /\ hosted' = [hosted EXCEPT ![r] = h] /\ UNCHANGED <<github, local, state, proc, budget>>
           /\ h.status \in {"success", "failure"} /\ h.pr = hosted[r].pr /\ h.asked = hosted[r].asked
           /\ hosted[r].status = "running"
    BY DescribeEnds
  <1>2. PICK p, s, l, g : p = proc[r] /\ s = state[r] /\ l = local /\ g = github
    OBVIOUS
  <1>3. /\ proc' = [proc EXCEPT ![r] = p] /\ state' = [state EXCEPT ![r] = s] /\ local' = l /\ github' = g
        /\ p \in DescribeProcess /\ s \in DescribeFile /\ l \in DescribeLocal /\ g \in DescribeSource
        /\ g.past # <<>> /\ budget' \in 0..MaxEvents
    BY <1>1, <1>2, DescribeOne, DescribeReading DEF DescribeInv, DescribeTypes
  <1>4. s.task.status \in {"running", "failed"} /\ s.validated = 0 /\ hosted[r].asked = s.task.run
    BY <1>1, <1>2, DescribeOne DEF DescribeAsked
  <1>5. DescribeAt(p) \notin {"keep"} \cup DescribeProposing /\ DescribePlaced(p, s) /\ DescribeLocked(r, p, l, g)
    BY <1>2, <1>4, DescribeOne DEF DescribePlaced
  <1>6. DescribeAt(p) # "accept"
    BY <1>1, <1>2, DescribeOne DEF DescribeAsked
  <1>7. DescribeAsked(p, s, h)
    BY <1>1, <1>2, <1>4, <1>5, <1>6, DescribeOne DEF DescribeAsked
  <1>8. p.pc # "patch"
    BY <1>5 DEF DescribeAt, DescribeIndexing, DescribeSharing, DescribeProposing
  <1>9. DescribeSettled(r, s, h, g) /\ DescribeDecided(p, s, h, l, g)
    BY <1>4, <1>5, <1>8 DEF DescribeSettled, DescribeDecided
  <1>10. DescribeRun(r, p, s, h, l, g)
    BY <1>5, <1>7, <1>9 DEF DescribeRun
  <1>11. DescribeLater(github, g) /\ DescribeKept(l, g)
    BY <1>2, DescribeReading DEF DescribeLater, DescribeShared
  <1> QED
    BY <1>1, <1>2, <1>3, <1>10, <1>11, DescribeThen

\* A place where the index is up to date and the process holds nothing.
DescribePlain == {"observe", "accept", "keep", "propose", "check", "patch", "verify", "clear", "finalize", "waiting",
  "head_changed"}

LEMMA DescribeStands ==
  ASSUME DescribeInv, NEW r \in Runs, proc[r].pc \in DescribePlain
  PROVE  /\ DescribeAt(proc[r]) = proc[r].pc /\ proc[r].next = "none" /\ state[r].exists
         /\ proc[r].pc = "observe" => state[r].task.status = "running"
         /\ proc[r].pc = "accept" => state[r].task.status \in Describe!Resumable
         /\ proc[r].pc \in DescribeProposing \cup {"keep", "clear"} => state[r].task.status = "validated"
         /\ proc[r].pc = "finalize" => state[r].task.status = "completed"
         /\ proc[r].pc \in {"observe", "accept", "keep"} \cup DescribeProposing =>
              hosted[r].asked = state[r].task.run /\ hosted[r].pr = state[r].pr
         /\ proc[r].pc \in {"accept", "keep"} \cup DescribeProposing => hosted[r].status = "success"
         /\ proc[r].pc \in {"observe", "accept"} => state[r].validated = 0
  <1>1. DescribeAt(proc[r]) = proc[r].pc /\ proc[r].next = "none" /\ state[r].exists
    BY DescribeOne DEF DescribePlain, DescribeAt, DescribeIndexing, DescribeSharing, DescribePlaced
  <1>2. /\ proc[r].pc = "observe" => state[r].task.status = "running"
        /\ proc[r].pc = "accept" => state[r].task.status \in Describe!Resumable
        /\ proc[r].pc \in DescribeProposing \cup {"keep", "clear"} => state[r].task.status = "validated"
        /\ proc[r].pc = "finalize" => state[r].task.status = "completed"
    BY <1>1, DescribeOne DEF DescribePlaced
  <1>3. proc[r].pc \in {"observe", "accept"} => state[r].validated = 0
    BY <1>2, DescribeOne DEF DescribeAsked, Describe!Resumable
  <1> QED
    BY <1>1, <1>2, <1>3, DescribeOne DEF DescribeAsked

LEMMA DescribeObserve ==
  ASSUME Describe!PrDescriptionAssumption, DescribeInv, NEW r \in Runs, Describe!Observe(r)
  PROVE  DescribeInv'
  <1>1. /\ proc[r].pc = "observe" /\ DescribeAt(proc[r]) = "observe" /\ proc[r].next = "none" /\ state[r].exists
        /\ state[r].task.status = "running" /\ hosted[r].asked = state[r].task.run /\ hosted[r].pr = state[r].pr
        /\ state[r].validated = 0
    BY DescribeStands DEF Describe!Observe, DescribePlain
  <1>2. CASE Describe!Pending(r)
    <2>1. Describe!Goto(r, "waiting") /\ UNCHANGED <<github, local, hosted, state, budget>>
      BY <1>2 DEF Describe!Observe
    <2>2. PICK p \in DescribeProcess : proc' = [proc EXCEPT ![r] = p] /\ p.pc = "waiting" /\ p.next = proc[r].next
      BY <2>1, DescribeGoto DEF Describe!Pcs
    <2>3. DescribeAt(p) = "waiting"
      BY <2>2 DEF DescribeAt, DescribeIndexing, DescribeSharing
    <2>4. DescribePlaced(p, state[r])
      BY <1>1, <2>2, <2>3, DescribeOne DEF DescribePlaced, DescribeIndexing, DescribeSharing, DescribeProposing
    <2>5. DescribeAsked(p, state[r], hosted[r]) /\ DescribeDecided(p, state[r], hosted[r], local, github)
      BY <2>2, <2>3, DescribeOne DEF DescribeAsked, DescribeDecided, DescribeProposing
    <2> QED
      BY <2>1, <2>2, <2>4, <2>5, DescribeGoes
  <1>3. CASE ~Describe!Pending(r) /\ ~Describe!Succeeded(r)
    <2>1. Describe!Goto(r, "error") /\ UNCHANGED <<github, local, hosted, state, budget>>
      BY <1>3 DEF Describe!Observe
    <2> QED
      BY <1>1, <2>1, DescribeErrs DEF DescribeIndexing, DescribeSharing
  <1>4. CASE ~Describe!Pending(r) /\ Describe!Succeeded(r) /\ Bounded
    <2>1. Describe!SaveAndRefresh(r, [state[r] EXCEPT !.task.status = "result_ready"], "waiting") /\
            hosted[r].status = "success"
      BY <1>4 DEF Describe!Observe, Describe!Succeeded
    <2>2. PICK f \in DescribeFile :
             /\ f = [state[r] EXCEPT !.task.status = "result_ready"]
             /\ f.exists = state[r].exists /\ f.sweep = state[r].sweep /\ f.pr = state[r].pr
             /\ f.validated = state[r].validated
             /\ f.cleared = state[r].cleared /\ f.task.status = "result_ready" /\ f.task.run = state[r].task.run
      BY DescribeMarks DEF Describe!Statuses
    <2>3. PICK p \in DescribeProcess :
             Describe!Save(r, f) /\ proc' = [proc EXCEPT ![r] = p] /\ p.pc = "lock" /\ p.next = "waiting" /\
               DescribeAt(p) = "waiting"
      BY <2>1, <2>2, DescribeRefreshes DEF DescribeNext
    <2>4. DescribePlaced(p, f)
      BY <1>1, <2>2, <2>3, DescribeOne DEF DescribePlaced, DescribeIndexing, DescribeProposing, DescribeNext
    <2>5. DescribeAsked(p, f, hosted[r])
      BY <1>1, <2>1, <2>2, <2>3, DescribeOne DEF DescribeAsked, DescribeProposing
    <2>6. DescribeSettled(r, f, hosted[r], github) /\ DescribeDecided(p, f, hosted[r], local, github)
      BY <1>1, <2>2, <2>3 DEF DescribeSettled, DescribeDecided, DescribeProposing
    <2> QED
      BY <2>3, <2>4, <2>5, <2>6, DescribeWrites
  <1>5. CASE ~Describe!Pending(r) /\ Describe!Succeeded(r) /\ ~Bounded
    <2>1. Describe!Goto(r, "accept") /\ UNCHANGED <<github, local, hosted, state, budget>> /\
            hosted[r].status = "success"
      BY <1>5 DEF Describe!Observe, Describe!Succeeded
    <2>2. PICK p \in DescribeProcess : proc' = [proc EXCEPT ![r] = p] /\ p.pc = "accept" /\ p.next = proc[r].next
      BY <2>1, DescribeGoto DEF Describe!Pcs
    <2>3. DescribeAt(p) = "accept"
      BY <2>2 DEF DescribeAt, DescribeIndexing, DescribeSharing
    <2>4. DescribePlaced(p, state[r])
      BY <1>1, <2>2, <2>3, DescribeOne DEF DescribePlaced, DescribeIndexing, DescribeSharing, DescribeProposing,
        Describe!Resumable
    <2>5. DescribeAsked(p, state[r], hosted[r]) /\ DescribeDecided(p, state[r], hosted[r], local, github)
      BY <1>1, <2>1, <2>2, <2>3, DescribeOne DEF DescribeAsked, DescribeDecided, DescribeProposing
    <2> QED
      BY <2>1, <2>2, <2>4, <2>5, DescribeGoes
  <1> QED
    BY <1>2, <1>3, <1>4, <1>5

LEMMA DescribeAccept ==
  ASSUME Describe!PrDescriptionAssumption, DescribeInv, NEW r \in Runs, Describe!Accept(r)
  PROVE  DescribeInv'
  <1>1. /\ proc[r].pc = "accept" /\ DescribeAt(proc[r]) = "accept" /\ proc[r].next = "none" /\ state[r].exists
        /\ state[r].task.status \in Describe!Resumable /\ hosted[r].asked = state[r].task.run
        /\ hosted[r].pr = state[r].pr
        /\ hosted[r].status = "success" /\ state[r].validated = 0
    BY DescribeStands DEF Describe!Accept, DescribePlain
  <1>2. CASE ~Describe!Unchanged(state[r].pr)
    <2>1. Describe!SaveAndRefresh(r, [state[r] EXCEPT !.task.status = "head_changed"], "head_changed")
      BY <1>2 DEF Describe!Accept
    <2>2. PICK f \in DescribeFile :
             /\ f = [state[r] EXCEPT !.task.status = "head_changed"]
             /\ f.exists = state[r].exists /\ f.sweep = state[r].sweep /\ f.pr = state[r].pr
             /\ f.validated = state[r].validated
             /\ f.cleared = state[r].cleared /\ f.task.status = "head_changed" /\ f.task.run = state[r].task.run
      BY DescribeMarks DEF Describe!Statuses
    <2>3. PICK p \in DescribeProcess :
             Describe!Save(r, f) /\ proc' = [proc EXCEPT ![r] = p] /\ p.pc = "lock" /\ p.next = "head_changed" /\
               DescribeAt(p) = "head_changed"
      BY <2>1, <2>2, DescribeRefreshes DEF DescribeNext
    <2>4. DescribePlaced(p, f)
      BY <1>1, <2>2, <2>3, DescribeOne DEF DescribePlaced, DescribeIndexing, DescribeProposing, DescribeNext
    <2>5. DescribeAsked(p, f, hosted[r])
      BY <1>1, <2>2, <2>3, DescribeOne DEF DescribeAsked, DescribeProposing, Describe!Resumable
    <2>6. DescribeSettled(r, f, hosted[r], github) /\ DescribeDecided(p, f, hosted[r], local, github)
      BY <1>1, <2>2, <2>3 DEF DescribeSettled, DescribeDecided, DescribeProposing
    <2> QED
      BY <2>3, <2>4, <2>5, <2>6, DescribeWrites
  <1>3. CASE Describe!Unchanged(state[r].pr)
    <2>1. PICK decision, pc : /\ decision = hosted[r].decision
                              /\ pc = IF Describe!Decision(r) = "keep" THEN "keep" ELSE IF local.sourceOnly THEN "clear" ELSE "propose"
      OBVIOUS
    <2>2. PICK task : task = [state[r].task EXCEPT !.status = "validated", !.decision = decision]
      OBVIOUS
    <2>3. decision \in Describe!Decisions
      BY <2>1, DescribeOne DEF DescribeHosted
    <2>4. task \in DescribeTask /\ task.status = "validated" /\ task.run = state[r].task.run
      BY <2>2, <2>3, DescribeOne DEF DescribeTask, Describe!Statuses
    <2>5. PICK f : f = [state[r] EXCEPT !.task = task]
      OBVIOUS
    <2>6. /\ f \in DescribeFile /\ f.exists = state[r].exists /\ f.sweep = state[r].sweep /\ f.pr = state[r].pr
          /\ f.validated = state[r].validated /\ f.task = task
      BY <2>4, <2>5, DescribeOne DEF DescribeFile
    <2>7. pc \in {"keep", "clear", "propose"} /\ pc \in Describe!Pcs
      BY <2>1 DEF Describe!Pcs
    <2>8. PICK p \in DescribeProcess : (Describe!Goto(r, pc) => proc' = [proc EXCEPT ![r] = p]) /\ p.pc = pc /\
            p.next = proc[r].next
      BY <2>7, DescribeGoto
    <2>9. Describe!Save(r, [state[r] EXCEPT !.task.status = "validated", !.task.decision = decision]) /\
            Describe!Goto(r, pc)
      BY <1>3, <2>1 DEF Describe!Accept, Describe!Decision
    <2>10. f = [state[r] EXCEPT !.task.status = "validated", !.task.decision = decision]
      BY <2>2, <2>5, DescribeOne DEF DescribeFile, DescribeTask
    <2>11. Describe!Save(r, f)
      BY <2>9, <2>10
    <2>12. DescribeAt(p) = pc
      BY <2>7, <2>8 DEF DescribeAt, DescribeIndexing, DescribeSharing
    <2>13. DescribePlaced(p, f)
      BY <1>1, <2>4, <2>6, <2>7, <2>8, <2>12, DescribeOne DEF DescribePlaced, DescribeIndexing, DescribeSharing,
        DescribeProposing
    <2>14. DescribeAsked(p, f, hosted[r])
      BY <1>1, <2>4, <2>6, <2>7, <2>12, DescribeOne DEF DescribeAsked, DescribeProposing, Describe!Resumable
    <2>15. DescribeDecided(p, f, hosted[r], local, github)
      BY <2>1, <2>7, <2>8, <2>12 DEF DescribeDecided, DescribeProposing, Describe!Decision
    <2>16. DescribeSettled(r, f, hosted[r], github)
      BY <1>1, <2>6 DEF DescribeSettled
    <2> QED
      BY <2>6, <2>7, <2>8, <2>9, <2>11, <2>13, <2>14, <2>15, <2>16, DescribeWrites
  <1> QED
    BY <1>2, <1>3

\* The file with another head on record as settled.
LEMMA DescribeValidates ==
  ASSUME DescribeInv, NEW r \in Runs, NEW head \in Nat
  PROVE  \E f \in DescribeFile :
           /\ f = [state[r] EXCEPT !.validated = head]
           /\ f.exists = state[r].exists /\ f.sweep = state[r].sweep /\ f.pr = state[r].pr /\ f.validated = head
           /\ f.cleared = state[r].cleared /\ f.task = state[r].task
  <1>1. PICK f : f = [state[r] EXCEPT !.validated = head]
    OBVIOUS
  <1>2. /\ f \in DescribeFile /\ f.exists = state[r].exists /\ f.sweep = state[r].sweep /\ f.pr = state[r].pr
        /\ f.validated = head
        /\ f.cleared = state[r].cleared /\ f.task = state[r].task
    BY <1>1, DescribeOne DEF DescribeFile
  <1> QED
    BY <1>1, <1>2

LEMMA DescribeKeep ==
  ASSUME Describe!PrDescriptionAssumption, DescribeInv, NEW r \in Runs, Describe!Keep(r)
  PROVE  DescribeInv'
  <1>1. /\ proc[r].pc = "keep" /\ DescribeAt(proc[r]) = "keep" /\ proc[r].next = "none" /\ state[r].exists
        /\ state[r].task.status = "validated" /\ hosted[r].asked = state[r].task.run /\ hosted[r].pr = state[r].pr
        /\ hosted[r].status = "success"
    BY DescribeStands DEF Describe!Keep, DescribePlain
  <1>2. CASE Describe!Unchanged(state[r].pr)
    <2>1. Describe!SaveAndRefresh(r, [state[r] EXCEPT !.validated = state[r].pr.head], "clear")
      BY <1>2 DEF Describe!Keep
    <2>2. state[r].pr.head \in Nat
      BY DescribeOne DEF DescribePr
    <2>3. PICK f \in DescribeFile :
             /\ f = [state[r] EXCEPT !.validated = state[r].pr.head]
             /\ f.exists = state[r].exists /\ f.sweep = state[r].sweep /\ f.pr = state[r].pr
             /\ f.validated = state[r].pr.head
             /\ f.cleared = state[r].cleared /\ f.task = state[r].task
      BY <2>2, DescribeValidates
    <2>4. PICK p \in DescribeProcess :
             Describe!Save(r, f) /\ proc' = [proc EXCEPT ![r] = p] /\ p.pc = "lock" /\ p.next = "clear" /\
               DescribeAt(p) = "clear"
      BY <2>1, <2>3, DescribeRefreshes DEF DescribeNext
    <2>5. DescribePlaced(p, f)
      BY <1>1, <2>3, <2>4, DescribeOne DEF DescribePlaced, DescribeIndexing, DescribeProposing, DescribeNext
    <2>6. DescribeAsked(p, f, hosted[r])
      BY <1>1, <2>3, <2>4, DescribeOne DEF DescribeAsked, DescribeProposing, Describe!Resumable
    <2>7. DescribeSettled(r, f, hosted[r], github)
      <3>1. Len(github.past) \in 1..Len(github.past) /\ github.past[Len(github.past)] = state[r].pr
        BY <1>2, DescribeReading DEF Describe!Unchanged
      <3>2. hosted[r].decision = "keep"
        BY <1>1, DescribeOne DEF DescribeDecided
      <3> QED
        BY <1>1, <2>3, <3>1, <3>2 DEF DescribeSettled
    <2>8. DescribeDecided(p, f, hosted[r], local, github)
      BY <2>4 DEF DescribeDecided, DescribeProposing
    <2> QED
      BY <2>4, <2>5, <2>6, <2>7, <2>8, DescribeWrites
  <1>3. CASE ~Describe!Unchanged(state[r].pr)
    <2>1. Describe!Goto(r, "error") /\ UNCHANGED <<github, local, hosted, state, budget>>
      BY <1>3 DEF Describe!Keep
    <2> QED
      BY <1>1, <2>1, DescribeErrs DEF DescribeIndexing, DescribeSharing
  <1> QED
    BY <1>2, <1>3

LEMMA DescribePropose ==
  ASSUME Describe!PrDescriptionAssumption, DescribeInv, NEW r \in Runs, Describe!Propose(r)
  PROVE  DescribeInv'
  <1>1. /\ proc[r].pc = "propose" /\ DescribeAt(proc[r]) = "propose" /\ proc[r].next = "none" /\ state[r].exists
        /\ state[r].task.status = "validated" /\ hosted[r].asked = state[r].task.run /\ hosted[r].pr = state[r].pr
        /\ hosted[r].status = "success"
    BY DescribeStands DEF Describe!Propose, DescribePlain, DescribeProposing
  <1>2. PICK f \in DescribeFile :
           /\ f = [state[r] EXCEPT !.validated = 0]
           /\ f.exists = state[r].exists /\ f.sweep = state[r].sweep /\ f.pr = state[r].pr /\ f.validated = 0
           /\ f.cleared = state[r].cleared /\ f.task = state[r].task
    BY DescribeValidates
  <1>3. PICK p \in DescribeProcess : (Describe!Goto(r, "check") => proc' = [proc EXCEPT ![r] = p]) /\ p.pc = "check" /\
          p.next = proc[r].next
    BY DescribeGoto DEF Describe!Pcs
  <1>4. Describe!Save(r, f) /\ proc' = [proc EXCEPT ![r] = p]
    BY <1>2, <1>3 DEF Describe!Propose
  <1>5. DescribeAt(p) = "check"
    BY <1>3 DEF DescribeAt, DescribeIndexing, DescribeSharing
  <1>6. DescribePlaced(p, f)
    BY <1>1, <1>2, <1>3, <1>5, DescribeOne DEF DescribePlaced, DescribeIndexing, DescribeSharing, DescribeProposing
  <1>7. DescribeAsked(p, f, hosted[r])
    BY <1>1, <1>2, <1>5, DescribeOne DEF DescribeAsked, DescribeProposing, Describe!Resumable
  <1>8. DescribeSettled(r, f, hosted[r], github) /\ DescribeDecided(p, f, hosted[r], local, github)
    BY <1>1, <1>2, <1>3, <1>5, DescribeOne DEF DescribeSettled, DescribeDecided, DescribeProposing
  <1> QED
    BY <1>3, <1>4, <1>6, <1>7, <1>8, DescribeWrites

LEMMA DescribeCheck ==
  ASSUME Describe!PrDescriptionAssumption, DescribeInv, NEW r \in Runs, Describe!Check(r)
  PROVE  DescribeInv'
  <1>1. /\ proc[r].pc = "check" /\ DescribeAt(proc[r]) = "check" /\ proc[r].next = "none" /\ state[r].exists
        /\ state[r].task.status = "validated" /\ hosted[r].asked = state[r].task.run /\ hosted[r].pr = state[r].pr
        /\ hosted[r].status = "success"
    BY DescribeStands DEF Describe!Check, DescribePlain, DescribeProposing
  <1>2. PICK pc, read : pc = (IF Describe!Unchanged(state[r].pr) THEN "patch" ELSE "error") /\ read = Len(github.past)
    OBVIOUS
  <1>3. pc \in {"patch", "error"} /\ pc \in Describe!Pcs /\ read \in 1..Len(github.past) /\ read \in Nat
    BY <1>2, DescribeReading DEF Describe!Pcs
  <1>4. PICK p : p = [proc[r] EXCEPT !.pc = pc, !.read = read]
    OBVIOUS
  <1>5. p \in DescribeProcess /\ p.pc = pc /\ p.next = proc[r].next /\ p.read = read
    BY <1>3, <1>4, DescribeOne DEF DescribeProcess
  <1>6. proc' = [proc EXCEPT ![r].pc = pc, ![r].read = read] /\ UNCHANGED <<github, local, hosted, state, budget>>
    BY <1>2 DEF Describe!Check
  <1>7. proc' = [proc EXCEPT ![r] = p]
    BY <1>4, <1>6 DEF DescribeInv, DescribeTypes
  <1>8. DescribeAt(p) = pc
    BY <1>3, <1>5 DEF DescribeAt, DescribeIndexing, DescribeSharing
  <1>9. DescribePlaced(p, state[r])
    BY <1>1, <1>3, <1>5, <1>8, DescribeOne DEF DescribePlaced, DescribeIndexing, DescribeSharing, DescribeProposing
  <1>10. DescribeAsked(p, state[r], hosted[r])
    BY <1>1, <1>3, <1>8, DescribeOne DEF DescribeAsked, DescribeProposing, Describe!Resumable
  <1>11. pc = "patch" => github.past[read] = state[r].pr
    BY <1>2, DescribeReading DEF Describe!Unchanged
  <1>12. DescribeDecided(p, state[r], hosted[r], local, github)
    BY <1>1, <1>3, <1>5, <1>8, <1>11, DescribeOne DEF DescribeDecided, DescribeProposing
  <1> QED
    BY <1>3, <1>5, <1>6, <1>7, <1>9, <1>10, <1>12, DescribeGoes

\* The past grows by what the pull request is now.
LEMMA DescribeAppends ==
  ASSUME DescribeInv, NEW pr \in DescribePr
  PROVE  \E g \in DescribeSource :
           /\ g = [github EXCEPT !.past = Append(@, pr)] /\ g.past # <<>> /\ g.shared = github.shared
           /\ Len(g.past) = Len(github.past) + 1 /\ g.past[Len(g.past)] = pr /\ DescribeLater(github, g)
           /\ \A i \in 1..Len(github.past) : g.past[i] = github.past[i]
           /\ local.sourceOnly /\ pr.text.by = 0 => DescribeKept(local, g)
  <1>1. PICK past : past = Append(github.past, pr)
    OBVIOUS
  <1>2. /\ past \in Seq(DescribePr) /\ past # <<>> /\ Len(past) = Len(github.past) + 1 /\ past[Len(past)] = pr
        /\ \A i \in 1..Len(github.past) : past[i] = github.past[i]
    BY <1>1, DescribeReading
  <1>3. PICK g : g = [github EXCEPT !.past = past]
    OBVIOUS
  <1>4. g \in DescribeSource /\ g.past = past /\ g.shared = github.shared
    BY <1>2, <1>3, DescribeReading DEF DescribeSource
  <1>5. g = [github EXCEPT !.past = Append(@, pr)]
    BY <1>1, <1>3
  <1>6. DescribeLater(github, g)
    <2>1. Len(github.past) \in Nat /\ github.shared.at \in Nat
      BY DescribeReading DEF DescribeShared
    <2> QED
      BY <1>2, <1>4, <2>1 DEF DescribeLater
  <1>7. local.sourceOnly /\ pr.text.by = 0 => DescribeKept(local, g)
    <2>1. ASSUME local.sourceOnly, pr.text.by = 0, NEW i \in 1..Len(g.past) PROVE g.past[i].text.by = 0
      <3>1. i \in 1..Len(github.past) \/ i = Len(past)
        BY <1>2, <1>4, DescribeReading
      <3> QED
        BY <1>2, <1>4, <2>1, <3>1, DescribeReading DEF DescribeKept
    <2> QED
      BY <2>1 DEF DescribeKept
  <1> QED
    BY <1>2, <1>4, <1>5, <1>6, <1>7

\* What is on record as settled stays in a past that grows.
LEMMA DescribeStill ==
  ASSUME DescribeInv, NEW r \in Runs, NEW g \in DescribeSource, DescribeLater(github, g)
  PROVE  DescribeSettled(r, state[r], hosted[r], g) /\ DescribeDecided(proc[r], state[r], hosted[r], local, g)
  <1>1. Len(github.past) \in Nat /\ Len(g.past) \in Nat
    BY DescribeReading DEF DescribeSource
  <1> QED
    BY <1>1, DescribeOne DEF DescribeSettled, DescribeDecided, DescribeLater

\* The title and the body after the update.
LEMMA DescribePatched ==
  ASSUME Describe!PrDescriptionAssumption, DescribeInv, NEW r \in Runs, Describe!Patch(r)
  PROVE  /\ proc[r].pc = "patch" /\ proc[r].read \in 1..Len(github.past) /\ github.past[proc[r].read] = state[r].pr
         /\ ~local.sourceOnly /\ [head |-> Describe!Live.head, text |-> Describe!Proposal(r)] \in DescribePr
         /\ github' = [github EXCEPT !.past = Append(@, [head |-> Describe!Live.head, text |-> Describe!Proposal(r)])]
  <1>1. proc[r].pc = "patch" /\ DescribeAt(proc[r]) = "patch"
    BY DescribeStands DEF Describe!Patch, DescribePlain
  <1>2. PICK run : run = state[r].task.run
    OBVIOUS
  <1>3. run \in Nat /\ r \in Runs \cup {0}
    BY <1>2, DescribeOne DEF DescribeTask
  <1>4. PICK text : text = [by |-> r, n |-> run]
    OBVIOUS
  <1>5. text \in DescribeText /\ text = Describe!Proposal(r)
    BY <1>2, <1>3, <1>4 DEF DescribeText, Describe!Proposal
  <1>6. Describe!Live.head \in Nat
    BY DescribeReading DEF DescribePr
  <1>7. [head |-> Describe!Live.head, text |-> text] \in DescribePr
    BY <1>5, <1>6 DEF DescribePr
  <1> QED
    BY <1>1, <1>5, <1>7, DescribeOne DEF DescribeDecided, DescribeProposing, Describe!Patch

LEMMA DescribePatch ==
  ASSUME Describe!PrDescriptionAssumption, DescribeInv, NEW r \in Runs, Describe!Patch(r)
  PROVE  DescribeInv'
  <1>1. /\ proc[r].pc = "patch" /\ DescribeAt(proc[r]) = "patch" /\ proc[r].next = "none" /\ state[r].exists
        /\ state[r].task.status = "validated" /\ hosted[r].asked = state[r].task.run /\ hosted[r].pr = state[r].pr
        /\ hosted[r].status = "success"
    BY DescribeStands DEF Describe!Patch, DescribePlain, DescribeProposing
  <1>2. PICK pr \in DescribePr : github' = [github EXCEPT !.past = Append(@, pr)]
    BY DescribePatched
  <1>3. PICK g \in DescribeSource : g = [github EXCEPT !.past = Append(@, pr)] /\ g.past # <<>> /\
          DescribeLater(github, g)
    BY DescribeAppends
  <1>4. PICK p \in DescribeProcess : (Describe!Goto(r, "verify") => proc' = [proc EXCEPT ![r] = p]) /\
          p.pc = "verify" /\ p.next = proc[r].next
    BY DescribeGoto DEF Describe!Pcs
  <1>5. PICK s, h, l : s = state[r] /\ h = hosted[r] /\ l = local
    OBVIOUS
  <1>6. /\ proc' = [proc EXCEPT ![r] = p] /\ state' = [state EXCEPT ![r] = s] /\ hosted' = [hosted EXCEPT ![r] = h]
        /\ local' = l
        /\ s \in DescribeFile /\ h \in DescribeHosted /\ l \in DescribeLocal /\ budget' \in 0..MaxEvents
    BY <1>4, <1>5, DescribeOne, DescribeReading DEF Describe!Patch, DescribeInv, DescribeTypes
  <1>7. DescribeAt(p) = "verify"
    BY <1>4 DEF DescribeAt, DescribeIndexing, DescribeSharing
  <1>8. DescribePlaced(p, s)
    BY <1>1, <1>4, <1>5, <1>7, DescribeOne DEF DescribePlaced, DescribeIndexing, DescribeSharing, DescribeProposing
  <1>9. DescribeAsked(p, s, h)
    BY <1>1, <1>5, <1>7, DescribeOne DEF DescribeAsked, DescribeProposing
  <1>10. DescribeSettled(r, s, h, g)
    BY <1>3, <1>5, DescribeStill
  <1>11. hosted[r].decision # "keep" /\ ~local.sourceOnly
    BY <1>1, DescribeOne DEF DescribeDecided, DescribeProposing
  <1>12. DescribeDecided(p, s, h, l, g) /\ DescribeLocked(r, p, l, g) /\ DescribeKept(l, g)
    BY <1>4, <1>5, <1>7, <1>11 DEF DescribeDecided, DescribeLocked, DescribeKept
  <1>13. DescribeRun(r, p, s, h, l, g)
    BY <1>8, <1>9, <1>10, <1>12 DEF DescribeRun
  <1> QED
    BY <1>2, <1>3, <1>5, <1>6, <1>12, <1>13, DescribeThen

LEMMA DescribeVerify ==
  ASSUME Describe!PrDescriptionAssumption, DescribeInv, NEW r \in Runs, Describe!Verify(r)
  PROVE  DescribeInv'
  <1>1. /\ proc[r].pc = "verify" /\ DescribeAt(proc[r]) = "verify" /\ proc[r].next = "none" /\ state[r].exists
        /\ state[r].task.status = "validated" /\ hosted[r].asked = state[r].task.run /\ hosted[r].pr = state[r].pr
        /\ hosted[r].status = "success"
    BY DescribeStands DEF Describe!Verify, DescribePlain, DescribeProposing
  <1>2. CASE Describe!Verified(r)
    <2>1. Describe!SaveAndRefresh(r, [state[r] EXCEPT !.pr.text = Describe!Proposal(r), !.validated = state[r].pr.head],
            "clear")
      BY <1>2 DEF Describe!Verify
    <2>2. PICK text, run, head : text = Describe!Proposal(r) /\ run = state[r].task.run /\ head = state[r].pr.head
      OBVIOUS
    <2>3. text = [by |-> r, n |-> run] /\ run \in Nat /\ head \in Nat /\ r \in Runs \cup {0}
      BY <2>2, DescribeOne DEF Describe!Proposal, DescribeTask, DescribePr
    <2>4. text \in DescribeText
      BY <2>3 DEF DescribeText
    <2>5. PICK pr : pr = [state[r].pr EXCEPT !.text = text]
      OBVIOUS
    <2>6. pr \in DescribePr /\ pr.head = head /\ pr.text = text /\ pr = [head |-> head, text |-> text]
      BY <2>2, <2>4, <2>5, DescribeOne DEF DescribePr
    <2>7. PICK f : f = [state[r] EXCEPT !.pr = pr, !.validated = head]
      OBVIOUS
    <2>8. /\ f \in DescribeFile /\ f.exists = state[r].exists /\ f.sweep = state[r].sweep /\ f.pr = pr
          /\ f.validated = head
          /\ f.task = state[r].task
      BY <2>3, <2>6, <2>7, DescribeOne DEF DescribeFile
    <2>9. f = [state[r] EXCEPT !.pr.text = Describe!Proposal(r), !.validated = state[r].pr.head]
      BY <2>2, <2>5, <2>7
    <2>10. PICK p \in DescribeProcess :
             Describe!Save(r, f) /\ proc' = [proc EXCEPT ![r] = p] /\ p.pc = "lock" /\ p.next = "clear" /\
               DescribeAt(p) = "clear"
      BY <2>1, <2>9, DescribeRefreshes DEF DescribeNext
    <2>11. DescribePlaced(p, f)
      BY <1>1, <2>8, <2>10, DescribeOne DEF DescribePlaced, DescribeIndexing, DescribeProposing, DescribeNext
    <2>12. DescribeAsked(p, f, hosted[r])
      BY <1>1, <2>8, <2>10, DescribeOne DEF DescribeAsked, DescribeProposing, Describe!Resumable
    <2>13. DescribeSettled(r, f, hosted[r], github)
      <3>1. Len(github.past) \in 1..Len(github.past) /\ github.past[Len(github.past)] = pr
        BY <1>2, <2>2, <2>6, DescribeReading DEF Describe!Verified
      <3>2. hosted[r].decision # "keep"
        BY <1>1, DescribeOne DEF DescribeDecided, DescribeProposing
      <3> QED
        BY <1>1, <2>2, <2>3, <2>6, <2>8, <3>1, <3>2 DEF DescribeSettled
    <2>14. DescribeDecided(p, f, hosted[r], local, github)
      BY <2>10 DEF DescribeDecided, DescribeProposing
    <2> QED
      BY <2>8, <2>10, <2>11, <2>12, <2>13, <2>14, DescribeWrites
  <1>3. CASE ~Describe!Verified(r)
    <2>1. Describe!Goto(r, "error") /\ UNCHANGED <<github, local, hosted, state, budget>>
      BY <1>3 DEF Describe!Verify
    <2> QED
      BY <1>1, <2>1, DescribeErrs DEF DescribeIndexing, DescribeSharing
  <1> QED
    BY <1>2, <1>3

\* The file of a task that is over, with a clearance or without.
LEMMA DescribeCompletes ==
  ASSUME DescribeInv, NEW r \in Runs
  PROVE  \E f \in DescribeFile :
           /\ f = [state[r] EXCEPT !.task.status = "completed", !.cleared = Describe!Validated(state[r])]
           /\ f.exists = state[r].exists /\ f.sweep = state[r].sweep /\ f.pr = state[r].pr
           /\ f.validated = state[r].validated
           /\ f.cleared = Describe!Validated(state[r]) /\ f.task.status = "completed" /\ f.task.run = state[r].task.run
  <1>1. PICK cleared \in BOOLEAN : cleared = Describe!Validated(state[r])
    BY DEF Describe!Validated
  <1>2. PICK t \in DescribeFile :
           /\ t = [state[r] EXCEPT !.task.status = "completed"]
           /\ t.exists = state[r].exists /\ t.sweep = state[r].sweep /\ t.pr = state[r].pr
           /\ t.validated = state[r].validated
           /\ t.cleared = state[r].cleared /\ t.task.status = "completed" /\ t.task.run = state[r].task.run
    BY DescribeMarks DEF Describe!Statuses
  <1>3. PICK f : f = [t EXCEPT !.cleared = cleared]
    OBVIOUS
  <1>4. /\ f \in DescribeFile /\ f.exists = state[r].exists /\ f.sweep = state[r].sweep /\ f.pr = state[r].pr
        /\ f.validated = state[r].validated /\ f.cleared = cleared /\ f.task.status = "completed"
        /\ f.task.run = state[r].task.run
    BY <1>1, <1>2, <1>3 DEF DescribeFile
  <1>5. f = [state[r] EXCEPT !.task.status = "completed", !.cleared = Describe!Validated(state[r])]
    BY <1>1, <1>2, <1>3
  <1> QED
    BY <1>1, <1>4, <1>5

LEMMA DescribeClear ==
  ASSUME Describe!PrDescriptionAssumption, DescribeInv, NEW r \in Runs, Describe!Clear(r)
  PROVE  DescribeInv'
  <1>1. /\ proc[r].pc = "clear" /\ DescribeAt(proc[r]) = "clear" /\ proc[r].next = "none" /\ state[r].exists
        /\ state[r].task.status = "validated"
    BY DescribeStands DEF Describe!Clear, DescribePlain, DescribeProposing
  <1>2. CASE Describe!Validated(state[r]) /\ ~Describe!Unchanged(state[r].pr)
    <2>1. Describe!Goto(r, "error") /\ UNCHANGED <<github, local, hosted, state, budget>>
      BY <1>2 DEF Describe!Clear
    <2> QED
      BY <1>1, <2>1, DescribeErrs DEF DescribeIndexing, DescribeSharing
  <1>3. CASE ~(Describe!Validated(state[r]) /\ ~Describe!Unchanged(state[r].pr))
    <2>1. Describe!SaveAndRefresh(r, [state[r] EXCEPT !.task.status = "completed",
            !.cleared = Describe!Validated(state[r])], "finalize")
      BY <1>3 DEF Describe!Clear
    <2>2. PICK f \in DescribeFile :
             /\ f = [state[r] EXCEPT !.task.status = "completed", !.cleared = Describe!Validated(state[r])]
             /\ f.exists = state[r].exists /\ f.sweep = state[r].sweep /\ f.pr = state[r].pr
             /\ f.validated = state[r].validated
             /\ f.task.status = "completed" /\ f.task.run = state[r].task.run
      BY DescribeCompletes
    <2>3. PICK p \in DescribeProcess :
             Describe!Save(r, f) /\ proc' = [proc EXCEPT ![r] = p] /\ p.pc = "lock" /\ p.next = "finalize" /\
               DescribeAt(p) = "finalize"
      BY <2>1, <2>2, DescribeRefreshes DEF DescribeNext
    <2>4. DescribePlaced(p, f)
      BY <1>1, <2>2, <2>3, DescribeOne DEF DescribePlaced, DescribeIndexing, DescribeProposing, DescribeNext
    <2>5. DescribeAsked(p, f, hosted[r])
      BY <1>1, <2>2, <2>3, DescribeOne DEF DescribeAsked, DescribeProposing, Describe!Resumable
    <2>6. DescribeSettled(r, f, hosted[r], github) /\ DescribeDecided(p, f, hosted[r], local, github)
      BY <2>2, <2>3, DescribeOne DEF DescribeSettled, DescribeDecided, DescribeProposing
    <2> QED
      BY <2>3, <2>4, <2>5, <2>6, DescribeWrites
  <1> QED
    BY <1>2, <1>3

LEMMA DescribeFinalize ==
  ASSUME Describe!PrDescriptionAssumption, DescribeInv, NEW r \in Runs, Describe!Finalize(r)
  PROVE  DescribeInv'
  <1>1. /\ proc[r].pc = "finalize" /\ DescribeAt(proc[r]) = "finalize" /\ proc[r].next = "none" /\ state[r].exists
        /\ state[r].task.status = "completed"
    BY DescribeStands DEF Describe!Finalize, DescribePlain
  <1>2. PICK f : f = state[r]
    OBVIOUS
  <1>3. PICK p \in DescribeProcess :
           Describe!Save(r, f) /\ proc' = [proc EXCEPT ![r] = p] /\ p.pc = "lock" /\ p.next = "done" /\
             DescribeAt(p) = "done"
    BY <1>2, DescribeRefreshes DEF Describe!Finalize, DescribeNext
  <1>4. DescribePlaced(p, f)
    BY <1>1, <1>2, <1>3, DescribeOne DEF DescribePlaced, DescribeIndexing, DescribeProposing, DescribeNext
  <1>5. DescribeAsked(p, f, hosted[r]) /\ DescribeDecided(p, f, hosted[r], local, github)
    BY <1>1, <1>2, <1>3, DescribeOne DEF DescribeAsked, DescribeDecided, DescribeProposing
  <1> QED
    BY <1>2, <1>3, <1>4, <1>5, DescribeOne, DescribeWrites

LEMMA DescribeEnded ==
  ASSUME Describe!PrDescriptionAssumption, DescribeInv, NEW r \in Runs, Describe!Ended(r)
  PROVE  DescribeInv'
  BY DescribeExits DEF Describe!Ended

-----------------------------------------------------------------------------
(* Errors, crashes, others *)

\* An error of the reservation of a first task takes the file back.
LEMMA DescribeTakesBack ==
  ASSUME Describe!PrDescriptionAssumption, DescribeInv, NEW r \in Runs, state[r].task.run = 1,
         state[r].task.status = "reserved",
         state' = [state EXCEPT ![r] = Describe!NoFile], Describe!Exit(r, "error"),
           UNCHANGED <<github, local, hosted, budget>>
  PROVE  DescribeInv'
  <1>1. PICK p, s, l : p = Describe!Resting("error") /\ s = Describe!NoFile /\ l = local
    OBVIOUS
  <1>2. p \in DescribeProcess /\ p.pc = "idle" /\ p.next = "none" /\ proc' = [proc EXCEPT ![r] = p]
    BY <1>1, DescribeRest DEF Describe!Exit
  <1>3. s \in DescribeFile /\ ~s.exists /\ s.sweep = 0 /\ s.validated = 0 /\ s.task.status = "none" /\ s.task.run = 0
    BY <1>1, DescribeConstants
  <1>4. l \in DescribeLocal /\ local' = l /\ state' = [state EXCEPT ![r] = s]
    BY <1>1, DescribeReading
  <1>5. DescribeAt(p) = "idle"
    BY <1>2 DEF DescribeAt, DescribeIndexing, DescribeSharing
  <1>6. DescribePlaced(p, s)
    BY <1>2, <1>3, <1>5 DEF DescribePlaced, DescribeIndexing, DescribeSharing, DescribeProposing
  <1>7. hosted[r].asked = 0 /\ hosted[r].status # "running"
    <2>1. hosted[r].asked < 1 /\ hosted[r].asked \in Nat
      BY DescribeOne DEF DescribeAsked, DescribeHosted
    <2> QED
      BY <2>1, DescribeOne DEF DescribeAsked
  <1>8. DescribeAsked(p, s, hosted[r])
    BY <1>3, <1>5, <1>7 DEF DescribeAsked, DescribeProposing, Describe!Resumable
  <1>9. DescribeSettled(r, s, hosted[r], github) /\ DescribeDecided(p, s, hosted[r], local, github)
    BY <1>2, <1>3, <1>5 DEF DescribeSettled, DescribeDecided, DescribeProposing
  <1> QED
    BY <1>1, <1>2, <1>3, <1>4, <1>6, <1>8, <1>9, DescribeQuietly

LEMMA DescribeRaised ==
  ASSUME Describe!PrDescriptionAssumption, DescribeInv, NEW r \in Runs, Describe!Raised(r)
  PROVE  DescribeInv'
  <1>1. proc[r].pc = "error" /\ state[r].exists /\ (proc[r].next = "dispatch" => state[r].task.status = "reserved")
    BY DescribeOne DEF Describe!Raised, DescribePlaced
  <1>2. CASE proc[r].next = "dispatch" /\ state[r].task.run = 1
    BY <1>1, <1>2, DescribeTakesBack DEF Describe!Raised
  <1>3. CASE proc[r].next = "dispatch" /\ state[r].task.run # 1
    <2>1. PICK f \in DescribeFile :
             /\ f = [state[r] EXCEPT !.task.status = "failed"]
             /\ f.exists = state[r].exists /\ f.sweep = state[r].sweep /\ f.pr = state[r].pr
             /\ f.validated = state[r].validated
             /\ f.cleared = state[r].cleared /\ f.task.status = "failed" /\ f.task.run = state[r].task.run
      BY DescribeMarks DEF Describe!Statuses
    <2>2. Describe!Save(r, f) /\ Describe!Exit(r, "error")
      BY <1>3, <2>1 DEF Describe!Raised, Describe!Save
    <2>3. PICK p : p = Describe!Resting("error")
      OBVIOUS
    <2>4. p \in DescribeProcess /\ p.pc = "idle" /\ p.next = "none" /\ proc' = [proc EXCEPT ![r] = p]
      BY <2>2, <2>3, DescribeRest DEF Describe!Exit
    <2>5. DescribeAt(p) = "idle"
      BY <2>4 DEF DescribeAt, DescribeIndexing, DescribeSharing
    <2>6. DescribePlaced(p, f)
      BY <1>1, <2>1, <2>4, <2>5, DescribeOne DEF DescribePlaced, DescribeIndexing, DescribeSharing, DescribeProposing
    <2>7. hosted[r].status # "running" /\ state[r].validated = 0
      BY <1>1, <1>3, DescribeOne DEF DescribeAsked
    <2>8. DescribeAsked(p, f, hosted[r])
      BY <2>1, <2>5, <2>7, DescribeOne DEF DescribeAsked, DescribeProposing, Describe!Resumable
    <2>9. DescribeSettled(r, f, hosted[r], github) /\ DescribeDecided(p, f, hosted[r], local, github)
      BY <2>1, <2>4, <2>5, <2>7 DEF DescribeSettled, DescribeDecided, DescribeProposing
    <2> QED
      BY <2>2, <2>4, <2>6, <2>8, <2>9, DescribeWrites
  <1>4. CASE proc[r].next # "dispatch" /\ proc[r].next = "failed"
    BY <1>4, DescribeExits DEF Describe!Raised
  <1>5. CASE proc[r].next # "dispatch" /\ proc[r].next # "failed"
    <2>1. PICK status : status = IF Describe!Validated(state[r]) THEN "failed_after_mutation" ELSE "failed"
      OBVIOUS
    <2>2. status \in DescribeFailed /\ status \in Describe!Statuses /\ (state[r].validated = 0 => status = "failed")
      BY <2>1 DEF DescribeFailed, Describe!Statuses, Describe!Validated
    <2>3. Describe!SaveAndRefresh(r, [state[r] EXCEPT !.task.status = status], "failed")
      BY <1>5, <2>1 DEF Describe!Raised
    <2>4. PICK f \in DescribeFile :
             /\ f = [state[r] EXCEPT !.task.status = status]
             /\ f.exists = state[r].exists /\ f.sweep = state[r].sweep /\ f.pr = state[r].pr
             /\ f.validated = state[r].validated
             /\ f.cleared = state[r].cleared /\ f.task.status = status /\ f.task.run = state[r].task.run
      BY <2>2, DescribeMarks
    <2>5. PICK p \in DescribeProcess :
             Describe!Save(r, f) /\ proc' = [proc EXCEPT ![r] = p] /\ p.pc = "lock" /\ p.next = "failed" /\
               DescribeAt(p) = "failed"
      BY <2>3, <2>4, DescribeRefreshes DEF DescribeNext
    <2>6. DescribePlaced(p, f)
      BY <1>1, <2>2, <2>4, <2>5, DescribeOne DEF DescribePlaced, DescribeIndexing, DescribeProposing, DescribeNext
    <2>7. DescribeAsked(p, f, hosted[r])
      BY <2>2, <2>4, <2>5, DescribeOne DEF DescribeAsked, DescribeProposing, DescribeFailed, Describe!Resumable
    <2>8. DescribeSettled(r, f, hosted[r], github) /\ DescribeDecided(p, f, hosted[r], local, github)
      BY <2>4, <2>5, DescribeOne DEF DescribeSettled, DescribeDecided, DescribeProposing
    <2> QED
      BY <2>5, <2>6, <2>7, <2>8, DescribeWrites
  <1> QED
    BY <1>2, <1>3, <1>4, <1>5

\* The lock of a process that raises or dies.
LEMMA DescribeLetsGo ==
  ASSUME DescribeInv, NEW r \in Runs, NEW left \in {0, Describe!Dead},
         local' = [local EXCEPT !.guard = IF @ = r THEN 0 ELSE @, !.file = IF @ = r THEN left ELSE @]
  PROVE  \E l \in DescribeLocal :
           /\ local' = l /\ l.index = local.index /\ l.sourceOnly = local.sourceOnly /\ l.now = local.now
           /\ local.guard # r => l.guard = local.guard
           /\ local.file # r => l.file = local.file
  <1>1. PICK guard, file : guard = (IF local.guard = r THEN 0 ELSE local.guard) /\
          file = (IF local.file = r THEN left ELSE local.file)
    OBVIOUS
  <1>2. guard \in Runs \cup {0} /\ file \in Runs \cup {0, Describe!Dead}
    BY <1>1, DescribeReading DEF DescribeLocal
  <1>3. PICK l : l = [local EXCEPT !.guard = guard, !.file = file]
    OBVIOUS
  <1>4. l \in DescribeLocal /\ l.guard = guard /\ l.file = file /\ l.index = local.index /\
          l.sourceOnly = local.sourceOnly /\ l.now = local.now
    BY <1>2, <1>3, DescribeReading DEF DescribeLocal
  <1> QED
    BY <1>1, <1>3, <1>4

\* An error or a crash leaves the source, the task and the file alone.
LEMMA DescribeQuits ==
  ASSUME Describe!PrDescriptionAssumption, DescribeInv, NEW r \in Runs, NEW p \in DescribeProcess,
         NEW l \in DescribeLocal,
         p.pc \notin {"update", "write_shared"}, proc' = [proc EXCEPT ![r] = p], local' = l,
         l.index = local.index, l.sourceOnly = local.sourceOnly,
         local.guard # r => l.guard = local.guard, local.file # r => l.file = local.file,
         UNCHANGED <<github, hosted, state>>, budget' \in 0..MaxEvents,
         DescribePlaced(p, state[r]), DescribeAsked(p, state[r], hosted[r]),
           DescribeDecided(p, state[r], hosted[r], local, github)
  PROVE  DescribeInv'
  <1>1. PICK s, h, g : s = state[r] /\ h = hosted[r] /\ g = github
    OBVIOUS
  <1>2. /\ state' = [state EXCEPT ![r] = s] /\ hosted' = [hosted EXCEPT ![r] = h] /\ github' = g /\ s \in DescribeFile
        /\ h \in DescribeHosted /\ g \in DescribeSource /\ g.past # <<>>
    BY <1>1, DescribeOne, DescribeReading DEF DescribeInv, DescribeTypes
  <1>3. DescribeDecided(p, s, h, l, g) /\ DescribeLocked(r, p, l, g)
    BY <1>1 DEF DescribeDecided, DescribeLocked
  <1>4. DescribeRun(r, p, s, h, l, g)
    BY <1>1, <1>3, DescribeOne DEF DescribeRun
  <1>5. DescribeLater(github, g) /\ DescribeKept(l, g)
    BY <1>1, DescribeReading DEF DescribeLater, DescribeShared, DescribeKept
  <1> QED
    BY <1>2, <1>4, <1>5, DescribeThen

LEMMA DescribeBreaks ==
  ASSUME Describe!PrDescriptionAssumption, DescribeInv, NEW r \in Runs, NEW p \in DescribeProcess,
         NEW left \in {0, Describe!Dead},
         p.pc \notin {"update", "write_shared"}, proc' = [proc EXCEPT ![r] = p],
         local' = [local EXCEPT !.guard = IF @ = r THEN 0 ELSE @, !.file = IF @ = r THEN left ELSE @],
         UNCHANGED <<github, hosted, state>>, budget > 0, budget' = budget - 1,
         DescribePlaced(p, state[r]), DescribeAsked(p, state[r], hosted[r]),
           DescribeDecided(p, state[r], hosted[r], local, github)
  PROVE  DescribeInv'
  BY DescribeLetsGo, DescribeSpends, DescribeQuits

LEMMA DescribeFails ==
  ASSUME Describe!PrDescriptionAssumption, DescribeInv, NEW r \in Runs, Describe!Fails(r)
  PROVE  DescribeInv'
  <1>1. PICK p \in DescribeProcess : p.pc = "error" /\ p.next = proc[r].next /\ proc' = [proc EXCEPT ![r] = p]
    BY DescribeGoto DEF Describe!Fails, Describe!Pcs
  <1>2. DescribeAt(p) = "error"
    BY <1>1 DEF DescribeAt, DescribeIndexing, DescribeSharing
  <1>3. /\ proc[r].pc \in {"lock", "update", "dispatch", "send", "observe", "accept", "keep", "propose", "check",
             "patch", "verify", "clear", "finalize"}
        /\ proc[r].pc # "idle" /\ proc[r].pc # "error"
    BY DEF Describe!Fails
  <1>4. proc[r].next \in DescribeNext \cup {"none"}
    BY <1>3, DescribeOne DEF DescribePlaced, DescribeIndexing, DescribeSharing
  <1>5. proc[r].next = "dispatch" => DescribeAt(proc[r]) = "dispatch"
    BY <1>3, DescribeOne DEF DescribePlaced, DescribeAt
  <1>6. DescribePlaced(p, state[r])
    BY <1>1, <1>2, <1>3, <1>4, <1>5, DescribeOne DEF DescribePlaced, DescribeIndexing, DescribeSharing,
      DescribeProposing
  <1>7. DescribeAsked(p, state[r], hosted[r]) /\ DescribeDecided(p, state[r], hosted[r], local, github)
    BY <1>1, <1>2, DescribeOne DEF DescribeAsked, DescribeDecided, DescribeProposing
  <1>8. /\ local' = [local EXCEPT !.guard = IF @ = r THEN 0 ELSE @, !.file = IF @ = r THEN 0 ELSE @]
        /\ UNCHANGED <<github, hosted, state>> /\ budget > 0 /\ budget' = budget - 1
    BY DEF Describe!Fails
  <1> QED
    BY <1>1, <1>6, <1>7, <1>8, DescribeBreaks

LEMMA DescribeCrash ==
  ASSUME Describe!PrDescriptionAssumption, DescribeInv, NEW r \in Runs, Describe!Crash(r)
  PROVE  DescribeInv'
  <1>1. PICK p : p = Describe!Resting("error")
    OBVIOUS
  <1>2. p \in DescribeProcess /\ p.pc = "idle" /\ p.next = "none" /\ proc' = [proc EXCEPT ![r] = p]
    BY <1>1, DescribeRest DEF Describe!Crash, Describe!Exit
  <1>3. DescribeAt(p) = "idle"
    BY <1>2 DEF DescribeAt, DescribeIndexing, DescribeSharing
  <1>4. DescribePlaced(p, state[r])
    BY <1>2, <1>3, DescribeOne DEF DescribePlaced, DescribeIndexing, DescribeSharing, DescribeProposing
  <1>5. DescribeAsked(p, state[r], hosted[r]) /\ DescribeDecided(p, state[r], hosted[r], local, github)
    BY <1>2, <1>3, DescribeOne DEF DescribeAsked, DescribeDecided, DescribeProposing
  <1>6. /\ local' = [local EXCEPT !.guard = IF @ = r THEN 0 ELSE @, !.file = IF @ = r THEN Describe!Dead ELSE @]
        /\ UNCHANGED <<github, hosted, state>> /\ budget > 0 /\ budget' = budget - 1
    BY DEF Describe!Crash
  <1> QED
    BY <1>2, <1>4, <1>5, <1>6, DescribeBreaks

\* What others make of the pull request.
LEMMA DescribeMoved ==
  ASSUME DescribeInv, Describe!OthersMove
  PROVE  \E pr \in DescribePr :
           /\ github' = [github EXCEPT !.past = Append(@, pr)] /\ UNCHANGED <<local, hosted, state, proc>>
           /\ pr.text = Describe!Live.text \/ pr.text.by = 0
  <1>1. PICK pr \in {[Describe!Live EXCEPT !.head = @ + 1],
          [Describe!Live EXCEPT !.text = [by |-> 0, n |-> Len(github.past)]]} :
          github' = [github EXCEPT !.past = Append(@, pr)]
    BY DEF Describe!OthersMove
  <1>2. Describe!Live \in DescribePr /\ Len(github.past) \in Nat
    BY DescribeReading
  <1>3. CASE pr = [Describe!Live EXCEPT !.head = @ + 1]
    <2>1. pr \in DescribePr /\ pr.text = Describe!Live.text
      BY <1>2, <1>3 DEF DescribePr
    <2> QED
      BY <1>1, <2>1 DEF Describe!OthersMove
  <1>4. CASE pr = [Describe!Live EXCEPT !.text = [by |-> 0, n |-> Len(github.past)]]
    <2>1. PICK text : text = [by |-> 0, n |-> Len(github.past)]
      OBVIOUS
    <2>2. text \in DescribeText /\ text.by = 0
      BY <1>2, <2>1 DEF DescribeText
    <2>3. pr = [Describe!Live EXCEPT !.text = text]
      BY <1>4, <2>1
    <2>4. pr \in DescribePr /\ pr.text = text
      BY <1>2, <2>2, <2>3 DEF DescribePr
    <2> QED
      BY <1>1, <2>2, <2>4 DEF Describe!OthersMove
  <1> QED
    BY <1>1, <1>3, <1>4

LEMMA DescribeOthersMove ==
  ASSUME Describe!PrDescriptionAssumption, DescribeInv, Describe!OthersMove
  PROVE  DescribeInv'
  <1>1. PICK pr \in DescribePr :
           /\ github' = [github EXCEPT !.past = Append(@, pr)] /\ UNCHANGED <<local, hosted, state, proc>>
           /\ pr.text = Describe!Live.text \/ pr.text.by = 0
    BY DescribeMoved
  <1>2. PICK g \in DescribeSource :
           /\ g = [github EXCEPT !.past = Append(@, pr)] /\ g.past # <<>> /\ g.shared = github.shared
           /\ DescribeLater(github, g)
           /\ local.sourceOnly /\ pr.text.by = 0 => DescribeKept(local, g)
    BY DescribeAppends
  <1>3. github' = g /\ budget' \in 0..MaxEvents
    BY <1>1, <1>2, DescribeSpends DEF Describe!OthersMove
  <1>4. DescribeTypes'
    BY <1>1, <1>2, <1>3 DEF DescribeInv, DescribeTypes
  <1>5. local.sourceOnly => Describe!Live.text.by = 0
    BY DescribeReading DEF DescribeKept
  <1>6. DescribeKept(local, g)
    BY <1>1, <1>2, <1>5 DEF DescribeKept
  <1>7. ASSUME NEW r \in Runs PROVE DescribeRun(r, proc[r], state[r], hosted[r], local, g)
    <2>1. DescribeSettled(r, state[r], hosted[r], g) /\ DescribeDecided(proc[r], state[r], hosted[r], local, g)
      BY <1>2, DescribeStill
    <2>2. DescribeLocked(r, proc[r], local, g)
      BY <1>2, DescribeOne DEF DescribeLocked
    <2> QED
      BY <2>1, <2>2, DescribeOne DEF DescribeRun
  <1>8. DescribeKept(local', github') /\ \A r \in Runs : DescribeRun(r, proc'[r], state'[r], hosted'[r], local',
          github')
    BY <1>1, <1>3, <1>6, <1>7
  <1> QED
    BY <1>4, <1>8 DEF DescribeInv, DescribeKept, DescribeRun, DescribePlaced, DescribeAsked, DescribeSettled,
      DescribeDecided, DescribeLocked

LEMMA DescribeSteps ==
  ASSUME Describe!PrDescriptionAssumption, DescribeInv, [Describe!Next]_Describe!vars
  PROVE  DescribeInv'
  <1>1. CASE UNCHANGED Describe!vars
    BY <1>1 DEF Describe!vars, DescribeInv, DescribeTypes, DescribeKept, DescribeRun, DescribePlaced, DescribeAsked,
      DescribeSettled, DescribeDecided, DescribeLocked
  <1>2. CASE Describe!Next
    BY <1>1, <1>2, DescribeLock, DescribeUpdateIndex, DescribeReadShared, DescribeWriteShared, DescribeShareFails,
      DescribeLaunchAlone,
       DescribeLaunchBounded, DescribeDispatch, DescribeSend, DescribeHostedEnds, DescribeObserve, DescribeAccept,
         DescribeKeep,
       DescribePropose, DescribeCheck, DescribePatch, DescribeVerify, DescribeClear, DescribeFinalize, DescribeEnded,
         DescribeRaised,
       DescribeFails, DescribeCrash, DescribeOthersMove
       DEF Describe!Next, Describe!Rest
  <1> QED
    BY <1>1, <1>2

LEMMA DescribeInvariance ==
  ASSUME Describe!PrDescriptionAssumption
  PROVE  Describe!Spec => []DescribeInv
  <1>1. Describe!Init => DescribeInv
    BY DescribeInit
  <1>2. DescribeInv /\ [Describe!Next]_Describe!vars => DescribeInv'
    BY DescribeSteps
  <1> QED
    BY <1>1, <1>2, PTL DEF Describe!Spec

-----------------------------------------------------------------------------
(* The theorems *)

\* Every state is of the types: the pull request, the index, the hosted task, the
\* file and the process of every run are what pr_description.py can make of them.
THEOREM DescribeTypesHold ==
  ASSUME Describe!PrDescriptionAssumption
  PROVE  Describe!Spec => []Describe!TypeOK
  <1>1. ASSUME DescribeInv PROVE Describe!TypeOK
    <2>1. \A i \in DOMAIN github.past : github.past[i].head \in Nat /\
            github.past[i].text \in [by : Runs \cup {0}, n : Nat]
      <3>1. DOMAIN github.past = 1..Len(github.past)
        BY <1>1, DescribeReading
      <3> QED
        BY <1>1, <3>1, DescribeReading DEF DescribePr, DescribeText
    <2>2. github.shared \in [value : Nat, at : Nat]
      BY <1>1, DescribeReading DEF DescribeShared
    <2>3. /\ local.guard \in Runs \cup {0} /\ local.file \in Runs \cup {0, Describe!Dead}
          /\ local.sourceOnly \in BOOLEAN /\ local.now \in Nat
          /\ local.index.run \in Runs \cup {0} /\ local.index.at \in Nat /\ local.index.validated \in Nat \cup {-1}
          /\ budget \in 0..MaxEvents
      BY <1>1, DescribeReading DEF DescribeLocal, DescribeIndex
    <2>4. ASSUME NEW r \in Runs
          PROVE  /\ hosted[r].status \in {"none", "running", "success", "failure"}
                 /\ hosted[r].decision \in Describe!Decisions
                 /\ state[r].task.status \in Describe!Statuses /\ state[r].task.decision \in Describe!Decisions
                 /\ state[r].validated \in Nat /\ state[r].sweep \in 0..MaxSweeps
                 /\ proc[r].pc \in Describe!Pcs /\ proc[r].next \in Describe!Pcs \cup {"none"}
                 /\ proc[r].post.attempts \in 0..MaxAttempts
                 /\ proc[r].exit \in {"none", "waiting", "done", "head_changed", "error"}
      BY <1>1, DescribeOne DEF DescribeHosted, DescribeFile, DescribeTask, DescribeProcess, DescribePost
    <2> QED
      BY <2>1, <2>2, <2>3, <2>4 DEF Describe!TypeOK
  <1> QED
    BY <1>1, DescribeInvariance, PTL

\* A run asks for no more tasks than it had sweeps: a task is reserved once a sweep
\* (create_state, the next sweep's save), and asked for once a reservation.
THEOREM DescribeBudgetHolds ==
  ASSUME Describe!PrDescriptionAssumption
  PROVE  Describe!Spec => []Describe!BudgetHolds
  <1>1. ASSUME DescribeInv PROVE Describe!BudgetHolds
    <2>1. ASSUME NEW r \in Runs PROVE hosted[r].asked <= state[r].sweep \/ ~state[r].exists
      <3>1. hosted[r].asked \in Nat /\ state[r].sweep \in Nat /\ hosted[r].asked <= state[r].task.run
        BY <1>1, DescribeConstants, DescribeOne DEF DescribeHosted, DescribeFile, DescribeAsked
      <3>2. state[r].exists => state[r].task.run \in 1..state[r].sweep
        BY <1>1, DescribeOne DEF DescribePlaced
      <3> QED
        BY <3>1, <3>2
    <2> QED
      BY <2>1 DEF Describe!BudgetHolds
  <1> QED
    BY <1>1, DescribeInvariance, PTL

\* A head that is on record as settled (validated_head_sha) was live with the title
\* and the body on record, and these are what the task was asked about, kept, or
\* the proposal of the run, written and read back.
THEOREM DescribeIsSettled ==
  ASSUME Describe!PrDescriptionAssumption
  PROVE  Describe!Spec => []Describe!Settled
  <1>1. ASSUME DescribeInv PROVE Describe!Settled
    <2>1. ASSUME NEW r \in Runs, state[r].validated # 0
          PROVE  /\ state[r].pr \in Describe!ToSet(github.past) /\ state[r].validated = state[r].pr.head
                 /\ hosted[r].pr.head = state[r].validated
                 /\ state[r].pr.text = IF hosted[r].decision = "keep" THEN hosted[r].pr.text ELSE Describe!Proposal(r)
      <3>1. DescribeSettled(r, state[r], hosted[r], github)
        BY <1>1, DescribeOne
      <3>2. PICK i \in 1..Len(github.past) : github.past[i] = state[r].pr
        BY <2>1, <3>1 DEF DescribeSettled
      <3>3. i \in DOMAIN github.past
        BY <1>1, DescribeReading
      <3>4. state[r].pr \in Describe!ToSet(github.past)
        BY <3>2, <3>3 DEF Describe!ToSet
      <3> QED
        BY <2>1, <3>1, <3>4 DEF DescribeSettled, Describe!Proposal
    <2> QED
      BY <2>1 DEF Describe!Settled
  <1> QED
    BY <1>1, DescribeInvariance, PTL

\* A step of one run changes the file of that run alone, and clears nothing.
LEMMA DescribeUncleared ==
  ASSUME DescribeInv, NEW r \in Runs, NEW f, f.cleared => state[r].cleared, Describe!Save(r, f) \/
         Describe!Saved(r, f) \/ state' = [state EXCEPT ![r] = f],
         f \in DescribeFile
  PROVE  Describe!ClearedIsLive
  <1>1. \E s \in DescribeFile : state' = [state EXCEPT ![r] = s] /\ s.cleared = f.cleared
    BY DescribeSaved DEF Describe!Save
  <1>2. PICK s \in DescribeFile : state' = [state EXCEPT ![r] = s] /\ s.cleared = f.cleared
    BY <1>1
  <1>3. state'[r] = s /\ \A q \in Runs \ {r} : state'[q] = state[q]
    BY <1>2 DEF DescribeInv, DescribeTypes
  <1>4. ASSUME NEW q \in Runs PROVE ~(state'[q].cleared /\ ~state[q].cleared)
    BY <1>2, <1>3
  <1> QED
    BY <1>4 DEF Describe!ClearedIsLive

\* The mark of a task leaves the clearance of the file alone.
LEMMA DescribeMarksOnly ==
  ASSUME DescribeInv, NEW r \in Runs, NEW status \in Describe!Statuses
  PROVE  /\ [state[r] EXCEPT !.task.status = status] \in DescribeFile
         /\ [state[r] EXCEPT !.task.status = status].cleared = state[r].cleared
  BY DescribeMarks

LEMMA DescribeClears ==
  ASSUME Describe!PrDescriptionAssumption, DescribeInv, [Describe!Next]_Describe!vars
  PROVE  Describe!ClearedIsLive
  <1>1. ASSUME UNCHANGED state PROVE Describe!ClearedIsLive
    BY <1>1 DEF Describe!ClearedIsLive
  <1>2. ASSUME NEW r \in Runs, NEW sweep \in 1..MaxSweeps, Describe!Reserve(r, sweep) PROVE Describe!ClearedIsLive
    <2>1. PICK f : f = Describe!Reserved(r, sweep)
      OBVIOUS
    <2>2. ~f.cleared
      BY <2>1 DEF Describe!Reserved
    <2>3. state' = [state EXCEPT ![r] = [f EXCEPT !.at = local.now + 1]]
      BY <1>2, <2>1 DEF Describe!Reserve, Describe!Saved
    <2>4. PICK s : s = [f EXCEPT !.at = local.now + 1]
      OBVIOUS
    <2>5. f = [exists |-> TRUE, at |-> local.now + 1, sweep |-> sweep, pr |-> Describe!Live, validated |-> 0,
            cleared |-> FALSE,
               task |-> [status |-> "reserved", run |-> state[r].task.run + 1, decision |-> "none"]]
      BY <2>1 DEF Describe!Reserved
    <2>6. ~s.cleared
      BY <2>4, <2>5
    <2>7. state'[r] = s /\ \A q \in Runs \ {r} : state'[q] = state[q]
      BY <2>3, <2>4 DEF DescribeInv, DescribeTypes
    <2> QED
      BY <2>6, <2>7 DEF Describe!ClearedIsLive
  <1>3. ASSUME NEW r \in Runs, Describe!LaunchAlone(r) PROVE Describe!ClearedIsLive
    <2>1. 1 \in 1..MaxSweeps
      BY DescribeConstants
    <2> QED
      BY <1>2, <1>3, <2>1 DEF Describe!LaunchAlone
  <1>4. ASSUME NEW r \in Runs, Describe!LaunchBounded(r) PROVE Describe!ClearedIsLive
    <2>1. PICK sweep \in {state[r].sweep, state[r].sweep + 1} \cap (1..MaxSweeps) : UNCHANGED state \/
            Describe!Reserve(r, sweep)
      BY <1>4 DEF Describe!LaunchBounded
    <2> QED
      BY <1>1, <1>2, <2>1
  <1>5. ASSUME NEW r \in Runs, Describe!Dispatch(r) PROVE Describe!ClearedIsLive
    <2>1. "running" \in Describe!Statuses
      BY DEF Describe!Statuses
    <2> QED
      BY <1>5, <2>1, DescribeMarksOnly, DescribeUncleared DEF Describe!Dispatch, Describe!SaveAndRefresh
  <1>6. ASSUME NEW r \in Runs, Describe!Observe(r) PROVE Describe!ClearedIsLive
    <2>1. "result_ready" \in Describe!Statuses
      BY DEF Describe!Statuses
    <2>2. UNCHANGED state \/ Describe!Save(r, [state[r] EXCEPT !.task.status = "result_ready"])
      BY <1>6 DEF Describe!Observe, Describe!SaveAndRefresh
    <2> QED
      BY <1>1, <2>1, <2>2, DescribeMarksOnly, DescribeUncleared
  <1>7. ASSUME NEW r \in Runs, Describe!Accept(r) PROVE Describe!ClearedIsLive
    <2>1. PICK decision : decision = hosted[r].decision
      OBVIOUS
    <2>2. "head_changed" \in Describe!Statuses /\ "validated" \in Describe!Statuses /\ decision \in Describe!Decisions
      BY <2>1, DescribeOne DEF Describe!Statuses, DescribeHosted
    <2>3. \/ Describe!Save(r, [state[r] EXCEPT !.task.status = "head_changed"])
          \/ Describe!Save(r, [state[r] EXCEPT !.task.status = "validated", !.task.decision = decision])
      BY <1>7, <2>1 DEF Describe!Accept, Describe!SaveAndRefresh, Describe!Decision
    <2>4. PICK task : task = [state[r].task EXCEPT !.status = "validated", !.decision = decision]
      OBVIOUS
    <2>5. task \in DescribeTask
      BY <2>2, <2>4, DescribeOne DEF DescribeTask
    <2>6. PICK f : f = [state[r] EXCEPT !.task = task]
      OBVIOUS
    <2>7. f \in DescribeFile /\ f.cleared = state[r].cleared
      BY <2>5, <2>6, DescribeOne DEF DescribeFile
    <2>8. f = [state[r] EXCEPT !.task.status = "validated", !.task.decision = decision]
      BY <2>4, <2>6, DescribeOne DEF DescribeFile, DescribeTask
    <2>9. CASE Describe!Save(r, [state[r] EXCEPT !.task.status = "head_changed"])
      BY <2>2, <2>9, DescribeMarksOnly, DescribeUncleared
    <2>10. CASE Describe!Save(r, f)
      BY <2>7, <2>10, DescribeUncleared
    <2> QED
      BY <2>3, <2>8, <2>9, <2>10
  <1>8. ASSUME NEW r \in Runs, NEW head \in Nat, Describe!Save(r, [state[r] EXCEPT !.validated = head])
        PROVE Describe!ClearedIsLive
    BY <1>8, DescribeValidates, DescribeUncleared
  <1>9. ASSUME NEW r \in Runs, Describe!Keep(r) \/ Describe!Propose(r) PROVE Describe!ClearedIsLive
    <2>1. state[r].pr.head \in Nat
      BY DescribeOne DEF DescribePr
    <2>2. UNCHANGED state \/ Describe!Save(r, [state[r] EXCEPT !.validated = state[r].pr.head]) \/
            Describe!Save(r, [state[r] EXCEPT !.validated = 0])
      BY <1>9 DEF Describe!Keep, Describe!Propose, Describe!SaveAndRefresh
    <2> QED
      BY <1>1, <1>8, <2>1, <2>2
  <1>10. ASSUME NEW r \in Runs, Describe!Verify(r) PROVE Describe!ClearedIsLive
    <2>1. CASE ~Describe!Verified(r)
      BY <1>1, <1>10, <2>1 DEF Describe!Verify
    <2>2. CASE Describe!Verified(r)
      <3>1. PICK f : f = [state[r] EXCEPT !.pr.text = Describe!Proposal(r), !.validated = state[r].pr.head]
        OBVIOUS
      <3>2. PICK s : s = [f EXCEPT !.at = local.now + 1]
        OBVIOUS
      <3>3. state' = [state EXCEPT ![r] = s]
        BY <1>10, <2>2, <3>1, <3>2 DEF Describe!Verify, Describe!SaveAndRefresh, Describe!Save, Describe!Saved
      <3>4. s.cleared = state[r].cleared
        BY <3>1, <3>2, DescribeOne DEF DescribeFile
      <3>5. state'[r] = s /\ \A q \in Runs \ {r} : state'[q] = state[q]
        BY <3>3 DEF DescribeInv, DescribeTypes
      <3> QED
        BY <3>4, <3>5 DEF Describe!ClearedIsLive
    <2> QED
      BY <2>1, <2>2
  <1>11. ASSUME NEW r \in Runs, Describe!Clear(r) PROVE Describe!ClearedIsLive
    <2>1. CASE Describe!Validated(state[r]) /\ ~Describe!Unchanged(state[r].pr)
      BY <1>1, <1>11, <2>1 DEF Describe!Clear
    <2>2. CASE ~(Describe!Validated(state[r]) /\ ~Describe!Unchanged(state[r].pr))
      <3>1. PICK f \in DescribeFile :
               /\ f = [state[r] EXCEPT !.task.status = "completed", !.cleared = Describe!Validated(state[r])]
               /\ f.pr = state[r].pr /\ f.cleared = Describe!Validated(state[r])
        BY DescribeCompletes
      <3>2. Describe!Saved(r, f)
        BY <1>11, <2>2, <3>1 DEF Describe!Clear, Describe!SaveAndRefresh, Describe!Save
      <3>3. PICK s \in DescribeFile : state' = [state EXCEPT ![r] = s] /\ s.pr = f.pr /\ s.cleared = f.cleared
        BY <3>2, DescribeSaved
      <3>4. state'[r] = s /\ \A q \in Runs \ {r} : state'[q] = state[q]
        BY <3>3 DEF DescribeInv, DescribeTypes
      <3>5. s.cleared => Describe!Live = s.pr
        BY <2>2, <3>1, <3>3 DEF Describe!Unchanged
      <3> QED
        BY <3>4, <3>5 DEF Describe!ClearedIsLive
    <2> QED
      BY <2>1, <2>2
  <1>12. ASSUME NEW r \in Runs, Describe!Finalize(r) PROVE Describe!ClearedIsLive
    BY <1>12, DescribeOne, DescribeUncleared DEF Describe!Finalize, Describe!SaveAndRefresh
  <1>13. ASSUME NEW r \in Runs, Describe!Raised(r) PROVE Describe!ClearedIsLive
    <2>1. PICK status \in {"failed", "failed_after_mutation"} :
            \/ UNCHANGED state \/ state' = [state EXCEPT ![r] = Describe!NoFile] \/
                 Describe!Saved(r, [state[r] EXCEPT !.task.status = status])
      BY <1>13 DEF Describe!Raised, Describe!SaveAndRefresh, Describe!Save
    <2>2. status \in Describe!Statuses /\ Describe!NoFile \in DescribeFile /\ ~Describe!NoFile.cleared
      BY <2>1, DescribeConstants DEF Describe!Statuses, Describe!NoFile
    <2>3. CASE Describe!Saved(r, [state[r] EXCEPT !.task.status = status])
      BY <2>2, <2>3, DescribeMarksOnly, DescribeUncleared
    <2>4. CASE state' = [state EXCEPT ![r] = Describe!NoFile]
      BY <2>2, <2>4, DescribeUncleared
    <2> QED
      BY <1>1, <2>1, <2>3, <2>4
  <1>14. ASSUME NEW r \in Runs,
                \/ Describe!Lock(r) \/ Describe!UpdateIndex(r) \/ Describe!ReadShared(r) \/ Describe!WriteShared(r) \/
                     Describe!ShareFails(r) \/ Describe!Send(r) \/ Describe!HostedEnds(r) \/ Describe!Check(r)
                \/ Describe!Patch(r) \/ Describe!Ended(r) \/ Describe!Fails(r) \/ Describe!Crash(r)
         PROVE  Describe!ClearedIsLive
    <2>1. UNCHANGED state
      BY <1>14 DEF Describe!Lock, Describe!UpdateIndex, Describe!ReadShared, Describe!WriteShared, Describe!ShareFails,
        Describe!Send, Describe!HostedEnds, Describe!Check, Describe!Patch, Describe!Ended, Describe!Fails,
          Describe!Crash
    <2> QED
      BY <1>1, <2>1
  <1>15. CASE Describe!OthersMove \/ Describe!Rest \/ UNCHANGED Describe!vars
    BY <1>1, <1>15 DEF Describe!OthersMove, Describe!Rest, Describe!vars
  <1> QED
    BY <1>3, <1>4, <1>5, <1>6, <1>7, <1>9, <1>10, <1>11, <1>12, <1>13, <1>14, <1>15 DEF Describe!Next

\* A clearance is recorded only of what the pull request is when it is recorded
\* (record_clearance_snapshot, after the exact read).
THEOREM DescribeClearedIsLive ==
  ASSUME Describe!PrDescriptionAssumption
  PROVE  Describe!Spec => [][Describe!ClearedIsLive]_Describe!vars
  <1>1. DescribeInv /\ [Describe!Next]_Describe!vars => [Describe!ClearedIsLive]_Describe!vars
    BY DescribeClears
  <1> QED
    BY <1>1, DescribeInvariance, PTL DEF Describe!Spec

\* The update of a run writes over nothing but what the run read last: the title,
\* the body and the head that its task was asked about.
LEMMA DescribeOverwrites ==
  ASSUME Describe!PrDescriptionAssumption, DescribeInv, [Describe!Next]_Describe!vars
  PROVE  Describe!OverwritesOnlyPinned
  <1>1. ASSUME github'.past = github.past PROVE Describe!OverwritesOnlyPinned
    BY <1>1 DEF Describe!OverwritesOnlyPinned, Describe!Live
  <1>2. ASSUME NEW pr \in DescribePr, github' = [github EXCEPT !.past = Append(@, pr)] PROVE Describe!Live' = pr
    <2>1. PICK g \in DescribeSource : g = [github EXCEPT !.past = Append(@, pr)] /\ g.past[Len(g.past)] = pr
      BY DescribeAppends
    <2>2. github' = g
      BY <1>2, <2>1
    <2> QED
      BY <2>1, <2>2 DEF Describe!Live, Describe!Last
  <1>3. ASSUME NEW q \in Runs, Describe!Patch(q) PROVE Describe!OverwritesOnlyPinned
    <2>1. PICK pr : pr = [head |-> Describe!Live.head, text |-> Describe!Proposal(q)]
      OBVIOUS
    <2>2. pr \in DescribePr /\ github' = [github EXCEPT !.past = Append(@, pr)] /\
            github.past[proc[q].read] = state[q].pr
      BY <1>3, <2>1, DescribePatched
    <2>3. Describe!Live' = pr /\ Describe!Live'.text = Describe!Proposal(q)
      BY <1>2, <2>1, <2>2
    <2>4. ASSUME NEW r \in Runs, Describe!Live'.text = Describe!Proposal(r) PROVE r = q
      <3>1. Describe!Proposal(r).by = r /\ Describe!Proposal(q).by = q
        BY DEF Describe!Proposal
      <3> QED
        BY <2>3, <2>4, <3>1
    <2>5. ASSUME NEW r \in Runs, Describe!Live'.text # Describe!Live.text /\ Describe!Live'.text = Describe!Proposal(r)
          PROVE github.past[proc[r].read] = state[r].pr
      BY <2>2, <2>4, <2>5
    <2> QED
      BY <2>5 DEF Describe!OverwritesOnlyPinned
  <1>4. CASE Describe!OthersMove
    <2>1. PICK pr \in DescribePr : github' = [github EXCEPT !.past = Append(@, pr)] /\
            (pr.text = Describe!Live.text \/ pr.text.by = 0)
      BY <1>4, DescribeMoved
    <2>2. Describe!Live' = pr
      BY <1>2, <2>1
    <2>3. ASSUME NEW r \in Runs PROVE ~(Describe!Live'.text # Describe!Live.text /\
            Describe!Live'.text = Describe!Proposal(r))
      <3>1. Describe!Proposal(r).by = r /\ r # 0
        BY DescribeConstants DEF Describe!Proposal
      <3> QED
        BY <2>1, <2>2, <3>1
    <2> QED
      BY <2>3 DEF Describe!OverwritesOnlyPinned
  <1>5. ASSUME NEW r \in Runs, Describe!WriteShared(r) PROVE Describe!OverwritesOnlyPinned
    BY <1>1, <1>5, DescribeWritten
  <1>6. ASSUME UNCHANGED github PROVE Describe!OverwritesOnlyPinned
    BY <1>1, <1>6
  <1>7. ASSUME NEW r \in Runs,
               \/ Describe!Lock(r) \/ Describe!UpdateIndex(r) \/ Describe!ReadShared(r) \/ Describe!ShareFails(r) \/
                    Describe!LaunchAlone(r) \/ Describe!LaunchBounded(r) \/ Describe!Dispatch(r) \/ Describe!Send(r)
               \/ Describe!HostedEnds(r) \/ Describe!Observe(r) \/ Describe!Accept(r) \/ Describe!Keep(r) \/
                    Describe!Propose(r) \/ Describe!Check(r) \/ Describe!Verify(r) \/ Describe!Clear(r) \/
                      Describe!Finalize(r)
               \/ Describe!Ended(r) \/ Describe!Raised(r) \/ Describe!Fails(r) \/ Describe!Crash(r)
        PROVE  UNCHANGED github
    BY <1>7 DEF Describe!Lock, Describe!UpdateIndex, Describe!ReadShared, Describe!ShareFails, Describe!LaunchAlone,
      Describe!LaunchBounded, Describe!Dispatch, Describe!Send, Describe!HostedEnds, Describe!Observe, Describe!Accept,
        Describe!Keep,
       Describe!Propose, Describe!Check, Describe!Verify, Describe!Clear, Describe!Finalize, Describe!Ended,
         Describe!Raised, Describe!Fails, Describe!Crash, Describe!SaveAndRefresh, Describe!Save
  <1>8. CASE Describe!Rest \/ UNCHANGED Describe!vars
    BY <1>6, <1>8 DEF Describe!Rest, Describe!vars
  <1> QED
    BY <1>3, <1>4, <1>5, <1>6, <1>7, <1>8 DEF Describe!Next

\* An update of the title and the body writes over nothing that was there, unasked
\* about, at the last look of the run (the two exact reads before update_pr).
THEOREM DescribeOverwritesPinned ==
  ASSUME Describe!PrDescriptionAssumption
  PROVE  Describe!Spec => [][Describe!OverwritesOnlyPinned]_Describe!vars
  <1>1. DescribeInv /\ [Describe!Next]_Describe!vars => [Describe!OverwritesOnlyPinned]_Describe!vars
    BY DescribeOverwrites
  <1> QED
    BY <1>1, DescribeInvariance, PTL DEF Describe!Spec

\* The index and the state repository.
LEMMA DescribeIndexGrows ==
  ASSUME Describe!PrDescriptionAssumption, DescribeInv, [Describe!Next]_Describe!vars
  PROVE  Describe!NeverOlder
  <1>1. local.index.at \in Nat /\ github.shared.at \in Nat
    BY DescribeReading DEF DescribeLocal, DescribeIndex, DescribeShared
  <1>2. ASSUME local'.index = local.index, github'.shared = github.shared PROVE Describe!NeverOlder
    BY <1>1, <1>2 DEF Describe!NeverOlder
  <1>3. ASSUME NEW r \in Runs, Describe!UpdateIndex(r) PROVE Describe!NeverOlder
    <2>1. PICK l \in DescribeLocal : local' = l /\ UNCHANGED github /\ l.index = Describe!Updated(r, proc[r].index)
      BY <1>3, DescribeUpdated
    <2>2. Describe!Updated(r, proc[r].index).at >= local.index.at
      BY <1>3, DescribeUpdates DEF Describe!UpdateIndex
    <2> QED
      BY <1>1, <2>1, <2>2 DEF Describe!NeverOlder
  <1>4. ASSUME NEW r \in Runs, Describe!WriteShared(r) PROVE Describe!NeverOlder
    <2>1. PICK g \in DescribeSource : github' = g /\ github.shared.at <= g.shared.at
      BY <1>4, DescribeWritten
    <2>2. g.shared.at \in Nat
      BY DEF DescribeSource, DescribeShared
    <2>3. UNCHANGED local
      BY <1>4 DEF Describe!WriteShared
    <2> QED
      BY <1>1, <2>1, <2>2, <2>3 DEF Describe!NeverOlder
  <1>5. ASSUME NEW r \in Runs, NEW f, Describe!Saved(r, f), UNCHANGED github PROVE Describe!NeverOlder
    <2>1. local'.index = local.index
      BY <1>5, DescribeReading DEF Describe!Saved, DescribeLocal
    <2> QED
      BY <1>2, <1>5, <2>1
  <1>6. ASSUME NEW r \in Runs, Describe!LaunchAlone(r) \/ Describe!LaunchBounded(r) \/ Describe!Raised(r)
        PROVE Describe!NeverOlder
    <2>1. UNCHANGED <<github, local>> \/ \E f : Describe!Saved(r, f) /\ UNCHANGED github
      BY <1>6 DEF Describe!LaunchAlone, Describe!LaunchBounded, Describe!Raised, Describe!Reserve,
        Describe!SaveAndRefresh, Describe!Save
    <2> QED
      BY <1>2, <1>5, <2>1
  <1>7. ASSUME NEW r \in Runs, Describe!Dispatch(r) \/ Describe!Observe(r) \/ Describe!Accept(r) \/ Describe!Keep(r) \/
          Describe!Propose(r) \/ Describe!Verify(r) \/ Describe!Clear(r) \/ Describe!Finalize(r)
        PROVE  Describe!NeverOlder
    <2>1. UNCHANGED <<github, local>> \/ \E f : Describe!Saved(r, f) /\ UNCHANGED github
      BY <1>7 DEF Describe!Dispatch, Describe!Observe, Describe!Accept, Describe!Keep, Describe!Propose,
        Describe!Verify, Describe!Clear, Describe!Finalize, Describe!SaveAndRefresh, Describe!Save
    <2> QED
      BY <1>2, <1>5, <2>1
  <1>8. ASSUME NEW r \in Runs, Describe!Lock(r) PROVE Describe!NeverOlder
    <2>1. local' = [local EXCEPT !.guard = r, !.file = r] /\ UNCHANGED github
      BY <1>8 DEF Describe!Lock
    <2> QED
      BY <1>2, <2>1, DescribeReading DEF DescribeLocal
  <1>9. ASSUME NEW r \in Runs, Describe!Fails(r) \/ Describe!Crash(r) PROVE Describe!NeverOlder
    <2>1. PICK left \in {0, Describe!Dead} :
            local' = [local EXCEPT !.guard = IF @ = r THEN 0 ELSE @, !.file = IF @ = r THEN left ELSE @] /\
              UNCHANGED github
      BY <1>9 DEF Describe!Fails, Describe!Crash
    <2>2. local'.index = local.index
      BY <2>1, DescribeLetsGo
    <2> QED
      BY <1>2, <2>1, <2>2
  <1>10. ASSUME NEW r \in Runs, Describe!ReadShared(r) \/ Describe!ShareFails(r) \/ Describe!Send(r) \/
           Describe!HostedEnds(r) \/ Describe!Check(r) \/ Describe!Patch(r) \/ Describe!Ended(r)
             PROVE Describe!NeverOlder
    <2>1. UNCHANGED local
      BY <1>10 DEF Describe!ReadShared, Describe!ShareFails, Describe!Send, Describe!HostedEnds, Describe!Check,
        Describe!Patch, Describe!Ended
    <2>2. github'.shared = github.shared
      <3>1. CASE Describe!Patch(r)
        BY <3>1, DescribeReading DEF Describe!Patch, DescribeSource
      <3>2. CASE ~Describe!Patch(r)
        BY <1>10, <3>2 DEF Describe!ReadShared, Describe!ShareFails, Describe!Send, Describe!HostedEnds, Describe!Check,
          Describe!Ended
      <3> QED
        BY <3>1, <3>2
    <2> QED
      BY <1>2, <2>1, <2>2
  <1>11. CASE Describe!OthersMove
    BY <1>2, <1>11, DescribeReading DEF Describe!OthersMove, DescribeSource
  <1>12. CASE Describe!Rest \/ UNCHANGED Describe!vars
    BY <1>2, <1>12 DEF Describe!Rest, Describe!vars
  <1> QED
    BY <1>3, <1>4, <1>6, <1>7, <1>8, <1>9, <1>10, <1>11, <1>12 DEF Describe!Next

\* The index never goes back to an older run (the lock of refresh_run_index), nor
\* the state repository to an older entry (merge_state, the content that is replaced
\* only where it is what was read), whatever the order the runs come in.
THEOREM DescribeNeverOlder ==
  ASSUME Describe!PrDescriptionAssumption
  PROVE  Describe!Spec => [][Describe!NeverOlder]_Describe!vars
  <1>1. DescribeInv /\ [Describe!Next]_Describe!vars => [Describe!NeverOlder]_Describe!vars
    BY DescribeIndexGrows
  <1> QED
    BY <1>1, DescribeInvariance, PTL DEF Describe!Spec

\* Who asks for a task, and what is asked for then.
LEMMA DescribeAsks ==
  ASSUME Describe!PrDescriptionAssumption, DescribeInv, [Describe!Next]_Describe!vars
  PROVE  Describe!Alone /\ Describe!AskedOnce
  <1>1. ASSUME UNCHANGED hosted PROVE Describe!Alone /\ Describe!AskedOnce
    BY <1>1 DEF Describe!Alone, Describe!AskedOnce
  <1>2. ASSUME NEW r \in Runs, NEW h \in DescribeHosted, hosted' = [hosted EXCEPT ![r] = h],
               h.asked # hosted[r].asked => hosted[r].status # "running" /\ h.asked > hosted[r].asked
        PROVE  Describe!Alone /\ Describe!AskedOnce
    <2>1. hosted'[r] = h /\ \A q \in Runs \ {r} : hosted'[q] = hosted[q]
      BY <1>2 DEF DescribeInv, DescribeTypes
    <2> QED
      BY <1>2, <2>1 DEF Describe!Alone, Describe!AskedOnce
  <1>3. ASSUME NEW r \in Runs, Describe!Send(r) PROVE Describe!Alone /\ Describe!AskedOnce
    <2>1. PICK h \in DescribeHosted :
            /\ hosted' = [hosted EXCEPT ![r] = h] /\ h.asked = state[r].task.run
            /\ hosted[r].asked < state[r].task.run /\ hosted[r].status # "running"
      BY <1>3, DescribeSent
    <2>2. hosted[r].asked \in Nat /\ h.asked \in Nat
      BY DescribeOne DEF DescribeHosted
    <2>3. h.asked > hosted[r].asked
      BY <2>1, <2>2
    <2> QED
      BY <1>2, <2>1, <2>3
  <1>4. ASSUME NEW r \in Runs, Describe!HostedEnds(r) PROVE Describe!Alone /\ Describe!AskedOnce
    BY <1>2, <1>4, DescribeEnds
  <1>5. ASSUME NEW r \in Runs,
               \/ Describe!Lock(r) \/ Describe!UpdateIndex(r) \/ Describe!ReadShared(r) \/ Describe!WriteShared(r) \/
                    Describe!ShareFails(r) \/ Describe!LaunchAlone(r) \/ Describe!LaunchBounded(r)
               \/ Describe!Dispatch(r) \/ Describe!Observe(r) \/ Describe!Accept(r) \/ Describe!Keep(r) \/
                    Describe!Propose(r) \/ Describe!Check(r) \/ Describe!Patch(r) \/ Describe!Verify(r) \/
                      Describe!Clear(r)
               \/ Describe!Finalize(r) \/ Describe!Ended(r) \/ Describe!Raised(r) \/ Describe!Fails(r) \/
                    Describe!Crash(r)
        PROVE  UNCHANGED hosted
    BY <1>5 DEF Describe!Lock, Describe!UpdateIndex, Describe!ReadShared, Describe!WriteShared, Describe!ShareFails,
      Describe!LaunchAlone, Describe!LaunchBounded, Describe!Dispatch, Describe!Observe, Describe!Accept, Describe!Keep,
       Describe!Propose, Describe!Check, Describe!Patch, Describe!Verify, Describe!Clear, Describe!Finalize,
         Describe!Ended, Describe!Raised, Describe!Fails, Describe!Crash, Describe!SaveAndRefresh, Describe!Save
  <1>6. CASE Describe!OthersMove \/ Describe!Rest \/ UNCHANGED Describe!vars
    BY <1>1, <1>6 DEF Describe!OthersMove, Describe!Rest, Describe!vars
  <1> QED
    BY <1>1, <1>3, <1>4, <1>5, <1>6 DEF Describe!Next

\* A run never asks for a task while its last one may run: the next sweep takes over
\* only a file whose task is over.
THEOREM DescribeIsAlone ==
  ASSUME Describe!PrDescriptionAssumption
  PROVE  Describe!Spec => [][Describe!Alone]_Describe!vars
  <1>1. DescribeInv /\ [Describe!Next]_Describe!vars => [Describe!Alone]_Describe!vars
    BY DescribeAsks
  <1> QED
    BY <1>1, DescribeInvariance, PTL DEF Describe!Spec

\* A run asks once a sweep, whatever call died in between: the reservation that was
\* sent is marked before it is sent, and none is sent twice.
THEOREM DescribeAsksOnce ==
  ASSUME Describe!PrDescriptionAssumption
  PROVE  Describe!Spec => [][Describe!AskedOnce]_Describe!vars
  <1>1. DescribeInv /\ [Describe!Next]_Describe!vars => [Describe!AskedOnce]_Describe!vars
    BY DescribeAsks
  <1> QED
    BY <1>1, DescribeInvariance, PTL DEF Describe!Spec

-----------------------------------------------------------------------------
(* As long as nothing happens to the runs *)

\* A step of a run that is not about the state repository: the file is as it was, or
\* newer than the index.
DescribeMoves(r) ==
  /\ \A q \in Runs \ {r} : proc'[q] = proc[q] /\ state'[q] = state[q]
  /\ github'.shared = github.shared /\ local'.index = local.index /\ local'.sourceOnly = local.sourceOnly
  /\ proc[r].pc \notin DescribeSharing /\ proc'[r].pc \notin DescribeSharing
  /\ proc'[r].post \in {proc[r].post, Describe!NoPost}
  /\ proc'[r].pc = "error" => proc'[r].next = "none"
  /\ \/ /\ state'[r] = state[r] /\ local'.now = local.now
        /\ proc'[r].pc \notin DescribeBehind => proc[r].pc \notin DescribeBehind
     \/ state'[r].at = local.now + 1 /\ local'.now = local.now + 1 /\ proc'[r].pc \in DescribeBehind

LEMMA DescribeNumbers ==
  ASSUME DescribeInv
  PROVE  /\ local.now \in Nat /\ local.index.at \in Nat /\ github.shared.at \in Nat /\ local.index.run \in Runs \cup {0}
         /\ \A r \in Runs : state[r].at \in Nat /\ state[r].validated \in Nat /\ proc[r].post.at \in Nat /\
              proc[r].post.attempts \in Nat
  <1>1. local.now \in Nat /\ local.index \in DescribeIndex /\ github.shared \in DescribeShared
    BY DescribeReading DEF DescribeLocal
  <1>2. ASSUME NEW r \in Runs
        PROVE state[r].at \in Nat /\ state[r].validated \in Nat /\ proc[r].post.at \in Nat /\
               proc[r].post.attempts \in Nat
    <2>1. proc[r].post \in DescribePost
      BY DescribeOne DEF DescribeProcess
    <2>2. proc[r].post.attempts \in Nat
      BY <2>1 DEF DescribePost
    <2> QED
      BY <2>1, <2>2, DescribeOne DEF DescribeFile, DescribePost
  <1> QED
    BY <1>1, <1>2 DEF DescribeIndex, DescribeShared

LEMMA DescribeMovesIndexed ==
  ASSUME Describe!PrDescriptionAssumption, DescribeInv, DescribeInv', NEW r \in Runs, DescribeMoves(r), DescribeIndexed
  PROVE  DescribeIndexed'
  <1>1. /\ local.now \in Nat /\ local.index.at \in Nat /\ state[r].at \in Nat /\ local'.now \in Nat
        /\ state'[r].at \in Nat
    BY DescribeNumbers DEF DescribeMoves
  <1>2. local.now <= local'.now /\ local'.index = local.index
    BY <1>1 DEF DescribeMoves
  <1>3. local'.index.at <= local'.now /\ \A q \in Runs : state'[q].at <= local'.now
    BY <1>1, <1>2, DescribeNumbers DEF DescribeMoves, DescribeIndexed
  <1>4. ASSUME NEW q \in Runs \ {r}
        PROVE  /\ proc'[q].pc = "error" => proc'[q].next = "none"
               /\ proc'[q].pc \notin DescribeBehind => state'[q].at <= local'.index.at
               /\ local'.index.run = q => local'.index.at <= state'[q].at
               /\ local'.index.run = q /\ proc'[q].pc \notin DescribeBehind =>
                    local'.index.validated = state'[q].validated
    BY DEF DescribeMoves, DescribeIndexed
  <1>5. /\ proc'[r].pc = "error" => proc'[r].next = "none"
        /\ proc'[r].pc \notin DescribeBehind => state'[r].at <= local'.index.at
        /\ local'.index.run = r => local'.index.at <= state'[r].at
        /\ local'.index.run = r /\ proc'[r].pc \notin DescribeBehind => local'.index.validated = state'[r].validated
    <2>1. CASE state'[r] = state[r] /\ (proc'[r].pc \notin DescribeBehind => proc[r].pc \notin DescribeBehind)
      BY <2>1 DEF DescribeMoves, DescribeIndexed
    <2>2. CASE state'[r].at = local.now + 1 /\ proc'[r].pc \in DescribeBehind
      BY <1>1, <2>2 DEF DescribeMoves, DescribeIndexed
    <2> QED
      BY <2>1, <2>2 DEF DescribeMoves
  <1>6. local'.index.run = 0 => local'.index.at = 0 /\ local'.index.validated = -1
    BY <1>2 DEF DescribeIndexed
  <1> QED
    BY <1>3, <1>4, <1>5, <1>6 DEF DescribeIndexed

LEMMA DescribeMovesPublished ==
  ASSUME Describe!PrDescriptionAssumption, DescribeInv, DescribeInv', NEW r \in Runs, DescribeMoves(r),
         DescribePublished
  PROVE  DescribePublished'
  <1>1. local.now \in Nat /\ local'.now \in Nat /\ local.now <= local'.now /\ Describe!NoPost.at = 0 /\
          github.shared.at \in Nat
    BY DescribeConstants, DescribeNumbers DEF DescribeMoves
  <1>2. github'.shared.at <= local'.now
    BY <1>1 DEF DescribeMoves, DescribePublished
  <1>3. ASSUME NEW q \in Runs PROVE proc'[q].post.at <= local'.now
    BY <1>1, DescribeNumbers DEF DescribeMoves, DescribePublished
  <1>4. \A q \in DescribeShares : q \in Runs \ {r} /\ proc'[q] = proc[q]
    BY DEF DescribeMoves, DescribeShares
  <1>5. DescribeShares' = DescribeShares
    <2>1. \A q \in Runs : proc'[q].pc \in DescribeSharing <=> proc[q].pc \in DescribeSharing
      BY DEF DescribeMoves
    <2> QED
      BY <2>1 DEF DescribeShares
  <1>6. ASSUME NEW q \in Runs, DescribeTop(q) PROVE DescribeTop(q)'
    BY <1>4, <1>5, <1>6 DEF DescribeTop, DescribeMoves
  <1>7. local'.sourceOnly = local.sourceOnly /\ local'.index = local.index /\ github'.shared = github.shared
    BY DEF DescribeMoves
  <1>8. ~local'.sourceOnly /\ local'.index.run # 0 =>
          \/ \E q \in Runs : DescribeTop(q)'
          \/ github'.shared.value = local'.index.validated /\
               \A q \in DescribeShares' : proc'[q].post.at <= github'.shared.at
    BY <1>4, <1>5, <1>6, <1>7 DEF DescribePublished
  <1> QED
    BY <1>2, <1>3, <1>8 DEF DescribePublished

\* To go to another place.
LEMMA DescribeGoing ==
  ASSUME DescribeInv, NEW r \in Runs, NEW pc, proc'[r].pc = pc, proc'[r].next = proc[r].next,
         proc'[r].post = proc[r].post,
         \A q \in Runs \ {r} : proc'[q] = proc[q], UNCHANGED <<local, state>>, github'.shared = github.shared,
         proc[r].pc \notin DescribeSharing, pc \notin DescribeSharing, pc = "error" => proc[r].next = "none",
         pc \notin DescribeBehind => proc[r].pc \notin DescribeBehind
  PROVE  DescribeMoves(r)
  BY DEF DescribeMoves

LEMMA DescribeWent ==
  ASSUME DescribeInv, NEW r \in Runs, NEW pc, Describe!Goto(r, pc)
  PROVE  /\ proc'[r].pc = pc /\ proc'[r].next = proc[r].next /\ proc'[r].post = proc[r].post
         /\ \A q \in Runs \ {r} : proc'[q] = proc[q]
  <1>1. PICK p : p = [proc[r] EXCEPT !.pc = pc]
    OBVIOUS
  <1>2. p.pc = pc /\ p.next = proc[r].next /\ p.post = proc[r].post
    BY <1>1, DescribeOne DEF DescribeProcess
  <1>3. proc' = [proc EXCEPT ![r] = p]
    BY <1>1 DEF Describe!Goto
  <1> QED
    BY <1>2, <1>3 DEF DescribeInv, DescribeTypes

\* To write the file.
LEMMA DescribeWrote ==
  ASSUME DescribeInv, NEW r \in Runs, NEW f, "at" \in DOMAIN f, Describe!Saved(r, f)
  PROVE  /\ state'[r].at = local.now + 1 /\ local'.now = local.now + 1 /\ local'.index = local.index
         /\ local'.sourceOnly = local.sourceOnly /\ \A q \in Runs \ {r} : state'[q] = state[q]
  <1>1. PICK s, now : now = local.now + 1 /\ s = [f EXCEPT !.at = local.now + 1]
    OBVIOUS
  <1>2. s.at = local.now + 1
    BY <1>1
  <1>3. state' = [state EXCEPT ![r] = s] /\ local' = [local EXCEPT !.now = now]
    BY <1>1 DEF Describe!Saved
  <1>4. local'.now = now /\ local'.index = local.index /\ local'.sourceOnly = local.sourceOnly
    BY <1>3, DescribeReading DEF DescribeLocal
  <1>5. state'[r] = s /\ \A q \in Runs \ {r} : state'[q] = state[q]
    BY <1>3 DEF DescribeInv, DescribeTypes
  <1> QED
    BY <1>1, <1>2, <1>4, <1>5

LEMMA DescribeSaving ==
  ASSUME DescribeInv, NEW r \in Runs, NEW f, "at" \in DOMAIN f, NEW next \in DescribeNext,
         Describe!SaveAndRefresh(r, f, next),
         proc[r].pc \notin DescribeSharing
  PROVE  DescribeMoves(r)
  <1>1. PICK p \in DescribeProcess : Describe!Save(r, f) /\ proc' = [proc EXCEPT ![r] = p] /\ p.pc = "lock" /\
          p.post = proc[r].post
    BY DescribeRefreshes
  <1>2. proc' = [proc EXCEPT ![r] = p] /\ Describe!Saved(r, f) /\ UNCHANGED github
    BY <1>1 DEF Describe!Save
  <1>3. proc'[r] = p /\ \A q \in Runs \ {r} : proc'[q] = proc[q]
    BY <1>2 DEF DescribeInv, DescribeTypes
  <1> QED
    BY <1>1, <1>2, <1>3, DescribeWrote DEF DescribeMoves, DescribeBehind, DescribeSharing

LEMMA DescribeResting ==
  ASSUME Describe!PrDescriptionAssumption, DescribeInv, NEW r \in Runs,
         NEW exit \in {"none", "waiting", "done", "head_changed", "error"}, Describe!Exit(r, exit),
         UNCHANGED <<github, local, state>>, proc[r].pc \notin DescribeSharing \cup DescribeBehind
  PROVE  DescribeMoves(r)
  <1>1. PICK p : p = Describe!Resting(exit)
    OBVIOUS
  <1>2. p.pc = "idle" /\ p.next = "none" /\ p.post = Describe!NoPost /\ proc' = [proc EXCEPT ![r] = p]
    BY <1>1, DescribeRest DEF Describe!Exit
  <1>3. proc'[r] = p /\ \A q \in Runs \ {r} : proc'[q] = proc[q]
    BY <1>2 DEF DescribeInv, DescribeTypes
  <1> QED
    BY <1>2, <1>3 DEF DescribeMoves, DescribeSharing

\* The file has the time of its last write.
LEMMA DescribeTimed ==
  ASSUME DescribeInv, NEW r \in Runs
  PROVE  DOMAIN state[r] = {"exists", "at", "sweep", "pr", "task", "validated", "cleared"}
  BY DescribeOne DEF DescribeFile

LEMMA DescribeReserves ==
  ASSUME Describe!PrDescriptionAssumption, DescribeInv, NEW r \in Runs, NEW sweep, Describe!Reserve(r, sweep),
         UNCHANGED github, proc[r].pc = "idle"
  PROVE  DescribeMoves(r)
  <1>1. PICK p, rest, post : /\ rest = Describe!Resting("none") /\ post = Describe!NoPost
                             /\ p = [Describe!Resting("none") EXCEPT !.pc = "lock", !.next = "dispatch",
                                  !.sweep = sweep]
    OBVIOUS
  <1>2. rest \in DescribeProcess /\ rest.post = post
    BY <1>1, DescribeRest
  <1>3. p.pc = "lock" /\ p.post = post
    BY <1>1, <1>2 DEF DescribeProcess
  <1>4. proc' = [proc EXCEPT ![r] = p] /\ Describe!Saved(r, Describe!Reserved(r, sweep))
    BY <1>1 DEF Describe!Reserve
  <1>5. proc'[r] = p /\ \A q \in Runs \ {r} : proc'[q] = proc[q]
    BY <1>4 DEF DescribeInv, DescribeTypes
  <1>6. "at" \in DOMAIN Describe!Reserved(r, sweep)
    BY DEF Describe!Reserved
  <1> QED
    BY <1>1, <1>3, <1>4, <1>5, <1>6, DescribeWrote DEF DescribeMoves, DescribeBehind, DescribeSharing

LEMMA DescribeCalls ==
  ASSUME Describe!PrDescriptionAssumption, DescribeInv, NEW r \in Runs, Describe!LaunchBounded(r)
  PROVE  DescribeMoves(r)
  <1>1. PICK sweep \in {state[r].sweep, state[r].sweep + 1} \cap (1..MaxSweeps) :
          \/ /\ proc' = [proc EXCEPT ![r] =
                 IF state[r].sweep # sweep THEN Describe!Resting("error")
                 ELSE [Describe!Resting("none") EXCEPT !.sweep = sweep,
                         !.pc = IF ~Describe!Checkpointed(r) THEN "error" ELSE IF state[r].task.status =
                           "running" THEN "observe" ELSE "accept"]]
             /\ UNCHANGED <<state, local>>
          \/ Describe!Reserve(r, sweep)
          \/ Describe!Exit(r, "error") /\ UNCHANGED <<state, local>>
    BY DEF Describe!LaunchBounded
  <1>2. UNCHANGED github /\ proc[r].pc = "idle"
    BY DEF Describe!LaunchBounded
  <1>3. proc[r].pc \notin DescribeSharing \cup DescribeBehind
    BY <1>2 DEF DescribeSharing, DescribeBehind
  <1>4. CASE Describe!Reserve(r, sweep)
    BY <1>2, <1>4, DescribeReserves
  <1>5. CASE Describe!Exit(r, "error") /\ UNCHANGED <<state, local>>
    BY <1>2, <1>3, <1>5, DescribeResting
  <1>6. CASE /\ proc' = [proc EXCEPT ![r] =
                 IF state[r].sweep # sweep THEN Describe!Resting("error")
                 ELSE [Describe!Resting("none") EXCEPT !.sweep = sweep,
                         !.pc = IF ~Describe!Checkpointed(r) THEN "error" ELSE IF state[r].task.status =
                           "running" THEN "observe" ELSE "accept"]]
             /\ UNCHANGED <<state, local>>
    <2>1. PICK pc : pc = IF ~Describe!Checkpointed(r) THEN "error" ELSE IF state[r].task.status =
            "running" THEN "observe" ELSE "accept"
      OBVIOUS
    <2>2. pc \in {"error", "observe", "accept"}
      BY <2>1
    <2>3. PICK rest, post : rest = Describe!Resting("none") /\ post = Describe!NoPost
      OBVIOUS
    <2>4. rest \in DescribeProcess /\ rest.post = post /\ rest.next = "none"
      BY <2>3, DescribeRest
    <2>5. PICK p : p = [rest EXCEPT !.sweep = sweep, !.pc = pc]
      OBVIOUS
    <2>6. p.pc = pc /\ p.post = post /\ p.next = "none"
      BY <2>4, <2>5 DEF DescribeProcess
    <2>7. CASE state[r].sweep # sweep
      BY <1>2, <1>3, <1>6, <2>7, DescribeResting DEF Describe!Exit
    <2>8. CASE state[r].sweep = sweep
      <3>1. proc' = [proc EXCEPT ![r] = p]
        BY <1>6, <2>1, <2>3, <2>5, <2>8
      <3>2. proc'[r] = p /\ \A q \in Runs \ {r} : proc'[q] = proc[q]
        BY <3>1 DEF DescribeInv, DescribeTypes
      <3> QED
        BY <1>2, <1>3, <1>6, <2>2, <2>3, <2>6, <3>2 DEF DescribeMoves, DescribeSharing
    <2> QED
      BY <2>7, <2>8
  <1> QED
    BY <1>1, <1>4, <1>5, <1>6

\* Where the index is up to date the way there is over.
LEMMA DescribeFree ==
  ASSUME DescribeInv, NEW r \in Runs, proc[r].pc \in DescribePlain
  PROVE  proc[r].next = "none" /\ proc[r].pc \notin DescribeSharing
  BY DescribeStands DEF DescribePlain, DescribeSharing

LEMMA DescribeGoesOn ==
  ASSUME Describe!PrDescriptionAssumption, DescribeInv, NEW r \in Runs,
         Describe!Lock(r) \/ Describe!Dispatch(r) \/ Describe!Send(r) \/ Describe!Observe(r) \/ Describe!Accept(r) \/
           Describe!Keep(r) \/ Describe!Propose(r) \/ Describe!Check(r)
  PROVE  DescribeMoves(r)
  <1>1. "at" \in DOMAIN state[r] /\ \A status : "at" \in DOMAIN [state[r] EXCEPT !.task.status = status]
    BY DescribeTimed
  <1>2. CASE Describe!Lock(r)
    <2>1. PICK p : p = [proc[r] EXCEPT !.pc = "update", !.index = local.index]
      OBVIOUS
    <2>2. p.pc = "update" /\ p.post = proc[r].post
      BY <2>1, DescribeOne DEF DescribeProcess
    <2>3. proc' = [proc EXCEPT ![r] = p] /\ local' = [local EXCEPT !.guard = r, !.file = r] /\
            UNCHANGED <<github, state>> /\ proc[r].pc = "lock"
      BY <1>2, <2>1 DEF Describe!Lock
    <2>4. proc'[r] = p /\ \A q \in Runs \ {r} : proc'[q] = proc[q]
      BY <2>3 DEF DescribeInv, DescribeTypes
    <2>5. local'.now = local.now /\ local'.index = local.index /\ local'.sourceOnly = local.sourceOnly
      BY <2>3, DescribeReading DEF DescribeLocal
    <2> QED
      BY <2>2, <2>3, <2>4, <2>5 DEF DescribeMoves, DescribeBehind, DescribeSharing
  <1>3. CASE Describe!Dispatch(r)
    BY <1>1, <1>3, DescribeSaving DEF Describe!Dispatch, DescribeNext, DescribeSharing
  <1>4. CASE Describe!Send(r)
    <2>1. PICK pc \in {"waiting", "observe"} : Describe!Goto(r, pc) /\ UNCHANGED <<github, local, state>> /\
            proc[r].pc = "send"
      BY <1>4 DEF Describe!Send
    <2> QED
      BY <2>1, DescribeWent, DescribeGoing DEF DescribeBehind, DescribeSharing
  <1>5. CASE Describe!Observe(r)
    <2>1. proc[r].pc = "observe" /\ proc[r].next = "none"
      BY <1>5, DescribeFree DEF Describe!Observe, DescribePlain
    <2>2. \/ \E pc \in {"waiting", "error", "accept"} : Describe!Goto(r, pc) /\ UNCHANGED <<github, local, state>>
          \/ Describe!SaveAndRefresh(r, [state[r] EXCEPT !.task.status = "result_ready"], "waiting")
      BY <1>5 DEF Describe!Observe
    <2>3. ASSUME NEW pc \in {"waiting", "error", "accept"}, Describe!Goto(r, pc), UNCHANGED <<github, local, state>>
          PROVE DescribeMoves(r)
      BY <2>1, <2>3, DescribeWent, DescribeGoing DEF DescribeBehind, DescribeSharing
    <2>4. CASE Describe!SaveAndRefresh(r, [state[r] EXCEPT !.task.status = "result_ready"], "waiting")
      BY <1>1, <2>1, <2>4, DescribeSaving DEF DescribeNext, DescribeSharing
    <2> QED
      BY <2>2, <2>3, <2>4
  <1>6. CASE Describe!Accept(r)
    <2>1. proc[r].pc = "accept" /\ proc[r].next = "none"
      BY <1>6, DescribeFree DEF Describe!Accept, DescribePlain
    <2>2. CASE ~Describe!Unchanged(state[r].pr)
      BY <1>1, <1>6, <2>1, <2>2, DescribeSaving DEF Describe!Accept, DescribeNext, DescribeSharing
    <2>3. CASE Describe!Unchanged(state[r].pr)
      <3>1. PICK pc \in {"keep", "clear", "propose"} :
              /\ Describe!Saved(r, [state[r] EXCEPT !.task.status = "validated",
                   !.task.decision = Describe!Decision(r)]) /\ Describe!Goto(r, pc) /\ UNCHANGED github
        BY <1>6, <2>3 DEF Describe!Accept, Describe!Save
      <3>2. "at" \in DOMAIN [state[r] EXCEPT !.task.status = "validated", !.task.decision = Describe!Decision(r)]
        BY DescribeTimed
      <3> QED
        BY <2>1, <3>1, <3>2, DescribeWent, DescribeWrote DEF DescribeMoves, DescribeBehind, DescribeSharing
    <2> QED
      BY <2>2, <2>3
  <1>7. CASE Describe!Keep(r)
    <2>1. proc[r].pc = "keep" /\ proc[r].next = "none" /\
            "at" \in DOMAIN [state[r] EXCEPT !.validated = state[r].pr.head]
      BY <1>7, DescribeFree, DescribeTimed DEF Describe!Keep, DescribePlain
    <2>2. CASE Describe!Unchanged(state[r].pr)
      BY <1>7, <2>1, <2>2, DescribeSaving DEF Describe!Keep, DescribeNext, DescribeSharing
    <2>3. CASE ~Describe!Unchanged(state[r].pr)
      <3>1. Describe!Goto(r, "error") /\ UNCHANGED <<github, local, state>>
        BY <1>7, <2>3 DEF Describe!Keep
      <3> QED
        BY <2>1, <3>1, DescribeWent, DescribeGoing DEF DescribeBehind, DescribeSharing
    <2> QED
      BY <2>2, <2>3
  <1>8. CASE Describe!Propose(r)
    <2>1. proc[r].pc = "propose" /\ "at" \in DOMAIN [state[r] EXCEPT !.validated = 0]
      BY <1>8, DescribeTimed DEF Describe!Propose
    <2>2. Describe!Saved(r, [state[r] EXCEPT !.validated = 0]) /\ Describe!Goto(r, "check") /\ UNCHANGED github
      BY <1>8 DEF Describe!Propose, Describe!Save
    <2> QED
      BY <2>1, <2>2, DescribeWent, DescribeWrote DEF DescribeMoves, DescribeBehind, DescribeSharing
  <1>9. CASE Describe!Check(r)
    <2>1. proc[r].pc = "check" /\ proc[r].next = "none"
      BY <1>9, DescribeFree DEF Describe!Check, DescribePlain
    <2>2. PICK pc, read : pc \in {"patch", "error"} /\ proc' = [proc EXCEPT ![r].pc = pc, ![r].read = read] /\
            UNCHANGED <<github, local, state>>
      BY <1>9 DEF Describe!Check
    <2>3. PICK p : p = [proc[r] EXCEPT !.pc = pc, !.read = read]
      OBVIOUS
    <2>4. p.pc = pc /\ p.next = proc[r].next /\ p.post = proc[r].post
      BY <2>3, DescribeOne DEF DescribeProcess
    <2>5. proc' = [proc EXCEPT ![r] = p]
      BY <2>2, <2>3 DEF DescribeInv, DescribeTypes
    <2>6. proc'[r] = p /\ \A q \in Runs \ {r} : proc'[q] = proc[q]
      BY <2>5 DEF DescribeInv, DescribeTypes
    <2> QED
      BY <2>1, <2>2, <2>4, <2>6, DescribeGoing DEF DescribeBehind, DescribeSharing
  <1> QED
    BY <1>2, <1>3, <1>4, <1>5, <1>6, <1>7, <1>8, <1>9

LEMMA DescribeGoesFurther ==
  ASSUME Describe!PrDescriptionAssumption, DescribeInv, DescribeIndexed, NEW r \in Runs,
         Describe!Patch(r) \/ Describe!Verify(r) \/ Describe!Clear(r) \/ Describe!Finalize(r) \/ Describe!Ended(r) \/
           Describe!Raised(r)
  PROVE  DescribeMoves(r)
  <1>1. CASE Describe!Patch(r)
    <2>1. proc[r].pc = "patch" /\ Describe!Goto(r, "verify") /\ UNCHANGED <<local, state>> /\
            github'.shared = github.shared
      BY <1>1, DescribeReading DEF Describe!Patch, DescribeSource
    <2> QED
      BY <2>1, DescribeWent, DescribeGoing DEF DescribeBehind, DescribeSharing
  <1>2. CASE Describe!Verify(r)
    <2>1. proc[r].pc = "verify" /\ proc[r].next = "none"
      BY <1>2, DescribeFree DEF Describe!Verify, DescribePlain
    <2>2. "at" \in DOMAIN [state[r] EXCEPT !.pr.text = Describe!Proposal(r), !.validated = state[r].pr.head]
      BY DescribeTimed
    <2>3. CASE Describe!Verified(r)
      BY <1>2, <2>1, <2>2, <2>3, DescribeSaving DEF Describe!Verify, DescribeNext, DescribeSharing
    <2>4. CASE ~Describe!Verified(r)
      <3>1. Describe!Goto(r, "error") /\ UNCHANGED <<github, local, state>>
        BY <1>2, <2>4 DEF Describe!Verify
      <3> QED
        BY <2>1, <3>1, DescribeWent, DescribeGoing DEF DescribeBehind, DescribeSharing
    <2> QED
      BY <2>3, <2>4
  <1>3. CASE Describe!Clear(r)
    <2>1. proc[r].pc = "clear" /\ proc[r].next = "none"
      BY <1>3, DescribeFree DEF Describe!Clear, DescribePlain
    <2>2. "at" \in DOMAIN [state[r] EXCEPT !.task.status = "completed", !.cleared = Describe!Validated(state[r])]
      BY DescribeTimed
    <2>3. CASE ~(Describe!Validated(state[r]) /\ ~Describe!Unchanged(state[r].pr))
      BY <1>3, <2>1, <2>2, <2>3, DescribeSaving DEF Describe!Clear, DescribeNext, DescribeSharing
    <2>4. CASE Describe!Validated(state[r]) /\ ~Describe!Unchanged(state[r].pr)
      <3>1. Describe!Goto(r, "error") /\ UNCHANGED <<github, local, state>>
        BY <1>3, <2>4 DEF Describe!Clear
      <3> QED
        BY <2>1, <3>1, DescribeWent, DescribeGoing DEF DescribeBehind, DescribeSharing
    <2> QED
      BY <2>3, <2>4
  <1>4. CASE Describe!Finalize(r)
    <2>1. "at" \in DOMAIN state[r] /\ proc[r].pc = "finalize"
      BY <1>4, DescribeTimed DEF Describe!Finalize
    <2> QED
      BY <1>4, <2>1, DescribeSaving DEF Describe!Finalize, DescribeNext, DescribeSharing
  <1>5. CASE Describe!Ended(r)
    <2>1. proc[r].pc \notin DescribeSharing \cup DescribeBehind
      BY <1>5 DEF Describe!Ended, DescribeSharing, DescribeBehind
    <2>2. PICK exit \in {"none", "waiting", "done", "head_changed", "error"} : Describe!Exit(r, exit) /\
            UNCHANGED <<github, local, state>>
      BY <1>5 DEF Describe!Ended
    <2> QED
      BY <2>1, <2>2, DescribeResting
  <1>6. CASE Describe!Raised(r)
    <2>1. proc[r].pc = "error" /\ proc[r].next = "none"
      BY <1>6 DEF Describe!Raised, DescribeIndexed
    <2>2. PICK status : Describe!SaveAndRefresh(r, [state[r] EXCEPT !.task.status = status], "failed")
      BY <1>6, <2>1 DEF Describe!Raised
    <2>3. "at" \in DOMAIN [state[r] EXCEPT !.task.status = status]
      BY DescribeTimed
    <2> QED
      BY <2>1, <2>2, <2>3, DescribeSaving DEF DescribeNext, DescribeSharing
  <1> QED
    BY <1>1, <1>2, <1>3, <1>4, <1>5, <1>6

LEMMA DescribeUpdateIndexed ==
  ASSUME Describe!PrDescriptionAssumption, DescribeInv, DescribeInv', NEW r \in Runs, Describe!UpdateIndex(r),
         DescribeIndexed
  PROVE  DescribeIndexed'
  <1>1. PICK p \in DescribeProcess, l \in DescribeLocal :
           /\ proc' = [proc EXCEPT ![r] = p] /\ local' = l /\ UNCHANGED <<github, hosted, state, budget>>
           /\ l.index = Describe!Updated(r, proc[r].index) /\ l.now = local.now + 1
           /\ p.pc = (IF l.index.validated # local.index.validated /\
                ~local.sourceOnly THEN "read_shared" ELSE proc[r].next)
    BY DescribeUpdated
  <1>2. proc'[r] = p /\ \A q \in Runs \ {r} : proc'[q] = proc[q]
    BY <1>1 DEF DescribeInv, DescribeTypes
  <1>3. proc[r].pc = "update" /\ proc[r].next \in DescribeNext
    BY DescribeOne DEF Describe!UpdateIndex, DescribePlaced, DescribeIndexing
  <1>4. p.pc # "error"
    BY <1>1, <1>3 DEF DescribeNext
  <1>5. /\ l.index.at >= local.index.at /\ l.index.at >= state[r].at
        /\ \/ state[r].at < local.index.at /\ l.index = local.index
           \/ local.index.at <= state[r].at /\ l.index.at = state[r].at /\ l.index.run = r /\
                l.index.validated = state[r].validated
    BY <1>1, <1>3, DescribeUpdates
  <1>6. l.index.at \in Nat /\ local.now \in Nat /\ local.index.at \in Nat /\ \A q \in Runs : state[q].at \in Nat
    BY DescribeNumbers DEF DescribeLocal, DescribeIndex
  <1>7. l.index.at <= l.now /\ \A q \in Runs : state[q].at <= l.now
    BY <1>1, <1>5, <1>6 DEF DescribeIndexed
  <1>8. l.index.run = 0 => l.index.at = 0 /\ l.index.validated = -1
    BY <1>5, DescribeConstants DEF DescribeIndexed
  <1>9. ASSUME NEW q \in Runs \ {r}
        PROVE  /\ proc[q].pc = "error" => proc[q].next = "none"
               /\ proc[q].pc \notin DescribeBehind => state[q].at <= l.index.at
               /\ l.index.run = q => l.index.at <= state[q].at
               /\ l.index.run = q /\ proc[q].pc \notin DescribeBehind => l.index.validated = state[q].validated
    BY <1>5, <1>6 DEF DescribeIndexed
  <1>10. /\ l.index.run = r => l.index.at <= state[r].at
         /\ l.index.run = r => l.index.validated = state[r].validated
    BY <1>5, <1>6 DEF DescribeIndexed
  <1>11. /\ local'.index.at <= local'.now /\ \A q \in Runs : state'[q].at <= local'.now
         /\ local'.index.run = 0 => local'.index.at = 0 /\ local'.index.validated = -1
    BY <1>1, <1>7, <1>8
  <1>12. ASSUME NEW q \in Runs
         PROVE  /\ proc'[q].pc = "error" => proc'[q].next = "none"
                /\ proc'[q].pc \notin DescribeBehind => state'[q].at <= local'.index.at
                /\ local'.index.run = q => local'.index.at <= state'[q].at
                /\ local'.index.run = q /\ proc'[q].pc \notin DescribeBehind =>
                     local'.index.validated = state'[q].validated
    <2>1. CASE q = r
      BY <1>1, <1>2, <1>4, <1>5, <1>6, <1>10, <2>1
    <2>2. CASE q # r
      BY <1>1, <1>2, <1>9, <2>2
    <2> QED
      BY <2>1, <2>2
  <1> QED
    BY <1>11, <1>12 DEF DescribeIndexed

\* What goes between a run and the state repository leaves the index alone.
LEMMA DescribeSharesIndexed ==
  ASSUME Describe!PrDescriptionAssumption, DescribeInv, NEW r \in Runs, NEW p, proc' = [proc EXCEPT ![r] = p],
         UNCHANGED <<local, state>>, proc[r].pc \notin DescribeBehind, p.pc # "error", DescribeIndexed
  PROVE  DescribeIndexed'
  <1>1. proc'[r] = p /\ \A q \in Runs \ {r} : proc'[q] = proc[q]
    BY DEF DescribeInv, DescribeTypes
  <1>2. ASSUME NEW q \in Runs
        PROVE  /\ proc'[q].pc = "error" => proc'[q].next = "none"
               /\ proc'[q].pc \notin DescribeBehind => state[q].at <= local.index.at
               /\ local.index.run = q => local.index.at <= state[q].at
               /\ local.index.run = q /\ proc'[q].pc \notin DescribeBehind => local.index.validated = state[q].validated
    BY <1>1 DEF DescribeIndexed
  <1> QED
    BY <1>2 DEF DescribeIndexed

\* A run has as many attempts to publish as there are runs that may be in its way.
EnoughAttempts == IsFiniteSet(Runs) /\ Runs # {} /\ Cardinality(Runs) <= MaxAttempts

LEMMA DescribeCount ==
  ASSUME Describe!PrDescriptionAssumption, EnoughAttempts, NEW r \in Runs, NEW S, S \subseteq Runs
  PROVE  /\ IsFiniteSet(S) /\ Cardinality(S) \in Nat
         /\ r \notin S => Cardinality(S) < MaxAttempts
         /\ r \in S => IsFiniteSet(S \ {r}) /\ Cardinality(S \ {r}) = Cardinality(S) - 1
  <1>1. IsFiniteSet(Runs) /\ IsFiniteSet(S)
    BY FS_Subset DEF EnoughAttempts
  <1>2. Cardinality(S) \in Nat /\ Cardinality(Runs) \in Nat
    BY <1>1, FS_CardinalityType
  <1>3. IsFiniteSet(Runs \ {r}) /\ Cardinality(Runs \ {r}) = Cardinality(Runs) - 1
    BY <1>1, FS_RemoveElement
  <1>4. ASSUME r \notin S PROVE Cardinality(S) < MaxAttempts
    <2>1. S \in SUBSET (Runs \ {r})
      BY <1>4
    <2>2. Cardinality(S) <= Cardinality(Runs \ {r})
      BY <1>3, <2>1, FS_Subset
    <2>3. Cardinality(Runs) <= MaxAttempts /\ MaxAttempts \in Nat
      BY DescribeConstants DEF EnoughAttempts
    <2> QED
      BY <1>2, <1>3, <2>2, <2>3
  <1>5. ASSUME r \in S PROVE IsFiniteSet(S \ {r}) /\ Cardinality(S \ {r}) = Cardinality(S) - 1
    BY <1>1, <1>5, FS_RemoveElement
  <1> QED
    BY <1>1, <1>2, <1>4, <1>5

\* A change of the index is published by the run that made it.
LEMMA DescribeUpdatePublished ==
  ASSUME Describe!PrDescriptionAssumption, EnoughAttempts, DescribeInv, NEW r \in Runs, Describe!UpdateIndex(r),
         DescribeIndexed, DescribePublished
  PROVE  DescribePublished'
  <1>1. PICK p \in DescribeProcess, l \in DescribeLocal :
           /\ proc' = [proc EXCEPT ![r] = p] /\ local' = l /\ UNCHANGED <<github, hosted, state, budget>>
           /\ l.index = Describe!Updated(r, proc[r].index) /\ l.now = local.now + 1 /\ l.sourceOnly = local.sourceOnly
           /\ p.pc = (IF l.index.validated # local.index.validated /\
                ~local.sourceOnly THEN "read_shared" ELSE proc[r].next)
           /\ p.pc = "read_shared" => p.post.value = l.index.validated /\ p.post.at = local.now + 1 /\
                p.post.attempts = 0
           /\ p.pc # "read_shared" => p.post = Describe!NoPost
    BY DescribeUpdated
  <1>2. proc'[r] = p /\ \A q \in Runs \ {r} : proc'[q] = proc[q]
    BY <1>1 DEF DescribeInv, DescribeTypes
  <1>3. proc[r].pc = "update" /\ proc[r].next \in DescribeNext /\ proc[r].next \notin DescribeSharing
    BY DescribeOne DEF Describe!UpdateIndex, DescribePlaced, DescribeIndexing, DescribeNext, DescribeSharing
  <1>4. /\ local.now \in Nat /\ github.shared.at \in Nat /\ github.shared.at <= local.now
        /\ \A q \in Runs : proc[q].post.at \in Nat /\ proc[q].post.at <= local.now
    BY DescribeNumbers DEF DescribePublished
  <1>5. p.post.at <= local.now + 1 /\ p.post.at \in Nat
    BY <1>1, <1>4, DescribeConstants
  <1>6. github'.shared.at <= local'.now /\ \A q \in Runs : proc'[q].post.at <= local'.now
    BY <1>1, <1>2, <1>4, <1>5
  <1>7. r \notin DescribeShares /\ DescribeShares \subseteq Runs
    BY <1>3 DEF DescribeShares, DescribeSharing
  <1>8. ASSUME p.pc = "read_shared" PROVE DescribeTop(r)'
    <2>1. DescribeShares' = DescribeShares \cup {r}
      BY <1>2, <1>7, <1>8 DEF DescribeShares, DescribeSharing
    <2>2. DescribeShares' \ {r} = DescribeShares
      BY <1>7, <2>1
    <2>3. Cardinality(DescribeShares) \in Nat /\ Cardinality(DescribeShares) < MaxAttempts
      BY <1>7, DescribeCount
    <2>4. proc'[r].post.attempts + Cardinality(DescribeShares) < MaxAttempts
      BY <1>1, <1>2, <1>8, <2>3
    <2>5. \A q \in DescribeShares : proc'[q].post.at < proc'[r].post.at
      BY <1>1, <1>2, <1>4, <1>7, <1>8
    <2>6. github'.shared.at < proc'[r].post.at /\ proc'[r].post.value = local'.index.validated /\
            proc'[r].pc = "read_shared"
      BY <1>1, <1>2, <1>4, <1>8
    <2> QED
      BY <2>1, <2>2, <2>4, <2>5, <2>6 DEF DescribeTop
  <1>9. ASSUME p.pc # "read_shared", ~l.sourceOnly, l.index.run # 0
        PROVE  \/ \E q \in Runs : DescribeTop(q)'
               \/ github'.shared.value = local'.index.validated /\
                    \A q \in DescribeShares' : proc'[q].post.at <= github'.shared.at
    <2>1. l.index.validated = local.index.validated /\ p.pc \notin DescribeSharing
      BY <1>1, <1>3, <1>9
    <2>2. local.index.run # 0
      <3>1. SUFFICES ASSUME local.index.run = 0 PROVE FALSE
        OBVIOUS
      <3>2. local.index.at = 0 /\ local.index.validated = -1
        BY <3>1 DEF DescribeIndexed
      <3>3. state[r].at \in Nat /\ state[r].validated \in Nat
        BY DescribeNumbers
      <3>4. \/ state[r].at < local.index.at
            \/ l.index.validated = state[r].validated
        BY <1>1, <1>3, DescribeUpdates
      <3> QED
        BY <2>1, <3>2, <3>3, <3>4
    <2>3. DescribeShares' = DescribeShares
      BY <1>2, <1>7, <2>1 DEF DescribeShares
    <2>4. \A q \in DescribeShares : q \in Runs \ {r} /\ proc'[q] = proc[q]
      BY <1>2, <1>7
    <2>5. ASSUME NEW q \in Runs, DescribeTop(q) PROVE DescribeTop(q)'
      <3>1. q \in DescribeShares /\ local'.index.validated = local.index.validated
        BY <1>1, <2>1, <2>5 DEF DescribeTop
      <3> QED
        BY <1>1, <2>3, <2>4, <2>5, <3>1 DEF DescribeTop
    <2> QED
      BY <1>1, <1>9, <2>1, <2>2, <2>3, <2>4, <2>5 DEF DescribePublished
  <1>10. ~local'.sourceOnly /\ local'.index.run # 0 =>
          \/ \E q \in Runs : DescribeTop(q)'
          \/ github'.shared.value = local'.index.validated /\
               \A q \in DescribeShares' : proc'[q].post.at <= github'.shared.at
    BY <1>1, <1>8, <1>9
  <1> QED
    BY <1>6, <1>10 DEF DescribePublished

LEMMA DescribeReadPublished ==
  ASSUME Describe!PrDescriptionAssumption, EnoughAttempts, DescribeInv, NEW r \in Runs, Describe!ReadShared(r),
         DescribePublished
  PROVE  DescribePublished'
  <1>1. PICK p \in DescribeProcess :
           /\ proc' = [proc EXCEPT ![r] = p] /\ UNCHANGED <<github, local, hosted, state, budget>>
           /\ proc[r].pc = "read_shared" /\ p.pc = "write_shared" /\ p.post.seen = github.shared
           /\ p.post.attempts = proc[r].post.attempts + 1 /\ p.post.at = proc[r].post.at
           /\ p.post.value = proc[r].post.value
    BY DescribeRead
  <1>2. proc'[r] = p /\ \A q \in Runs \ {r} : proc'[q] = proc[q]
    BY <1>1 DEF DescribeInv, DescribeTypes
  <1>3. \A q \in Runs : proc'[q].post.at = proc[q].post.at /\ proc'[q].post.value = proc[q].post.value
    BY <1>1, <1>2
  <1>4. DescribeShares' = DescribeShares /\ DescribeShares \subseteq Runs
    BY <1>1, <1>2 DEF DescribeShares, DescribeSharing
  <1>5. ASSUME NEW q \in Runs, DescribeTop(q) PROVE DescribeTop(q)'
    <2>1. /\ q \in DescribeShares' /\ proc'[q].post.value = local'.index.validated
          /\ github'.shared.at < proc'[q].post.at
          /\ \A o \in DescribeShares' \ {q} : proc'[o].post.at < proc'[q].post.at
      BY <1>1, <1>3, <1>4, <1>5 DEF DescribeTop
    <2>2. CASE q = r
      <3>1. PICK n : n = Cardinality(DescribeShares \ {q})
        OBVIOUS
      <3>2. proc[q].post.attempts + n < MaxAttempts
        BY <1>1, <1>5, <2>2, <3>1 DEF DescribeTop
      <3>3. proc'[q].post.attempts = proc[q].post.attempts + 1 /\ proc'[q].pc = "write_shared" /\
              proc'[q].post.seen = github'.shared
        BY <1>1, <1>2, <2>2
      <3>4. proc[q].post.attempts \in Nat /\ n \in Nat /\ MaxAttempts \in Nat
        BY <1>4, <3>1, DescribeConstants, DescribeCount, DescribeNumbers
      <3>5. PICK tries : tries = proc'[q].post.attempts + n
        OBVIOUS
      <3>6. tries <= MaxAttempts
        BY <3>2, <3>3, <3>4, <3>5
      <3>7. DescribeShares' \ {q} = DescribeShares \ {q}
        BY <1>4
      <3> QED
        BY <2>1, <3>1, <3>3, <3>5, <3>6, <3>7 DEF DescribeTop
    <2>3. CASE q # r
      BY <1>1, <1>2, <1>4, <1>5, <2>1, <2>3 DEF DescribeTop
    <2> QED
      BY <2>2, <2>3
  <1>6. \A q \in DescribeShares' : proc'[q].post.at = proc[q].post.at
    BY <1>3, <1>4
  <1> QED
    BY <1>1, <1>3, <1>4, <1>5, <1>6 DEF DescribePublished

\* A write that comes too late for the one that is to be the last is out of its way.
LEMMA DescribeWritePublished ==
  ASSUME Describe!PrDescriptionAssumption, EnoughAttempts, DescribeInv, NEW r \in Runs, Describe!WriteShared(r),
         DescribePublished
  PROVE  DescribePublished'
  <1>1. PICK p \in DescribeProcess, g \in DescribeSource :
           /\ proc' = [proc EXCEPT ![r] = p] /\ github' = g
           /\ g.shared = IF github.shared = proc[r].post.seen THEN Describe!Merged(proc[r].post) ELSE github.shared
           /\ github.shared.at <= g.shared.at
           /\ \/ /\ p.pc = "read_shared" /\ p.next = proc[r].next /\ p.post = proc[r].post /\
                      p.post.attempts < MaxAttempts
                 /\ github.shared # proc[r].post.seen /\ Describe!Merged(proc[r].post) # proc[r].post.seen
              \/ /\ p.pc = proc[r].next /\ p.next = "none" /\ p.post = Describe!NoPost
                 /\ github.shared = proc[r].post.seen \/ Describe!Merged(proc[r].post) = proc[r].post.seen \/
                      proc[r].post.attempts >= MaxAttempts
    BY DescribeWritten
  <1>2. proc'[r] = p /\ \A q \in Runs \ {r} : proc'[q] = proc[q]
    BY <1>1 DEF DescribeInv, DescribeTypes
  <1>3. UNCHANGED local /\ proc[r].pc = "write_shared" /\ proc[r].next \in DescribeNext /\
          proc[r].post.seen.at <= github.shared.at
    BY DescribeOne DEF Describe!WriteShared, DescribePlaced, DescribeIndexing, DescribeSharing, DescribeLocked
  <1>4. /\ local.now \in Nat /\ github.shared.at \in Nat /\ github.shared.at <= local.now
        /\ \A q \in Runs : proc[q].post.at \in Nat /\ proc[q].post.at <= local.now /\ proc[q].post.attempts \in Nat
    BY DescribeNumbers DEF DescribePublished
  <1>5. /\ proc[r].post.seen.at \in Nat /\ MaxAttempts \in Nat /\ Describe!NoPost.at = 0 /\ g.shared.at \in Nat
        /\ proc[r].post.seen.at >= proc[r].post.at => Describe!Merged(proc[r].post) = proc[r].post.seen
        /\ proc[r].post.seen.at < proc[r].post.at =>
             Describe!Merged(proc[r].post).at = proc[r].post.at /\
               Describe!Merged(proc[r].post).value = proc[r].post.value
    BY DescribeConstants, DescribeMerged DEF DescribePost, DescribeShared, DescribeSource
  <1>6. g.shared = github.shared \/ (g.shared.at = proc[r].post.at /\ g.shared.value = proc[r].post.value /\
          github.shared.at < proc[r].post.at)
    <2>1. CASE github.shared # proc[r].post.seen
      BY <1>1, <2>1
    <2>2. CASE github.shared = proc[r].post.seen
      <3>1. g.shared = Describe!Merged(proc[r].post) /\ proc[r].post.at \in Nat
        BY <1>1, <1>4, <2>2
      <3>2. CASE proc[r].post.seen.at >= proc[r].post.at
        BY <1>5, <2>2, <3>1, <3>2
      <3>3. CASE proc[r].post.seen.at < proc[r].post.at
        BY <1>5, <2>2, <3>1, <3>3
      <3> QED
        BY <1>5, <3>1, <3>2, <3>3
    <2> QED
      BY <2>1, <2>2
  <1>7. g.shared.at <= local.now /\ p.post.at <= local.now
    BY <1>1, <1>4, <1>5, <1>6
  <1>8. github'.shared.at <= local'.now /\ \A q \in Runs : proc'[q].post.at <= local'.now
    BY <1>1, <1>2, <1>3, <1>4, <1>7
  <1>9. r \in DescribeShares /\ DescribeShares \subseteq Runs
    BY <1>3 DEF DescribeShares, DescribeSharing
  <1>10. CASE p.pc = "read_shared" /\ p.post = proc[r].post /\ github.shared # proc[r].post.seen
    <2>1. DescribeShares' = DescribeShares /\ g.shared = github.shared
      BY <1>1, <1>2, <1>9, <1>10 DEF DescribeShares, DescribeSharing
    <2>2. ASSUME NEW q \in Runs, DescribeTop(q) PROVE DescribeTop(q)'
      <3>1. CASE q = r
        <4>1. PICK n : n = Cardinality(DescribeShares \ {q})
          OBVIOUS
        <4>2. proc[q].post.attempts + n < MaxAttempts
          BY <1>10, <2>2, <3>1, <4>1 DEF DescribeTop
        <4>3. proc'[q].post = proc[q].post /\ \A o \in DescribeShares \ {q} : proc'[o] = proc[o]
          BY <1>2, <1>9, <1>10, <3>1
        <4> QED
          BY <1>1, <1>2, <1>3, <1>10, <2>1, <2>2, <3>1, <4>1, <4>2, <4>3 DEF DescribeTop
      <3>2. CASE q # r
        <4>1. proc'[q] = proc[q] /\ \A o \in DescribeShares \ {q} : proc'[o].post = proc[o].post
          BY <1>2, <1>9, <1>10, <3>2
        <4> QED
          BY <1>1, <1>3, <2>1, <2>2, <4>1 DEF DescribeTop
      <3> QED
        BY <3>1, <3>2
    <2>3. \A q \in DescribeShares : proc'[q].post = proc[q].post
      BY <1>2, <1>9, <1>10
    <2> QED
      BY <1>1, <1>3, <1>8, <2>1, <2>2, <2>3 DEF DescribePublished
  <1>11. CASE /\ p.pc = proc[r].next /\ p.post = Describe!NoPost
              /\ github.shared = proc[r].post.seen \/ Describe!Merged(proc[r].post) = proc[r].post.seen \/
                   proc[r].post.attempts >= MaxAttempts
    <2>1. p.pc \notin DescribeSharing
      BY <1>3, <1>11 DEF DescribeNext, DescribeSharing
    <2>2. DescribeShares' = DescribeShares \ {r}
      BY <1>2, <1>9, <2>1 DEF DescribeShares
    <2>3. \A q \in DescribeShares' : q \in Runs \ {r} /\ proc'[q] = proc[q] /\ q \in DescribeShares
      BY <1>2, <1>9, <2>2
    <2>4. ASSUME DescribeTop(r)
          PROVE  github'.shared.value = local'.index.validated /\
                 \A q \in DescribeShares' : proc'[q].post.at <= github'.shared.at
      <3>1. /\ proc[r].post.value = local.index.validated /\ github.shared.at < proc[r].post.at
            /\ \A q \in DescribeShares \ {r} : proc[q].post.at < proc[r].post.at
        BY <2>4 DEF DescribeTop
      <3>2. PICK n : n = Cardinality(DescribeShares \ {r})
        OBVIOUS
      <3>3. n \in Nat
        BY <1>9, <3>2, DescribeCount
      <3>4. github.shared # proc[r].post.seen => proc[r].post.attempts + n < MaxAttempts
        BY <1>3, <2>4, <3>2 DEF DescribeTop
      <3>5. proc[r].post.seen.at < proc[r].post.at
        BY <1>3, <1>4, <1>5, <3>1
      <3>6. Describe!Merged(proc[r].post) # proc[r].post.seen
        BY <1>5, <3>5
      <3>7. github.shared = proc[r].post.seen
        BY <1>4, <1>5, <1>11, <3>3, <3>4, <3>6
      <3>8. g.shared.at = proc[r].post.at /\ g.shared.value = proc[r].post.value
        BY <1>1, <1>5, <3>5, <3>7
      <3> QED
        BY <1>1, <1>3, <1>4, <2>2, <2>3, <3>1, <3>8
    <2>5. ASSUME NEW q \in Runs \ {r}, DescribeTop(q) PROVE DescribeTop(q)'
      <3>1. /\ q \in DescribeShares /\ proc[q].post.value = local.index.validated /\ github.shared.at < proc[q].post.at
            /\ \A o \in DescribeShares \ {q} : proc[o].post.at < proc[q].post.at
        BY <2>5 DEF DescribeTop
      <3>2. PICK n, m : n = Cardinality(DescribeShares \ {q}) /\ m = Cardinality(DescribeShares' \ {q})
        OBVIOUS
      <3>3. DescribeShares' \ {q} = (DescribeShares \ {q}) \ {r} /\ r \in DescribeShares \ {q} /\
              DescribeShares \ {q} \subseteq Runs
        BY <1>9, <2>2, <2>5
      <3>4. n \in Nat /\ m = n - 1
        BY <3>2, <3>3, DescribeCount
      <3>5. proc[q].post.attempts + n <= MaxAttempts
        BY <1>4, <1>5, <2>5, <3>2, <3>4 DEF DescribeTop
      <3>6. proc[q].post.attempts + m < MaxAttempts
        BY <1>4, <1>5, <3>4, <3>5
      <3>7. g.shared.at < proc[q].post.at
        BY <1>1, <1>6, <1>9, <2>5, <3>1
      <3>8. q \in DescribeShares' /\ proc'[q] = proc[q] /\
              \A o \in DescribeShares' \ {q} : proc'[o].post.at < proc'[q].post.at
        BY <1>2, <2>2, <2>3, <2>5, <3>1
      <3>9. /\ proc'[q].post.attempts + m < MaxAttempts /\ proc'[q].post.attempts + m <= MaxAttempts
            /\ proc'[q].post.value = local'.index.validated /\ github'.shared.at < proc'[q].post.at
        BY <1>1, <1>3, <1>4, <1>5, <3>1, <3>4, <3>6, <3>7, <3>8
      <3> QED
        BY <3>2, <3>8, <3>9 DEF DescribeTop
    <2>6. ASSUME github.shared.value = local.index.validated /\
            \A q \in DescribeShares : proc[q].post.at <= github.shared.at
          PROVE  github'.shared.value = local'.index.validated /\
                 \A q \in DescribeShares' : proc'[q].post.at <= github'.shared.at
      <3>1. proc[r].post.at <= github.shared.at
        BY <1>9, <2>6
      <3>2. g.shared = github.shared
        BY <1>4, <1>6, <1>9, <3>1
      <3> QED
        BY <1>1, <1>3, <2>3, <2>6, <3>2
    <2> QED
      BY <1>3, <1>8, <2>4, <2>5, <2>6 DEF DescribePublished
  <1> QED
    BY <1>1, <1>10, <1>11

\* As long as nothing happens to the runs the index speaks for the last one that
\* was saved, and what it says is published or on its way.
LEMMA DescribeStaysQuiet ==
  ASSUME Describe!PrDescriptionAssumption, EnoughAttempts, DescribeInv, DescribeInv', DescribeQuiet,
         [Describe!Next]_Describe!vars
  PROVE  DescribeQuiet'
  <1>1. SUFFICES ASSUME budget' = MaxEvents PROVE DescribeIndexed' /\ DescribePublished'
    BY DEF DescribeQuiet
  <1>2. budget \in 0..MaxEvents /\ MaxEvents \in Nat
    BY DescribeConstants, DescribeReading
  <1>3. budget' # budget - 1
    BY <1>1, <1>2
  <1>4. /\ ~Describe!OthersMove
        /\ \A r \in Runs : ~Describe!ShareFails(r) /\ ~Describe!Fails(r) /\ ~Describe!Crash(r)
    BY <1>3 DEF Describe!OthersMove, Describe!ShareFails, Describe!Fails, Describe!Crash
  <1>5. budget' = budget
    <2>1. ASSUME NEW r \in Runs, Describe!Lock(r) \/ Describe!UpdateIndex(r) \/ Describe!ReadShared(r) \/
            Describe!WriteShared(r) \/ Describe!Send(r) \/ Describe!HostedEnds(r) \/ Describe!Check(r) \/
              Describe!Patch(r)
                 \/ Describe!Ended(r) \/ Describe!LaunchAlone(r) \/ Describe!LaunchBounded(r)
          PROVE  UNCHANGED budget
      BY <2>1 DEF Describe!Lock, Describe!UpdateIndex, Describe!ReadShared, Describe!WriteShared, Describe!Send,
        Describe!HostedEnds, Describe!Check, Describe!Patch, Describe!Ended, Describe!LaunchAlone,
          Describe!LaunchBounded
    <2>2. ASSUME NEW r \in Runs, Describe!Dispatch(r) \/ Describe!Observe(r) \/ Describe!Accept(r) \/
            Describe!Keep(r) \/ Describe!Propose(r) \/ Describe!Verify(r) \/ Describe!Clear(r) \/ Describe!Finalize(r)
                 \/ Describe!Raised(r)
          PROVE  UNCHANGED budget
      BY <2>2 DEF Describe!Dispatch, Describe!Observe, Describe!Accept, Describe!Keep, Describe!Propose,
        Describe!Verify, Describe!Clear, Describe!Finalize, Describe!Raised, Describe!SaveAndRefresh, Describe!Save
    <2>3. CASE Describe!Rest \/ UNCHANGED Describe!vars
      BY <2>3 DEF Describe!Rest, Describe!vars
    <2> QED
      BY <1>4, <2>1, <2>2, <2>3 DEF Describe!Next
  <1>6. DescribeIndexed /\ DescribePublished
    BY <1>1, <1>5 DEF DescribeQuiet
  <1>7. ASSUME NEW r \in Runs, DescribeMoves(r) PROVE DescribeIndexed' /\ DescribePublished'
    BY <1>6, <1>7, DescribeMovesIndexed, DescribeMovesPublished
  <1>8. ASSUME NEW r \in Runs, Describe!LaunchAlone(r) PROVE DescribeMoves(r)
    BY <1>8, DescribeReserves DEF Describe!LaunchAlone
  <1>9. ASSUME NEW r \in Runs, Describe!ReadShared(r) PROVE DescribeIndexed'
    <2>1. PICK p \in DescribeProcess : proc' = [proc EXCEPT ![r] = p] /\ UNCHANGED <<local, state>> /\
            proc[r].pc = "read_shared" /\ p.pc = "write_shared"
      BY <1>9, DescribeRead
    <2> QED
      BY <1>6, <2>1, DescribeSharesIndexed DEF DescribeBehind
  <1>10. ASSUME NEW r \in Runs, Describe!WriteShared(r) PROVE DescribeIndexed'
    <2>1. PICK p \in DescribeProcess : proc' = [proc EXCEPT ![r] = p] /\ p.pc # "error"
      BY <1>10, DescribeWritten
    <2>2. UNCHANGED <<local, state>> /\ proc[r].pc \notin DescribeBehind
      BY <1>10 DEF Describe!WriteShared, DescribeBehind
    <2> QED
      BY <1>6, <2>1, <2>2, DescribeSharesIndexed
  <1>11. ASSUME UNCHANGED <<github, local, state, proc>> PROVE DescribeIndexed' /\ DescribePublished'
    BY <1>6, <1>11 DEF DescribeIndexed, DescribePublished, DescribeTop, DescribeShares
  <1>12. ASSUME NEW r \in Runs, Describe!HostedEnds(r) PROVE UNCHANGED <<github, local, state, proc>>
    BY <1>12 DEF Describe!HostedEnds
  <1>13. CASE Describe!Rest \/ UNCHANGED Describe!vars
    BY <1>11, <1>13 DEF Describe!Rest, Describe!vars
  <1>14. ASSUME NEW r \in Runs, Describe!UpdateIndex(r) PROVE DescribeIndexed' /\ DescribePublished'
    BY <1>6, <1>14, DescribeUpdateIndexed, DescribeUpdatePublished
  <1>15. ASSUME NEW r \in Runs, Describe!ReadShared(r) \/ Describe!WriteShared(r) PROVE DescribeIndexed' /\
           DescribePublished'
    BY <1>6, <1>9, <1>10, <1>15, DescribeReadPublished, DescribeWritePublished
  <1>16. ASSUME NEW r \in Runs,
                \/ Describe!LaunchAlone(r) \/ Describe!LaunchBounded(r) \/ Describe!Lock(r) \/ Describe!Dispatch(r) \/
                     Describe!Send(r) \/ Describe!Observe(r) \/ Describe!Accept(r) \/ Describe!Keep(r)
                \/ Describe!Propose(r) \/ Describe!Check(r) \/ Describe!Patch(r) \/ Describe!Verify(r) \/
                     Describe!Clear(r) \/ Describe!Finalize(r) \/ Describe!Ended(r) \/ Describe!Raised(r)
         PROVE  DescribeMoves(r)
    BY <1>6, <1>8, <1>16, DescribeCalls, DescribeGoesOn, DescribeGoesFurther
  <1> QED
    BY <1>4, <1>7, <1>11, <1>12, <1>13, <1>14, <1>15, <1>16 DEF Describe!Next

LEMMA DescribeBegins ==
  ASSUME Describe!PrDescriptionAssumption, Describe!Init
  PROVE  DescribeQuiet
  <1>1. PICK shared, index, file, p : shared = Describe!NoShared /\ index = Describe!NoIndex /\
          file = Describe!NoFile /\ p = Describe!Resting("none")
    OBVIOUS
  <1>2. PICK only \in BOOLEAN : local = [index |-> index, guard |-> 0, file |-> 0, sourceOnly |-> only, now |-> 0]
    BY <1>1 DEF Describe!Init
  <1>3. /\ github.shared = shared /\ state = [r \in Runs |-> file] /\ proc = [r \in Runs |-> p]
    BY <1>1 DEF Describe!Init
  <1>4. /\ p.pc = "idle" /\ p.next = "none" /\ p.post = Describe!NoPost /\ Describe!NoPost.at = 0 /\ file.at = 0
        /\ shared.at = 0
        /\ index.at = 0 /\ index.run = 0 /\ index.validated = -1 /\ \A r \in Runs : r # 0
    BY <1>1, DescribeConstants, DescribeRest
  <1>5. \A r \in Runs : state[r].at = 0 /\ proc[r].pc = "idle" /\ proc[r].next = "none" /\ proc[r].post.at = 0
    BY <1>3, <1>4
  <1>6. local.index = index /\ local.now = 0
    BY <1>2
  <1>7. DescribeIndexed
    BY <1>4, <1>5, <1>6 DEF DescribeIndexed
  <1>8. DescribePublished
    BY <1>3, <1>4, <1>5, <1>6 DEF DescribePublished
  <1> QED
    BY <1>7, <1>8 DEF DescribeQuiet

\* Where only the source may be changed no run writes the title or the body.  When
\* all runs are over and nothing happened to them the index speaks for the last of
\* them, and the state repository says the same: provided that a run has as many
\* attempts to publish (SHARED_STATE_MAX_ATTEMPTS) as there are runs that overlap.
THEOREM DescriptionIsAccounted ==
  ASSUME Describe!PrDescriptionAssumption, EnoughAttempts
  PROVE  Describe!Spec => []Describe!Accounted
  <1>1. Describe!Init => DescribeInv /\ DescribeQuiet
    BY DescribeInit, DescribeBegins
  <1>2. DescribeInv /\ DescribeQuiet /\ [Describe!Next]_Describe!vars => DescribeInv' /\ DescribeQuiet'
    BY DescribeSteps, DescribeStaysQuiet
  <1>3. ASSUME DescribeInv, DescribeQuiet PROVE Describe!Accounted
    <2>1. local.sourceOnly => \A i \in DOMAIN github.past : github.past[i].text.by = 0
      <3>1. DOMAIN github.past = 1..Len(github.past)
        BY <1>3, DescribeReading
      <3> QED
        BY <1>3, <3>1, DescribeReading DEF DescribeKept
    <2>2. ASSUME \A r \in Runs : proc[r].pc = "idle", budget = MaxEvents
          PROVE  /\ local.index.at = Describe!Max({state[r].at : r \in Runs})
                 /\ local.index.run # 0 => local.index.validated = state[local.index.run].validated
                 /\ ~local.sourceOnly /\ local.index.run # 0 => github.shared.value = local.index.validated
      <3>1. DescribeIndexed /\ DescribePublished
        BY <1>3, <2>2 DEF DescribeQuiet
      <3>2. /\ local.index.run \in Runs \cup {0} /\ local.index.at \in Nat
            /\ \A r \in Runs : state[r].at \in Nat /\ state[r].at <= local.index.at
        BY <1>3, <2>2, <3>1, DescribeNumbers DEF DescribeIndexed, DescribeBehind
      <3>3. local.index.run # 0 => local.index.validated = state[local.index.run].validated
        BY <2>2, <3>1, <3>2 DEF DescribeIndexed, DescribeBehind
      <3>4. PICK r \in Runs : state[r].at = local.index.at
        <4>1. CASE local.index.run = 0
          BY <3>1, <3>2, <4>1 DEF DescribeIndexed, EnoughAttempts
        <4>2. CASE local.index.run # 0
          BY <3>1, <3>2, <4>2 DEF DescribeIndexed
        <4> QED
          BY <4>1, <4>2
      <3>5. PICK S : S = {state[q].at : q \in Runs}
        OBVIOUS
      <3>6. local.index.at \in S /\ \A y \in S : y \in Nat /\ local.index.at >= y
        BY <3>2, <3>4, <3>5
      <3>7. Describe!Max(S) \in S /\ \A y \in S : Describe!Max(S) >= y
        BY <3>6 DEF Describe!Max
      <3>8. local.index.at = Describe!Max(S)
        BY <3>2, <3>6, <3>7
      <3>9. ~local.sourceOnly /\ local.index.run # 0 => github.shared.value = local.index.validated
        BY <2>2, <3>1 DEF DescribePublished, DescribeTop, DescribeShares, DescribeSharing
      <3> QED
        BY <3>3, <3>5, <3>8, <3>9
    <2> QED
      BY <2>1, <2>2 DEF Describe!Accounted
  <1> QED
    BY <1>1, <1>2, <1>3, PTL DEF Describe!Spec

-----------------------------------------------------------------------------
(* ConflictResolver: no push drops a commit, and a clearance is of the live head.*)
Conflict == INSTANCE ConflictResolver

ConflictExits == {"none", "error", "waiting", "mergeable", "published", "head_changed"}
ConflictLast == {"none", "revalidating", "mergeable", "published", "head_changed"}
ConflictPhases == {"none", "dispatch", "observe", "collect"}

ConflictCommit == [trunk : Seq(Nat), layers : Seq(Int)]
ConflictHeads == [Conflict!Members -> ConflictCommit]
ConflictPin == [trunk : Seq(Nat), heads : ConflictHeads]
ConflictTask == [status : {"none", "running", "completed", "failed"}, base : ConflictCommit, new : ConflictCommit,
  asked : Nat]
ConflictReceipts == [Conflict!Members -> {"none", "dispatching", "active", "completed"}]
ConflictFile == [exists : BOOLEAN, sweep : 0..MaxSweeps, status : Conflict!Statuses, phase : ConflictPhases, member :
  0..N,
                 pin : ConflictPin, inflight : BOOLEAN, receipts : ConflictReceipts, collected : ConflictHeads,
                 pushing : BOOLEAN, advanced : BOOLEAN, last : ConflictLast, cleared : ConflictCommit, attempts : Nat]
ConflictSource == [trunk : Seq(Nat), heads : ConflictHeads, clean : BOOLEAN]
ConflictProcess == [pc : Conflict!Pcs, exit : ConflictExits, sweep : 0..MaxSweeps, tries : 0..2, read : ConflictCommit,
                    trunk : Seq(Nat), mergeable : BOOLEAN]

\* The types in full.
ConflictTypes ==
  /\ github \in ConflictSource /\ local \in BOOLEAN /\ hosted \in [Conflict!Members -> ConflictTask]
  /\ state \in ConflictFile
  /\ proc \in ConflictProcess /\ budget \in 0..MaxMoves

\* A member was replayed, on what the one below became.
ConflictReplayed(s, m) == s.collected[m] = Conflict!Replay(s.pin.heads[m], Conflict!Base(s, m))

\* Of a stack each member has its layers; before our push none of it is on the trunk.
ConflictLaid(s, g) ==
  /\ g.trunk # <<>> /\ \A m \in Conflict!Members : Len(g.heads[m].layers) = m
  /\ ~s.pushing => \A m \in Conflict!Members : g.heads[m].trunk = <<>>

\* What was collected is a replay of what is pinned.
ConflictKept(s) ==
  /\ \A m \in Conflict!Members : s.collected[m] = Conflict!NoCommit \/
       (s.collected[m].trunk # <<>> /\ Len(s.collected[m].layers) = m)
  /\ s.member > 0 => s.pin.trunk # <<>> /\ \A m \in Conflict!Members : s.pin.heads[m].trunk = <<>> /\
       Len(s.pin.heads[m].layers) = m
  /\ \A m \in Conflict!Members : m < s.member \/ s.pushing => ConflictReplayed(s, m)
  /\ s.pushing => s.member > 0
  /\ s.status = "running" => ~s.pushing
  /\ ~s.exists => ~s.pushing /\ s.member = 0
  /\ s.status = "completed" => s.last \in {"mergeable", "published"}

\* The receipts say which members were asked about: those below are done, those above
\* were not begun.
ConflictAsked(s, h) ==
  /\ \A m \in Conflict!Members : s.receipts[m] = "none" => h[m].status = "none" /\ h[m].asked = 0
  /\ \A m \in Conflict!Members : m > s.member => s.receipts[m] = "none"
  /\ \A m \in Conflict!Members : m < s.member => h[m].status = "completed" /\ s.collected[m] = h[m].new
  /\ s.phase = "observe" => s.member > 0 /\ h[s.member].status # "none"
  /\ s.phase = "collect" => s.member > 0 /\ h[s.member].status = "completed"
  /\ s.status = "running" => s.member > 0 /\ s.phase # "none"
  /\ s.status = "completed" => \A m \in Conflict!Members : h[m].status # "running"

ConflictWorking == {"dispatch", "post", "posted", "observe", "collect"}
ConflictPublishing == {"push", "send", "read_back", "confirm", "complete"}

\* Where the process stands.
ConflictPlaced(p, s, h) ==
  /\ p.pc # "idle" => s.exists
  /\ p.pc = "preflight" => s.member = 0 /\ ~s.pushing
  /\ p.pc \in {"revalidate", "revalidated"} => \A m \in Conflict!Members : h[m].status # "running"
  /\ p.pc \in ConflictWorking => s.status = "running"
  /\ p.pc \in {"dispatch", "post", "posted"} => s.phase = "dispatch"
  /\ p.pc = "dispatch" => s.receipts[s.member] = "none"
  /\ p.pc = "post" => s.receipts[s.member] = "dispatching" /\ h[s.member].status = "none" /\ h[s.member].asked = 0
  /\ p.pc = "posted" => h[s.member].status # "none"
  /\ p.pc \in {"observe", "collect"} => s.phase = p.pc
  /\ p.pc \in {"verify", "publish"} \cup ConflictPublishing => s.member = N /\ s.phase = "collect"
  /\ p.pc \in {"publish"} \cup ConflictPublishing => \A m \in Conflict!Members : ConflictReplayed(s, m)
  /\ p.pc \in ConflictPublishing => s.pushing /\ (s.advanced <=> p.trunk # s.pin.trunk)
  /\ p.pc = "complete" => s.last = "published"
  /\ p.pc \notin {"read_back", "confirm", "complete"} => p.tries < 2

ConflictGood(p, s, h, g) == ConflictLaid(s, g) /\ ConflictKept(s) /\ ConflictAsked(s, h) /\ ConflictPlaced(p, s, h)

ConflictInv == ConflictTypes /\ ConflictGood(proc, state, hosted, github)

LEMMA ConflictConstants ==
  ASSUME Conflict!ConflictResolverAssumption
  PROVE  /\ N \in Nat \ {0} /\ Bounded \in BOOLEAN /\ MaxSweeps \in Nat \ {0} /\ MaxMoves \in Nat
         /\ Conflict!Members = 1..N
         /\ N \in Conflict!Members /\ 1 \in Conflict!Members
         /\ Conflict!NoCommit \in ConflictCommit /\ Conflict!NoCommit.trunk = <<>> /\ Conflict!NoCommit.layers = <<>>
         /\ Conflict!NoHosted \in ConflictTask /\ Conflict!NoHosted.status = "none" /\ Conflict!NoHosted.asked = 0
         /\ Conflict!NoFile \in ConflictFile /\ Conflict!NoFile.member = 0 /\ ~Conflict!NoFile.pushing /\
              Conflict!NoFile.status = "none"
         /\ Conflict!NoFile.phase = "none" /\ Conflict!NoFile.cleared = Conflict!NoCommit /\ ~Conflict!NoFile.exists
         /\ \A m \in Conflict!Members : Conflict!NoFile.collected[m] = Conflict!NoCommit /\
              Conflict!NoFile.receipts[m] = "none"
  <1>1. N \in Nat \ {0} /\ Bounded \in BOOLEAN /\ MaxSweeps \in Nat \ {0} /\ MaxMoves \in Nat
    BY DEF Conflict!ConflictResolverAssumption
  <1>2. Conflict!Members = 1..N /\ N \in Conflict!Members /\ 1 \in Conflict!Members
    BY <1>1 DEF Conflict!Members
  <1>3. PICK commit : commit = Conflict!NoCommit
    OBVIOUS
  <1>4. commit \in ConflictCommit /\ commit.trunk = <<>> /\ commit.layers = <<>>
    BY <1>3 DEF Conflict!NoCommit, Conflict!Commit, ConflictCommit
  <1>5. Conflict!NoHosted = [status |-> "none", base |-> commit, new |-> commit, asked |-> 0]
    BY <1>3 DEF Conflict!NoHosted
  <1>6. Conflict!NoHosted \in ConflictTask /\ Conflict!NoHosted.status = "none" /\ Conflict!NoHosted.asked = 0
    BY <1>4, <1>5 DEF ConflictTask
  <1>7. PICK heads : heads = [m \in Conflict!Members |-> commit]
    OBVIOUS
  <1>8. heads \in ConflictHeads /\ \A m \in Conflict!Members : heads[m] = commit
    BY <1>4, <1>7 DEF ConflictHeads
  <1>9. PICK pin, receipts : pin = [trunk |-> <<>>, heads |-> heads] /\ receipts = [m \in Conflict!Members |-> "none"]
    OBVIOUS
  <1>10. pin \in ConflictPin /\ receipts \in ConflictReceipts /\ \A m \in Conflict!Members : receipts[m] = "none"
    BY <1>8, <1>9 DEF ConflictPin, ConflictReceipts
  <1>11. Conflict!NoFile = [exists |-> FALSE, sweep |-> 0, status |-> "none", phase |-> "none", member |-> 0,
           pin |-> pin,
                   inflight |-> FALSE, receipts |-> receipts, collected |-> heads, pushing |-> FALSE,
                     advanced |-> FALSE,
                   last |-> "none", cleared |-> commit, attempts |-> 0]
    BY <1>3, <1>7, <1>9 DEF Conflict!NoFile, Conflict!NoPin
  <1>12. /\ Conflict!NoFile.member = 0 /\ ~Conflict!NoFile.pushing /\ Conflict!NoFile.status = "none" /\
              Conflict!NoFile.phase = "none"
         /\ Conflict!NoFile.cleared = commit /\ Conflict!NoFile.collected = heads
         /\ Conflict!NoFile.receipts = receipts /\ ~Conflict!NoFile.exists
    BY <1>11
  <1>13. Conflict!NoFile \in ConflictFile
    BY <1>1, <1>4, <1>8, <1>10, <1>11 DEF ConflictFile, Conflict!Statuses, ConflictPhases, ConflictLast
  <1> QED
    BY <1>1, <1>2, <1>3, <1>4, <1>6, <1>8, <1>10, <1>12, <1>13

LEMMA ConflictRest ==
  ASSUME Conflict!ConflictResolverAssumption, NEW exit \in ConflictExits
  PROVE  /\ Conflict!Resting(exit) \in ConflictProcess /\ Conflict!Resting(exit).pc = "idle"
         /\ Conflict!Resting(exit).exit = exit
         /\ Conflict!Resting(exit).tries = 0
  <1>1. PICK commit : commit = Conflict!NoCommit
    OBVIOUS
  <1>2. Conflict!Resting(exit) = [pc |-> "idle", exit |-> exit, sweep |-> 0, tries |-> 0, read |-> commit,
          trunk |-> <<>>,
                         mergeable |-> FALSE]
    BY <1>1 DEF Conflict!Resting
  <1>3. commit \in ConflictCommit /\ MaxSweeps \in Nat
    BY <1>1, ConflictConstants
  <1> QED
    BY <1>2, <1>3 DEF ConflictProcess, Conflict!Pcs

LEMMA ConflictReading ==
  ASSUME ConflictInv
  PROVE  /\ github \in ConflictSource /\ local \in BOOLEAN /\ hosted \in [Conflict!Members -> ConflictTask]
         /\ state \in ConflictFile
         /\ proc \in ConflictProcess /\ budget \in 0..MaxMoves
         /\ ConflictLaid(state, github) /\ ConflictKept(state) /\ ConflictAsked(state, hosted)
         /\ ConflictPlaced(proc, state, hosted)
  BY DEF ConflictInv, ConflictTypes, ConflictGood

\* The invariant of the next state, from the values that it has.
LEMMA ConflictThen ==
  ASSUME NEW g \in ConflictSource, NEW l \in BOOLEAN, NEW h \in [Conflict!Members -> ConflictTask],
         NEW s \in ConflictFile,
         NEW p \in ConflictProcess,
         github' = g, local' = l, hosted' = h, state' = s, proc' = p, budget' \in 0..MaxMoves, ConflictGood(p, s, h, g)
  PROVE  ConflictInv'
  BY DEF ConflictInv, ConflictTypes, ConflictGood, ConflictLaid, ConflictKept, ConflictAsked, ConflictPlaced,
         ConflictReplayed, Conflict!Base, Conflict!Replay, Conflict!Commit, Conflict!NoCommit

LEMMA ConflictInit ==
  ASSUME Conflict!ConflictResolverAssumption, Conflict!Init
  PROVE  ConflictInv
  <1>1. PICK heads, p, file, none : /\ heads = [m \in Conflict!Members |-> Conflict!Commit(<<>>, [i \in 1..m |-> 0])]
                                    /\ p = Conflict!Resting("none") /\ file = Conflict!NoFile
                                    /\ none = Conflict!NoHosted
    OBVIOUS
  <1>2. ASSUME NEW m \in Conflict!Members
        PROVE  heads[m] \in ConflictCommit /\ heads[m].trunk = <<>> /\ Len(heads[m].layers) = m
    <2>1. m \in Nat
      BY ConflictConstants
    <2>2. PICK layers : layers = [i \in 1..m |-> 0]
      OBVIOUS
    <2>3. layers \in Seq(Int) /\ Len(layers) = m
      BY <2>1, <2>2
    <2>4. heads[m] = [trunk |-> <<>>, layers |-> layers]
      BY <1>1, <2>2 DEF Conflict!Commit
    <2> QED
      BY <2>3, <2>4 DEF ConflictCommit
  <1>3. PICK g, h : /\ g = [trunk |-> <<1>>, heads |-> heads, clean |-> FALSE] /\ h = [m \in Conflict!Members |-> none]
    OBVIOUS
  <1>4. heads \in ConflictHeads
    BY <1>1, <1>2 DEF ConflictHeads
  <1>5. g \in ConflictSource /\ g.trunk # <<>> /\ g.heads = heads
    <2>1. <<1>> \in Seq(Nat) /\ <<1>> # <<>>
      OBVIOUS
    <2> QED
      BY <1>3, <1>4, <2>1 DEF ConflictSource
  <1>6. none \in ConflictTask /\ none.status = "none" /\ none.asked = 0
    BY <1>1, ConflictConstants
  <1>7. h \in [Conflict!Members -> ConflictTask] /\ \A m \in Conflict!Members : h[m] = none
    BY <1>3, <1>6
  <1>8. github = g /\ local = FALSE /\ hosted = h /\ state = file /\ proc = p /\ budget = MaxMoves
    BY <1>1, <1>3 DEF Conflict!Init
  <1>9. p \in ConflictProcess /\ p.pc = "idle" /\ p.tries = 0
    BY <1>1, ConflictRest DEF ConflictExits
  <1>10. /\ file \in ConflictFile /\ file.member = 0 /\ ~file.pushing /\ file.status = "none" /\ file.phase = "none"
         /\ \A m \in Conflict!Members : file.collected[m] = Conflict!NoCommit /\ file.receipts[m] = "none"
         /\ Conflict!Members = 1..N /\ N \in Nat /\ MaxMoves \in Nat
    BY <1>1, ConflictConstants
  <1>11. ConflictTypes
    <2>1. budget \in 0..MaxMoves
      BY <1>8, <1>10
    <2>2. github \in ConflictSource /\ local \in BOOLEAN /\ hosted \in [Conflict!Members -> ConflictTask]
      BY <1>5, <1>7, <1>8
    <2>3. state \in ConflictFile /\ proc \in ConflictProcess
      BY <1>8, <1>9, <1>10
    <2> QED
      BY <2>1, <2>2, <2>3 DEF ConflictTypes
  <1>12. ConflictLaid(file, g)
    BY <1>2, <1>5 DEF ConflictLaid
  <1>13. ConflictKept(file)
    BY <1>10 DEF ConflictKept
  <1>14. ConflictAsked(file, h)
    BY <1>6, <1>7, <1>10 DEF ConflictAsked
  <1>15. ConflictPlaced(p, file, h)
    BY <1>9 DEF ConflictPlaced, ConflictWorking, ConflictPublishing
  <1> QED
    BY <1>8, <1>11, <1>12, <1>13, <1>14, <1>15 DEF ConflictInv, ConflictGood

-----------------------------------------------------------------------------
(* Replays *)

LEMMA ConflictReplay ==
  ASSUME NEW head \in ConflictCommit, NEW base \in ConflictCommit, head.layers # <<>>
  PROVE  /\ Conflict!Replay(head, base) \in ConflictCommit /\ Conflict!Replay(head, base).trunk = base.trunk
         /\ Conflict!Replay(head, base).layers = Append(base.layers, Conflict!Last(head.layers))
         /\ Len(Conflict!Replay(head, base).layers) = Len(base.layers) + 1
         /\ Conflict!Last(Conflict!Replay(head, base).layers) = Conflict!Last(head.layers)
         /\ Conflict!Front(Conflict!Replay(head, base).layers) = base.layers
         /\ Conflict!Replay(head, base) # Conflict!NoCommit
  <1>1. head.layers \in Seq(Int) /\ base.layers \in Seq(Int) /\ base.trunk \in Seq(Nat)
    BY DEF ConflictCommit
  <1>2. PICK last, layers : last = Conflict!Last(head.layers) /\ layers = Append(base.layers, last)
    OBVIOUS
  <1>3. last \in Int
    BY <1>1, <1>2 DEF Conflict!Last
  <1>4. layers \in Seq(Int) /\ Len(layers) = Len(base.layers) + 1 /\ layers[Len(layers)] = last /\ layers # <<>>
    BY <1>1, <1>2, <1>3
  <1>5. Conflict!Last(layers) = last
    BY <1>4 DEF Conflict!Last
  <1>6. Conflict!Front(layers) = base.layers
    <2>1. Conflict!Front(layers) = SubSeq(layers, 1, Len(layers) - 1)
      BY DEF Conflict!Front
    <2>2. Len(layers) - 1 = Len(base.layers) /\ Len(base.layers) \in Nat
      BY <1>1, <1>4
    <2>3. SubSeq(layers, 1, Len(base.layers)) = base.layers
      BY <1>1, <1>2, <1>3
    <2> QED
      BY <2>1, <2>2, <2>3
  <1>7. Conflict!Replay(head, base) = [trunk |-> base.trunk, layers |-> layers]
    BY <1>2 DEF Conflict!Replay, Conflict!Commit
  <1>8. Conflict!Replay(head, base) # Conflict!NoCommit
    BY <1>4, <1>7 DEF Conflict!NoCommit, Conflict!Commit
  <1> QED
    BY <1>1, <1>2, <1>4, <1>5, <1>6, <1>7, <1>8 DEF ConflictCommit

\* What a member is replayed onto, and how many layers that has.
LEMMA ConflictBase ==
  ASSUME Conflict!ConflictResolverAssumption, NEW s \in ConflictFile, NEW m \in Conflict!Members
  PROVE  /\ Conflict!Base(s, m) \in ConflictCommit
         /\ m = 1 => Conflict!Base(s, m).trunk = s.pin.trunk /\ Conflict!Base(s, m).layers = <<>>
         /\ m # 1 => m - 1 \in Conflict!Members /\ Conflict!Base(s, m) = s.collected[m - 1]
  <1>1. Conflict!Members = 1..N /\ N \in Nat
    BY ConflictConstants
  <1>2. s.collected \in ConflictHeads /\ s.pin.trunk \in Seq(Nat)
    BY DEF ConflictFile, ConflictPin
  <1>3. CASE m = 1
    <2>1. PICK commit : commit = [trunk |-> s.pin.trunk, layers |-> <<>>]
      OBVIOUS
    <2>2. commit \in ConflictCommit /\ commit.trunk = s.pin.trunk /\ commit.layers = <<>>
      BY <1>2, <2>1 DEF ConflictCommit
    <2>3. Conflict!Base(s, m) = commit
      BY <1>3, <2>1 DEF Conflict!Base, Conflict!Commit
    <2> QED
      BY <1>3, <2>2, <2>3
  <1>4. CASE m # 1
    <2>1. m - 1 \in Conflict!Members
      BY <1>1, <1>4
    <2>2. Conflict!Base(s, m) = s.collected[m - 1]
      BY <1>4 DEF Conflict!Base
    <2> QED
      BY <1>2, <1>4, <2>1, <2>2 DEF ConflictHeads
  <1> QED
    BY <1>3, <1>4

\* A replayed member stands on the pinned trunk, with its layers.
LEMMA ConflictLayers ==
  ASSUME Conflict!ConflictResolverAssumption, NEW s \in ConflictFile, NEW m \in Conflict!Members, ConflictKept(s),
         s.member > 0,
         m # 1 => ConflictReplayed(s, m - 1)
  PROVE  /\ Conflict!Base(s, m).trunk # <<>> /\ Len(Conflict!Base(s, m).layers) = m - 1
         /\ s.pin.heads[m] \in ConflictCommit /\ s.pin.heads[m].layers # <<>> /\ s.pin.heads[m].trunk = <<>>
         /\ Conflict!Replay(s.pin.heads[m], Conflict!Base(s, m)) \in ConflictCommit
         /\ Conflict!Replay(s.pin.heads[m], Conflict!Base(s, m)) # Conflict!NoCommit
         /\ Conflict!Replay(s.pin.heads[m], Conflict!Base(s, m)).trunk # <<>>
         /\ Len(Conflict!Replay(s.pin.heads[m], Conflict!Base(s, m)).layers) = m
  <1>1. Conflict!Members = 1..N /\ N \in Nat
    BY ConflictConstants
  <1>2. s.pin.heads \in ConflictHeads
    BY DEF ConflictFile, ConflictPin
  <1>3. /\ s.pin.trunk # <<>>
        /\ \A k \in Conflict!Members : s.pin.heads[k].trunk = <<>> /\ Len(s.pin.heads[k].layers) = k
        /\ \A k \in Conflict!Members : s.collected[k] = Conflict!NoCommit \/
             (s.collected[k].trunk # <<>> /\ Len(s.collected[k].layers) = k)
    BY DEF ConflictKept
  <1>4. ASSUME NEW k \in Conflict!Members
        PROVE  s.pin.heads[k] \in ConflictCommit /\ s.pin.heads[k].layers # <<>>
    <2>1. s.pin.heads[k] \in ConflictCommit /\ Len(s.pin.heads[k].layers) = k /\ k \in Nat \ {0}
      BY <1>1, <1>2, <1>3 DEF ConflictHeads
    <2> QED
      BY <2>1 DEF ConflictCommit
  <1>5. Conflict!Base(s, m) \in ConflictCommit
    BY ConflictBase
  <1>6. Conflict!Base(s, m).trunk # <<>> /\ Len(Conflict!Base(s, m).layers) = m - 1
    <2>1. CASE m = 1
      BY <1>3, <2>1, ConflictBase
    <2>2. CASE m # 1
      <3>1. m - 1 \in Conflict!Members /\ Conflict!Base(s, m) = s.collected[m - 1]
        BY <2>2, ConflictBase
      <3>2. s.collected[m - 1] = Conflict!Replay(s.pin.heads[m - 1], Conflict!Base(s, m - 1))
        BY <2>2 DEF ConflictReplayed
      <3>3. Conflict!Base(s, m - 1) \in ConflictCommit
        BY <3>1, ConflictBase
      <3>4. s.collected[m - 1] # Conflict!NoCommit
        BY <1>4, <3>1, <3>2, <3>3, ConflictReplay
      <3> QED
        BY <1>3, <3>1, <3>4
    <2> QED
      BY <2>1, <2>2
  <1>7. PICK r : r = Conflict!Replay(s.pin.heads[m], Conflict!Base(s, m))
    OBVIOUS
  <1>8. r \in ConflictCommit /\ r.trunk = Conflict!Base(s, m).trunk /\
          Len(r.layers) = Len(Conflict!Base(s, m).layers) + 1 /\ r # Conflict!NoCommit
    BY <1>4, <1>5, <1>7, ConflictReplay
  <1>9. Len(r.layers) = m
    BY <1>1, <1>6, <1>8
  <1> QED
    BY <1>3, <1>4, <1>6, <1>7, <1>8, <1>9

\* Where every member is replayed, each has its layers.
LEMMA ConflictAllReplayed ==
  ASSUME Conflict!ConflictResolverAssumption, NEW s \in ConflictFile, ConflictKept(s), s.member > 0,
         \A m \in Conflict!Members : ConflictReplayed(s, m)
  PROVE  \A m \in Conflict!Members :
           /\ s.collected[m] \in ConflictCommit /\ s.collected[m].trunk # <<>>
           /\ Len(s.collected[m].layers) = m /\ s.collected[m] # Conflict!NoCommit
           /\ Conflict!Last(s.collected[m].layers) = Conflict!Last(s.pin.heads[m].layers)
           /\ s.collected[m] # s.pin.heads[m]
           /\ m # 1 => /\ m - 1 \in Conflict!Members /\ s.collected[m].trunk = s.collected[m - 1].trunk
                       /\ Conflict!Front(s.collected[m].layers) = s.collected[m - 1].layers
           /\ m = 1 => s.collected[m].trunk = s.pin.trunk
  <1> SUFFICES ASSUME NEW m \in Conflict!Members
               PROVE  /\ s.collected[m] \in ConflictCommit /\ s.collected[m].trunk # <<>>
                      /\ Len(s.collected[m].layers) = m /\ s.collected[m] # Conflict!NoCommit
                      /\ Conflict!Last(s.collected[m].layers) = Conflict!Last(s.pin.heads[m].layers)
                      /\ s.collected[m] # s.pin.heads[m]
                      /\ m # 1 => /\ m - 1 \in Conflict!Members /\ s.collected[m].trunk = s.collected[m - 1].trunk
                                  /\ Conflict!Front(s.collected[m].layers) = s.collected[m - 1].layers
                      /\ m = 1 => s.collected[m].trunk = s.pin.trunk
    OBVIOUS
  <1>1. s.collected[m] = Conflict!Replay(s.pin.heads[m], Conflict!Base(s, m))
    BY DEF ConflictReplayed
  <1>2. m # 1 => m - 1 \in Conflict!Members
    BY ConflictBase
  <1>3. m # 1 => ConflictReplayed(s, m - 1)
    BY <1>2
  <1>4. /\ s.pin.heads[m] \in ConflictCommit /\ s.pin.heads[m].layers # <<>> /\ s.pin.heads[m].trunk = <<>>
        /\ s.collected[m] \in ConflictCommit /\ s.collected[m] # Conflict!NoCommit /\ s.collected[m].trunk # <<>>
        /\ Len(s.collected[m].layers) = m
    BY <1>1, <1>3, ConflictLayers
  <1>5. Conflict!Base(s, m) \in ConflictCommit
    BY ConflictBase
  <1>6. /\ s.collected[m].trunk = Conflict!Base(s, m).trunk
        /\ Conflict!Last(s.collected[m].layers) = Conflict!Last(s.pin.heads[m].layers)
        /\ Conflict!Front(s.collected[m].layers) = Conflict!Base(s, m).layers
    BY <1>1, <1>4, <1>5, ConflictReplay
  <1>7. m # 1 => Conflict!Base(s, m) = s.collected[m - 1]
    BY ConflictBase
  <1>8. m = 1 => Conflict!Base(s, m).trunk = s.pin.trunk
    BY ConflictBase
  <1> QED
    BY <1>2, <1>4, <1>6, <1>7, <1>8

-----------------------------------------------------------------------------
(* Steps *)

\* The file is as it was but for what it says of the outcome.
ConflictSame(s) ==
  /\ s \in ConflictFile /\ s.exists = state.exists /\ s.phase = state.phase /\ s.member = state.member
  /\ s.pin = state.pin
  /\ s.receipts = state.receipts /\ s.collected = state.collected
  /\ s.status = "running" => state.status = "running"
  /\ s.status = "completed" => s.last \in {"mergeable", "published"} /\
       \A m \in Conflict!Members : hosted[m].status # "running"

LEMMA ConflictSettled ==
  ASSUME Conflict!ConflictResolverAssumption, ConflictInv, NEW s, ConflictSame(s), s.pushing = state.pushing
  PROVE  ConflictLaid(s, github) /\ ConflictKept(s) /\ ConflictAsked(s, hosted)
  <1>1. ConflictLaid(s, github)
    BY ConflictReading DEF ConflictSame, ConflictLaid
  <1>2. \A m \in Conflict!Members : ConflictReplayed(s, m) <=> ConflictReplayed(state, m)
    BY DEF ConflictSame, ConflictReplayed, Conflict!Base
  <1>3. ConflictKept(s)
    BY <1>2, ConflictReading DEF ConflictSame, ConflictKept
  <1>4. ConflictAsked(s, hosted)
    BY ConflictReading DEF ConflictSame, ConflictAsked
  <1> QED
    BY <1>1, <1>3, <1>4

\* The call ends.
LEMMA ConflictExit ==
  ASSUME Conflict!ConflictResolverAssumption, ConflictInv, NEW exit \in ConflictExits, NEW s \in ConflictFile,
         Conflict!Exit(exit), Conflict!Save(s),
         ConflictLaid(s, github), ConflictKept(s), ConflictAsked(s, hosted)
  PROVE  ConflictInv'
  <1>1. PICK p : p = Conflict!Resting(exit)
    OBVIOUS
  <1>2. p \in ConflictProcess /\ p.pc = "idle" /\ p.tries = 0
    BY <1>1, ConflictRest
  <1>3. ConflictPlaced(p, s, hosted)
    BY <1>2 DEF ConflictPlaced, ConflictWorking, ConflictPublishing
  <1>4. proc' = p /\ local' = FALSE /\ state' = s /\ github' = github /\ hosted' = hosted /\ budget' = budget
    BY <1>1 DEF Conflict!Exit, Conflict!Save
  <1> QED
    BY <1>2, <1>3, <1>4, ConflictReading, ConflictThen DEF ConflictGood

\* The call goes on.
LEMMA ConflictGoes ==
  ASSUME Conflict!ConflictResolverAssumption, ConflictInv, NEW p \in ConflictProcess, NEW s \in ConflictFile, proc' = p,
         UNCHANGED local, Conflict!Save(s),
         ConflictLaid(s, github), ConflictKept(s), ConflictAsked(s, hosted), ConflictPlaced(p, s, hosted)
  PROVE  ConflictInv'
  <1>1. local' = local /\ state' = s /\ github' = github /\ hosted' = hosted /\ budget' = budget
    BY DEF Conflict!Save
  <1> QED
    BY <1>1, ConflictReading, ConflictThen DEF ConflictGood

LEMMA ConflictGoto ==
  ASSUME ConflictInv, NEW pc \in Conflict!Pcs
  PROVE  /\ [proc EXCEPT !.pc = pc] \in ConflictProcess /\ [proc EXCEPT !.pc = pc].pc = pc
         /\ [proc EXCEPT !.pc = pc].tries = proc.tries /\ [proc EXCEPT !.pc = pc].trunk = proc.trunk
  BY ConflictReading DEF ConflictProcess

LEMMA ConflictRaise ==
  ASSUME Conflict!ConflictResolverAssumption, ConflictInv, Conflict!Raise(state)
  PROVE  ConflictInv'
  <1>1. PICK i : i = [state EXCEPT !.status = "interrupted"]
    OBVIOUS
  <1>2. i \in ConflictFile /\ i.status = "interrupted"
    BY <1>1, ConflictReading DEF ConflictFile, Conflict!Statuses
  <1>3. /\ i.exists = state.exists /\ i.phase = state.phase /\ i.member = state.member /\ i.pin = state.pin
        /\ i.receipts = state.receipts /\ i.collected = state.collected /\ i.pushing = state.pushing
    BY <1>1, ConflictReading DEF ConflictFile
  <1>4. ConflictSame(i)
    BY <1>2, <1>3 DEF ConflictSame
  <1>5. PICK s : s = IF Bounded /\ state.status # "completed" THEN i ELSE state
    OBVIOUS
  <1>6. s \in ConflictFile /\ ConflictLaid(s, github) /\ ConflictKept(s) /\ ConflictAsked(s, hosted)
    BY <1>3, <1>4, <1>5, ConflictSettled, ConflictReading DEF ConflictSame
  <1>7. Conflict!Exit("error") /\ Conflict!Save(s)
    BY <1>1, <1>5 DEF Conflict!Raise
  <1> QED
    BY <1>6, <1>7, ConflictExit DEF ConflictExits

LEMMA ConflictLaunchFirst ==
  ASSUME Conflict!ConflictResolverAssumption, ConflictInv, Conflict!LaunchFirst
  PROVE  ConflictInv'
  <1>1. PICK s, p, r, none : /\ none = Conflict!NoFile /\ r = Conflict!Resting("none")
                             /\ s = [none EXCEPT !.exists = TRUE, !.sweep = 1, !.status = "preparing"]
                             /\ p = [r EXCEPT !.pc = "preflight", !.sweep = 1]
    OBVIOUS
  <1>2. /\ none \in ConflictFile /\ none.member = 0 /\ ~none.pushing /\ none.phase = "none"
        /\ \A m \in Conflict!Members : none.collected[m] = Conflict!NoCommit /\ none.receipts[m] = "none"
        /\ 1 \in 0..MaxSweeps /\ Conflict!Members = 1..N
    BY <1>1, ConflictConstants
  <1>3. s \in ConflictFile /\ s.status = "preparing" /\ s.exists
    BY <1>1, <1>2 DEF ConflictFile, Conflict!Statuses
  <1>4. s.member = 0 /\ ~s.pushing /\ s.phase = "none" /\ s.collected = none.collected /\ s.receipts = none.receipts
    BY <1>1, <1>2 DEF ConflictFile
  <1>5. r \in ConflictProcess /\ r.tries = 0
    BY <1>1, ConflictRest DEF ConflictExits
  <1>6. p \in ConflictProcess /\ p.pc = "preflight" /\ p.tries = 0
    BY <1>1, <1>2, <1>5 DEF ConflictProcess, Conflict!Pcs
  <1>7. /\ proc' = p /\ state' = s /\ local' = Bounded /\ ~state.exists
        /\ github' = github /\ hosted' = hosted /\ budget' = budget
    BY <1>1 DEF Conflict!LaunchFirst, Conflict!Save
  <1>8. ~state.pushing /\ state.member = 0
    BY <1>7, ConflictReading DEF ConflictKept
  <1>9. \A m \in Conflict!Members : hosted[m].status = "none" /\ hosted[m].asked = 0
    BY <1>2, <1>8, ConflictReading, ConflictConstants DEF ConflictAsked
  <1>10. ConflictLaid(s, github)
    BY <1>8, ConflictReading DEF ConflictLaid
  <1>11. ConflictKept(s)
    BY <1>2, <1>3, <1>4, ConflictConstants DEF ConflictKept
  <1>12. ConflictAsked(s, hosted)
    BY <1>2, <1>3, <1>4, <1>9, ConflictConstants DEF ConflictAsked
  <1>13. ConflictPlaced(p, s, hosted)
    BY <1>3, <1>4, <1>6 DEF ConflictPlaced, ConflictWorking, ConflictPublishing
  <1> QED
    BY <1>3, <1>6, <1>7, <1>10, <1>11, <1>12, <1>13, ConflictThen, ConflictReading, ConflictConstants DEF ConflictGood

LEMMA ConflictLaunchAgain ==
  ASSUME Conflict!ConflictResolverAssumption, ConflictInv, Conflict!LaunchAgain
  PROVE  ConflictInv'
  <1>1. PICK sweep \in {state.sweep, state.sweep + 1} \cap (1..MaxSweeps) :
          IF local THEN proc' = Conflict!Resting("error") /\ UNCHANGED <<local, state>>
          ELSE IF sweep > state.sweep
          THEN IF Conflict!MayRevalidate(sweep)
               THEN /\ proc' = [Conflict!Resting("none") EXCEPT !.pc = "revalidate", !.sweep = sweep] /\ local' = TRUE
                    /\ state' = [state EXCEPT !.sweep = sweep, !.status = "preparing", !.last = "revalidating",
                                              !.cleared = Conflict!NoCommit]
               ELSE proc' = Conflict!Resting("error") /\ UNCHANGED <<local, state>>
          ELSE IF Conflict!Resumable
          THEN proc' = [Conflict!Resting("none") EXCEPT !.pc = state.phase, !.sweep = sweep] /\ local' = TRUE /\
            UNCHANGED state
          ELSE /\ proc' = Conflict!Resting(IF state.status = "completed" THEN state.last ELSE "error")
               /\ state' = [state EXCEPT !.status = IF @ \in {"completed", "interrupted"} THEN @ ELSE "interrupted"]
               /\ UNCHANGED local
    BY DEF Conflict!LaunchAgain
  <1>2. state.exists /\ github' = github /\ hosted' = hosted /\ budget' = budget
    BY DEF Conflict!LaunchAgain
  <1>3. sweep \in 0..MaxSweeps
    BY <1>1, ConflictConstants
  <1>4. PICK r : r = Conflict!Resting("none")
    OBVIOUS
  <1>5. r \in ConflictProcess /\ r.tries = 0
    BY <1>4, ConflictRest DEF ConflictExits
  <1>6. CASE proc' = Conflict!Resting("error") /\ UNCHANGED <<local, state>>
    <2>1. PICK p : p = Conflict!Resting("error")
      OBVIOUS
    <2>2. p \in ConflictProcess /\ p.pc = "idle" /\ p.tries = 0
      BY <2>1, ConflictRest DEF ConflictExits
    <2>3. ConflictPlaced(p, state, hosted)
      BY <2>2 DEF ConflictPlaced, ConflictWorking, ConflictPublishing
    <2> QED
      BY <1>2, <1>6, <2>1, <2>2, <2>3, ConflictReading, ConflictThen DEF ConflictGood
  <1>7. CASE Conflict!MayRevalidate(sweep) /\ proc' = [r EXCEPT !.pc = "revalidate", !.sweep = sweep] /\ local' = TRUE
             /\ state' = [state EXCEPT !.sweep = sweep, !.status = "preparing", !.last = "revalidating",
                                       !.cleared = Conflict!NoCommit]
    <2>1. PICK s, p, none : /\ none = Conflict!NoCommit /\ p = [r EXCEPT !.pc = "revalidate", !.sweep = sweep]
                            /\ s = [state EXCEPT !.sweep = sweep, !.status = "preparing", !.last = "revalidating",
                                                 !.cleared = none]
      OBVIOUS
    <2>2. none \in ConflictCommit
      BY <2>1, ConflictConstants
    <2>3. s \in ConflictFile /\ s.status = "preparing"
      BY <1>3, <2>1, <2>2, ConflictReading DEF ConflictFile, Conflict!Statuses, ConflictLast
    <2>4. /\ s.exists = state.exists /\ s.phase = state.phase /\ s.member = state.member /\ s.pin = state.pin
          /\ s.receipts = state.receipts /\ s.collected = state.collected /\ s.pushing = state.pushing
      BY <2>1, ConflictReading DEF ConflictFile
    <2>5. ConflictLaid(s, github) /\ ConflictKept(s) /\ ConflictAsked(s, hosted)
      BY <2>3, <2>4, ConflictSettled DEF ConflictSame
    <2>6. p \in ConflictProcess /\ p.pc = "revalidate" /\ p.tries = 0
      BY <1>3, <1>5, <2>1 DEF ConflictProcess, Conflict!Pcs
    <2>7. \A m \in Conflict!Members : hosted[m].status # "running"
      BY <1>7, ConflictReading DEF Conflict!MayRevalidate, ConflictAsked
    <2>8. ConflictPlaced(p, s, hosted)
      BY <1>2, <2>4, <2>6, <2>7 DEF ConflictPlaced, ConflictWorking, ConflictPublishing
    <2>9. proc' = p /\ state' = s
      BY <1>7, <2>1
    <2> QED
      BY <1>2, <1>7, <2>3, <2>5, <2>6, <2>8, <2>9, ConflictReading, ConflictThen DEF ConflictGood
  <1>8. CASE Conflict!Resumable /\ proc' = [r EXCEPT !.pc = state.phase, !.sweep = sweep] /\ local' = TRUE /\
          state' = state
    <2>1. PICK p : p = [r EXCEPT !.pc = state.phase, !.sweep = sweep]
      OBVIOUS
    <2>2. state.status = "running" /\ (state.phase = "dispatch" =>
            \A m \in state.member..N : state.receipts[m] = "none")
      BY <1>8 DEF Conflict!Resumable
    <2>3. state.member \in 1..N /\ state.phase \in {"dispatch", "observe", "collect"}
      BY <2>2, ConflictReading, ConflictConstants DEF ConflictAsked, ConflictFile, ConflictPhases
    <2>4. p \in ConflictProcess /\ p.pc = state.phase /\ p.tries = 0
      BY <1>3, <1>5, <2>1, <2>3 DEF ConflictProcess, Conflict!Pcs
    <2>5. state.phase = "dispatch" => state.receipts[state.member] = "none"
      BY <2>2, <2>3, ConflictConstants
    <2>6. ConflictPlaced(p, state, hosted)
      BY <1>2, <2>2, <2>3, <2>4, <2>5 DEF ConflictPlaced, ConflictWorking, ConflictPublishing
    <2>7. proc' = p
      BY <1>8, <2>1
    <2> QED
      BY <1>2, <1>8, <2>4, <2>6, <2>7, ConflictReading, ConflictThen DEF ConflictGood
  <1>9. CASE /\ proc' = Conflict!Resting(IF state.status = "completed" THEN state.last ELSE "error") /\ UNCHANGED local
             /\ state' = [state EXCEPT !.status = IF @ \in {"completed", "interrupted"} THEN @ ELSE "interrupted"]
    <2>1. PICK exit, status : /\ exit = IF state.status = "completed" THEN state.last ELSE "error"
                              /\ status = IF state.status \in {"completed",
                                   "interrupted"} THEN state.status ELSE "interrupted"
      OBVIOUS
    <2>2. PICK p, s : p = Conflict!Resting(exit) /\ s = [state EXCEPT !.status = status]
      OBVIOUS
    <2>3. exit \in ConflictExits
      <3>1. CASE state.status = "completed"
        BY <2>1, <3>1, ConflictReading DEF ConflictKept, ConflictExits
      <3>2. CASE state.status # "completed"
        BY <2>1, <3>2 DEF ConflictExits
      <3> QED
        BY <3>1, <3>2
    <2>4. p \in ConflictProcess /\ p.pc = "idle" /\ p.tries = 0
      BY <2>2, <2>3, ConflictRest
    <2>5. status \in {"completed", "interrupted"} /\ (status = "completed" => state.status = "completed")
      BY <2>1
    <2>6. s \in ConflictFile /\ s.status = status
      BY <2>2, <2>5, ConflictReading DEF ConflictFile, Conflict!Statuses
    <2>7. /\ s.exists = state.exists /\ s.phase = state.phase /\ s.member = state.member /\ s.pin = state.pin
          /\ s.receipts = state.receipts /\ s.collected = state.collected /\ s.pushing = state.pushing
          /\ s.last = state.last
      BY <2>2, ConflictReading DEF ConflictFile
    <2>8. state.status = "completed" =>
            state.last \in {"mergeable", "published"} /\ \A m \in Conflict!Members : hosted[m].status # "running"
      BY ConflictReading DEF ConflictKept, ConflictAsked
    <2>9. ConflictSame(s)
      BY <2>5, <2>6, <2>7, <2>8 DEF ConflictSame
    <2>10. ConflictLaid(s, github) /\ ConflictKept(s) /\ ConflictAsked(s, hosted)
      BY <2>7, <2>9, ConflictSettled
    <2>11. ConflictPlaced(p, s, hosted)
      BY <2>4 DEF ConflictPlaced, ConflictWorking, ConflictPublishing
    <2>12. proc' = p /\ state' = s /\ local' = local
      BY <1>9, <2>1, <2>2
    <2> QED
      BY <1>2, <2>4, <2>6, <2>10, <2>11, <2>12, ConflictReading, ConflictThen DEF ConflictGood
  <1> QED
    BY <1>1, <1>4, <1>6, <1>7, <1>8, <1>9

\* A bounded call ends here, another goes on.
LEMMA ConflictStep ==
  ASSUME Conflict!ConflictResolverAssumption, ConflictInv, NEW pc \in Conflict!Pcs, NEW s \in ConflictFile,
         Conflict!Step(pc), Conflict!Save(s),
         ConflictLaid(s, github), ConflictKept(s), ConflictAsked(s, hosted),
         ~Bounded => ConflictPlaced([proc EXCEPT !.pc = pc], s, hosted)
  PROVE  ConflictInv'
  <1>1. CASE Bounded
    <2>1. Conflict!Exit("waiting")
      BY <1>1 DEF Conflict!Step
    <2> QED
      BY <2>1, ConflictExit DEF ConflictExits
  <1>2. CASE ~Bounded
    <2>1. PICK p : p = [proc EXCEPT !.pc = pc]
      OBVIOUS
    <2>2. p \in ConflictProcess
      BY <2>1, ConflictGoto
    <2>3. proc' = p /\ UNCHANGED local
      BY <1>2, <2>1 DEF Conflict!Step, Conflict!Goto
    <2>4. ConflictPlaced(p, s, hosted)
      BY <1>2, <2>1
    <2> QED
      BY <2>2, <2>3, <2>4, ConflictGoes
  <1> QED
    BY <1>1, <1>2

LEMMA ConflictPreflight ==
  ASSUME Conflict!ConflictResolverAssumption, ConflictInv, Conflict!Preflight
  PROVE  ConflictInv'
  <1>1. proc.pc = "preflight" /\ state.member = 0 /\ ~state.pushing /\ state.exists
    BY ConflictReading DEF Conflict!Preflight, ConflictPlaced
  <1>2. \A m \in Conflict!Members : state.receipts[m] = "none" /\ hosted[m].status = "none" /\ hosted[m].asked = 0
    BY <1>1, ConflictReading, ConflictConstants DEF ConflictAsked
  <1>3. CASE Conflict!NothingToDo
    <2>1. PICK live, s : /\ live = github.heads[N]
                         /\ s = [state EXCEPT !.status = "completed", !.last = "mergeable", !.cleared = live]
      OBVIOUS
    <2>2. live \in ConflictCommit
      BY <2>1, ConflictReading, ConflictConstants DEF ConflictSource, ConflictHeads
    <2>3. s \in ConflictFile /\ s.status = "completed" /\ s.last = "mergeable"
      BY <2>1, <2>2, ConflictReading DEF ConflictFile, Conflict!Statuses, ConflictLast
    <2>4. /\ s.exists = state.exists /\ s.phase = state.phase /\ s.member = state.member /\ s.pin = state.pin
          /\ s.receipts = state.receipts /\ s.collected = state.collected /\ s.pushing = state.pushing
      BY <2>1, ConflictReading DEF ConflictFile
    <2>5. ConflictLaid(s, github) /\ ConflictKept(s) /\ ConflictAsked(s, hosted)
      BY <1>2, <2>3, <2>4, ConflictSettled DEF ConflictSame
    <2>6. Conflict!Save(s) /\ Conflict!Exit("mergeable")
      BY <1>3, <2>1 DEF Conflict!Preflight, Conflict!Recorded
    <2> QED
      BY <2>3, <2>5, <2>6, ConflictExit DEF ConflictExits
  <1>4. CASE ~Conflict!NothingToDo
    <2>1. PICK pin : pin = [trunk |-> github.trunk, heads |-> github.heads]
      OBVIOUS
    <2>2. pin \in ConflictPin /\ pin.trunk = github.trunk /\ pin.heads = github.heads
      BY <2>1, ConflictReading DEF ConflictPin, ConflictSource
    <2>3. PICK s, attempts : /\ attempts = state.attempts + 1
                             /\ s = [state EXCEPT !.status = "running", !.phase = "dispatch", !.member = 1,
                                                  !.attempts = attempts, !.pin = pin]
      OBVIOUS
    <2>4. attempts \in Nat /\ 1 \in 0..N
      BY <2>3, ConflictReading, ConflictConstants DEF ConflictFile
    <2>5. /\ s \in ConflictFile /\ s.status = "running" /\ s.phase = "dispatch" /\ s.member = 1 /\ s.pin = pin
      BY <2>2, <2>3, <2>4, ConflictReading DEF ConflictFile, Conflict!Statuses, ConflictPhases
    <2>6. /\ s.exists = state.exists /\ s.receipts = state.receipts /\ s.collected = state.collected
          /\ s.pushing = state.pushing
      BY <2>3, ConflictReading DEF ConflictFile
    <2>7. ConflictLaid(s, github)
      BY <2>6, ConflictReading DEF ConflictLaid
    <2>8. /\ github.trunk # <<>> /\ \A m \in Conflict!Members : github.heads[m].trunk = <<>> /\
               Len(github.heads[m].layers) = m
      BY <1>1, ConflictReading DEF ConflictLaid
    <2>9. \A m \in Conflict!Members : ~(m < 1)
      BY ConflictConstants
    <2>10. ConflictKept(s)
      <3>1. \A m \in Conflict!Members : s.collected[m] = Conflict!NoCommit \/
              (s.collected[m].trunk # <<>> /\ Len(s.collected[m].layers) = m)
        BY <2>6, ConflictReading DEF ConflictKept
      <3> QED
        BY <1>1, <2>2, <2>5, <2>6, <2>8, <2>9, <3>1 DEF ConflictKept
    <2>11. ConflictAsked(s, hosted)
      BY <1>2, <2>5, <2>6, <2>9 DEF ConflictAsked
    <2>12. [proc EXCEPT !.pc = "dispatch"].pc = "dispatch" /\ [proc EXCEPT !.pc = "dispatch"].tries < 2
      <3>1. proc.tries < 2
        BY <1>1, ConflictReading DEF ConflictPlaced
      <3> QED
        BY <3>1, ConflictGoto DEF Conflict!Pcs
    <2>13. ConflictPlaced([proc EXCEPT !.pc = "dispatch"], s, hosted)
      <3>1. s.receipts[1] = "none"
        BY <1>2, <2>6, ConflictConstants
      <3> QED
        BY <1>1, <2>5, <2>6, <2>12, <3>1 DEF ConflictPlaced, ConflictWorking, ConflictPublishing
    <2>14. Conflict!Save(s) /\ IF Conflict!Stack THEN Conflict!Step("dispatch") ELSE Conflict!Goto("dispatch") /\
             UNCHANGED local
      BY <1>4, <2>1, <2>3 DEF Conflict!Preflight, Conflict!Pinned
    <2>15. CASE Conflict!Stack
      <3>1. Conflict!Step("dispatch")
        BY <2>14, <2>15
      <3>2. "dispatch" \in Conflict!Pcs
        BY DEF Conflict!Pcs
      <3> QED
        BY <2>5, <2>7, <2>10, <2>11, <2>13, <2>14, <3>1, <3>2, ConflictStep
    <2>16. CASE ~Conflict!Stack
      <3>1. PICK p : p = [proc EXCEPT !.pc = "dispatch"]
        OBVIOUS
      <3>2. p \in ConflictProcess
        BY <3>1, ConflictGoto DEF Conflict!Pcs
      <3>3. proc' = p /\ UNCHANGED local
        BY <2>14, <2>16, <3>1 DEF Conflict!Goto
      <3>4. ConflictPlaced(p, s, hosted)
        BY <2>13, <3>1
      <3> QED
        BY <2>5, <2>7, <2>10, <2>11, <2>14, <3>2, <3>3, <3>4, ConflictGoes
    <2> QED
      BY <2>15, <2>16
  <1> QED
    BY <1>3, <1>4

\* A task that did not come to an end is recorded as such.
LEMMA ConflictStatus ==
  ASSUME Conflict!ConflictResolverAssumption, ConflictInv, NEW status \in {"failed", "interrupted"},
         Conflict!Exit("error"),
         Conflict!Save([state EXCEPT !.status = status])
  PROVE  ConflictInv'
  <1>1. PICK s : s = [state EXCEPT !.status = status]
    OBVIOUS
  <1>2. s \in ConflictFile /\ s.status = status
    BY <1>1, ConflictReading DEF ConflictFile, Conflict!Statuses
  <1>3. /\ s.exists = state.exists /\ s.phase = state.phase /\ s.member = state.member /\ s.pin = state.pin
        /\ s.receipts = state.receipts /\ s.collected = state.collected /\ s.pushing = state.pushing
    BY <1>1, ConflictReading DEF ConflictFile
  <1>4. ConflictLaid(s, github) /\ ConflictKept(s) /\ ConflictAsked(s, hosted)
    BY <1>2, <1>3, ConflictSettled DEF ConflictSame
  <1> QED
    BY <1>1, <1>2, <1>4, ConflictExit DEF ConflictExits

LEMMA ConflictPreflightFails ==
  ASSUME Conflict!ConflictResolverAssumption, ConflictInv, Conflict!PreflightFails
  PROVE  ConflictInv'
  BY ConflictStatus DEF Conflict!PreflightFails

LEMMA ConflictDispatch ==
  ASSUME Conflict!ConflictResolverAssumption, ConflictInv, Conflict!Dispatch
  PROVE  ConflictInv'
  <1>1. CASE ~Conflict!Fresh
    <2>1. PICK status : status = IF state.member > 1 THEN "interrupted" ELSE "failed"
      OBVIOUS
    <2>2. status \in {"failed", "interrupted"}
      BY <2>1
    <2>3. Conflict!Exit("error") /\ Conflict!Save([state EXCEPT !.status = status])
      BY <1>1, <2>1 DEF Conflict!Dispatch
    <2> QED
      BY <2>2, <2>3, ConflictStatus
  <1>2. CASE Conflict!Fresh
    <2>1. PICK m, receipts : m = state.member /\ receipts = [state.receipts EXCEPT ![m] = "dispatching"]
      OBVIOUS
    <2>2. /\ proc.pc = "dispatch" /\ state.exists /\ state.status = "running" /\ state.phase = "dispatch"
          /\ state.receipts[m] = "none" /\ proc.tries < 2
      BY <2>1, ConflictReading DEF Conflict!Dispatch, ConflictPlaced, ConflictWorking
    <2>3. m \in Conflict!Members
      BY <2>1, <2>2, ConflictReading, ConflictConstants DEF ConflictAsked, ConflictFile
    <2>4. hosted[m].status = "none" /\ hosted[m].asked = 0
      BY <2>2, <2>3, ConflictReading DEF ConflictAsked
    <2>5. /\ receipts \in ConflictReceipts /\ receipts[m] = "dispatching"
          /\ \A k \in Conflict!Members \ {m} : receipts[k] = state.receipts[k]
      BY <2>1, <2>3, ConflictReading DEF ConflictFile, ConflictReceipts
    <2>6. PICK s, p : /\ s = [state EXCEPT !.inflight = TRUE, !.receipts = receipts]
                      /\ p = [proc EXCEPT !.pc = "post"]
      OBVIOUS
    <2>7. s \in ConflictFile /\ s.receipts = receipts
      BY <2>5, <2>6, ConflictReading DEF ConflictFile
    <2>8. /\ s.exists = state.exists /\ s.phase = state.phase /\ s.member = state.member /\ s.pin = state.pin
          /\ s.status = state.status /\ s.last = state.last /\ s.collected = state.collected
          /\ s.pushing = state.pushing
      BY <2>6, ConflictReading DEF ConflictFile
    <2>9. ConflictLaid(s, github)
      BY <2>8, ConflictReading DEF ConflictLaid
    <2>10. ConflictKept(s)
      <3>1. \A k \in Conflict!Members : ConflictReplayed(s, k) <=> ConflictReplayed(state, k)
        BY <2>8 DEF ConflictReplayed, Conflict!Base
      <3> QED
        BY <2>8, <3>1, ConflictReading DEF ConflictKept
    <2>11. ConflictAsked(s, hosted)
      <3>1. \A k \in Conflict!Members : k > m => k # m
        BY ConflictConstants
      <3> QED
        BY <2>1, <2>2, <2>3, <2>5, <2>7, <2>8, <3>1, ConflictReading DEF ConflictAsked
    <2>12. p \in ConflictProcess /\ p.pc = "post" /\ p.tries < 2
      BY <2>2, <2>6, ConflictGoto DEF Conflict!Pcs
    <2>13. ConflictPlaced(p, s, hosted)
      BY <2>1, <2>2, <2>4, <2>5, <2>7, <2>8, <2>12 DEF ConflictPlaced, ConflictWorking, ConflictPublishing
    <2>14. [state EXCEPT !.inflight = TRUE, !.receipts[state.member] = "dispatching"] = s
      BY <2>1, <2>6
    <2>15. proc' = p /\ UNCHANGED local /\ Conflict!Save(s)
      BY <1>2, <2>6, <2>14 DEF Conflict!Dispatch, Conflict!Goto
    <2> QED
      BY <2>7, <2>9, <2>10, <2>11, <2>12, <2>13, <2>15, ConflictGoes
  <1> QED
    BY <1>1, <1>2

LEMMA ConflictPost ==
  ASSUME Conflict!ConflictResolverAssumption, ConflictInv, Conflict!Post
  PROVE  ConflictInv'
  <1>1. PICK m, base, none, asked : /\ m = state.member /\ base = Conflict!Base(state, m) /\ none = Conflict!NoCommit
                                    /\ asked = hosted[m].asked + 1
    OBVIOUS
  <1>2. PICK t, p : /\ t = [status |-> "running", base |-> base, new |-> none, asked |-> asked]
                    /\ p = [proc EXCEPT !.pc = "posted"]
    OBVIOUS
  <1>3. PICK h : h = [hosted EXCEPT ![m] = t]
    OBVIOUS
  <1>4. /\ proc.pc = "post" /\ state.exists /\ state.status = "running" /\ state.phase = "dispatch"
        /\ state.receipts[m] = "dispatching" /\ proc.tries < 2
    BY <1>1, ConflictReading DEF Conflict!Post, ConflictPlaced, ConflictWorking
  <1>5. m \in Conflict!Members
    BY <1>1, <1>4, ConflictReading, ConflictConstants DEF ConflictAsked, ConflictFile
  <1>6. base \in ConflictCommit /\ none \in ConflictCommit /\ asked \in Nat
    <2>1. base \in ConflictCommit
      BY <1>1, <1>5, ConflictBase, ConflictReading
    <2>2. none \in ConflictCommit
      BY <1>1, ConflictConstants
    <2>3. asked \in Nat
      BY <1>1, <1>5, ConflictReading DEF ConflictTask
    <2> QED
      BY <2>1, <2>2, <2>3
  <1>7. t \in ConflictTask /\ t.status = "running"
    BY <1>2, <1>6 DEF ConflictTask
  <1>8. h \in [Conflict!Members -> ConflictTask] /\ h[m] = t /\ \A k \in Conflict!Members \ {m} : h[k] = hosted[k]
    BY <1>3, <1>5, <1>7, ConflictReading
  <1>9. p \in ConflictProcess /\ p.pc = "posted" /\ p.tries < 2
    BY <1>2, <1>4, ConflictGoto DEF Conflict!Pcs
  <1>10. ConflictAsked(state, h)
    <2>1. \A k \in Conflict!Members : k < m => k # m
      BY ConflictConstants
    <2> QED
      BY <1>1, <1>4, <1>5, <1>7, <1>8, <2>1, ConflictReading DEF ConflictAsked
  <1>11. ConflictPlaced(p, state, h)
    BY <1>1, <1>4, <1>7, <1>8, <1>9 DEF ConflictPlaced, ConflictWorking, ConflictPublishing
  <1>12. /\ hosted' = h /\ proc' = p
         /\ github' = github /\ local' = local /\ state' = state /\ budget' = budget
    <2>1. hosted' = [hosted EXCEPT ![m] = [status |-> "running", base |-> base, new |-> none, asked |-> @.asked + 1]]
      BY <1>1 DEF Conflict!Post
    <2>2. hosted' = h
      BY <1>1, <1>2, <1>3, <2>1
    <2> QED
      BY <1>2, <2>2 DEF Conflict!Post, Conflict!Goto
  <1> QED
    BY <1>8, <1>9, <1>10, <1>11, <1>12, ConflictReading, ConflictThen DEF ConflictGood

LEMMA ConflictPosted ==
  ASSUME Conflict!ConflictResolverAssumption, ConflictInv, Conflict!Posted
  PROVE  ConflictInv'
  <1>1. PICK m, receipts : m = state.member /\ receipts = [state.receipts EXCEPT ![m] = "active"]
    OBVIOUS
  <1>2. /\ proc.pc = "posted" /\ state.exists /\ state.status = "running" /\ hosted[m].status # "none" /\ proc.tries < 2
    BY <1>1, ConflictReading DEF Conflict!Posted, ConflictPlaced, ConflictWorking
  <1>3. m \in Conflict!Members
    BY <1>1, <1>2, ConflictReading, ConflictConstants DEF ConflictAsked, ConflictFile
  <1>4. /\ receipts \in ConflictReceipts /\ receipts[m] = "active"
        /\ \A k \in Conflict!Members \ {m} : receipts[k] = state.receipts[k]
    BY <1>1, <1>3, ConflictReading DEF ConflictFile, ConflictReceipts
  <1>5. PICK s : s = [state EXCEPT !.inflight = FALSE, !.phase = "observe", !.receipts = receipts]
    OBVIOUS
  <1>6. s \in ConflictFile /\ s.receipts = receipts /\ s.phase = "observe"
    BY <1>4, <1>5, ConflictReading DEF ConflictFile, ConflictPhases
  <1>7. /\ s.exists = state.exists /\ s.member = state.member /\ s.pin = state.pin
        /\ s.status = state.status /\ s.last = state.last /\ s.collected = state.collected /\ s.pushing = state.pushing
    BY <1>5, ConflictReading DEF ConflictFile
  <1>8. ConflictLaid(s, github)
    BY <1>7, ConflictReading DEF ConflictLaid
  <1>9. ConflictKept(s)
    <2>1. \A k \in Conflict!Members : ConflictReplayed(s, k) <=> ConflictReplayed(state, k)
      BY <1>7 DEF ConflictReplayed, Conflict!Base
    <2> QED
      BY <1>7, <2>1, ConflictReading DEF ConflictKept
  <1>10. ConflictAsked(s, hosted)
    <2>1. \A k \in Conflict!Members : k > m => k # m
      BY ConflictConstants
    <2>2. m > 0
      BY <1>3, ConflictConstants
    <2> QED
      BY <1>1, <1>2, <1>3, <1>4, <1>6, <1>7, <2>1, <2>2, ConflictReading DEF ConflictAsked
  <1>11. ConflictPlaced([proc EXCEPT !.pc = "observe"], s, hosted)
    <2>1. [proc EXCEPT !.pc = "observe"].pc = "observe" /\ [proc EXCEPT !.pc = "observe"].tries < 2
      BY <1>2, ConflictGoto DEF Conflict!Pcs
    <2> QED
      BY <1>2, <1>6, <1>7, <2>1 DEF ConflictPlaced, ConflictWorking, ConflictPublishing
  <1>12. Conflict!Step("observe") /\ Conflict!Save(s)
    <2>1. [state EXCEPT !.inflight = FALSE, !.phase = "observe", !.receipts[state.member] = "active"] = s
      BY <1>1, <1>5
    <2> QED
      BY <2>1 DEF Conflict!Posted
  <1>13. "observe" \in Conflict!Pcs
    BY DEF Conflict!Pcs
  <1> QED
    BY <1>6, <1>8, <1>9, <1>10, <1>11, <1>12, <1>13, ConflictStep

LEMMA ConflictHostedEnds ==
  ASSUME Conflict!ConflictResolverAssumption, ConflictInv, NEW m \in Conflict!Members, Conflict!HostedEnds(m)
  PROVE  ConflictInv'
  <1>1. PICK old : old = hosted[m]
    OBVIOUS
  <1>2. /\ old \in ConflictTask /\ old.status = "running"
        /\ github' = github /\ local' = local /\ state' = state /\ proc' = proc /\ budget' = budget
    BY <1>1, ConflictReading DEF Conflict!HostedEnds
  <1>3. state.receipts[m] # "none"
    BY <1>1, <1>2, ConflictReading DEF ConflictAsked
  <1>4. state.member \in 1..N /\ m <= state.member
    BY <1>3, ConflictReading, ConflictConstants DEF ConflictAsked, ConflictFile
  <1>5. /\ state.pin.heads[m] \in ConflictCommit /\ state.pin.heads[m].layers # <<>>
    <2>1. state.pin.heads \in ConflictHeads /\ Len(state.pin.heads[m].layers) = m /\ m \in Nat \ {0}
      BY <1>4, ConflictReading, ConflictConstants DEF ConflictKept, ConflictFile, ConflictPin
    <2>2. state.pin.heads[m] \in ConflictCommit
      BY <2>1 DEF ConflictHeads
    <2> QED
      BY <2>1, <2>2 DEF ConflictCommit
  <1>6. \E t \in ConflictTask : /\ t.status \in {"failed", "completed"} /\ t.asked = old.asked
                                /\ hosted' = [hosted EXCEPT ![m] = t]
    <2>1. CASE hosted' = [hosted EXCEPT ![m].status = "failed"]
      <3>1. PICK t : t = [old EXCEPT !.status = "failed"]
        OBVIOUS
      <3>2. t \in ConflictTask /\ t.status = "failed" /\ t.asked = old.asked
        BY <1>2, <3>1 DEF ConflictTask
      <3>3. hosted' = [hosted EXCEPT ![m] = t]
        BY <1>1, <2>1, <3>1
      <3> QED
        BY <3>2, <3>3
    <2>2. CASE \E new \in {Conflict!Replay(state.pin.heads[m], hosted[m].base),
                           Conflict!Commit(hosted[m].base.trunk, Append(hosted[m].base.layers, -1))} :
                 hosted' = [hosted EXCEPT ![m].status = "completed", ![m].new = new]
      <3>1. PICK base : base = hosted[m].base
        OBVIOUS
      <3>2. base \in ConflictCommit
        BY <1>1, <1>2, <3>1 DEF ConflictTask
      <3>3. PICK new \in {Conflict!Replay(state.pin.heads[m], base),
              Conflict!Commit(base.trunk, Append(base.layers, -1))} :
                 hosted' = [hosted EXCEPT ![m].status = "completed", ![m].new = new]
        BY <2>2, <3>1
      <3>4. new \in ConflictCommit
        <4>1. Conflict!Replay(state.pin.heads[m], base) \in ConflictCommit
          BY <1>5, <3>2, ConflictReplay
        <4>2. Conflict!Commit(base.trunk, Append(base.layers, -1)) \in ConflictCommit
          <5>1. PICK layers : layers = Append(base.layers, -1)
            OBVIOUS
          <5>2. layers \in Seq(Int) /\ base.trunk \in Seq(Nat)
            BY <3>2, <5>1 DEF ConflictCommit
          <5> QED
            BY <5>1, <5>2 DEF Conflict!Commit, ConflictCommit
        <4> QED
          BY <3>3, <4>1, <4>2
      <3>5. PICK t : t = [old EXCEPT !.status = "completed", !.new = new]
        OBVIOUS
      <3>6. t \in ConflictTask /\ t.status = "completed" /\ t.asked = old.asked
        BY <1>2, <3>4, <3>5 DEF ConflictTask
      <3>7. hosted' = [hosted EXCEPT ![m] = t]
        BY <1>1, <3>3, <3>5
      <3> QED
        BY <3>6, <3>7
    <2> QED
      BY <2>1, <2>2 DEF Conflict!HostedEnds
  <1>7. PICK t \in ConflictTask : /\ t.status \in {"failed", "completed"} /\ t.asked = old.asked
                                  /\ hosted' = [hosted EXCEPT ![m] = t]
    BY <1>6
  <1>8. PICK h : h = [hosted EXCEPT ![m] = t]
    OBVIOUS
  <1>9. h \in [Conflict!Members -> ConflictTask] /\ h[m] = t /\ \A k \in Conflict!Members \ {m} : h[k] = hosted[k]
    BY <1>8, ConflictReading
  <1>10. \A k \in Conflict!Members :
          /\ hosted[k].status = "none" => h[k] = hosted[k]
          /\ hosted[k].status = "completed" => h[k] = hosted[k]
          /\ hosted[k].status # "none" => h[k].status # "none"
          /\ hosted[k].status # "running" => h[k].status # "running"
    BY <1>1, <1>2, <1>7, <1>9
  <1>11. state.member \in Conflict!Members
    BY <1>4, ConflictConstants
  <1>12. ConflictAsked(state, h)
    <2>1. /\ \A k \in Conflict!Members : state.receipts[k] = "none" => h[k].status = "none" /\ h[k].asked = 0
      BY <1>10, ConflictReading DEF ConflictAsked
    <2>2. \A k \in Conflict!Members : k < state.member => h[k].status = "completed" /\ state.collected[k] = h[k].new
      BY <1>10, ConflictReading DEF ConflictAsked
    <2>3. state.phase = "observe" => state.member > 0 /\ h[state.member].status # "none"
      BY <1>10, <1>11, ConflictReading DEF ConflictAsked
    <2>4. state.phase = "collect" => state.member > 0 /\ h[state.member].status = "completed"
      BY <1>10, <1>11, ConflictReading DEF ConflictAsked
    <2>5. state.status = "completed" => \A k \in Conflict!Members : h[k].status # "running"
      BY <1>10, ConflictReading DEF ConflictAsked
    <2> QED
      BY <2>1, <2>2, <2>3, <2>4, <2>5, ConflictReading DEF ConflictAsked
  <1>13. ConflictPlaced(proc, state, h)
    BY <1>10, <1>11, ConflictReading DEF ConflictPlaced
  <1>14. hosted' = h
    BY <1>7, <1>8
  <1> QED
    BY <1>2, <1>9, <1>12, <1>13, <1>14, ConflictReading, ConflictThen DEF ConflictGood

LEMMA ConflictObserve ==
  ASSUME Conflict!ConflictResolverAssumption, ConflictInv, Conflict!Observe
  PROVE  ConflictInv'
  <1>1. PICK m : m = state.member
    OBVIOUS
  <1>2. /\ proc.pc = "observe" /\ state.exists /\ state.status = "running" /\ state.phase = "observe" /\ proc.tries < 2
    BY ConflictReading DEF Conflict!Observe, ConflictPlaced, ConflictWorking
  <1>3. m \in Conflict!Members /\ hosted[m].status # "none"
    BY <1>1, <1>2, ConflictReading, ConflictConstants DEF ConflictAsked, ConflictFile
  <1>4. "collect" \in Conflict!Pcs
    BY DEF Conflict!Pcs
  <1>5. CASE hosted[m].status = "failed"
    BY <1>1, <1>5, ConflictRaise DEF Conflict!Observe
  <1>6. CASE hosted[m].status = "running"
    <2>1. Bounded /\ Conflict!Save(state) /\ Conflict!Step("collect")
      BY <1>1, <1>6 DEF Conflict!Observe, Conflict!Observed
    <2> QED
      BY <1>4, <2>1, ConflictStep, ConflictReading
  <1>7. CASE hosted[m].status = "completed"
    <2>1. PICK receipts : receipts = [state.receipts EXCEPT ![m] = "completed"]
      OBVIOUS
    <2>2. /\ receipts \in ConflictReceipts /\ receipts[m] = "completed"
          /\ \A k \in Conflict!Members \ {m} : receipts[k] = state.receipts[k]
      BY <1>3, <2>1, ConflictReading DEF ConflictFile, ConflictReceipts
    <2>3. PICK s : s = [state EXCEPT !.receipts = receipts, !.phase = "collect"]
      OBVIOUS
    <2>4. s \in ConflictFile /\ s.receipts = receipts /\ s.phase = "collect"
      BY <2>2, <2>3, ConflictReading DEF ConflictFile, ConflictPhases
    <2>5. /\ s.exists = state.exists /\ s.member = state.member /\ s.pin = state.pin
          /\ s.status = state.status /\ s.last = state.last /\ s.collected = state.collected
          /\ s.pushing = state.pushing
      BY <2>3, ConflictReading DEF ConflictFile
    <2>6. ConflictLaid(s, github)
      BY <2>5, ConflictReading DEF ConflictLaid
    <2>7. ConflictKept(s)
      <3>1. \A k \in Conflict!Members : ConflictReplayed(s, k) <=> ConflictReplayed(state, k)
        BY <2>5 DEF ConflictReplayed, Conflict!Base
      <3> QED
        BY <2>5, <3>1, ConflictReading DEF ConflictKept
    <2>8. ConflictAsked(s, hosted)
      <3>1. \A k \in Conflict!Members : k > m => k # m
        BY ConflictConstants
      <3>2. m > 0
        BY <1>3, ConflictConstants
      <3> QED
        BY <1>1, <1>2, <1>3, <1>7, <2>2, <2>4, <2>5, <3>1, <3>2, ConflictReading DEF ConflictAsked
    <2>9. ConflictPlaced([proc EXCEPT !.pc = "collect"], s, hosted)
      <3>1. [proc EXCEPT !.pc = "collect"].pc = "collect" /\ [proc EXCEPT !.pc = "collect"].tries < 2
        BY <1>2, ConflictGoto DEF Conflict!Pcs
      <3> QED
        BY <1>2, <2>4, <2>5, <3>1 DEF ConflictPlaced, ConflictWorking, ConflictPublishing
    <2>10. Conflict!Observed(m) = s
      BY <1>7, <2>1, <2>3 DEF Conflict!Observed
    <2>11. Conflict!Step("collect") /\ Conflict!Save(s)
      BY <1>1, <1>7, <2>10 DEF Conflict!Observe
    <2> QED
      BY <1>4, <2>4, <2>6, <2>7, <2>8, <2>9, <2>11, ConflictStep
  <1>8. hosted[m].status \in {"running", "completed", "failed"}
    BY <1>3, ConflictReading DEF ConflictTask
  <1> QED
    BY <1>5, <1>6, <1>7, <1>8

\* What was collected is a replay, on the replays of the members below.
LEMMA ConflictCollects ==
  ASSUME Conflict!ConflictResolverAssumption, ConflictInv, proc.pc = "collect", Conflict!Proven(state.member),
         NEW s \in ConflictFile, s.pin = state.pin, s.pushing = state.pushing, s.exists = state.exists,
         s.collected = [state.collected EXCEPT ![state.member] = hosted[state.member].new]
  PROVE  /\ \A k \in Conflict!Members : k <= state.member => ConflictReplayed(s, k)
         /\ \A k \in Conflict!Members : s.collected[k] = Conflict!NoCommit \/
              (s.collected[k].trunk # <<>> /\ Len(s.collected[k].layers) = k)
         /\ \A k \in Conflict!Members : k < state.member => s.collected[k] = state.collected[k]
         /\ s.collected[state.member] = hosted[state.member].new
         /\ ConflictLaid(s, github)
  <1>1. PICK m, new : m = state.member /\ new = hosted[m].new
    OBVIOUS
  <1>2. m \in Conflict!Members /\ m > 0 /\ Conflict!Members = 1..N /\ N \in Nat
    BY <1>1, ConflictReading, ConflictConstants DEF ConflictPlaced, ConflictWorking, ConflictAsked, ConflictFile
  <1>3. new = Conflict!Replay(state.pin.heads[m], Conflict!Base(state, m))
    BY <1>1 DEF Conflict!Proven, Conflict!IsReplay
  <1>4. s.collected[m] = new /\ \A k \in Conflict!Members \ {m} : s.collected[k] = state.collected[k]
    BY <1>1, <1>2, ConflictReading DEF ConflictFile, ConflictHeads
  <1>5. \A k \in Conflict!Members : k < m => ConflictReplayed(state, k)
    BY <1>1, ConflictReading DEF ConflictKept
  <1>6. ASSUME NEW k \in Conflict!Members, k <= m
        PROVE  Conflict!Base(s, k) = Conflict!Base(state, k)
    <2>1. k # 1 => k - 1 \in Conflict!Members \ {m}
      BY <1>2, <1>6
    <2>2. k # 1 => s.collected[k - 1] = state.collected[k - 1]
      BY <1>4, <2>1
    <2> QED
      BY <2>2 DEF Conflict!Base
  <1>7. ASSUME NEW k \in Conflict!Members, k <= m
        PROVE  ConflictReplayed(s, k)
    <2>1. Conflict!Base(s, k) = Conflict!Base(state, k)
      BY <1>6, <1>7
    <2>2. CASE k = m
      BY <1>3, <1>4, <2>1, <2>2 DEF ConflictReplayed
    <2>3. CASE k # m
      <3>1. k < m
        BY <1>2, <1>7, <2>3
      <3>2. s.collected[k] = state.collected[k]
        BY <1>4, <2>3
      <3> QED
        BY <1>5, <2>1, <3>1, <3>2 DEF ConflictReplayed
    <2> QED
      BY <2>2, <2>3
  <1>8. new.trunk # <<>> /\ Len(new.layers) = m
    <2>1. m # 1 => ConflictReplayed(state, m - 1)
      <3>1. m # 1 => m - 1 \in Conflict!Members /\ m - 1 < m
        BY <1>2
      <3> QED
        BY <1>5, <3>1
    <2> QED
      BY <1>1, <1>2, <1>3, <2>1, ConflictLayers, ConflictReading
  <1>9. ConflictLaid(s, github)
    BY ConflictReading DEF ConflictLaid
  <1>10. \A k \in Conflict!Members : s.collected[k] = Conflict!NoCommit \/
           (s.collected[k].trunk # <<>> /\ Len(s.collected[k].layers) = k)
    BY <1>4, <1>8, ConflictReading DEF ConflictKept
  <1>11. \A k \in Conflict!Members : k < m => s.collected[k] = state.collected[k]
    BY <1>2, <1>4
  <1> QED
    BY <1>1, <1>4, <1>7, <1>9, <1>10, <1>11

LEMMA ConflictCollect ==
  ASSUME Conflict!ConflictResolverAssumption, ConflictInv, Conflict!Collect
  PROVE  ConflictInv'
  <1>1. PICK m, c : m = state.member /\ c = [state.collected EXCEPT ![m] = hosted[m].new]
    OBVIOUS
  <1>2. /\ proc.pc = "collect" /\ state.exists /\ state.status = "running" /\ state.phase = "collect" /\ proc.tries < 2
    BY ConflictReading DEF Conflict!Collect, ConflictPlaced, ConflictWorking
  <1>3. m \in Conflict!Members /\ hosted[m].status = "completed" /\ Conflict!Members = 1..N /\ N \in Nat /\ m > 0 /\
          ~state.pushing
    BY <1>1, <1>2, ConflictReading, ConflictConstants DEF ConflictAsked, ConflictFile, ConflictKept
  <1>4. PICK s : s = [state EXCEPT !.collected = c]
    OBVIOUS
  <1>5. [state EXCEPT !.collected[m] = hosted[m].new] = s
    BY <1>1, <1>4
  <1>6. c \in ConflictHeads
    <2>1. hosted[m].new \in ConflictCommit
      BY <1>3, ConflictReading DEF ConflictTask
    <2>2. state.collected \in ConflictHeads
      BY ConflictReading DEF ConflictFile
    <2> QED
      BY <1>1, <1>3, <2>1, <2>2 DEF ConflictHeads
  <1>7. s \in ConflictFile /\ s.collected = c
    BY <1>4, <1>6, ConflictReading DEF ConflictFile
  <1>8. /\ s.exists = state.exists /\ s.member = state.member /\ s.pin = state.pin /\ s.phase = state.phase
        /\ s.receipts = state.receipts /\ s.status = state.status /\ s.last = state.last /\ s.pushing = state.pushing
    BY <1>4, ConflictReading DEF ConflictFile
  <1>9. CASE ~Conflict!Forward \/ ~Conflict!Proven(m)
    BY <1>1, <1>9, ConflictRaise DEF Conflict!Collect
  <1>10. CASE Conflict!Forward /\ Conflict!Proven(m) /\ ~Conflict!HeadsPinned
    <2>1. PICK u : u = [s EXCEPT !.status = "superseded", !.last = "head_changed"]
      OBVIOUS
    <2>2. u \in ConflictFile /\ u.status = "superseded"
      BY <1>7, <2>1 DEF ConflictFile, Conflict!Statuses, ConflictLast
    <2>3. /\ u.exists = s.exists /\ u.member = s.member /\ u.pin = s.pin /\ u.phase = s.phase
          /\ u.receipts = s.receipts /\ u.collected = s.collected /\ u.pushing = s.pushing
      BY <1>7, <2>1 DEF ConflictFile
    <2>4. /\ \A k \in Conflict!Members : k <= m => ConflictReplayed(u, k)
          /\ \A k \in Conflict!Members : u.collected[k] = Conflict!NoCommit \/
               (u.collected[k].trunk # <<>> /\ Len(u.collected[k].layers) = k)
          /\ \A k \in Conflict!Members : k < m => u.collected[k] = state.collected[k]
          /\ ConflictLaid(u, github)
      BY <1>1, <1>2, <1>7, <1>8, <1>10, <2>2, <2>3, ConflictCollects
    <2>5. ConflictKept(u)
      <3>1. \A k \in Conflict!Members : k < m => k <= m
        BY <1>3
      <3> QED
        BY <1>1, <1>2, <1>3, <1>8, <2>2, <2>3, <2>4, <3>1, ConflictReading DEF ConflictKept
    <2>6. ConflictAsked(u, hosted)
      BY <1>1, <1>8, <2>2, <2>3, <2>4, ConflictReading DEF ConflictAsked
    <2>7. Conflict!Save(u) /\ Conflict!Exit("head_changed")
      BY <1>1, <1>5, <1>10, <2>1 DEF Conflict!Collect, Conflict!Superseded
    <2> QED
      BY <2>2, <2>4, <2>5, <2>6, <2>7, ConflictExit DEF ConflictExits
  <1>11. CASE Conflict!Forward /\ Conflict!Proven(m) /\ Conflict!HeadsPinned /\ m < N
    <2>1. PICK u, k1 : k1 = m + 1 /\ u = [s EXCEPT !.member = k1, !.phase = "dispatch"]
      OBVIOUS
    <2>2. k1 \in Conflict!Members /\ k1 \in 0..N /\ k1 > 0 /\ k1 > m /\
            \A k \in Conflict!Members : (k < k1 <=> k <= m) /\ (k > k1 => k > m)
      BY <1>3, <1>11, <2>1, ConflictConstants
    <2>3. u \in ConflictFile /\ u.member = k1 /\ u.phase = "dispatch"
      BY <1>7, <2>1, <2>2 DEF ConflictFile, ConflictPhases
    <2>4. /\ u.exists = s.exists /\ u.pin = s.pin /\ u.status = s.status /\ u.last = s.last
          /\ u.receipts = s.receipts /\ u.collected = s.collected /\ u.pushing = s.pushing
      BY <1>7, <2>1 DEF ConflictFile
    <2>5. /\ \A k \in Conflict!Members : k <= m => ConflictReplayed(u, k)
          /\ \A k \in Conflict!Members : u.collected[k] = Conflict!NoCommit \/
               (u.collected[k].trunk # <<>> /\ Len(u.collected[k].layers) = k)
          /\ \A k \in Conflict!Members : k < m => u.collected[k] = state.collected[k]
          /\ u.collected[m] = hosted[m].new
          /\ ConflictLaid(u, github)
      BY <1>1, <1>2, <1>7, <1>8, <1>11, <2>3, <2>4, ConflictCollects
    <2>6. ConflictKept(u)
      BY <1>1, <1>2, <1>3, <1>8, <2>2, <2>3, <2>4, <2>5, ConflictReading DEF ConflictKept
    <2>7. ConflictAsked(u, hosted)
      <3>1. \A k \in Conflict!Members : k <= m => hosted[k].status = "completed" /\ u.collected[k] = hosted[k].new
        BY <1>1, <1>3, <2>5, ConflictReading DEF ConflictAsked
      <3>2. \A k \in Conflict!Members : k > k1 => u.receipts[k] = "none"
        BY <1>1, <1>8, <2>2, <2>4, ConflictReading DEF ConflictAsked
      <3>3. \A k \in Conflict!Members : u.receipts[k] = "none" => hosted[k].status = "none" /\ hosted[k].asked = 0
        BY <1>8, <2>4, ConflictReading DEF ConflictAsked
      <3>4. \A k \in Conflict!Members : k < k1 => hosted[k].status = "completed" /\ u.collected[k] = hosted[k].new
        BY <2>2, <3>1
      <3>5. u.phase = "dispatch" /\ u.status = "running" /\ u.member = k1 /\ k1 > 0
        BY <1>2, <1>8, <2>2, <2>3, <2>4
      <3> QED
        BY <3>2, <3>3, <3>4, <3>5 DEF ConflictAsked
    <2>8. ConflictPlaced([proc EXCEPT !.pc = "dispatch"], u, hosted)
      <3>1. [proc EXCEPT !.pc = "dispatch"].pc = "dispatch" /\ [proc EXCEPT !.pc = "dispatch"].tries < 2
        BY <1>2, ConflictGoto DEF Conflict!Pcs
      <3>2. u.receipts[k1] = "none"
        BY <1>1, <1>8, <2>2, <2>4, ConflictReading DEF ConflictAsked
      <3> QED
        BY <1>2, <1>8, <2>3, <2>4, <3>1, <3>2 DEF ConflictPlaced, ConflictWorking, ConflictPublishing
    <2>9. Conflict!Save(u) /\ Conflict!Step("dispatch")
      BY <1>1, <1>5, <1>11, <2>1 DEF Conflict!Collect
    <2>10. "dispatch" \in Conflict!Pcs
      BY DEF Conflict!Pcs
    <2> QED
      BY <2>3, <2>5, <2>6, <2>7, <2>8, <2>9, <2>10, ConflictStep
  <1>12. CASE Conflict!Forward /\ Conflict!Proven(m) /\ Conflict!HeadsPinned /\ ~(m < N)
    <2>1. m = N
      BY <1>3, <1>12
    <2>2. /\ \A k \in Conflict!Members : k <= m => ConflictReplayed(s, k)
          /\ \A k \in Conflict!Members : s.collected[k] = Conflict!NoCommit \/
               (s.collected[k].trunk # <<>> /\ Len(s.collected[k].layers) = k)
          /\ \A k \in Conflict!Members : k < m => s.collected[k] = state.collected[k]
          /\ ConflictLaid(s, github)
      BY <1>1, <1>2, <1>7, <1>8, <1>12, ConflictCollects
    <2>3. ConflictKept(s)
      <3>1. \A k \in Conflict!Members : k < m => k <= m
        BY <1>3
      <3> QED
        BY <1>1, <1>2, <1>3, <1>8, <2>2, <3>1, ConflictReading DEF ConflictKept
    <2>4. ConflictAsked(s, hosted)
      BY <1>1, <1>8, <2>2, ConflictReading DEF ConflictAsked
    <2>5. PICK p : p = [proc EXCEPT !.pc = "verify"]
      OBVIOUS
    <2>6. p \in ConflictProcess /\ p.pc = "verify" /\ p.tries < 2
      BY <1>2, <2>5, ConflictGoto DEF Conflict!Pcs
    <2>7. ConflictPlaced(p, s, hosted)
      BY <1>1, <1>2, <1>8, <2>1, <2>6 DEF ConflictPlaced, ConflictWorking, ConflictPublishing
    <2>8. Conflict!Save(s) /\ proc' = p /\ UNCHANGED local
      BY <1>1, <1>5, <1>12, <2>5 DEF Conflict!Collect, Conflict!Goto
    <2> QED
      BY <1>7, <2>2, <2>3, <2>4, <2>6, <2>7, <2>8, ConflictGoes
  <1> QED
    BY <1>9, <1>10, <1>11, <1>12

LEMMA ConflictVerify ==
  ASSUME Conflict!ConflictResolverAssumption, ConflictInv, Conflict!Verify
  PROVE  ConflictInv'
  <1>1. CASE ~(Conflict!Verified /\ Conflict!Fresh)
    BY <1>1, ConflictRaise DEF Conflict!Verify
  <1>2. CASE Conflict!Verified /\ Conflict!Fresh
    <2>1. PICK s, p : s = [state EXCEPT !.status = "verified"] /\ p = [proc EXCEPT !.pc = "publish"]
      OBVIOUS
    <2>2. proc.pc = "verify" /\ state.exists /\ state.member = N /\ state.phase = "collect" /\ proc.tries < 2
      BY ConflictReading DEF Conflict!Verify, ConflictPlaced, ConflictPublishing
    <2>3. s \in ConflictFile /\ s.status = "verified"
      BY <2>1, ConflictReading DEF ConflictFile, Conflict!Statuses
    <2>4. /\ s.exists = state.exists /\ s.phase = state.phase /\ s.member = state.member /\ s.pin = state.pin
          /\ s.receipts = state.receipts /\ s.collected = state.collected /\ s.pushing = state.pushing
      BY <2>1, ConflictReading DEF ConflictFile
    <2>5. ConflictLaid(s, github) /\ ConflictKept(s) /\ ConflictAsked(s, hosted)
      BY <2>3, <2>4, ConflictSettled DEF ConflictSame
    <2>6. \A m \in Conflict!Members : ConflictReplayed(s, m)
      BY <1>2, <2>4 DEF Conflict!Verified, Conflict!IsReplay, ConflictReplayed, Conflict!Base
    <2>7. p \in ConflictProcess /\ p.pc = "publish" /\ p.tries < 2
      BY <2>1, <2>2, ConflictGoto DEF Conflict!Pcs
    <2>8. ConflictPlaced(p, s, hosted)
      BY <2>2, <2>4, <2>6, <2>7 DEF ConflictPlaced, ConflictWorking, ConflictPublishing
    <2>9. proc' = p /\ UNCHANGED local /\ Conflict!Save(s)
      BY <1>2, <2>1 DEF Conflict!Verify, Conflict!Goto
    <2> QED
      BY <2>3, <2>5, <2>7, <2>8, <2>9, ConflictGoes
  <1> QED
    BY <1>1, <1>2

LEMMA ConflictPublish ==
  ASSUME Conflict!ConflictResolverAssumption, ConflictInv, Conflict!Publish
  PROVE  ConflictInv'
  <1>1. CASE ~Conflict!Fresh
    BY <1>1, ConflictRaise DEF Conflict!Publish
  <1>2. CASE Conflict!Fresh
    <2>1. PICK trunk, advanced : trunk = github.trunk /\ advanced = (github.trunk # state.pin.trunk)
      OBVIOUS
    <2>2. PICK s, p, a : /\ a = [state EXCEPT !.advanced = advanced]
                         /\ s = [a EXCEPT !.status = "publishing", !.pushing = TRUE]
                         /\ p = [proc EXCEPT !.pc = "push", !.trunk = trunk]
      OBVIOUS
    <2>3. /\ proc.pc = "publish" /\ state.exists /\ state.member = N /\ state.phase = "collect" /\ proc.tries < 2
          /\ \A m \in Conflict!Members : ConflictReplayed(state, m)
      BY ConflictReading DEF Conflict!Publish, ConflictPlaced, ConflictPublishing
    <2>4. trunk \in Seq(Nat) /\ advanced \in BOOLEAN
      BY <2>1, ConflictReading DEF ConflictSource
    <2>5. a \in ConflictFile /\ a.advanced = advanced
      BY <2>2, <2>4, ConflictReading DEF ConflictFile
    <2>6. /\ a.exists = state.exists /\ a.phase = state.phase /\ a.member = state.member /\ a.pin = state.pin
          /\ a.receipts = state.receipts /\ a.collected = state.collected
      BY <2>2, ConflictReading DEF ConflictFile
    <2>7. s \in ConflictFile /\ s.status = "publishing" /\ s.pushing
      BY <2>2, <2>5 DEF ConflictFile, Conflict!Statuses
    <2>8. /\ s.exists = state.exists /\ s.phase = state.phase /\ s.member = state.member /\ s.pin = state.pin
          /\ s.receipts = state.receipts /\ s.collected = state.collected /\ s.advanced = advanced
      BY <2>2, <2>5, <2>6 DEF ConflictFile
    <2>9. \A m \in Conflict!Members : ConflictReplayed(s, m)
      BY <2>3, <2>8 DEF ConflictReplayed, Conflict!Base
    <2>10. ConflictLaid(s, github)
      BY <2>7, ConflictReading DEF ConflictLaid
    <2>11. ConflictKept(s)
      BY <2>3, <2>7, <2>8, <2>9, ConflictReading, ConflictConstants DEF ConflictKept
    <2>12. ConflictAsked(s, hosted)
      BY <2>7, <2>8, ConflictReading DEF ConflictAsked
    <2>13. p \in ConflictProcess /\ p.pc = "push" /\ p.tries < 2 /\ p.trunk = trunk
      BY <2>2, <2>3, <2>4, ConflictReading DEF ConflictProcess, Conflict!Pcs
    <2>14. ConflictPlaced(p, s, hosted)
      BY <2>1, <2>3, <2>7, <2>8, <2>9, <2>13 DEF ConflictPlaced, ConflictWorking, ConflictPublishing
    <2>15. proc' = p /\ UNCHANGED local /\ Conflict!Save(s)
      BY <1>2, <2>1, <2>2 DEF Conflict!Publish, Conflict!Publishing
    <2> QED
      BY <2>7, <2>10, <2>11, <2>12, <2>13, <2>14, <2>15, ConflictGoes
  <1> QED
    BY <1>1, <1>2

\* The process goes on, and the file is as it was.
LEMMA ConflictMoves ==
  ASSUME Conflict!ConflictResolverAssumption, ConflictInv, NEW pc \in {"send", "confirm", "push"}, Conflict!Goto(pc),
         UNCHANGED <<github, local, hosted, state, budget>>, proc.pc \in ConflictPublishing, pc = "push" \/
           pc = "send" => proc.tries < 2
  PROVE  ConflictInv'
  <1>1. PICK p : p = [proc EXCEPT !.pc = pc]
    OBVIOUS
  <1>2. p \in ConflictProcess /\ p.pc = pc /\ p.tries = proc.tries /\ p.trunk = proc.trunk
    BY <1>1, ConflictGoto DEF Conflict!Pcs
  <1>3. proc.pc # "idle" /\ state.exists /\ state.member = N /\ state.phase = "collect" /\ state.pushing
    BY ConflictReading DEF ConflictPlaced, ConflictPublishing
  <1>4. (\A m \in Conflict!Members : ConflictReplayed(state, m)) /\ (state.advanced <=> proc.trunk # state.pin.trunk)
    BY ConflictReading DEF ConflictPlaced, ConflictPublishing
  <1>5. ConflictPlaced(p, state, hosted)
    BY <1>2, <1>3, <1>4 DEF ConflictPlaced, ConflictPublishing, ConflictWorking
  <1>6. proc' = p /\ github' = github /\ local' = local /\ hosted' = hosted /\ state' = state /\ budget' = budget
    BY <1>1 DEF Conflict!Goto
  <1> QED
    BY <1>2, <1>5, <1>6, ConflictReading, ConflictThen DEF ConflictGood

LEMMA ConflictPush ==
  ASSUME Conflict!ConflictResolverAssumption, ConflictInv, Conflict!Push
  PROVE  ConflictInv'
  <1>1. proc.pc = "push" /\ proc.tries < 2
    BY ConflictReading DEF Conflict!Push, ConflictPlaced
  <1>2. CASE Conflict!Stack /\ ~Conflict!Fresh
    BY <1>2, ConflictRaise DEF Conflict!Push
  <1>3. CASE ~(Conflict!Stack /\ ~Conflict!Fresh)
    BY <1>1, <1>3, ConflictMoves DEF Conflict!Push, ConflictPublishing
  <1> QED
    BY <1>2, <1>3

LEMMA ConflictSendPush ==
  ASSUME Conflict!ConflictResolverAssumption, ConflictInv, Conflict!SendPush
  PROVE  ConflictInv'
  <1>1. PICK p, tries : tries = proc.tries + 1 /\ p = [proc EXCEPT !.pc = "read_back", !.tries = tries]
    OBVIOUS
  <1>2. /\ proc.pc = "send" /\ proc.tries < 2 /\ state.exists /\ state.member = N /\ state.phase = "collect"
        /\ state.pushing
        /\ \A m \in Conflict!Members : ConflictReplayed(state, m)
        /\ state.advanced <=> proc.trunk # state.pin.trunk
    BY ConflictReading DEF Conflict!SendPush, ConflictPlaced, ConflictPublishing
  <1>3. tries \in 0..2
    BY <1>1, <1>2, ConflictReading DEF ConflictProcess
  <1>4. p \in ConflictProcess /\ p.pc = "read_back" /\ p.trunk = proc.trunk
    BY <1>1, <1>3, ConflictReading DEF ConflictProcess, Conflict!Pcs
  <1>5. ConflictPlaced(p, state, hosted)
    BY <1>2, <1>4 DEF ConflictPlaced, ConflictPublishing, ConflictWorking
  <1>6. proc' = p /\ local' = local /\ hosted' = hosted /\ state' = state /\ budget' = budget
    BY <1>1 DEF Conflict!SendPush
  <1>7. PICK g : g = [github EXCEPT !.heads = state.collected]
    OBVIOUS
  <1>8. g \in ConflictSource /\ g.heads = state.collected /\ g.trunk = github.trunk
    BY <1>7, ConflictReading DEF ConflictSource, ConflictFile
  <1>9. github' = github \/ github' = g
    BY <1>7 DEF Conflict!SendPush, Conflict!Moved
  <1>10. N > 0
    BY ConflictConstants
  <1>11. \A m \in Conflict!Members : Len(state.collected[m].layers) = m
    BY <1>2, <1>10, ConflictAllReplayed, ConflictReading
  <1>12. ConflictLaid(state, g)
    BY <1>2, <1>8, <1>11, ConflictReading DEF ConflictLaid
  <1> QED
    BY <1>4, <1>5, <1>6, <1>8, <1>9, <1>12, ConflictReading, ConflictThen DEF ConflictGood

LEMMA ConflictReadBack ==
  ASSUME Conflict!ConflictResolverAssumption, ConflictInv, Conflict!ReadBack
  PROVE  ConflictInv'
  <1>1. proc.pc = "read_back" /\ proc.pc \in ConflictPublishing
    BY DEF Conflict!ReadBack, ConflictPublishing
  <1>2. CASE Conflict!Published
    BY <1>1, <1>2, ConflictMoves DEF Conflict!ReadBack
  <1>3. CASE ~Conflict!Published /\ Conflict!HeadsPinned /\ proc.tries < 2
    BY <1>1, <1>3, ConflictMoves DEF Conflict!ReadBack
  <1>4. CASE ~Conflict!Published /\ ~(Conflict!HeadsPinned /\ proc.tries < 2)
    BY <1>4, ConflictRaise DEF Conflict!ReadBack
  <1> QED
    BY <1>2, <1>3, <1>4

LEMMA ConflictConfirm ==
  ASSUME Conflict!ConflictResolverAssumption, ConflictInv, Conflict!Confirm
  PROVE  ConflictInv'
  <1>1. CASE github.heads[N] # state.collected[N]
    BY <1>1, ConflictRaise DEF Conflict!Confirm
  <1>2. CASE github.heads[N] = state.collected[N]
    <2>1. PICK mergeable, read : mergeable = Conflict!Mergeable(N) /\ read = Conflict!Below(N)
      OBVIOUS
    <2>2. PICK s, p : /\ s = [state EXCEPT !.status = "published_pending_verification", !.last = "published"]
                      /\ p = [proc EXCEPT !.pc = "complete", !.mergeable = mergeable, !.read = read]
      OBVIOUS
    <2>3. /\ proc.pc = "confirm" /\ state.exists /\ state.member = N /\ state.phase = "collect" /\ state.pushing
          /\ \A m \in Conflict!Members : ConflictReplayed(state, m)
          /\ state.advanced <=> proc.trunk # state.pin.trunk
      BY ConflictReading DEF Conflict!Confirm, ConflictPlaced, ConflictPublishing
    <2>4. read \in ConflictCommit
      <3>1. CASE N = 1
        <4>1. PICK trunk : trunk = github.trunk
          OBVIOUS
        <4>2. trunk \in Seq(Nat)
          BY <4>1, ConflictReading DEF ConflictSource
        <4>3. read = [trunk |-> trunk, layers |-> <<>>]
          BY <2>1, <3>1, <4>1 DEF Conflict!Below, Conflict!Commit
        <4> QED
          BY <4>2, <4>3 DEF ConflictCommit
      <3>2. CASE N # 1
        <4>1. N - 1 \in Conflict!Members
          BY <3>2, ConflictConstants
        <4> QED
          BY <2>1, <3>2, <4>1, ConflictReading DEF Conflict!Below, ConflictSource, ConflictHeads
      <3> QED
        BY <3>1, <3>2
    <2>5. mergeable \in BOOLEAN
      <3>1. PICK head, below : head = github.heads[N] /\ below = Conflict!Below(N)
        OBVIOUS
      <3>2. mergeable = (Conflict!StandsOn(head, below) \/ github.clean)
        BY <2>1, <3>1 DEF Conflict!Mergeable
      <3> QED
        BY <3>2
    <2>6. s \in ConflictFile /\ s.status = "published_pending_verification" /\ s.last = "published"
      BY <2>2, ConflictReading DEF ConflictFile, Conflict!Statuses, ConflictLast
    <2>7. /\ s.exists = state.exists /\ s.phase = state.phase /\ s.member = state.member /\ s.pin = state.pin
          /\ s.receipts = state.receipts /\ s.collected = state.collected /\ s.pushing = state.pushing
          /\ s.advanced = state.advanced
      BY <2>2, ConflictReading DEF ConflictFile
    <2>8. ConflictLaid(s, github) /\ ConflictKept(s) /\ ConflictAsked(s, hosted)
      BY <2>6, <2>7, ConflictSettled DEF ConflictSame
    <2>9. \A m \in Conflict!Members : ConflictReplayed(s, m)
      BY <2>3, <2>7 DEF ConflictReplayed, Conflict!Base
    <2>10. p \in ConflictProcess /\ p.pc = "complete" /\ p.trunk = proc.trunk
      BY <2>2, <2>4, <2>5, ConflictReading DEF ConflictProcess, Conflict!Pcs
    <2>11. ConflictPlaced(p, s, hosted)
      BY <2>3, <2>6, <2>7, <2>9, <2>10 DEF ConflictPlaced, ConflictPublishing, ConflictWorking
    <2>12. proc' = p /\ UNCHANGED local /\ Conflict!Save(s)
      BY <1>2, <2>1, <2>2 DEF Conflict!Confirm
    <2> QED
      BY <2>6, <2>8, <2>10, <2>11, <2>12, ConflictGoes
  <1> QED
    BY <1>1, <1>2

LEMMA ConflictComplete ==
  ASSUME Conflict!ConflictResolverAssumption, ConflictInv, Conflict!Complete
  PROVE  ConflictInv'
  <1>1. CASE ~Conflict!Published
    BY <1>1, ConflictRaise DEF Conflict!Complete
  <1>2. CASE Conflict!Published
    <2>1. PICK cleared : cleared = IF proc.mergeable /\ ~Conflict!Stale THEN state.collected[N] ELSE Conflict!NoCommit
      OBVIOUS
    <2>2. cleared \in ConflictCommit
      <3>1. state.collected[N] \in ConflictCommit /\ Conflict!NoCommit \in ConflictCommit
        BY ConflictReading, ConflictConstants DEF ConflictFile, ConflictHeads
      <3> QED
        BY <2>1, <3>1
    <2>3. PICK s : s = [state EXCEPT !.status = "completed", !.cleared = cleared]
      OBVIOUS
    <2>4. proc.pc = "complete" /\ state.member = N /\ state.phase = "collect" /\ state.last = "published"
      BY ConflictReading DEF Conflict!Complete, ConflictPlaced, ConflictPublishing
    <2>5. \A m \in Conflict!Members : hosted[m].status # "running"
      <3>1. \A m \in Conflict!Members : m < N \/ m = N
        BY ConflictConstants
      <3> QED
        BY <2>4, <3>1, ConflictReading DEF ConflictAsked
    <2>6. s \in ConflictFile /\ s.status = "completed"
      BY <2>2, <2>3, ConflictReading DEF ConflictFile, Conflict!Statuses
    <2>7. /\ s.exists = state.exists /\ s.phase = state.phase /\ s.member = state.member /\ s.pin = state.pin
          /\ s.receipts = state.receipts /\ s.collected = state.collected /\ s.pushing = state.pushing
          /\ s.last = "published"
      BY <2>3, <2>4, ConflictReading DEF ConflictFile
    <2>8. ConflictLaid(s, github) /\ ConflictKept(s) /\ ConflictAsked(s, hosted)
      BY <2>5, <2>6, <2>7, ConflictSettled DEF ConflictSame
    <2>9. Conflict!Save(s) /\ Conflict!Exit("published")
      BY <1>2, <2>1, <2>3 DEF Conflict!Complete
    <2> QED
      BY <2>6, <2>8, <2>9, ConflictExit DEF ConflictExits
  <1> QED
    BY <1>1, <1>2

LEMMA ConflictRevalidate ==
  ASSUME Conflict!ConflictResolverAssumption, ConflictInv, Conflict!Revalidate
  PROVE  ConflictInv'
  <1>1. CASE ~Conflict!Mergeable(N)
    BY <1>1, ConflictRaise DEF Conflict!Revalidate
  <1>2. CASE Conflict!Mergeable(N)
    <2>1. PICK read : read = github.heads[N]
      OBVIOUS
    <2>2. read \in ConflictCommit
      BY <2>1, ConflictReading, ConflictConstants DEF ConflictSource, ConflictHeads
    <2>3. PICK p : p = [proc EXCEPT !.pc = "revalidated", !.read = read]
      OBVIOUS
    <2>4. /\ proc.pc = "revalidate" /\ state.exists /\ proc.tries < 2
          /\ \A m \in Conflict!Members : hosted[m].status # "running"
      BY ConflictReading DEF Conflict!Revalidate, ConflictPlaced
    <2>5. p \in ConflictProcess /\ p.pc = "revalidated" /\ p.tries = proc.tries
      BY <2>2, <2>3, ConflictReading DEF ConflictProcess, Conflict!Pcs
    <2>6. ConflictPlaced(p, state, hosted)
      BY <2>4, <2>5 DEF ConflictPlaced, ConflictPublishing, ConflictWorking
    <2>7. proc' = p /\ github' = github /\ local' = local /\ hosted' = hosted /\ state' = state /\ budget' = budget
      BY <1>2, <2>1, <2>3 DEF Conflict!Revalidate
    <2> QED
      BY <2>5, <2>6, <2>7, ConflictReading, ConflictThen DEF ConflictGood
  <1> QED
    BY <1>1, <1>2

LEMMA ConflictRevalidated ==
  ASSUME Conflict!ConflictResolverAssumption, ConflictInv, Conflict!Revalidated
  PROVE  ConflictInv'
  <1>1. CASE ~Conflict!Unmoved
    BY <1>1, ConflictRaise DEF Conflict!Revalidated
  <1>2. CASE Conflict!Unmoved
    <2>1. PICK read, live : read = proc.read /\ live = github.heads[N]
      OBVIOUS
    <2>2. read \in ConflictCommit /\ live \in ConflictCommit
      BY <2>1, ConflictReading, ConflictConstants DEF ConflictProcess, ConflictSource, ConflictHeads
    <2>3. PICK a, s : /\ a = [state EXCEPT !.status = "completed", !.last = "mergeable", !.cleared = live]
                      /\ s = [a EXCEPT !.cleared = read]
      OBVIOUS
    <2>4. \A m \in Conflict!Members : hosted[m].status # "running"
      BY ConflictReading DEF Conflict!Revalidated, ConflictPlaced
    <2>5. a \in ConflictFile /\ a.status = "completed" /\ a.last = "mergeable"
      BY <2>2, <2>3, ConflictReading DEF ConflictFile, Conflict!Statuses, ConflictLast
    <2>6. /\ a.exists = state.exists /\ a.phase = state.phase /\ a.member = state.member /\ a.pin = state.pin
          /\ a.receipts = state.receipts /\ a.collected = state.collected /\ a.pushing = state.pushing
      BY <2>3, ConflictReading DEF ConflictFile
    <2>7. s \in ConflictFile /\ s.status = "completed" /\ s.last = "mergeable"
      BY <2>2, <2>3, <2>5 DEF ConflictFile
    <2>8. /\ s.exists = state.exists /\ s.phase = state.phase /\ s.member = state.member /\ s.pin = state.pin
          /\ s.receipts = state.receipts /\ s.collected = state.collected /\ s.pushing = state.pushing
      BY <2>3, <2>5, <2>6 DEF ConflictFile
    <2>9. ConflictLaid(s, github) /\ ConflictKept(s) /\ ConflictAsked(s, hosted)
      BY <2>4, <2>7, <2>8, ConflictSettled DEF ConflictSame
    <2>10. Conflict!Save(s) /\ Conflict!Exit("mergeable")
      BY <1>2, <2>1, <2>3 DEF Conflict!Revalidated, Conflict!Recorded
    <2> QED
      BY <2>7, <2>9, <2>10, ConflictExit DEF ConflictExits
  <1> QED
    BY <1>1, <1>2

LEMMA ConflictCrash ==
  ASSUME Conflict!ConflictResolverAssumption, ConflictInv, Conflict!Crash
  PROVE  ConflictInv'
  <1>1. PICK p : p = Conflict!Resting("error")
    OBVIOUS
  <1>2. p \in ConflictProcess /\ p.pc = "idle" /\ p.tries = 0
    BY <1>1, ConflictRest DEF ConflictExits
  <1>3. ConflictPlaced(p, state, hosted)
    BY <1>2 DEF ConflictPlaced, ConflictWorking, ConflictPublishing
  <1>4. proc' = p /\ github' = github /\ local' = local /\ hosted' = hosted /\ state' = state /\ budget' = budget
    BY <1>1 DEF Conflict!Crash
  <1> QED
    BY <1>2, <1>3, <1>4, ConflictReading, ConflictThen DEF ConflictGood

LEMMA ConflictOthersMove ==
  ASSUME Conflict!ConflictResolverAssumption, ConflictInv, Conflict!OthersMove
  PROVE  ConflictInv'
  <1>1. PICK clean \in BOOLEAN :
          github' \in {[github EXCEPT !.trunk = Append(@, budget), !.clean = clean],
                       [github EXCEPT !.trunk = <<0, budget>>, !.clean = clean]}
                      \cup {[github EXCEPT !.heads[m].layers[m] = @ + 1, !.clean = clean] : m \in Conflict!Members}
    BY DEF Conflict!OthersMove
  <1>2. budget > 0 /\ budget' = budget - 1 /\ local' = local /\ hosted' = hosted /\ state' = state /\ proc' = proc
    BY DEF Conflict!OthersMove
  <1>3. budget \in Nat /\ budget' \in 0..MaxMoves
    BY <1>2, ConflictReading, ConflictConstants
  <1>4. ASSUME NEW trunk \in Seq(Nat), trunk # <<>>, github' = [github EXCEPT !.trunk = trunk, !.clean = clean]
        PROVE  \E g \in ConflictSource : github' = g /\ ConflictLaid(state, g)
    <2>1. PICK g : g = [github EXCEPT !.trunk = trunk, !.clean = clean]
      OBVIOUS
    <2>2. g \in ConflictSource /\ g.trunk = trunk /\ g.heads = github.heads
      BY <1>4, <2>1, ConflictReading DEF ConflictSource
    <2>3. ConflictLaid(state, g)
      BY <1>4, <2>2, ConflictReading DEF ConflictLaid
    <2> QED
      BY <1>4, <2>1, <2>2, <2>3
  <1>5. ASSUME NEW m \in Conflict!Members, github' = [github EXCEPT !.heads[m].layers[m] = @ + 1, !.clean = clean]
        PROVE  \E g \in ConflictSource : github' = g /\ ConflictLaid(state, g)
    <2>1. PICK old, layers, new : /\ old = github.heads[m].layers /\ layers = [old EXCEPT ![m] = old[m] + 1]
                                  /\ new = [github.heads[m] EXCEPT !.layers = layers]
      OBVIOUS
    <2>2. PICK heads : heads = [github.heads EXCEPT ![m] = new]
      OBVIOUS
    <2>3. PICK g : g = [github EXCEPT !.heads = heads, !.clean = clean]
      OBVIOUS
    <2>4. github.heads \in ConflictHeads /\ github.heads[m] \in ConflictCommit /\ Len(github.heads[m].layers) = m
      BY ConflictReading DEF ConflictSource, ConflictHeads, ConflictLaid
    <2>5. old \in Seq(Int) /\ Len(old) = m /\ m \in Nat \ {0}
      BY <2>1, <2>4, ConflictConstants DEF ConflictCommit
    <2>6. old[m] + 1 \in Int
      BY <2>5
    <2>7. layers \in Seq(Int) /\ Len(layers) = m
      BY <2>1, <2>5, <2>6
    <2>8. new \in ConflictCommit /\ new.layers = layers /\ new.trunk = github.heads[m].trunk
      BY <2>1, <2>4, <2>7 DEF ConflictCommit
    <2>9. heads \in ConflictHeads /\ heads[m] = new /\ \A k \in Conflict!Members \ {m} : heads[k] = github.heads[k]
      BY <2>2, <2>4, <2>8 DEF ConflictHeads
    <2>10. g \in ConflictSource /\ g.heads = heads /\ g.trunk = github.trunk
      BY <2>3, <2>9, ConflictReading DEF ConflictSource
    <2>11. ConflictLaid(state, g)
      BY <2>7, <2>8, <2>9, <2>10, ConflictReading DEF ConflictLaid
    <2>12. github' = g
      BY <1>5, <2>1, <2>2, <2>3
    <2> QED
      BY <2>10, <2>11, <2>12
  <1>6. \E g \in ConflictSource : github' = g /\ ConflictLaid(state, g)
    <2>1. CASE github' = [github EXCEPT !.trunk = Append(@, budget), !.clean = clean]
      <3>1. PICK trunk : trunk = Append(github.trunk, budget)
        OBVIOUS
      <3>2. trunk \in Seq(Nat) /\ trunk # <<>>
        BY <1>3, <3>1, ConflictReading DEF ConflictSource
      <3>3. github' = [github EXCEPT !.trunk = trunk, !.clean = clean]
        BY <2>1, <3>1
      <3> QED
        BY <1>4, <3>2, <3>3
    <2>2. CASE github' = [github EXCEPT !.trunk = <<0, budget>>, !.clean = clean]
      <3>1. PICK trunk : trunk = <<0, budget>>
        OBVIOUS
      <3>2. trunk \in Seq(Nat) /\ trunk # <<>>
        BY <1>3, <3>1
      <3>3. github' = [github EXCEPT !.trunk = trunk, !.clean = clean]
        BY <2>2, <3>1
      <3> QED
        BY <1>4, <3>2, <3>3
    <2>3. CASE \E m \in Conflict!Members : github' = [github EXCEPT !.heads[m].layers[m] = @ + 1, !.clean = clean]
      BY <1>5, <2>3
    <2> QED
      BY <1>1, <2>1, <2>2, <2>3
  <1> QED
    BY <1>2, <1>3, <1>6, ConflictReading, ConflictThen DEF ConflictGood

\* Every step of a run keeps the invariant.
LEMMA ConflictNext ==
  ASSUME Conflict!ConflictResolverAssumption, ConflictInv, [Conflict!Next]_Conflict!vars
  PROVE  ConflictInv'
  <1>1. CASE UNCHANGED Conflict!vars
    BY <1>1, ConflictReading, ConflictThen DEF Conflict!vars, ConflictGood
  <1>2. CASE Conflict!LaunchFirst \/ Conflict!LaunchAgain \/ Conflict!Preflight \/ Conflict!PreflightFails
    BY <1>2, ConflictLaunchFirst, ConflictLaunchAgain, ConflictPreflight, ConflictPreflightFails
  <1>3. CASE Conflict!Rest
    BY <1>1, <1>3 DEF Conflict!Rest
  <1>4. CASE Conflict!Dispatch \/ Conflict!Post \/ Conflict!Posted \/ Conflict!Observe \/ Conflict!Collect
    BY <1>4, ConflictDispatch, ConflictPost, ConflictPosted, ConflictObserve, ConflictCollect
  <1>5. CASE \E m \in Conflict!Members : Conflict!HostedEnds(m)
    BY <1>5, ConflictHostedEnds
  <1>6. CASE Conflict!Verify \/ Conflict!Publish \/ Conflict!Push \/ Conflict!SendPush \/ Conflict!ReadBack
    BY <1>6, ConflictVerify, ConflictPublish, ConflictPush, ConflictSendPush, ConflictReadBack
  <1>7. CASE Conflict!Confirm \/ Conflict!Complete \/ Conflict!Revalidate \/ Conflict!Revalidated
    BY <1>7, ConflictConfirm, ConflictComplete, ConflictRevalidate, ConflictRevalidated
  <1>8. CASE Conflict!Raised
    BY <1>8, ConflictRaise DEF Conflict!Raised
  <1>9. CASE Conflict!Crash \/ Conflict!OthersMove
    BY <1>9, ConflictCrash, ConflictOthersMove
  <1> QED
    BY <1>1, <1>2, <1>3, <1>4, <1>5, <1>6, <1>7, <1>8, <1>9 DEF Conflict!Next

\* ConflictInv is an invariant.
THEOREM ConflictInvariance == ASSUME Conflict!ConflictResolverAssumption PROVE Conflict!Spec => []ConflictInv
  <1>1. Conflict!Init => ConflictInv
    BY ConflictInit
  <1>2. ConflictInv /\ [Conflict!Next]_Conflict!vars => ConflictInv'
    BY ConflictNext
  <1> QED
    BY <1>1, <1>2, PTL DEF Conflict!Spec

-----------------------------------------------------------------------------
(* What it is for *)

\* The types of the coordinator's state.
THEOREM ConflictIsTyped == ASSUME Conflict!ConflictResolverAssumption PROVE Conflict!Spec => []Conflict!TypeOK
  <1>1. ASSUME ConflictInv PROVE Conflict!TypeOK
    <2>1. DOMAIN github = {"trunk", "heads", "clean"} /\ github.clean \in BOOLEAN /\ local \in BOOLEAN
      BY <1>1, ConflictReading DEF ConflictSource
    <2>2. \A m \in Conflict!Members : Len(github.heads[m].layers) = m
      BY <1>1, ConflictReading DEF ConflictLaid
    <2>3. \A m \in Conflict!Members : Len(state.collected[m].layers) \in {0, m}
      <3>1. \A m \in Conflict!Members : state.collected[m] = Conflict!NoCommit \/ Len(state.collected[m].layers) = m
        BY <1>1, ConflictReading DEF ConflictKept
      <3>2. Len(Conflict!NoCommit.layers) = 0
        BY ConflictConstants
      <3> QED
        BY <3>1, <3>2
    <2>4. \A m \in Conflict!Members : hosted[m].status \in {"none", "running", "completed", "failed"} /\
            hosted[m].asked \in Nat
      BY <1>1, ConflictReading DEF ConflictTask
    <2>5. /\ state.status \in Conflict!Statuses /\ state.member \in 0..N /\ state.sweep \in 0..MaxSweeps
          /\ state.phase \in ConflictPhases /\ state.last \in ConflictLast
      BY <1>1, ConflictReading DEF ConflictFile
    <2>6. \A m \in Conflict!Members : state.receipts[m] \in {"none", "dispatching", "active", "completed"}
      BY <1>1, ConflictReading DEF ConflictFile, ConflictReceipts
    <2>7. proc.pc \in Conflict!Pcs /\ proc.tries \in 0..2 /\ proc.exit \in ConflictExits /\ budget \in 0..MaxMoves
      BY <1>1, ConflictReading DEF ConflictProcess
    <2> QED
      BY <2>1, <2>2, <2>3, <2>4, <2>5, <2>6, <2>7 DEF Conflict!TypeOK, ConflictPhases, ConflictLast, ConflictExits
  <1>2. ConflictInv => Conflict!TypeOK
    BY <1>1
  <1> QED
    BY <1>2, ConflictInvariance, PTL

\* A replayed branch is on the remote only behind a file that says so, all of them
\* replayed; a completed file leaves no hosted task.
THEOREM ConflictIsAccounted == ASSUME Conflict!ConflictResolverAssumption PROVE Conflict!Spec => []Conflict!Accounted
  <1>1. ASSUME ConflictInv PROVE Conflict!Accounted
    <2>1. state.status = "completed" => \A m \in Conflict!Members : hosted[m].status # "running"
      BY <1>1, ConflictReading DEF ConflictAsked
    <2>2. ASSUME NEW m \in Conflict!Members, github.heads[m] = state.collected[m]
          PROVE  state.pushing
      <3>1. SUFFICES ASSUME ~state.pushing PROVE FALSE
        OBVIOUS
      <3>2. github.heads[m].trunk = <<>> /\ Len(github.heads[m].layers) = m
        BY <1>1, <3>1, ConflictReading DEF ConflictLaid
      <3>3. state.collected[m] = Conflict!NoCommit
        BY <1>1, <2>2, <3>2, ConflictReading DEF ConflictKept
      <3>4. Len(Conflict!NoCommit.layers) = 0 /\ m \in Nat \ {0}
        BY ConflictConstants
      <3> QED
        BY <2>2, <3>2, <3>3, <3>4
    <2>3. state.pushing => \A k \in Conflict!Members : state.collected[k] # Conflict!NoCommit
      <3>1. state.pushing => state.member > 0 /\ \A k \in Conflict!Members : ConflictReplayed(state, k)
        BY <1>1, ConflictReading DEF ConflictKept
      <3> QED
        BY <1>1, <3>1, ConflictAllReplayed, ConflictReading
    <2> QED
      BY <2>1, <2>2, <2>3 DEF Conflict!Accounted
  <1>2. ConflictInv => Conflict!Accounted
    BY <1>1
  <1> QED
    BY <1>2, ConflictInvariance, PTL

\* Only a POST asks for a hosted task.
LEMMA ConflictAskedByPost ==
  ASSUME Conflict!ConflictResolverAssumption, ConflictInv, [Conflict!Next]_Conflict!vars, ~Conflict!Post
  PROVE  \A m \in Conflict!Members : hosted'[m].asked = hosted[m].asked
  <1>1. CASE \E k \in Conflict!Members : Conflict!HostedEnds(k)
    <2>1. PICK k \in Conflict!Members : Conflict!HostedEnds(k)
      BY <1>1
    <2>2. PICK old : old = hosted[k]
      OBVIOUS
    <2>3. old \in ConflictTask
      BY <2>2, ConflictReading
    <2>4. CASE hosted' = [hosted EXCEPT ![k].status = "failed"]
      <3>1. PICK t : t = [old EXCEPT !.status = "failed"]
        OBVIOUS
      <3>2. t.asked = old.asked
        BY <2>3, <3>1 DEF ConflictTask
      <3>3. hosted' = [hosted EXCEPT ![k] = t]
        BY <2>2, <2>4, <3>1
      <3> QED
        BY <2>2, <3>2, <3>3, ConflictReading
    <2>5. CASE \E new \in {Conflict!Replay(state.pin.heads[k], hosted[k].base),
                           Conflict!Commit(hosted[k].base.trunk, Append(hosted[k].base.layers, -1))} :
                 hosted' = [hosted EXCEPT ![k].status = "completed", ![k].new = new]
      <3>1. PICK new \in {Conflict!Replay(state.pin.heads[k], hosted[k].base),
                          Conflict!Commit(hosted[k].base.trunk, Append(hosted[k].base.layers, -1))} :
                 hosted' = [hosted EXCEPT ![k].status = "completed", ![k].new = new]
        BY <2>5
      <3>2. PICK t : t = [old EXCEPT !.status = "completed", !.new = new]
        OBVIOUS
      <3>3. t.asked = old.asked
        BY <2>3, <3>2 DEF ConflictTask
      <3>4. hosted' = [hosted EXCEPT ![k] = t]
        BY <2>2, <3>1, <3>2
      <3> QED
        BY <2>2, <3>3, <3>4, ConflictReading
    <2> QED
      BY <2>1, <2>4, <2>5 DEF Conflict!HostedEnds
  <1>2. CASE ~(\E k \in Conflict!Members : Conflict!HostedEnds(k))
    <2>1. hosted' = hosted
      <3>1. CASE UNCHANGED Conflict!vars \/ Conflict!Rest
        BY <3>1 DEF Conflict!vars, Conflict!Rest
      <3>2. CASE Conflict!LaunchFirst \/ Conflict!LaunchAgain \/ Conflict!Preflight \/ Conflict!PreflightFails
        BY <3>2 DEF Conflict!LaunchFirst, Conflict!LaunchAgain, Conflict!Preflight, Conflict!PreflightFails,
          Conflict!Save
      <3>3. CASE Conflict!Dispatch \/ Conflict!Posted
        BY <3>3 DEF Conflict!Dispatch, Conflict!Posted, Conflict!Save
      <3>4. CASE Conflict!Observe
        BY <3>4 DEF Conflict!Observe, Conflict!Save, Conflict!Raise
      <3>5. CASE Conflict!Collect
        BY <3>5 DEF Conflict!Collect, Conflict!Save, Conflict!Raise
      <3>6. CASE Conflict!Verify \/ Conflict!Publish \/ Conflict!Push \/ Conflict!ReadBack
        BY <3>6 DEF Conflict!Verify, Conflict!Publish, Conflict!Push, Conflict!ReadBack, Conflict!Save, Conflict!Raise
      <3>7. CASE Conflict!SendPush \/ Conflict!Crash \/ Conflict!OthersMove
        BY <3>7 DEF Conflict!SendPush, Conflict!Crash, Conflict!OthersMove
      <3>8. CASE Conflict!Confirm \/ Conflict!Complete \/ Conflict!Revalidate \/ Conflict!Revalidated
        BY <3>8 DEF Conflict!Confirm, Conflict!Complete, Conflict!Revalidate, Conflict!Revalidated, Conflict!Save,
          Conflict!Raise
      <3>9. CASE Conflict!Raised
        BY <3>9 DEF Conflict!Raised, Conflict!Save, Conflict!Raise
      <3> QED
        BY <1>2, <3>1, <3>2, <3>3, <3>4, <3>5, <3>6, <3>7, <3>8, <3>9 DEF Conflict!Next
    <2> QED
      BY <2>1
  <1> QED
    BY <1>1, <1>2

\* The members are asked about one after the other, each once, on what the one below
\* became.
THEOREM ConflictAlone == ASSUME Conflict!ConflictResolverAssumption PROVE Conflict!Spec =>
  [][Conflict!Alone]_Conflict!vars
  <1>1. ASSUME ConflictInv, Conflict!Next PROVE Conflict!Alone
    <2>1. CASE ~Conflict!Post
      BY <1>1, <2>1, ConflictAskedByPost DEF Conflict!Alone
    <2>2. CASE Conflict!Post
      <3>1. PICK m : m = state.member
        OBVIOUS
      <3>2. /\ proc.pc = "post" /\ state.status = "running" /\ hosted[m].status = "none" /\ hosted[m].asked = 0
        BY <1>1, <2>2, <3>1, ConflictReading DEF Conflict!Post, ConflictPlaced, ConflictWorking
      <3>3. m \in Conflict!Members
        BY <1>1, <3>1, <3>2, ConflictReading, ConflictConstants DEF ConflictAsked, ConflictFile
      <3>4. \A k \in Conflict!Members : k < m \/ k = m \/ k > m
        BY <3>3, ConflictConstants
      <3>5. \A k \in Conflict!Members : hosted[k].status # "running"
        BY <1>1, <3>1, <3>2, <3>4, ConflictReading DEF ConflictAsked
      <3>6. PICK base : base = Conflict!Base(state, m)
        OBVIOUS
      <3>7. hosted' = [hosted EXCEPT ![m] = [status |-> "running", base |-> base, new |-> Conflict!NoCommit,
              asked |-> @.asked + 1]]
        BY <2>2, <3>1, <3>6 DEF Conflict!Post
      <3>8. hosted'[m].base = base /\ \A k \in Conflict!Members \ {m} : hosted'[k] = hosted[k]
        BY <1>1, <3>3, <3>7, ConflictReading
      <3>9. m > 1 => m - 1 \in Conflict!Members /\ m - 1 < m /\ base = state.collected[m - 1]
        BY <3>3, <3>6, ConflictConstants DEF Conflict!Base
      <3>10. m > 1 => hosted'[m].base = hosted[m - 1].new /\ hosted[m - 1].status = "completed"
        BY <1>1, <3>1, <3>8, <3>9, ConflictReading DEF ConflictAsked
      <3> QED
        BY <3>2, <3>5, <3>8, <3>10 DEF Conflict!Alone
    <2> QED
      BY <2>1, <2>2
  <1>2. ConflictInv /\ [Conflict!Next]_Conflict!vars => [Conflict!Alone]_Conflict!vars
    BY <1>1
  <1> QED
    BY <1>2, ConflictInvariance, PTL DEF Conflict!Spec

\* A push moves every branch or none, and drops nothing that anyone pushed.
THEOREM ConflictNothingLost == ASSUME Conflict!ConflictResolverAssumption PROVE Conflict!Spec =>
  [][Conflict!NothingLost]_Conflict!vars
  <1>1. ASSUME ConflictInv, Conflict!Next, budget' = budget, github'.heads # github.heads PROVE Conflict!SendPush
    <2>1. ASSUME github' = github \/ Conflict!OthersMove PROVE FALSE
      <3>1. budget \in Nat
        BY <1>1, ConflictReading, ConflictConstants
      <3>2. Conflict!OthersMove => budget' = budget - 1
        BY Zenon DEF Conflict!OthersMove
      <3>3. github'.heads # github.heads => github' # github
        OBVIOUS
      <3> QED
        BY <1>1, <2>1, <3>1, <3>2, <3>3
    <2>2. CASE Conflict!Rest \/ Conflict!LaunchFirst \/ Conflict!LaunchAgain \/ Conflict!Preflight \/
            Conflict!PreflightFails
      BY <2>1, <2>2 DEF Conflict!Rest, Conflict!vars, Conflict!LaunchFirst, Conflict!LaunchAgain, Conflict!Preflight,
        Conflict!PreflightFails, Conflict!Save
    <2>3. CASE Conflict!Dispatch \/ Conflict!Post \/ Conflict!Posted
      BY <2>1, <2>3 DEF Conflict!Dispatch, Conflict!Post, Conflict!Posted, Conflict!Save
    <2>4. CASE Conflict!Observe \/ Conflict!Collect
      BY <2>1, <2>4 DEF Conflict!Observe, Conflict!Collect, Conflict!Save, Conflict!Raise
    <2>5. CASE \E m \in Conflict!Members : Conflict!HostedEnds(m)
      BY <2>1, <2>5 DEF Conflict!HostedEnds
    <2>6. CASE Conflict!Verify \/ Conflict!Publish \/ Conflict!Push \/ Conflict!ReadBack
      BY <2>1, <2>6 DEF Conflict!Verify, Conflict!Publish, Conflict!Push, Conflict!ReadBack, Conflict!Save,
        Conflict!Raise
    <2>7. CASE Conflict!Crash \/ Conflict!OthersMove \/ Conflict!Raised
      BY <2>1, <2>7 DEF Conflict!Crash, Conflict!Raised, Conflict!Raise, Conflict!Save
    <2>8. CASE Conflict!Confirm \/ Conflict!Complete \/ Conflict!Revalidate \/ Conflict!Revalidated
      BY <2>1, <2>8 DEF Conflict!Confirm, Conflict!Complete, Conflict!Revalidate, Conflict!Revalidated, Conflict!Save,
        Conflict!Raise
    <2> QED
      BY <1>1, <2>2, <2>3, <2>4, <2>5, <2>6, <2>7, <2>8 DEF Conflict!Next
  <1>2. ASSUME ConflictInv, Conflict!Next PROVE Conflict!NothingLost
    <2>1. SUFFICES ASSUME budget' = budget, github'.heads # github.heads, NEW m \in Conflict!Members
                   PROVE  github'.heads[m] # github.heads[m] /\
                          Conflict!Last(github'.heads[m].layers) = Conflict!Last(github.heads[m].layers)
      BY DEF Conflict!NothingLost
    <2>2. Conflict!SendPush
      BY <1>1, <1>2, <2>1
    <2>3. /\ state.member = N /\ state.pushing /\ \A k \in Conflict!Members : ConflictReplayed(state, k)
      BY <1>2, <2>2, ConflictReading DEF Conflict!SendPush, ConflictPlaced, ConflictPublishing
    <2>4. Conflict!HeadsPinned /\ github' = [github EXCEPT !.heads = state.collected]
      BY <2>1, <2>2 DEF Conflict!SendPush, Conflict!Moved
    <2>5. github.heads = state.pin.heads
      BY <2>4 DEF Conflict!HeadsPinned
    <2>6. github'.heads = state.collected
      BY <1>2, <2>4, ConflictReading DEF ConflictSource
    <2>7. N > 0
      BY ConflictConstants
    <2>8. /\ state.collected[m] # state.pin.heads[m]
          /\ Conflict!Last(state.collected[m].layers) = Conflict!Last(state.pin.heads[m].layers)
      BY <1>2, <2>3, <2>7, ConflictAllReplayed, ConflictReading
    <2> QED
      BY <2>5, <2>6, <2>8
  <1>3. ConflictInv /\ [Conflict!Next]_Conflict!vars => [Conflict!NothingLost]_Conflict!vars
    BY <1>2
  <1> QED
    BY <1>3, ConflictInvariance, PTL DEF Conflict!Spec

\* A head is cleared by the preflight, the end of a publication or a later look.
LEMMA ConflictClearedBy ==
  ASSUME Conflict!ConflictResolverAssumption, ConflictInv, Conflict!Next, ~Conflict!Preflight, ~Conflict!Complete,
         ~Conflict!Revalidated
  PROVE  state'.cleared = state.cleared \/ state'.cleared = Conflict!NoCommit
  <1>1. state \in ConflictFile
    BY ConflictReading
  <1>2. ASSUME state' = state PROVE state'.cleared = state.cleared
    BY <1>2
  <1>3. ASSUME NEW s, s \in ConflictFile, Conflict!Raise(s) PROVE state'.cleared = s.cleared
    <2>1. state' = s \/ state' = [s EXCEPT !.status = "interrupted"]
      BY <1>3 DEF Conflict!Raise, Conflict!Save
    <2> QED
      BY <1>3, <2>1 DEF ConflictFile
  <1>4. CASE Conflict!Rest \/ Conflict!Post \/ Conflict!SendPush \/ Conflict!Crash \/ Conflict!OthersMove \/
          \E m \in Conflict!Members : Conflict!HostedEnds(m)
    <2>1. state' = state
      BY <1>4, Zenon DEF Conflict!Rest, Conflict!vars, Conflict!Post, Conflict!SendPush, Conflict!Crash,
        Conflict!OthersMove, Conflict!HostedEnds
    <2> QED
      BY <2>1
  <1>5. CASE Conflict!LaunchFirst
    <2>1. PICK none : none = Conflict!NoFile
      OBVIOUS
    <2>2. none \in ConflictFile /\ none.cleared = Conflict!NoCommit
      BY <2>1, ConflictConstants
    <2>3. state' = [none EXCEPT !.exists = TRUE, !.sweep = 1, !.status = "preparing"]
      BY <1>5, <2>1 DEF Conflict!LaunchFirst, Conflict!Save
    <2> QED
      BY <2>2, <2>3 DEF ConflictFile
  <1>6. CASE Conflict!LaunchAgain
    <2>1. \/ state' = state
          \/ \E sweep \in Nat : state' = [state EXCEPT !.sweep = sweep, !.status = "preparing", !.last = "revalidating",
                                                       !.cleared = Conflict!NoCommit]
          \/ state' = [state EXCEPT !.status = IF @ \in {"completed", "interrupted"} THEN @ ELSE "interrupted"]
      <3>1. PICK sweep \in {state.sweep, state.sweep + 1} \cap (1..MaxSweeps) :
              IF local THEN UNCHANGED state
              ELSE IF sweep > state.sweep
              THEN IF Conflict!MayRevalidate(sweep)
                   THEN state' = [state EXCEPT !.sweep = sweep, !.status = "preparing", !.last = "revalidating",
                                               !.cleared = Conflict!NoCommit]
                   ELSE UNCHANGED state
              ELSE IF Conflict!Resumable THEN UNCHANGED state
              ELSE state' = [state EXCEPT !.status = IF @ \in {"completed", "interrupted"} THEN @ ELSE "interrupted"]
        BY <1>6, Zenon DEF Conflict!LaunchAgain
      <3>2. sweep \in Nat
        BY <3>1, ConflictConstants
      <3> QED
        BY <3>1, <3>2
    <2> QED
      BY <1>1, <2>1 DEF ConflictFile
  <1>7. CASE Conflict!PreflightFails \/ Conflict!Dispatch \/ Conflict!Posted
    <2>1. CASE Conflict!PreflightFails
      BY <1>1, <2>1 DEF Conflict!PreflightFails, Conflict!Save, ConflictFile
    <2>2. CASE Conflict!Dispatch
      BY <1>1, <2>2 DEF Conflict!Dispatch, Conflict!Save, ConflictFile
    <2>3. CASE Conflict!Posted
      BY <1>1, <2>3 DEF Conflict!Posted, Conflict!Save, ConflictFile
    <2> QED
      BY <1>7, <2>1, <2>2, <2>3
  <1>8. CASE Conflict!Observe
    <2>1. Conflict!Raise(state) \/ state' = Conflict!Observed(state.member)
      BY <1>8 DEF Conflict!Observe, Conflict!Save
    <2> QED
      BY <1>1, <1>3, <2>1 DEF Conflict!Observed, ConflictFile
  <1>9. CASE Conflict!Collect
    <2>1. PICK c : c = [state.collected EXCEPT ![state.member] = hosted[state.member].new]
      OBVIOUS
    <2>2. PICK s : s = [state EXCEPT !.collected = c]
      OBVIOUS
    <2>3. s = [state EXCEPT !.collected[state.member] = hosted[state.member].new]
      BY <2>1, <2>2
    <2>4. s \in [{"exists", "sweep", "status", "phase", "member", "pin", "inflight", "receipts", "collected", "pushing",
                  "advanced", "last", "cleared", "attempts"} -> {s[f] : f \in DOMAIN s}] /\ s.cleared = state.cleared
      BY <1>1, <2>2 DEF ConflictFile
    <2>5. \/ Conflict!Raise(state) \/ state' = s \/ state' = Conflict!Superseded(s)
          \/ state' = [s EXCEPT !.member = state.member + 1, !.phase = "dispatch"]
      BY <1>9, <2>3 DEF Conflict!Collect, Conflict!Save
    <2> QED
      BY <1>1, <1>3, <2>4, <2>5 DEF Conflict!Superseded
  <1>10. CASE Conflict!Verify \/ Conflict!Push \/ Conflict!ReadBack \/ Conflict!Revalidate \/ Conflict!Raised
    <2>1. Conflict!Raise(state) \/ state' = state \/ state' = [state EXCEPT !.status = "verified"]
      BY <1>10 DEF Conflict!Verify, Conflict!Push, Conflict!ReadBack, Conflict!Revalidate, Conflict!Raised,
        Conflict!Save
    <2> QED
      BY <1>1, <1>3, <2>1 DEF ConflictFile
  <1>11. CASE Conflict!Publish
    <2>1. Conflict!Raise(state) \/ \E advanced : state' = Conflict!Publishing([state EXCEPT !.advanced = advanced])
      BY <1>11 DEF Conflict!Publish, Conflict!Save
    <2>2. ASSUME NEW advanced, state' = Conflict!Publishing([state EXCEPT !.advanced = advanced])
          PROVE  state'.cleared = state.cleared
      <3>1. PICK a : a = [state EXCEPT !.advanced = advanced]
        OBVIOUS
      <3>2. state' = [a EXCEPT !.status = "publishing", !.pushing = TRUE]
        BY <2>2, <3>1 DEF Conflict!Publishing
      <3> QED
        BY <1>1, <3>1, <3>2 DEF ConflictFile
    <2> QED
      BY <1>1, <1>3, <2>1, <2>2
  <1>12. CASE Conflict!Confirm
    <2>1. Conflict!Raise(state) \/ state' = [state EXCEPT !.status = "published_pending_verification",
            !.last = "published"]
      BY <1>12 DEF Conflict!Confirm, Conflict!Save
    <2> QED
      BY <1>1, <1>3, <2>1 DEF ConflictFile
  <1> QED
    BY <1>4, <1>5, <1>6, <1>7, <1>8, <1>9, <1>10, <1>11, <1>12 DEF Conflict!Next

\* A clearance is of the live head, mergeable at that moment, or of a stack that stands
\* member on member on the trunk that the guards saw.
THEOREM ConflictClearedIsLive == ASSUME Conflict!ConflictResolverAssumption PROVE Conflict!Spec =>
  [][Conflict!ClearedIsLive]_Conflict!vars
  <1>1. ASSUME ConflictInv, Conflict!Next PROVE Conflict!ClearedIsLive
    <2>1. SUFFICES ASSUME state'.cleared # state.cleared, state'.cleared # Conflict!NoCommit
                   PROVE  /\ github.heads[N] = state'.cleared
                          /\ state'.last = "mergeable" => Conflict!Mergeable(N)
                          /\ state'.last = "published" =>
                               /\ \A m \in 2..N : Conflict!StandsOn(github.heads[m], github.heads[m - 1])
                               /\ Conflict!Stack => github.heads[1].trunk = proc.trunk
      BY DEF Conflict!ClearedIsLive
    <2>2. state \in ConflictFile
      BY <1>1, ConflictReading
    <2>3. ASSUME Conflict!Raise(state) PROVE FALSE
      <3>1. state' = state \/ state' = [state EXCEPT !.status = "interrupted"]
        BY <2>3 DEF Conflict!Raise, Conflict!Save
      <3> QED
        BY <2>1, <2>2, <3>1 DEF ConflictFile
    <2>4. CASE Conflict!Preflight
      <3>1. CASE Conflict!NothingToDo
        <4>1. PICK live : live = github.heads[N]
          OBVIOUS
        <4>2. state' = [state EXCEPT !.status = "completed", !.last = "mergeable", !.cleared = live]
          BY <2>4, <3>1, <4>1 DEF Conflict!Preflight, Conflict!Save, Conflict!Recorded
        <4>3. state'.cleared = live /\ state'.last = "mergeable"
          BY <2>2, <4>2 DEF ConflictFile
        <4>4. Conflict!Mergeable(N)
          BY <3>1, ConflictConstants DEF Conflict!NothingToDo, Conflict!Mergeable
        <4> QED
          BY <4>1, <4>3, <4>4
      <3>2. CASE ~Conflict!NothingToDo
        <4>1. PICK pin : pin = [trunk |-> github.trunk, heads |-> github.heads]
          OBVIOUS
        <4>2. state' = [state EXCEPT !.status = "running", !.phase = "dispatch", !.member = 1, !.attempts = @ + 1,
                !.pin = pin]
          BY <2>4, <3>2, <4>1 DEF Conflict!Preflight, Conflict!Save, Conflict!Pinned
        <4> QED
          BY <2>1, <2>2, <4>2 DEF ConflictFile
      <3> QED
        BY <3>1, <3>2
    <2>5. CASE Conflict!Complete
      <3>1. Conflict!Published /\ state' = [state EXCEPT !.status = "completed",
                                                !.cleared = IF proc.mergeable /\ ~Conflict!Stale THEN state.collected[N]
                                                            ELSE Conflict!NoCommit]
        BY <2>3, <2>5 DEF Conflict!Complete, Conflict!Save
      <3>2. /\ state.last = "published" /\ state.member = N /\ \A m \in Conflict!Members : ConflictReplayed(state, m)
            /\ state.advanced <=> proc.trunk # state.pin.trunk
        BY <1>1, <2>5, ConflictReading DEF Conflict!Complete, ConflictPlaced, ConflictPublishing
      <3>3. state'.cleared = (IF proc.mergeable /\ ~Conflict!Stale THEN state.collected[N] ELSE Conflict!NoCommit) /\
              state'.last = "published"
        BY <2>2, <3>1, <3>2 DEF ConflictFile
      <3>4. proc.mergeable /\ ~Conflict!Stale /\ state'.cleared = state.collected[N]
        BY <2>1, <3>3
      <3>5. github.heads = state.collected
        BY <3>1 DEF Conflict!Published
      <3>6. N > 0 /\ Conflict!Members = 1..N /\ N \in Nat
        BY ConflictConstants
      <3>7. \A m \in Conflict!Members :
              /\ Len(state.collected[m].layers) = m
              /\ m # 1 => /\ state.collected[m].trunk = state.collected[m - 1].trunk
                          /\ Conflict!Front(state.collected[m].layers) = state.collected[m - 1].layers
              /\ m = 1 => state.collected[m].trunk = state.pin.trunk
        BY <1>1, <3>2, <3>6, ConflictAllReplayed, ConflictReading
      <3>8. ASSUME NEW m \in 2..N PROVE Conflict!StandsOn(github.heads[m], github.heads[m - 1])
        <4>1. m \in Conflict!Members /\ m # 1
          BY <3>6
        <4>2. /\ Len(state.collected[m].layers) # 1 /\ state.collected[m].trunk = state.collected[m - 1].trunk
              /\ Conflict!Front(state.collected[m].layers) = state.collected[m - 1].layers
          BY <3>7, <4>1
        <4> QED
          BY <3>5, <4>2 DEF Conflict!StandsOn
      <3>9. Conflict!Stack => github.heads[1].trunk = proc.trunk
        <4>1. Conflict!Stack => ~state.advanced
          BY <3>4 DEF Conflict!Stale
        <4>2. 1 \in Conflict!Members
          BY ConflictConstants
        <4> QED
          BY <3>2, <3>5, <3>7, <4>1, <4>2
      <3> QED
        BY <3>3, <3>4, <3>5, <3>8, <3>9
    <2>6. CASE Conflict!Revalidated
      <3>1. PICK live, read : live = github.heads[N] /\ read = proc.read
        OBVIOUS
      <3>2. PICK a : a = [state EXCEPT !.status = "completed", !.last = "mergeable", !.cleared = live]
        OBVIOUS
      <3>3. Conflict!Unmoved /\ state' = [a EXCEPT !.cleared = read]
        BY <2>3, <2>6, <3>1, <3>2 DEF Conflict!Revalidated, Conflict!Save, Conflict!Recorded
      <3>4. state'.cleared = read /\ state'.last = "mergeable"
        BY <2>2, <3>2, <3>3 DEF ConflictFile
      <3> QED
        BY <3>1, <3>3, <3>4 DEF Conflict!Unmoved
    <2> QED
      BY <1>1, <2>1, <2>4, <2>5, <2>6, ConflictClearedBy
  <1>2. ConflictInv /\ [Conflict!Next]_Conflict!vars => [Conflict!ClearedIsLive]_Conflict!vars
    BY <1>1
  <1> QED
    BY <1>2, ConflictInvariance, PTL DEF Conflict!Spec

=============================================================================
