------------------------- MODULE StackPipelineProofs -------------------------
(***************************************************************************)
(* Theorems about StackPipeline, for a stack of any size, any selection,   *)
(* any phases and any number of pushes by workers and others: its types,   *)
(* one worker on a member, repairs from the bottom up with every push      *)
(* carried, one consistent stack in a complete result, and no worktree     *)
(* removed from under a worker whose start was recorded.                   *)
(***************************************************************************)
EXTENDS StackPipeline, TLAPS

Mark == [outcome : Outcomes, head : Commit, base : Nat]
Worker == [state : {"none", "running", "exited"}, stage : Stages \cup {"none"}, head : Commit, ok : BOOLEAN,
           recorded : BOOLEAN]
Snapshot == [heads : [Selected -> Commit], bases : [Selected -> Nat], next : Selected,
             uncleared : [Selected -> SUBSET Stages]]
Previous == [clear : BOOLEAN, head : Commit, warned : BOOLEAN, base : Nat]
Note == [sent : Commit, at : Commit, base : Nat, clear : BOOLEAN, outcome : Outcomes]
Noted == {"conflict", "description"}
RunState == [exists : BOOLEAN, active : SUBSET Selected, carried : [Selected -> SUBSET Nat],
             auth : [Selected -> Commit], notes : [Noted -> [Selected -> Note]]]
Memory == [pc : Working \cup {"over", "dead"}, pass : 1..MaxPasses, phase : 1..Len(Phases),
           seen : [Selected -> Commit], todo : SUBSET Selected, mine : SUBSET Selected,
           stop : {"none", "blocked", "stopped"}, resolved : BOOLEAN, index : Selected, below : Previous,
           aligned : BOOLEAN, green : SUBSET Selected, failed : BOOLEAN, blocked : BOOLEAN, snap : Snapshot,
           result : StackResults \cup {"none"}, touched : SUBSET Selected]

\* The types in full.
TInv ==
  /\ live \in [heads : [Members -> Commit], trunk : Nat, same : BOOLEAN]
  /\ marks \in [Selected -> [Stages -> Mark]]
  /\ native \in [heads : [Selected -> Commit], bases : [Selected -> Nat]]
  /\ workers \in [Selected -> Worker]
  /\ trees \in [Selected -> {"absent", "owned", "dirty"}]
  /\ pushed \in [Selected -> SUBSET Nat]
  /\ saved \in RunState
  /\ sched \in Memory
  /\ outcome \in [result : StackResults \cup {"none"}, snap : Snapshot]

-----------------------------------------------------------------------------
(* Types *)

LEMMA Constants ==
  ASSUME StackPipelineAssumption
  PROVE  /\ NumMembers \in Nat \ {0} /\ Clicked \in 1..NumMembers /\ MaxPasses = 2
         /\ Clicked \in Selected /\ Selected \subseteq Members /\ NumMembers \in Selected
         /\ Len(Phases) \in Nat \ {0} /\ 1 \in 1..Len(Phases) /\ DOMAIN Phases = 1..Len(Phases)
         /\ \A i \in 1..Len(Phases) : Phases[i] \in Stages
         /\ Stages \subseteq {"conflict", "review", "ci", "description"}
  <1>1. NumMembers \in Nat \ {0} /\ Clicked \in 1..NumMembers
    BY DEF StackPipelineAssumption, Members
  <1>2. Phases \in Seq({"conflict", "review", "ci", "description"}) /\ Phases # <<>>
    BY DEF StackPipelineAssumption
  <1>3. Len(Phases) \in Nat \ {0} /\ DOMAIN Phases = 1..Len(Phases)
    BY <1>2
  <1>4. \A i \in 1..Len(Phases) : Phases[i] \in {"conflict", "review", "ci", "description"}
    BY <1>2
  <1> QED
    BY <1>1, <1>3, <1>4 DEF Members, Selected, Stages, MaxPasses

LEMMA Reading ==
  ASSUME StackPipelineAssumption, TInv
  PROVE  /\ \A m \in Members : live.heads[m] \in Commit /\ live.heads[m].v \in Nat
         /\ \A m \in Selected : Tip(m) \in Nat
         /\ LiveHeads \in [Selected -> Commit]
         /\ Tips \in [Selected -> Nat]
         /\ Stage \in Stages
  <1>1. \A m \in Members : live.heads[m] \in Commit /\ live.heads[m].v \in Nat
    BY DEF TInv, Commit
  <1>2. \A m \in Selected : Tip(m) \in Nat
    BY <1>1, Constants DEF Tip, TInv, Selected, Members
  <1>3. LiveHeads \in [Selected -> Commit]
    BY <1>1, Constants DEF LiveHeads
  <1>4. Stage \in Stages
    BY Constants DEF Stage, TInv, Memory
  <1> QED
    BY <1>1, <1>2, <1>3, <1>4 DEF Tips

LEMMA Empty ==
  ASSUME StackPipelineAssumption
  PROVE  /\ NoHead \in Commit /\ NoHeads \in [Selected -> Commit]
         /\ NoSnapshot \in Snapshot /\ NoPrevious \in Previous /\ NoNote \in Note /\ NoMark \in Mark
         /\ NoWorker \in Worker
         /\ NoEvidence \in [heads : [Selected -> Commit], bases : [Selected -> Nat]]
  <1>1. NoHead \in Commit
    BY DEF NoHead, Commit
  <1>2. NoHeads \in [Selected -> Commit]
    BY <1>1 DEF NoHeads
  <1>3. NoSnapshot \in Snapshot
    BY <1>2, Constants DEF NoSnapshot, Snapshot
  <1> QED
    BY <1>1, <1>2, <1>3 DEF NoPrevious, Previous, NoNote, Note, NoMark, Mark, NoWorker, Worker, NoEvidence, Outcomes

LEMMA QuietTypes ==
  ASSUME StackPipelineAssumption
  PROVE  /\ FreshMemory \in Memory
         /\ FreshMemory.pc = "open" /\ FreshMemory.todo = {} /\ FreshMemory.mine = {} /\ FreshMemory.phase = 1 /\ FreshMemory.stop = "none"
         /\ FreshMemory.index = Clicked /\ FreshMemory.result = "none" /\ FreshMemory.snap = NoSnapshot
  <1>1. PICK heads, below, snap : heads = NoHeads /\ below = NoPrevious /\ snap = NoSnapshot
    OBVIOUS
  <1>2. FreshMemory = [pc |-> "open", pass |-> 1, phase |-> 1, seen |-> heads, todo |-> {}, mine |-> {},
                 stop |-> "none", resolved |-> FALSE, index |-> Clicked, below |-> below, aligned |-> FALSE,
                 green |-> {}, failed |-> FALSE, blocked |-> FALSE, snap |-> snap, result |-> "none",
                 touched |-> {}]
    BY <1>1 DEF FreshMemory
  <1>3. heads \in [Selected -> Commit] /\ below \in Previous /\ snap \in Snapshot
    BY <1>1, Empty
  <1> QED
    BY <1>1, <1>2, <1>3, Constants DEF Memory, Working

-----------------------------------------------------------------------------
(* What a step makes of the scheduler's memory *)

LEMMA EndFacts ==
  ASSUME NEW m \in Memory, NEW stop \in {"none", "blocked", "stopped"}, NEW new, new = EndPhase(m, stop)
  PROVE  /\ new \in Memory /\ new.pc = "ended" /\ new.stop = stop /\ new.todo = {} /\ new.mine = {}
         /\ new.phase = m.phase /\ new.blocked = m.blocked /\ new.index = m.index
  BY DEF EndPhase, Memory, Working

LEMMA BlockFacts ==
  ASSUME NEW m \in Memory, NEW new, new = Block(m)
  PROVE  /\ new \in Memory /\ new.pc = "ended" /\ new.todo = {} /\ new.mine = {} /\ new.blocked
         /\ new.phase = m.phase /\ new.green = m.green
  <1>1. PICK k : k = EndPhase(m, "none")
    OBVIOUS
  <1>2. k \in Memory /\ k.pc = "ended" /\ k.todo = {} /\ k.mine = {} /\ k.phase = m.phase /\ k.green = m.green
    BY <1>1, EndFacts DEF EndPhase, Memory
  <1>3. new = [k EXCEPT !.blocked = TRUE]
    BY <1>1 DEF Block
  <1> QED
    BY <1>2, <1>3 DEF Memory

LEMMA StopFacts ==
  ASSUME NEW m \in Memory, NEW why \in StackResults, NEW new, new = Stopping(m, why)
  PROVE  new \in Memory /\ new.pc = "finish" /\ new.result = why /\ new.snap = m.snap /\ new.mine = m.mine
  BY DEF Stopping, Memory, Working

LEMMA NextPassFacts ==
  ASSUME StackPipelineAssumption, NEW m \in Memory, m.mine = {}, NEW new, new = NextPass(m)
  PROVE  /\ new \in Memory /\ new.mine = {}
         /\ new.pc = "pass" \/ (new.pc = "finish" /\ new.result = "partial")
  <1>1. CASE m.pass = MaxPasses
    BY <1>1, StopFacts DEF NextPass, StackResults
  <1>2. CASE m.pass # MaxPasses
    <2>1. PICK snap, pass : snap = NoSnapshot /\ pass = m.pass + 1
      OBVIOUS
    <2>2. snap \in Snapshot /\ pass \in 1..MaxPasses
      BY <1>2, <2>1, Empty, Constants DEF Memory
    <2>3. new = [m EXCEPT !.pc = "pass", !.pass = pass, !.snap = snap]
      BY <1>2, <2>1 DEF NextPass
    <2> QED
      BY <2>2, <2>3 DEF Memory, Working
  <1> QED
    BY <1>1, <1>2

LEMMA AboveFacts ==
  ASSUME StackPipelineAssumption, NEW m \in Memory, m.mine = {}, NEW i \in Selected, NEW new, new = Above(m, i)
  PROVE  /\ new \in Memory /\ new.mine = {} /\ new.phase = m.phase
         /\ \/ i = NumMembers /\ new.pc = "ended"
            \/ /\ i < NumMembers /\ new.pc = "gate" /\ new.index = i + 1
               /\ new.green = m.green /\ new.below = m.below
  <1>1. CASE i = NumMembers
    BY <1>1, EndFacts DEF Above
  <1>2. CASE i # NumMembers
    <2>1. i < NumMembers /\ i + 1 \in Selected
      BY <1>2, Constants DEF Selected
    <2>2. PICK k : k = i + 1
      OBVIOUS
    <2>3. new = [m EXCEPT !.pc = "gate", !.index = k, !.aligned = FALSE]
      BY <1>2, <2>2 DEF Above
    <2> QED
      BY <2>1, <2>2, <2>3 DEF Memory, Working
  <1> QED
    BY <1>1, <1>2

LEMMA SeesLive ==
  ASSUME StackPipelineAssumption, TInv, NEW heads, heads = LiveHeads
  PROVE  heads \in [Selected -> Commit]
  BY Reading

LEMMA OpenMemory ==
  ASSUME StackPipelineAssumption, TInv, Open
  PROVE  /\ sched' \in Memory
         /\ \/ sched'.pc = "finish" /\ sched'.result = "stopped" /\ UNCHANGED outcome
            \/ sched'.pc = "over" /\ UNCHANGED saved
            \/ sched'.pc = "pass" /\ sched'.mine = sched.mine /\ ~saved.exists /\ saved'.exists /\ UNCHANGED outcome
         /\ saved' \in RunState /\ saved'.active = saved.active
         /\ saved'.exists = saved.exists \/ ~saved.exists
         /\ outcome' \in [result : StackResults \cup {"none"}, snap : Snapshot]
         /\ outcome' = outcome \/ outcome'.result = "stopped"
  <1>1. sched \in Memory /\ saved \in RunState /\ outcome \in [result : StackResults \cup {"none"}, snap : Snapshot]
    BY DEF TInv
  <1>2. "stopped" \in StackResults
    BY DEF StackResults
  <1>3. CASE /\ sched' = Stopping(sched, "stopped") /\ UNCHANGED outcome
             /\ (saved' = [saved EXCEPT !.exists = TRUE] /\ ~saved.exists) \/ UNCHANGED saved
    <2>1. sched' \in Memory /\ sched'.pc = "finish" /\ sched'.result = "stopped"
      BY <1>1, <1>2, <1>3, StopFacts
    <2>2. saved' \in RunState /\ saved'.active = saved.active /\ (saved'.exists = saved.exists \/ ~saved.exists)
      BY <1>1, <1>3 DEF RunState
    <2> QED
      BY <1>1, <1>3, <2>1, <2>2
  <1>4. CASE sched' = [sched EXCEPT !.pc = "over"] /\ outcome' = [outcome EXCEPT !.result = "stopped"] /\ UNCHANGED saved
    BY <1>1, <1>2, <1>4 DEF Memory
  <1>5. CASE sched' = [sched EXCEPT !.pc = "pass"] /\ ~saved.exists /\ saved' = [saved EXCEPT !.exists = TRUE] /\ UNCHANGED outcome
    BY <1>1, <1>5 DEF Memory, RunState, Working
  <1> QED
    BY <1>3, <1>4, <1>5 DEF Open, Think

LEMMA BeginPassMemory ==
  ASSUME StackPipelineAssumption, TInv, BeginPass
  PROVE  /\ sched' \in Memory
         /\ \/ sched'.pc = "phase" /\ sched'.mine = sched.mine
            \/ sched'.pc = "finish" /\ sched'.result = "stopped"
  <1>1. PICK heads : heads = LiveHeads
    OBVIOUS
  <1>2. heads \in [Selected -> Commit] /\ sched \in Memory /\ "stopped" \in StackResults /\ 1 \in 1..Len(Phases)
    BY <1>1, SeesLive, Constants DEF TInv, StackResults
  <1>3. \/ sched' = [sched EXCEPT !.pc = "phase", !.phase = 1, !.seen = heads]
        \/ sched' = Stopping(sched, "stopped")
    BY <1>1 DEF BeginPass, Think
  <1>4. CASE sched' = [sched EXCEPT !.pc = "phase", !.phase = 1, !.seen = heads]
    BY <1>2, <1>4 DEF Memory, Working
  <1> QED
    BY <1>2, <1>3, <1>4, StopFacts

\* A worker, or several, are to be launched, of a stage other than CI.
LEMMA PhaseMemory ==
  ASSUME StackPipelineAssumption, TInv, ConflictPhase \/ ParallelPhase
  PROVE  /\ sched' \in Memory /\ sched'.phase = sched.phase /\ Stage # "ci" /\ sched.pc = "phase"
         /\ \/ sched'.pc = "ended" /\ sched'.mine = {}
            \/ sched'.pc = "stopping" /\ sched'.result = "error"
            \/ sched'.pc = "launch" /\ sched'.mine = sched.mine
         /\ saved' \in RunState /\ saved'.active = saved.active /\ saved'.exists = saved.exists
         /\ saved'.carried = saved.carried
  <1>1. sched \in Memory /\ saved \in RunState /\ "error" \in StackResults /\ Clicked \in Selected
    BY Constants DEF TInv, StackResults
  <1>2. CASE ConflictPhase
    <2>1. PICK heads : heads = LiveHeads
      OBVIOUS
    <2>2. heads \in [Selected -> Commit]
      BY <2>1, SeesLive
    <2>3. saved' = saved \/ saved' = [saved EXCEPT !.auth = heads]
      BY <1>2, <2>1 DEF ConflictPhase
    <2>4. /\ saved' \in RunState /\ saved'.active = saved.active /\ saved'.exists = saved.exists
          /\ saved'.carried = saved.carried
      BY <1>1, <2>2, <2>3 DEF RunState
    <2>5. \/ \E stop \in {"none", "blocked"} : sched' = EndPhase(sched, stop)
          \/ sched' = [EndPhase(sched, "none") EXCEPT !.resolved = TRUE]
          \/ sched' = [sched EXCEPT !.pc = "stopping", !.result = "error"]
          \/ sched' = [sched EXCEPT !.pc = "launch", !.todo = {Clicked}]
      BY <1>2 DEF ConflictPhase, Think
    <2>6. CASE sched' = [EndPhase(sched, "none") EXCEPT !.resolved = TRUE]
      <3>1. PICK k : k = EndPhase(sched, "none")
        OBVIOUS
      <3>2. k \in Memory /\ k.pc = "ended" /\ k.mine = {} /\ k.phase = sched.phase
        BY <1>1, <3>1, EndFacts
      <3>3. sched' = [k EXCEPT !.resolved = TRUE]
        BY <2>6, <3>1
      <3>4. sched' \in Memory /\ sched'.pc = "ended" /\ sched'.mine = {} /\ sched'.phase = sched.phase
        BY <3>2, <3>3 DEF Memory
      <3> QED
        BY <1>2, <2>4, <3>4 DEF ConflictPhase
    <2>7. CASE sched' = [sched EXCEPT !.pc = "stopping", !.result = "error"]
      BY <1>1, <1>2, <2>4, <2>7 DEF Memory, Working, ConflictPhase
    <2>8. CASE sched' = [sched EXCEPT !.pc = "launch", !.todo = {Clicked}]
      BY <1>1, <1>2, <2>4, <2>8 DEF Memory, Working, ConflictPhase
    <2>9. CASE \E stop \in {"none", "blocked"} : sched' = EndPhase(sched, stop)
      BY <1>1, <1>2, <2>4, <2>9, EndFacts DEF ConflictPhase
    <2> QED
      BY <2>5, <2>6, <2>7, <2>8, <2>9
  <1>3. CASE ParallelPhase
    <2>1. UNCHANGED saved
      BY <1>3 DEF ParallelPhase
    <2>2. PICK todo \in SUBSET Selected :
             \/ sched' = EndPhase(sched, "blocked")
             \/ sched' = [sched EXCEPT !.pc = "launch", !.todo = todo]
      BY <1>3 DEF ParallelPhase, Think
    <2>3. CASE sched' = [sched EXCEPT !.pc = "launch", !.todo = todo]
      BY <1>1, <1>3, <2>1, <2>3 DEF Memory, Working, ParallelPhase
    <2>4. CASE sched' = EndPhase(sched, "blocked")
      <3>1. sched' \in Memory /\ sched'.pc = "ended" /\ sched'.mine = {} /\ sched'.phase = sched.phase
        BY <1>1, <2>4, EndFacts
      <3> QED
        BY <1>1, <1>3, <2>1, <3>1 DEF ParallelPhase
    <2> QED
      BY <2>2, <2>3, <2>4
  <1> QED
    BY <1>2, <1>3

LEMMA CiPhaseMemory ==
  ASSUME StackPipelineAssumption, TInv, CiPhase
  PROVE  /\ sched' \in Memory /\ sched'.pc = "gate" /\ sched'.mine = sched.mine /\ sched'.phase = sched.phase
         /\ sched'.index = Clicked
  <1>1. PICK below : below = NoPrevious
    OBVIOUS
  <1>2. below \in Previous /\ sched \in Memory /\ Clicked \in Selected
    BY <1>1, Empty, Constants DEF TInv
  <1>3. sched' = [sched EXCEPT !.pc = "gate", !.index = Clicked, !.below = below, !.aligned = FALSE, !.green = {},
                               !.failed = FALSE, !.blocked = FALSE]
    BY <1>1 DEF CiPhase, Think
  <1> QED
    BY <1>2, <1>3 DEF Memory, Working

LEMMA LaunchMemory ==
  ASSUME StackPipelineAssumption, TInv, NEW m \in Selected, LaunchWorker(m)
  PROVE  /\ sched' \in Memory /\ sched'.phase = sched.phase /\ sched'.mine = sched.mine
         /\ workers' \in [Selected -> Worker] /\ trees' \in [Selected -> {"absent", "owned", "dirty"}]
         /\ UNCHANGED saved
         /\ \A k \in Selected : trees[k] # "absent" => trees'[k] # "absent"
         /\ sched'.pc = "started" /\ sched'.todo = sched.todo /\ sched'.index = sched.index
         /\ \A k \in Selected : k # m => workers'[k] = workers[k]
         /\ workers'[m].stage = Stage /\ workers'[m].head = sched.seen[m] /\ ~workers'[m].recorded
  <1>1. sched \in Memory /\ workers \in [Selected -> Worker]
        /\ trees \in [Selected -> {"absent", "owned", "dirty"}] /\ Stage \in Stages /\ sched.seen[m] \in Commit
    BY Reading DEF TInv, Memory
  <1>2. PICK worker : worker = [state |-> "running", stage |-> Stage, head |-> sched.seen[m], ok |-> TRUE, recorded |-> FALSE]
    OBVIOUS
  <1>3. worker \in Worker /\ worker.stage = Stage /\ worker.head = sched.seen[m] /\ ~worker.recorded
    BY <1>1, <1>2 DEF Worker
  <1>4. /\ trees' = [trees EXCEPT ![m] = "owned"] /\ workers' = [workers EXCEPT ![m] = worker]
        /\ sched' = [sched EXCEPT !.pc = "started", !.touched = @ \cup {m}] /\ UNCHANGED saved
    BY <1>2 DEF LaunchWorker, Think
  <1>5. /\ sched' \in Memory /\ sched'.pc = "started" /\ sched'.todo = sched.todo /\ sched'.index = sched.index
        /\ sched'.phase = sched.phase /\ sched'.mine = sched.mine
    BY <1>1, <1>4 DEF Memory, Working
  <1>6. /\ workers' \in [Selected -> Worker] /\ workers'[m] = worker
        /\ \A k \in Selected : k # m => workers'[k] = workers[k]
    BY <1>1, <1>3, <1>4
  <1>7. /\ trees' \in [Selected -> {"absent", "owned", "dirty"}]
        /\ \A k \in Selected : trees[k] # "absent" => trees'[k] # "absent"
    BY <1>1, <1>4
  <1> QED
    BY <1>3, <1>4, <1>5, <1>6, <1>7

\* A command raised: the workers are stopped next.
LEMMA RaisedFacts ==
  ASSUME StackPipelineAssumption, TInv, NEW why \in {"cancelled", "error"}, NEW touched \in SUBSET Selected,
         NEW new, new = [Raised(why) EXCEPT !.touched = touched]
  PROVE  new \in Memory /\ new.pc = "stopping" /\ new.mine = {} /\ new.result # "complete"
  <1>1. PICK quiet, heads : quiet = FreshMemory /\ heads = sched.seen
    OBVIOUS
  <1>2. quiet \in Memory /\ quiet.mine = {} /\ heads \in [Selected -> Commit] /\ why \in StackResults
    BY <1>1, QuietTypes DEF TInv, Memory, StackResults
  <1>3. new = [quiet EXCEPT !.pc = "stopping", !.seen = heads, !.touched = touched, !.result = why]
    BY <1>1, <1>2 DEF Raised, Memory
  <1> QED
    BY <1>2, <1>3 DEF Memory, Working

LEMMA RaisedMemory ==
  ASSUME StackPipelineAssumption, TInv, NEW why \in {"cancelled", "error"}, sched' = Raised(why)
  PROVE  sched' \in Memory /\ sched'.pc = "stopping" /\ sched'.mine = {} /\ sched'.result # "complete"
  <1>1. PICK quiet, heads, touched : quiet = FreshMemory /\ heads = sched.seen /\ touched = sched.touched
    OBVIOUS
  <1>2. /\ quiet \in Memory /\ quiet.mine = {} /\ heads \in [Selected -> Commit] /\ why \in StackResults
        /\ touched \in SUBSET Selected
    BY <1>1, QuietTypes DEF TInv, Memory, StackResults
  <1>3. sched' = [quiet EXCEPT !.pc = "stopping", !.seen = heads, !.touched = touched, !.result = why]
    BY <1>1 DEF Raised
  <1> QED
    BY <1>2, <1>3 DEF Memory, Working

LEMMA LaunchFailsMemory ==
  ASSUME StackPipelineAssumption, TInv, NEW m \in Selected, LaunchFails(m)
  PROVE  /\ sched' \in Memory /\ UNCHANGED <<workers, saved>>
         /\ trees' \in [Selected -> {"absent", "owned", "dirty"}]
         /\ \A k \in Selected : trees[k] # "absent" => trees'[k] # "absent"
         /\ \/ /\ sched'.pc = "collect" /\ sched'.stop = "stopped" /\ sched'.phase = sched.phase
               /\ sched'.mine = sched.mine
            \/ sched'.pc = "stopping" /\ sched'.mine = {} /\ sched'.result # "complete"
  <1>1. sched \in Memory /\ trees \in [Selected -> {"absent", "owned", "dirty"}]
    BY DEF TInv
  <1>2. PICK touched \in {sched.touched, sched.touched \cup {m}} :
          \/ sched' = [sched EXCEPT !.pc = "collect", !.stop = "stopped", !.todo = {}, !.touched = touched]
          \/ \E why \in {"cancelled", "error"} : sched' = [Raised(why) EXCEPT !.touched = touched]
    BY DEF LaunchFails, Think
  <1>3. touched \in SUBSET Selected
    BY <1>1 DEF Memory
  <1>4. /\ trees' \in {trees, [trees EXCEPT ![m] = IF @ = "absent" THEN "owned" ELSE @]}
        /\ UNCHANGED <<workers, saved>>
    BY DEF LaunchFails
  <1>5. /\ trees' \in [Selected -> {"absent", "owned", "dirty"}]
        /\ \A k \in Selected : trees[k] # "absent" => trees'[k] # "absent"
    BY <1>1, <1>4
  <1>6. /\ sched' \in Memory
        /\ \/ /\ sched'.pc = "collect" /\ sched'.stop = "stopped" /\ sched'.phase = sched.phase
              /\ sched'.mine = sched.mine
           \/ sched'.pc = "stopping" /\ sched'.mine = {} /\ sched'.result # "complete"
    <2>1. CASE sched' = [sched EXCEPT !.pc = "collect", !.stop = "stopped", !.todo = {}, !.touched = touched]
      BY <1>1, <1>3, <2>1 DEF Memory, Working
    <2> QED
      BY <1>2, <1>3, <2>1, RaisedFacts
  <1> QED
    BY <1>4, <1>5, <1>6

LEMMA RecordMemory ==
  ASSUME StackPipelineAssumption, TInv, NEW m \in Selected, RecordWorker(m)
  PROVE  /\ sched' \in Memory
         /\ workers' \in [Selected -> Worker]
         /\ saved' \in RunState /\ saved'.exists = saved.exists /\ saved'.carried = saved.carried
         /\ \A k \in Selected : k # m => workers'[k] = workers[k]
         /\ workers'[m].state = workers[m].state
         /\ \/ /\ sched'.pc = "confirm" /\ sched'.todo = sched.todo /\ sched'.index = sched.index
               /\ sched'.phase = sched.phase /\ sched'.mine = sched.mine
               /\ saved'.active = saved.active \cup {m}
            \/ /\ sched'.pc = "stopping" /\ sched'.mine = {} /\ sched'.result # "complete"
               /\ UNCHANGED <<workers, saved>>
  <1>1. sched \in Memory /\ saved \in RunState /\ workers \in [Selected -> Worker]
    BY DEF TInv
  <1>2. CASE /\ workers' = [workers EXCEPT ![m].recorded = TRUE]
             /\ saved' = [saved EXCEPT !.active = @ \cup {m}]
             /\ sched' = [sched EXCEPT !.pc = "confirm"]
    <2>1. PICK old, worker : old = workers[m] /\ worker = [old EXCEPT !.recorded = TRUE]
      OBVIOUS
    <2>2. worker \in Worker /\ worker.state = old.state
      BY <1>1, <2>1 DEF Worker
    <2>3. workers' = [workers EXCEPT ![m] = worker]
      BY <1>1, <1>2, <2>1
    <2>4. /\ workers' \in [Selected -> Worker] /\ workers'[m].state = workers[m].state
          /\ \A k \in Selected : k # m => workers'[k] = workers[k]
      BY <1>1, <2>1, <2>2, <2>3
    <2>5. /\ saved' \in RunState /\ saved'.exists = saved.exists /\ saved'.carried = saved.carried
          /\ saved'.active = saved.active \cup {m}
      BY <1>1, <1>2 DEF RunState
    <2>6. /\ sched' \in Memory /\ sched'.pc = "confirm" /\ sched'.todo = sched.todo /\ sched'.index = sched.index
          /\ sched'.phase = sched.phase /\ sched'.mine = sched.mine
      BY <1>1, <1>2 DEF Memory, Working
    <2> QED
      BY <2>4, <2>5, <2>6
  <1>3. CASE sched' = Raised("error") /\ UNCHANGED <<workers, saved>>
    BY <1>1, <1>3, RaisedMemory
  <1> QED
    BY <1>2, <1>3 DEF RecordWorker, Think

LEMMA LaunchedMemory ==
  ASSUME StackPipelineAssumption, TInv, WorkersLaunched
  PROVE  /\ sched' \in Memory /\ sched'.phase = sched.phase /\ sched'.mine = sched.mine
         /\ sched'.index = sched.index /\ sched'.todo = sched.todo
         /\ sched'.pc = IF Stage = "ci" THEN "monitor" ELSE "collect"
  <1>1. PICK pc \in {"monitor", "collect"} :
          pc = (IF Stage = "ci" THEN "monitor" ELSE "collect") /\ sched' = [sched EXCEPT !.pc = pc]
    BY DEF WorkersLaunched, Think
  <1>2. sched \in Memory
    BY DEF TInv
  <1> QED
    BY <1>1, <1>2 DEF Memory, Working

LEMMA ConfirmMemory ==
  ASSUME StackPipelineAssumption, TInv, NEW m \in Selected, Confirm(m)
  PROVE  /\ sched' \in Memory /\ sched'.phase = sched.phase
         /\ workers' \in [Selected -> Worker]
         /\ saved' \in RunState /\ saved'.exists = saved.exists /\ saved'.carried = saved.carried
         /\ \/ /\ sched'.pc = "launch" /\ sched'.todo = sched.todo \ {m} /\ sched'.mine = sched.mine \cup {m}
               /\ sched'.index = sched.index /\ sched'.seen = sched.seen /\ sched'.green = sched.green
               /\ UNCHANGED <<workers, saved>>
            \/ /\ sched'.pc = "collect" /\ sched'.stop = "stopped" /\ sched'.mine = sched.mine
               /\ saved'.active = saved.active \ {m}
               /\ \A k \in Selected : workers'[k] = IF k = m THEN NoWorker ELSE workers[k]
  <1>1. sched \in Memory /\ saved \in RunState /\ workers \in [Selected -> Worker] /\ NoWorker \in Worker
    BY Empty DEF TInv
  <1>2. PICK none : none = NoWorker
    OBVIOUS
  <1>3. CASE /\ sched' = [sched EXCEPT !.pc = "launch", !.todo = @ \ {m}, !.mine = @ \cup {m}]
             /\ UNCHANGED <<workers, saved>>
    BY <1>1, <1>3 DEF Memory, Working
  <1>4. CASE /\ sched' = [sched EXCEPT !.pc = "collect", !.stop = "stopped", !.todo = {}]
             /\ workers' = [workers EXCEPT ![m] = none]
             /\ saved' = [saved EXCEPT !.active = @ \ {m}]
    <2>1. /\ sched' \in Memory /\ sched'.pc = "collect" /\ sched'.stop = "stopped"
          /\ sched'.phase = sched.phase /\ sched'.mine = sched.mine
      BY <1>1, <1>4 DEF Memory, Working
    <2>2. /\ saved' \in RunState /\ saved'.exists = saved.exists /\ saved'.carried = saved.carried
          /\ saved'.active = saved.active \ {m}
      BY <1>1, <1>4 DEF RunState
    <2>3. workers' \in [Selected -> Worker] /\ \A k \in Selected : workers'[k] = IF k = m THEN none ELSE workers[k]
      BY <1>1, <1>2, <1>4
    <2> QED
      BY <1>2, <2>1, <2>2, <2>3
  <1> QED
    BY <1>2, <1>3, <1>4 DEF Confirm, Think

LEMMA CollectMemory ==
  ASSUME StackPipelineAssumption, TInv, NEW m \in Selected, CollectWorker(m)
  PROVE  /\ sched' \in Memory /\ sched'.phase = sched.phase /\ sched'.pc = "collect"
         /\ sched'.mine = sched.mine \ {m} /\ (sched.stop # "none" => sched'.stop = sched.stop)
         /\ workers' \in [Selected -> Worker]
         /\ \A k \in Selected : workers'[k] = IF k = m THEN NoWorker ELSE workers[k]
         /\ saved' \in RunState /\ saved'.exists = saved.exists /\ saved'.carried = saved.carried
         /\ saved'.active = saved.active \ {m}
  <1>1. sched \in Memory /\ saved \in RunState /\ workers \in [Selected -> Worker] /\ NoWorker \in Worker
        /\ marks \in [Selected -> [Stages -> Mark]]
    BY Empty DEF TInv
  <1>2. PICK s, clear, blocked, note :
          /\ s = workers[m].stage
          /\ clear = Clear(m, s, live.heads[m], Tip(m))
          /\ blocked = (~live.same \/ ~workers[m].ok \/ Blocks(m, s))
          /\ note = [sent |-> workers[m].head, at |-> live.heads[m], base |-> Tip(m), clear |-> clear,
                     outcome |-> marks[m][s].outcome]
    OBVIOUS
  <1>3. clear \in BOOLEAN
    BY <1>2 DEF Clear
  <1>4. PICK stop, resolved : /\ stop = (IF sched.stop = "none" /\ blocked THEN "blocked" ELSE sched.stop)
                              /\ resolved = (sched.resolved \/ (s = "conflict" /\ clear /\ ~blocked))
    OBVIOUS
  <1>5. stop \in {"none", "blocked", "stopped"} /\ (sched.stop # "none" => stop = sched.stop) /\ resolved \in BOOLEAN
    BY <1>1, <1>4 DEF Memory
  <1>6. sched' = [sched EXCEPT !.mine = @ \ {m}, !.stop = stop, !.resolved = resolved]
    BY <1>2, <1>4 DEF CollectWorker, Think
  <1>7. /\ sched' \in Memory /\ sched'.phase = sched.phase /\ sched'.pc = sched.pc /\ sched'.stop = stop
        /\ sched'.mine = sched.mine \ {m}
    BY <1>1, <1>5, <1>6 DEF Memory
  <1>8. PICK none : none = NoWorker /\ workers' = [workers EXCEPT ![m] = none]
    BY DEF CollectWorker
  <1>9. workers' \in [Selected -> Worker] /\ \A k \in Selected : workers'[k] = IF k = m THEN none ELSE workers[k]
    BY <1>1, <1>8
  <1>10. PICK notes : /\ notes = (IF s \in DOMAIN saved.notes THEN [saved.notes EXCEPT ![s][m] = note] ELSE saved.notes)
                      /\ saved' = [saved EXCEPT !.active = @ \ {m}, !.notes = notes]
    BY <1>2 DEF CollectWorker
  <1>11. notes \in [Noted -> [Selected -> Note]]
    <2>1. saved.notes \in [Noted -> [Selected -> Note]]
      BY <1>1 DEF RunState
    <2>2. s \in DOMAIN saved.notes => note \in Note
      <3>1. s # "none" => s \in Stages
        BY <1>1, <1>2 DEF Worker
      <3>2. workers[m].head \in Commit /\ live.heads[m] \in Commit /\ Tip(m) \in Nat
        BY <1>1, Reading, Constants DEF Worker
      <3>3. s \in Stages => marks[m][s].outcome \in Outcomes
        BY <1>1 DEF Mark
      <3> QED
        BY <1>2, <1>3, <2>1, <3>1, <3>2, <3>3 DEF Note, Noted
    <2> QED
      BY <1>10, <2>1, <2>2
  <1>12. /\ saved' \in RunState /\ saved'.exists = saved.exists /\ saved'.carried = saved.carried
         /\ saved'.active = saved.active \ {m}
    BY <1>1, <1>10, <1>11 DEF RunState
  <1> QED
    BY <1>5, <1>7, <1>8, <1>9, <1>12 DEF CollectWorker

LEMMA CollectedMemory ==
  ASSUME StackPipelineAssumption, TInv, Collected
  PROVE  /\ sched' \in Memory /\ sched'.phase = sched.phase /\ sched'.mine = sched.mine
         /\ sched'.pc = "ended" /\ sched'.stop = sched.stop
  <1>1. sched' = [sched EXCEPT !.pc = "ended"] /\ sched \in Memory
    BY DEF Collected, Think, TInv
  <1> QED
    BY <1>1 DEF Memory, Working

-----------------------------------------------------------------------------
(* What a step makes of the stack *)

Live == [heads : [Members -> Commit], trunk : Nat, same : BOOLEAN]

\* Versions only grow.
Grows ==
  /\ live' \in Live
  /\ live.trunk <= live'.trunk
  /\ \A m \in Members : live.heads[m].v <= live'.heads[m].v

LEMMA GrowsTips ==
  ASSUME StackPipelineAssumption, TInv, Grows, NEW m \in Selected
  PROVE  Tip(m) \in Nat /\ Tip(m)' \in Nat /\ Tip(m) <= Tip(m)'
  <1>1. live \in Live /\ live' \in Live
    BY DEF TInv, Live, Grows
  <1>2. m = 1 \/ m - 1 \in Members
    BY Constants DEF Selected, Members
  <1> QED
    BY <1>1, <1>2 DEF Tip, Grows, Live, Commit

LEMMA SameLive ==
  ASSUME TInv, UNCHANGED live
  PROVE  Grows
  BY DEF TInv, Grows, Live, Commit

LEMMA PropagatedFacts ==
  ASSUME StackPipelineAssumption, TInv, NEW m \in Selected, NEW heads, heads = Propagated(m),
         NEW new, new = [live EXCEPT !.heads = heads]
  PROVE  /\ new \in Live /\ new.heads = heads /\ heads \in [Members -> Commit]
         /\ live' = new => Grows
         /\ [k \in Selected |-> heads[k]] \in [Selected -> Commit]
  <1>1. live \in Live /\ m \in Nat /\ m \in Members
    BY Constants DEF TInv, Live, Selected, Members
  <1>2. \A k \in Members : live.heads[k] \in Commit /\ live.heads[k].v \in Nat
    BY <1>1 DEF Live, Commit
  <1>3. \A k \in Members : heads[k] \in Commit /\ live.heads[k].v <= heads[k].v
    <2> TAKE k \in Members
    <2>1. CASE k <= m
      BY <1>2, <2>1 DEF Propagated
    <2>2. CASE ~(k <= m)
      <3>1. k - 1 \in Members
        BY <1>1, <2>2, Constants DEF Members
      <3>2. live.heads[k].v + 1 \in Nat /\ (live.heads[k - 1].v + IF k - 1 > m THEN 1 ELSE 0) \in Nat
        BY <1>2, <3>1
      <3>3. heads[k] = [v |-> live.heads[k].v + 1, on |-> live.heads[k - 1].v + IF k - 1 > m THEN 1 ELSE 0]
        BY <2>2 DEF Propagated
      <3> QED
        BY <1>2, <3>2, <3>3 DEF Commit
    <2> QED
      BY <2>1, <2>2
  <1>4. heads \in [Members -> Commit]
    BY <1>3 DEF Propagated
  <1>5. new \in Live /\ new.heads = heads /\ new.trunk = live.trunk
    BY <1>1, <1>4 DEF Live
  <1> QED
    BY <1>1, <1>3, <1>4, <1>5, Constants DEF Grows, Live

-----------------------------------------------------------------------------
(* The CI phase: what it makes of the memory, the stack and the run state *)

LEMMA GateMemory ==
  ASSUME StackPipelineAssumption, TInv, CiGate
  PROVE  /\ sched' \in Memory /\ sched'.phase = sched.phase /\ sched'.index = sched.index /\ Grows
         /\ \/ /\ sched'.pc = "pending" /\ sched'.mine = sched.mine
               /\ sched'.green = sched.green /\ sched'.seen = sched.seen
               /\ sched.index # Clicked =>
                    /\ sched.below.clear
                    /\ marks[sched.index - 1]["ci"].head = sched.seen[sched.index - 1]
                    /\ sched.seen[sched.index].on = sched.seen[sched.index - 1].v
            \/ /\ sched'.pc = "gate" /\ sched'.mine = sched.mine
               /\ sched'.green = sched.green /\ (sched'.below.clear => sched.below.clear)
            \/ sched'.pc = "ended" /\ sched'.mine = {} /\ sched'.blocked
  <1>1. sched \in Memory /\ sched.below \in Previous /\ sched.index \in Selected
    BY DEF TInv, Memory
  <1>2. PICK i, p, low, below :
          /\ i = sched.index /\ p = i - 1 /\ low = sched.seen[p]
          /\ below = (IF low # sched.below.head \/ (sched.below.warned /\ Tip(p) # sched.below.base)
                      THEN [sched.below EXCEPT !.clear = FALSE, !.head = low] ELSE sched.below)
    OBVIOUS
  <1>3. CASE i = Clicked
    <2>1. sched' = [sched EXCEPT !.pc = "pending"] /\ UNCHANGED live
      BY <1>2, <1>3 DEF CiGate, Think
    <2> QED
      BY <1>1, <1>2, <1>3, <2>1, SameLive DEF Memory, Working
  <1>4. CASE i # Clicked
    <2>1. i \in Nat /\ p \in Selected
      BY <1>1, <1>2, <1>4, Constants DEF Selected, Members
    <2>2. low \in Commit
      BY <1>1, <1>2, <2>1 DEF Memory
    <2>3. below \in Previous /\ (below.clear => sched.below.clear)
      BY <1>1, <1>2, <2>2 DEF Previous
    <2>4. \/ sched' = [Block(sched) EXCEPT !.green = @ \ {p}] /\ UNCHANGED live
          \/ /\ sched' = [sched EXCEPT !.pc = "pending", !.below = below] /\ UNCHANGED live
             /\ below.clear /\ Clear(p, "ci", low, Tip(p)) /\ Contains(low, sched.seen[i])
          \/ sched' = Block(sched) /\ UNCHANGED live
          \/ /\ live' = [live EXCEPT !.heads = Propagated(p)]
             /\ sched' = [sched EXCEPT !.aligned = TRUE, !.below = below,
                                       !.seen = [k \in Selected |-> Propagated(p)[k]]]
      BY <1>2, <1>4 DEF CiGate, Think
    <2>5. CASE sched' = [Block(sched) EXCEPT !.green = @ \ {p}] /\ UNCHANGED live
      <3>1. PICK k : k = Block(sched)
        OBVIOUS
      <3>2. k \in Memory /\ k.pc = "ended" /\ k.mine = {} /\ k.blocked /\ k.phase = sched.phase /\ k.index = sched.index
        BY <1>1, <3>1, BlockFacts DEF Block, EndPhase, Memory
      <3>3. sched' = [k EXCEPT !.green = @ \ {p}]
        BY <2>5, <3>1
      <3>4. /\ sched' \in Memory /\ sched'.pc = "ended" /\ sched'.mine = {} /\ sched'.blocked
            /\ sched'.phase = sched.phase /\ sched'.index = sched.index
        BY <3>2, <3>3 DEF Memory
      <3> QED
        BY <2>5, <3>4, SameLive
    <2>6. CASE /\ sched' = [sched EXCEPT !.pc = "pending", !.below = below] /\ UNCHANGED live
               /\ below.clear /\ Clear(p, "ci", low, Tip(p)) /\ Contains(low, sched.seen[i])
      <3>1. /\ sched' \in Memory /\ sched'.pc = "pending" /\ sched'.phase = sched.phase /\ sched'.mine = sched.mine
            /\ sched'.index = sched.index /\ sched'.green = sched.green /\ sched'.seen = sched.seen
        BY <1>1, <2>3, <2>6 DEF Memory, Working
      <3>2. marks[p]["ci"].head = low /\ sched.seen[i].on = low.v
        BY <2>6 DEF Clear, Contains
      <3> QED
        BY <1>2, <2>3, <2>6, <3>1, <3>2, SameLive
    <2>7. CASE sched' = Block(sched) /\ UNCHANGED live
      <3>1. sched'.index = sched.index
        BY <1>1, <2>7 DEF Block, EndPhase, Memory
      <3> QED
        BY <1>1, <2>7, <3>1, BlockFacts, SameLive
    <2>8. CASE /\ live' = [live EXCEPT !.heads = Propagated(p)]
               /\ sched' = [sched EXCEPT !.aligned = TRUE, !.below = below,
                                         !.seen = [k \in Selected |-> Propagated(p)[k]]]
      <3>1. PICK heads, seen : heads = Propagated(p) /\ seen = [k \in Selected |-> heads[k]]
        OBVIOUS
      <3>2. live' = [live EXCEPT !.heads = heads]
        BY <2>8, <3>1
      <3>3. Grows /\ seen \in [Selected -> Commit]
        BY <2>1, <3>1, <3>2, PropagatedFacts
      <3>4. sched' = [sched EXCEPT !.aligned = TRUE, !.below = below, !.seen = seen]
        BY <2>8, <3>1
      <3>5. sched.pc = "gate"
        BY DEF CiGate
      <3>6. /\ sched' \in Memory /\ sched'.pc = "gate" /\ sched'.phase = sched.phase /\ sched'.mine = sched.mine
            /\ sched'.index = sched.index /\ sched'.green = sched.green /\ sched'.below = below
        BY <1>1, <2>3, <3>3, <3>4, <3>5 DEF Memory
      <3> QED
        BY <2>3, <3>3, <3>6
    <2> QED
      BY <2>4, <2>5, <2>6, <2>7, <2>8
  <1> QED
    BY <1>3, <1>4

\* What CarryPushes does, whichever way it goes.
LEMMA CarryFacts ==
  ASSUME StackPipelineAssumption, TInv, NEW m \in Selected, NEW carried \in BOOLEAN, NEW failing \in BOOLEAN,
         CarryPushes(m, carried, failing)
  PROVE  /\ saved' \in RunState /\ saved'.active = saved.active /\ saved'.exists = saved.exists
         /\ \A k \in Selected : saved.carried[k] \subseteq saved'.carried[k]
         /\ Grows
         /\ failing \/ (carried /\ Behind(m) \subseteq saved'.carried[m])
  <1>1. saved \in RunState /\ saved.carried \in [Selected -> SUBSET Nat] /\ pushed[m] \in SUBSET Nat
    BY DEF TInv, RunState
  <1>2. PICK more \in SUBSET Nat :
          /\ \/ UNCHANGED saved
             \/ saved' = [saved EXCEPT !.carried[m] = @ \cup more]
          /\ \/ UNCHANGED live
             \/ live' = [live EXCEPT !.heads = Propagated(m)]
          /\ failing \/ (carried /\ saved' = [saved EXCEPT !.carried[m] = @ \cup more] /\ more = Behind(m))
    <2>1. Behind(m) \subseteq Nat
      BY <1>1 DEF Behind
    <2>2. CASE ~live.same
      BY <2>1, <2>2 DEF CarryPushes
    <2>3. CASE live.same
      <3>1. PICK current : current = Behind(m) \cap {live.heads[m].v}
        OBVIOUS
      <3>2. \/ /\ live' = IF current = {} THEN live ELSE [live EXCEPT !.heads = Propagated(m)]
               /\ saved' = [saved EXCEPT !.carried[m] = @ \cup Behind(m)]
               /\ carried
            \/ /\ current # {} /\ failing
               /\ saved' = [saved EXCEPT !.carried[m] = @ \cup (Behind(m) \ current)]
               /\ UNCHANGED live
        BY <2>3, <3>1 DEF CarryPushes
      <3>3. Behind(m) \ current \in SUBSET Nat /\ Behind(m) \in SUBSET Nat
        BY <2>1
      <3> QED
        BY <3>2, <3>3
    <2> QED
      BY <2>2, <2>3
  <1>3. Grows
    <2>1. PICK heads : heads = Propagated(m)
      OBVIOUS
    <2>2. UNCHANGED live \/ live' = [live EXCEPT !.heads = heads]
      BY <1>2, <2>1
    <2> QED
      BY <2>1, <2>2, SameLive, PropagatedFacts
  <1>4. CASE saved' = [saved EXCEPT !.carried[m] = @ \cup more]
    <2>1. PICK carriedNow : carriedNow = [saved.carried EXCEPT ![m] = @ \cup more]
      OBVIOUS
    <2>2. carriedNow \in [Selected -> SUBSET Nat] /\ more \subseteq carriedNow[m]
          /\ \A k \in Selected : saved.carried[k] \subseteq carriedNow[k]
      BY <1>1, <2>1
    <2>3. saved' = [saved EXCEPT !.carried = carriedNow]
      BY <1>4, <2>1
    <2>4. saved' \in RunState /\ saved'.active = saved.active /\ saved'.exists = saved.exists /\ saved'.carried = carriedNow
      BY <1>1, <2>2, <2>3 DEF RunState
    <2> QED
      BY <1>2, <1>3, <2>2, <2>4
  <1>5. CASE UNCHANGED saved
    <2>1. failing \/ (carried /\ saved' = [saved EXCEPT !.carried[m] = @ \cup more] /\ more = Behind(m))
      BY <1>2
    <2> QED
      BY <1>1, <1>3, <1>4, <1>5, <2>1
  <1> QED
    BY <1>2, <1>4, <1>5

LEMMA PendingMemory ==
  ASSUME StackPipelineAssumption, TInv, Pending
  PROVE  /\ sched' \in Memory /\ sched'.phase = sched.phase /\ sched'.index = sched.index /\ Grows
         /\ saved' \in RunState /\ saved'.active = saved.active /\ saved'.exists = saved.exists
         /\ \A k \in Selected : saved.carried[k] \subseteq saved'.carried[k]
         /\ \/ /\ sched'.pc = "before" /\ sched'.mine = sched.mine
               /\ sched'.green = sched.green /\ sched'.seen = sched.seen
               /\ Behind(sched.index) = {} /\ UNCHANGED saved
            \/ sched'.pc = "gate" /\ sched'.mine = sched.mine /\ sched'.green = sched.green
            \/ sched'.pc = "ended" /\ sched'.mine = {} /\ sched'.blocked
  <1>1. sched \in Memory /\ saved \in RunState /\ sched.index \in Selected
    BY DEF TInv, Memory
  <1>2. PICK i : i = sched.index
    OBVIOUS
  <1>3. CASE Behind(i) = {}
    <2>1. sched' = [sched EXCEPT !.pc = "before"] /\ UNCHANGED <<live, saved>>
      BY <1>2, <1>3 DEF Pending, Think
    <2>2. /\ sched' \in Memory /\ sched'.pc = "before" /\ sched'.phase = sched.phase /\ sched'.mine = sched.mine
          /\ sched'.index = sched.index /\ sched'.green = sched.green /\ sched'.seen = sched.seen
      BY <1>1, <2>1 DEF Memory, Working
    <2> QED
      BY <1>1, <1>2, <1>3, <2>1, <2>2, SameLive
  <1>4. CASE Behind(i) # {}
    <2>1. PICK seen : seen = [k \in Selected |-> live'.heads[k]]
      OBVIOUS
    <2>2. PICK carried \in BOOLEAN, failing \in BOOLEAN :
            /\ carried = (sched' = [sched EXCEPT !.pc = "gate", !.aligned = FALSE, !.seen = seen])
            /\ failing = (sched' = Block(sched))
      OBVIOUS
    <2>3. CarryPushes(i, sched' = [sched EXCEPT !.pc = "gate", !.aligned = FALSE, !.seen = seen], sched' = Block(sched))
      BY <1>2, <1>4, <2>1 DEF Pending, Think
    <2>4. CarryPushes(i, carried, failing)
      BY <2>2, <2>3 DEF CarryPushes
    <2>5. /\ saved' \in RunState /\ saved'.active = saved.active /\ saved'.exists = saved.exists
          /\ \A k \in Selected : saved.carried[k] \subseteq saved'.carried[k]
          /\ Grows /\ (failing \/ carried)
      BY <1>1, <1>2, <2>4, CarryFacts
    <2>6. CASE failing
      <3>1. sched'.index = sched.index
        BY <1>1, <2>2, <2>6 DEF Block, EndPhase, Memory
      <3> QED
        BY <1>1, <2>2, <2>5, <2>6, <3>1, BlockFacts
    <2>7. CASE carried
      <3>1. seen \in [Selected -> Commit]
        BY <2>1, <2>5, Constants DEF Grows, Live
      <3>2. /\ sched' \in Memory /\ sched'.pc = "gate" /\ sched'.phase = sched.phase /\ sched'.mine = sched.mine
            /\ sched'.index = sched.index /\ sched'.green = sched.green
        BY <1>1, <2>2, <2>7, <3>1 DEF Memory, Working
      <3> QED
        BY <2>5, <3>2
    <2> QED
      BY <2>5, <2>6, <2>7
  <1> QED
    BY <1>3, <1>4

LEMMA MonitorMemory ==
  ASSUME StackPipelineAssumption, TInv, Monitor
  PROVE  /\ sched' \in Memory /\ sched'.phase = sched.phase /\ sched'.index = sched.index /\ Grows
         /\ sched'.mine = sched.mine
         /\ saved' \in RunState /\ saved'.active = saved.active /\ saved'.exists = saved.exists
         /\ \A k \in Selected : saved.carried[k] \subseteq saved'.carried[k]
         /\ \/ sched'.pc = "monitor"
            \/ /\ sched'.pc = "after" /\ workers[sched.index].state = "exited"
               /\ sched'.failed \/ pushed[sched.index] \subseteq saved'.carried[sched.index]
  <1>1. sched \in Memory /\ saved \in RunState /\ sched.index \in Selected
    BY DEF TInv, Memory
  <1>2. PICK i, pc : i = sched.index /\ pc = IF workers[i].state = "exited" THEN "after" ELSE "monitor"
    OBVIOUS
  <1>3. PICK rest : rest = [sched EXCEPT !.pc = pc]
    OBVIOUS
  <1>4. /\ rest \in Memory /\ rest.pc = pc /\ rest.phase = sched.phase /\ rest.mine = sched.mine /\ rest.index = i
        /\ pc \in {"after", "monitor"} /\ (pc = "after" => workers[i].state = "exited")
    BY <1>1, <1>2, <1>3 DEF Memory, Working
  <1>5. CASE Behind(i) = {}
    <2>1. sched' = rest /\ UNCHANGED <<live, saved>>
      BY <1>2, <1>3, <1>5 DEF Monitor, Think
    <2>2. pushed[i] \subseteq saved.carried[i]
      BY <1>5 DEF Behind
    <2> QED
      BY <1>1, <1>2, <1>4, <2>1, <2>2, SameLive
  <1>6. CASE Behind(i) # {}
    <2>1. PICK carried \in BOOLEAN, failing \in BOOLEAN :
            /\ carried = (sched' = rest)
            /\ failing = (sched' = [rest EXCEPT !.failed = TRUE])
      OBVIOUS
    <2>2. CarryPushes(i, sched' = rest, sched' = [rest EXCEPT !.failed = TRUE])
      BY <1>2, <1>3, <1>6 DEF Monitor, Think
    <2>3. CarryPushes(i, carried, failing)
      BY <2>1, <2>2 DEF CarryPushes
    <2>4. /\ saved' \in RunState /\ saved'.active = saved.active /\ saved'.exists = saved.exists
          /\ \A k \in Selected : saved.carried[k] \subseteq saved'.carried[k]
          /\ Grows /\ (failing \/ (carried /\ Behind(i) \subseteq saved'.carried[i]))
      BY <1>1, <1>2, <2>3, CarryFacts
    <2>5. CASE failing
      <3>1. sched' = [rest EXCEPT !.failed = TRUE]
        BY <2>1, <2>5
      <3>2. /\ sched' \in Memory /\ sched'.pc = pc /\ sched'.phase = sched.phase /\ sched'.mine = sched.mine
            /\ sched'.index = i /\ sched'.failed
        BY <1>4, <3>1 DEF Memory
      <3> QED
        BY <1>2, <1>4, <2>4, <3>2
    <2>6. CASE carried /\ Behind(i) \subseteq saved'.carried[i]
      <3>1. pushed[i] \subseteq saved'.carried[i]
        BY <1>1, <1>2, <2>4, <2>6 DEF Behind
      <3> QED
        BY <1>2, <1>4, <2>1, <2>4, <2>6, <3>1
    <2> QED
      BY <2>4, <2>5, <2>6
  <1> QED
    BY <1>5, <1>6

LEMMA BeforeMemory ==
  ASSUME StackPipelineAssumption, TInv, sched.mine = {}, Before
  PROVE  /\ sched' \in Memory /\ sched'.phase = sched.phase /\ sched'.mine = {}
         /\ \/ sched.index = NumMembers /\ sched'.pc = "ended"
            \/ /\ sched.index < NumMembers /\ sched'.pc = "gate" /\ sched'.index = sched.index + 1
               /\ sched.index \in sched'.green
            \/ sched'.pc = "ended" /\ sched'.stop = "blocked"
            \/ /\ sched'.pc = "launch" /\ sched'.todo = {sched.index} /\ sched'.index = sched.index
               /\ sched'.green = sched.green /\ sched'.seen = sched.seen
  <1>1. sched \in Memory /\ sched.index \in Selected
    BY DEF TInv, Memory
  <1>2. PICK i, below :
          /\ i = sched.index
          /\ below = [clear |-> TRUE, head |-> sched.seen[i], base |-> Tip(i),
                      warned |-> marks[i]["ci"].outcome = "warned"]
    OBVIOUS
  <1>3. below \in Previous
    BY <1>1, <1>2, Reading DEF Memory, Previous
  <1>4. PICK now : now = [sched EXCEPT !.green = @ \cup {i}, !.below = below]
    OBVIOUS
  <1>5. now \in Memory /\ now.mine = {} /\ now.phase = sched.phase /\ i \in now.green
    BY <1>1, <1>2, <1>3, <1>4 DEF Memory
  <1>6. \/ sched' = Above(now, i)
        \/ sched' = EndPhase(sched, "blocked")
        \/ sched' = [sched EXCEPT !.pc = "launch", !.todo = {i}]
    BY <1>2, <1>4 DEF Before, Think
  <1>7. CASE sched' = Above(now, i)
    BY <1>1, <1>2, <1>5, <1>7, AboveFacts
  <1>8. CASE sched' = EndPhase(sched, "blocked")
    BY <1>1, <1>8, EndFacts
  <1>9. CASE sched' = [sched EXCEPT !.pc = "launch", !.todo = {i}]
    BY <1>1, <1>2, <1>9 DEF Memory, Working
  <1> QED
    BY <1>6, <1>7, <1>8, <1>9

LEMMA AfterWorkerMemory ==
  ASSUME StackPipelineAssumption, TInv, AfterWorker
  PROVE  /\ sched' \in Memory /\ sched'.phase = sched.phase /\ sched'.mine = {}
         /\ workers' \in [Selected -> Worker]
         /\ \A k \in Selected : workers'[k] = IF k = sched.index THEN NoWorker ELSE workers[k]
         /\ saved' \in RunState /\ saved'.exists = saved.exists /\ saved'.carried = saved.carried
         /\ saved'.active = saved.active \ {sched.index}
         /\ \/ sched.index = NumMembers /\ sched'.pc = "ended" /\ ~sched.failed
            \/ /\ sched.index < NumMembers /\ sched'.pc = "gate" /\ sched'.index = sched.index + 1
               /\ ~sched.failed /\ (sched'.below.clear => sched.index \in sched'.green)
            \/ sched'.pc = "ended" /\ sched'.stop = "blocked"
            \/ sched'.pc = "ended" /\ sched'.blocked
  <1>1. sched \in Memory /\ saved \in RunState /\ workers \in [Selected -> Worker] /\ sched.index \in Selected
        /\ marks \in [Selected -> [Stages -> Mark]]
    BY DEF TInv, Memory
  <1>2. PICK i, heads, clear, below, green :
          /\ i = sched.index /\ heads = LiveHeads
          /\ clear = Clear(i, "ci", live.heads[i], Tip(i))
          /\ below = [clear |-> clear, base |-> Tip(i), warned |-> marks[i]["ci"].outcome = "warned",
                      head |-> IF clear THEN marks[i]["ci"].head ELSE live.heads[i]]
          /\ green = IF clear THEN sched.green \cup {i} ELSE sched.green
    OBVIOUS
  <1>3. clear \in BOOLEAN /\ (clear => marks[i]["ci"].head = live.heads[i])
    BY <1>2 DEF Clear
  <1>4. heads \in [Selected -> Commit] /\ live.heads[i] \in Commit /\ Tip(i) \in Nat
    BY <1>1, <1>2, SeesLive, Reading, Constants
  <1>5. below \in Previous /\ below.clear = clear /\ green \in SUBSET Selected /\ (clear => i \in green)
    BY <1>1, <1>2, <1>3, <1>4 DEF Previous, Memory
  <1>6. PICK now : now = [sched EXCEPT !.seen = heads, !.mine = {}, !.green = green, !.below = below]
    OBVIOUS
  <1>7. now \in Memory /\ now.mine = {} /\ now.phase = sched.phase /\ now.green = green /\ now.below = below
    BY <1>1, <1>4, <1>5, <1>6 DEF Memory
  <1>8. \/ sched' = EndPhase(sched, "blocked")
        \/ sched' = Block(sched)
        \/ sched' = Above(now, i) /\ ~sched.failed
    BY <1>2, <1>6 DEF AfterWorker, Think
  <1>9. PICK none : none = NoWorker /\ workers' = [workers EXCEPT ![i] = none]
    BY <1>2 DEF AfterWorker
  <1>10. workers' \in [Selected -> Worker] /\ \A k \in Selected : workers'[k] = IF k = i THEN none ELSE workers[k]
    BY <1>1, <1>9, Empty
  <1>11. saved' = [saved EXCEPT !.active = @ \ {i}]
    BY <1>2 DEF AfterWorker
  <1>12. /\ saved' \in RunState /\ saved'.exists = saved.exists /\ saved'.carried = saved.carried
         /\ saved'.active = saved.active \ {i}
    BY <1>1, <1>11 DEF RunState
  <1>13. /\ sched' \in Memory /\ sched'.phase = sched.phase /\ sched'.mine = {}
         /\ \/ i = NumMembers /\ sched'.pc = "ended" /\ ~sched.failed
            \/ /\ i < NumMembers /\ sched'.pc = "gate" /\ sched'.index = i + 1
               /\ ~sched.failed /\ (sched'.below.clear => i \in sched'.green)
            \/ sched'.pc = "ended" /\ sched'.stop = "blocked"
            \/ sched'.pc = "ended" /\ sched'.blocked
    <2>1. CASE sched' = EndPhase(sched, "blocked")
      BY <1>1, <2>1, EndFacts
    <2>2. CASE sched' = Block(sched)
      BY <1>1, <2>2, BlockFacts
    <2>3. CASE sched' = Above(now, i) /\ ~sched.failed
      BY <1>1, <1>2, <1>5, <1>7, <2>3, AboveFacts
    <2> QED
      BY <1>8, <2>1, <2>2, <2>3
  <1> QED
    BY <1>2, <1>9, <1>10, <1>12, <1>13

-----------------------------------------------------------------------------
(* The end of a phase and of a pass *)

LEMMA BaseUnreadableMemory ==
  ASSUME TInv, BaseUnreadable
  PROVE  /\ sched' \in Memory /\ sched'.phase = sched.phase /\ sched'.mine = {}
         /\ sched'.pc = "ended" /\ sched'.stop = "blocked"
  BY EndFacts DEF TInv, BaseUnreadable, Think

LEMMA PhaseEndedMemory ==
  ASSUME StackPipelineAssumption, TInv, PhaseEnded
  PROVE  /\ sched' \in Memory /\ sched'.mine = sched.mine
         /\ \/ sched'.pc = "finish" /\ sched'.result # "complete"
            \/ sched'.pc = "phase"
            \/ sched'.pc = "snap" /\ sched'.snap.heads = LiveHeads /\ sched'.snap.next = Clicked
  <1>1. sched \in Memory
    BY DEF TInv
  <1>2. PICK heads, snap, next : /\ heads = LiveHeads /\ snap = [NoSnapshot EXCEPT !.heads = heads]
                                 /\ next = sched.phase + 1
    OBVIOUS
  <1>3. heads \in [Selected -> Commit]
    BY <1>2, SeesLive
  <1>4. snap \in Snapshot /\ snap.heads = heads /\ snap.next = Clicked
    <2>1. NoSnapshot \in Snapshot /\ NoSnapshot.next = Clicked
      BY Empty DEF NoSnapshot
    <2>2. PICK none : none = NoSnapshot
      OBVIOUS
    <2>3. snap = [none EXCEPT !.heads = heads]
      BY <1>2, <2>2
    <2> QED
      BY <1>3, <2>1, <2>2, <2>3 DEF Snapshot
  <1>5. \/ sched' = Stopping(sched, sched.stop) /\ sched.stop # "none"
        \/ sched' = Stopping(sched, "stopped")
        \/ sched' = [sched EXCEPT !.pc = "snap", !.snap = snap, !.green = {}]
        \/ sched' = [sched EXCEPT !.pc = "phase", !.phase = next, !.seen = heads] /\ sched.phase # Len(Phases)
    BY <1>2 DEF PhaseEnded, Think
  <1>6. CASE sched' = Stopping(sched, sched.stop) /\ sched.stop # "none"
    <2>1. sched.stop \in {"blocked", "stopped"} /\ sched.stop \in StackResults
      BY <1>1, <1>6 DEF Memory, StackResults
    <2> QED
      BY <1>1, <1>6, <2>1, StopFacts
  <1>7. CASE sched' = Stopping(sched, "stopped")
    <2>1. "stopped" \in StackResults
      BY DEF StackResults
    <2> QED
      BY <1>1, <1>7, <2>1, StopFacts
  <1>8. CASE sched' = [sched EXCEPT !.pc = "snap", !.snap = snap, !.green = {}]
    BY <1>1, <1>2, <1>4, <1>8 DEF Memory, Working
  <1>9. CASE sched' = [sched EXCEPT !.pc = "phase", !.phase = next, !.seen = heads] /\ sched.phase # Len(Phases)
    <2>1. next \in 1..Len(Phases)
      BY <1>1, <1>2, <1>9, Constants DEF Memory
    <2> QED
      BY <1>1, <1>3, <1>9, <2>1 DEF Memory, Working
  <1> QED
    BY <1>5, <1>6, <1>7, <1>8, <1>9

LEMMA InspectMemory ==
  ASSUME StackPipelineAssumption, TInv, NEW m \in Selected, Inspect(m)
  PROVE  /\ sched' \in Memory /\ sched'.mine = sched.mine
         /\ m = sched.snap.next
         /\ sched'.snap.heads = sched.snap.heads
         /\ \A k \in Selected : sched'.snap.bases[k] = IF k = m THEN Tip(m) ELSE sched.snap.bases[k]
         /\ \/ sched'.pc = "snap" /\ m # NumMembers /\ sched'.snap.next = m + 1
            \/ sched'.pc = "snap_close" /\ m = NumMembers
  <1>1. sched \in Memory /\ sched.snap \in Snapshot /\ Tip(m) \in Nat
    BY Reading DEF TInv, Memory
  <1>2. PICK left \in SUBSET Stages :
          sched' = [sched EXCEPT !.snap.bases[m] = Tip(m), !.snap.uncleared[m] = left,
                                 !.snap.next = IF m = NumMembers THEN m ELSE m + 1,
                                 !.pc = IF m = NumMembers THEN "snap_close" ELSE "snap"]
    <2>1. PICK mergeable \in BOOLEAN :
            LET clear(s) == IF s # "conflict" THEN Clear(m, s, sched.snap.heads[m], Tip(m))
                            ELSE IF ~Whole THEN mergeable
                            ELSE /\ Clear(m, s, sched.snap.heads[m], Tip(m))
                                 /\ m > 1 => marks[m][s].base = Tip(m)
            IN sched' = [sched EXCEPT !.snap.bases[m] = Tip(m),
                              !.snap.uncleared[m] = {s \in Stages : ~clear(s)},
                              !.snap.next = IF m = NumMembers THEN m ELSE m + 1,
                              !.pc = IF m = NumMembers THEN "snap_close" ELSE "snap"]
      BY DEF Inspect, Think
    <2> QED
      BY <2>1
  <1>3. PICK base, next, pc, bases, uncleared, snap :
          /\ base = Tip(m)
          /\ next = (IF m = NumMembers THEN m ELSE m + 1)
          /\ pc = (IF m = NumMembers THEN "snap_close" ELSE "snap")
          /\ bases = [sched.snap.bases EXCEPT ![m] = base]
          /\ uncleared = [sched.snap.uncleared EXCEPT ![m] = left]
          /\ snap = [sched.snap EXCEPT !.bases = bases, !.uncleared = uncleared, !.next = next]
    OBVIOUS
  <1>4. next \in Selected
    BY <1>3, Constants DEF Selected
  <1>5. bases \in [Selected -> Nat] /\ uncleared \in [Selected -> SUBSET Stages]
    BY <1>1, <1>3 DEF Snapshot
  <1>6. snap \in Snapshot /\ snap.bases = bases /\ snap.next = next /\ snap.heads = sched.snap.heads
    BY <1>1, <1>3, <1>4, <1>5 DEF Snapshot
  <1>7. sched' = [sched EXCEPT !.snap = snap, !.pc = pc]
    BY <1>1, <1>2, <1>3 DEF Memory, Snapshot
  <1>8. sched' \in Memory /\ sched'.mine = sched.mine /\ sched'.snap = snap /\ sched'.pc = pc
    <2>1. pc \in Working /\ snap \in Snapshot
      BY <1>3, <1>6 DEF Working
    <2> QED
      BY <1>1, <1>7, <2>1 DEF Memory
  <1>9. m = sched.snap.next
    BY DEF Inspect
  <1>10. \A k \in Selected : bases[k] = IF k = m THEN base ELSE sched.snap.bases[k]
    BY <1>1, <1>3 DEF Snapshot
  <1> QED
    BY <1>3, <1>6, <1>8, <1>9, <1>10

LEMMA CloseSnapshotMemory ==
  ASSUME StackPipelineAssumption, TInv, sched.mine = {}, CloseSnapshot
  PROVE  /\ sched' \in Memory /\ sched'.mine = {}
         /\ \/ sched'.pc = "pass" \/ (sched'.pc = "finish" /\ sched'.result = "partial")
            \/ sched'.pc = "snap_judge" /\ sched'.snap = sched.snap /\ LiveHeads = sched.snap.heads
  <1>1. sched \in Memory
    BY DEF TInv
  <1>2. \/ sched' = NextPass(sched)
        \/ sched' = [sched EXCEPT !.pc = "snap_judge"] /\ LiveHeads = sched.snap.heads
    BY DEF CloseSnapshot, Think
  <1>3. CASE sched' = NextPass(sched)
    BY <1>1, <1>3, NextPassFacts
  <1>4. CASE sched' = [sched EXCEPT !.pc = "snap_judge"] /\ LiveHeads = sched.snap.heads
    BY <1>1, <1>4 DEF Memory, Working
  <1> QED
    BY <1>2, <1>3, <1>4

LEMMA JudgeMemory ==
  ASSUME StackPipelineAssumption, TInv, sched.mine = {}, JudgeSnapshot
  PROVE  /\ sched' \in Memory /\ sched'.mine = {}
         /\ \/ sched'.pc = "pass" \/ (sched'.pc = "finish" /\ sched'.result = "partial")
            \/ /\ sched'.pc = "finish" /\ Tips = sched.snap.bases
               /\ sched'.snap.bases = sched.snap.bases /\ sched'.snap.heads = sched.snap.heads
  <1>1. sched \in Memory /\ sched.snap \in Snapshot
    BY DEF TInv, Memory
  <1>2. PICK left : left \in [Selected -> SUBSET Stages] /\
          \/ sched' = NextPass(sched)
          \/ /\ sched' = Stopping([sched EXCEPT !.snap = [sched.snap EXCEPT !.uncleared = left]], "complete")
             /\ Tips = sched.snap.bases
    <2>1. PICK spared : /\ spared \in [Selected -> SUBSET {"conflict"}]
                        /\ \/ sched' = NextPass(sched)
                           \/ /\ sched' = Stopping([sched EXCEPT !.snap = [sched.snap EXCEPT !.uncleared =
                                             [m \in Selected |-> sched.snap.uncleared[m] \ spared[m]]]], "complete")
                              /\ Tips = sched.snap.bases
      <3>1. PICK spared : spared = [m \in Selected |-> IF NativeClearance(sched.snap) /\ marks[m]["conflict"].outcome = "none"
                                                       THEN {"conflict"} ELSE {}]
        OBVIOUS
      <3>2. \A m \in Selected : spared[m] = (IF NativeClearance(sched.snap) /\ marks[m]["conflict"].outcome = "none"
                                             THEN {"conflict"} ELSE {})
        BY <3>1
      <3>3. [m \in Selected |-> sched.snap.uncleared[m] \ spared[m]]
            = [m \in Selected |-> sched.snap.uncleared[m] \ (IF NativeClearance(sched.snap) /\ marks[m]["conflict"].outcome = "none"
                                                             THEN {"conflict"} ELSE {})]
        BY <3>2
      <3>4. \/ sched' = NextPass(sched)
            \/ /\ sched' = Stopping([sched EXCEPT !.snap = [sched.snap EXCEPT !.uncleared =
                     [m \in Selected |-> sched.snap.uncleared[m] \ spared[m]]]], "complete")
               /\ Tips = sched.snap.bases
        BY <3>3 DEF JudgeSnapshot, Think
      <3>5. spared \in [Selected -> SUBSET {"conflict"}]
        BY <3>1
      <3> QED
        BY <3>4, <3>5
    <2>2. [m \in Selected |-> sched.snap.uncleared[m] \ spared[m]] \in [Selected -> SUBSET Stages]
      BY <1>1 DEF Snapshot
    <2> QED
      BY <2>1, <2>2
  <1>3. CASE sched' = NextPass(sched)
    BY <1>1, <1>3, NextPassFacts
  <1>4. CASE /\ sched' = Stopping([sched EXCEPT !.snap = [sched.snap EXCEPT !.uncleared = left]], "complete")
             /\ Tips = sched.snap.bases
    <2>1. PICK snap : snap = [sched.snap EXCEPT !.uncleared = left]
      OBVIOUS
    <2>2. snap \in Snapshot /\ snap.bases = sched.snap.bases /\ snap.heads = sched.snap.heads
      BY <1>1, <1>2, <2>1 DEF Snapshot
    <2>3. PICK now : now = [sched EXCEPT !.snap = snap]
      OBVIOUS
    <2>4. now \in Memory /\ now.mine = {} /\ now.snap = snap
      BY <1>1, <2>2, <2>3 DEF Memory
    <2>5. sched' = Stopping(now, "complete") /\ "complete" \in StackResults
      BY <1>4, <2>1, <2>3 DEF StackResults
    <2> QED
      BY <1>4, <2>2, <2>4, <2>5, StopFacts
  <1> QED
    BY <1>2, <1>3, <1>4

-----------------------------------------------------------------------------
(* The ways out *)

LEMMA InterruptedMemory ==
  ASSUME StackPipelineAssumption, TInv, Interrupted
  PROVE  sched' \in Memory /\ sched'.pc = "stopping" /\ sched'.mine = {} /\ sched'.result # "complete"
  BY RaisedMemory DEF Interrupted, Think

\* Over, dead or begun again: the memory is gone.
LEMMA ForgottenMemory ==
  ASSUME StackPipelineAssumption, TInv, NEW pc \in {"over", "dead"},
         sched' = [FreshMemory EXCEPT !.pc = pc, !.seen = sched.seen]
  PROVE  sched' \in Memory /\ sched'.pc = pc /\ sched'.mine = {}
  <1>1. PICK quiet, heads : quiet = FreshMemory /\ heads = sched.seen
    OBVIOUS
  <1>2. quiet \in Memory /\ quiet.mine = {} /\ heads \in [Selected -> Commit]
    BY <1>1, QuietTypes DEF TInv, Memory
  <1>3. sched' = [quiet EXCEPT !.pc = pc, !.seen = heads]
    BY <1>1
  <1> QED
    BY <1>2, <1>3 DEF Memory

LEMMA StartAgainMemory ==
  ASSUME StackPipelineAssumption, TInv, StartAgain
  PROVE  sched' \in Memory /\ sched'.pc = "open" /\ sched'.mine = {}
  <1>1. PICK quiet, heads : quiet = FreshMemory /\ heads = LiveHeads
    OBVIOUS
  <1>2. quiet \in Memory /\ quiet.mine = {} /\ quiet.pc = "open" /\ heads \in [Selected -> Commit]
    BY <1>1, QuietTypes, SeesLive
  <1>3. sched' = [quiet EXCEPT !.seen = heads]
    BY <1>1 DEF StartAgain, Think
  <1> QED
    BY <1>2, <1>3 DEF Memory

LEMMA CancelWorkersMemory ==
  ASSUME StackPipelineAssumption, TInv, CancelWorkers
  PROVE  /\ sched' \in Memory /\ sched'.pc \in {"finish", "dead"}
         /\ sched'.pc = "finish" => sched'.result = sched.result
         /\ workers' \in [Selected -> Worker]
         /\ saved' \in RunState /\ saved'.exists = saved.exists /\ saved'.carried = saved.carried
         /\ saved'.active \subseteq saved.active
         /\ \A m \in Selected : workers'[m] = workers[m] \/ workers'[m] = NoWorker
         /\ \A m \in Selected : workers'[m].state = "running" => m \in saved'.active \/ m \notin saved.active
  <1>1. sched \in Memory /\ saved \in RunState /\ workers \in [Selected -> Worker] /\ NoWorker \in Worker
    BY Empty DEF TInv
  <1>2. PICK running, survive :
          /\ running = {m \in saved.active : workers[m].state = "running"} /\ survive \subseteq running
          /\ workers' = [m \in Selected |-> IF m \in running \ survive THEN NoWorker ELSE workers[m]]
          /\ saved' = [saved EXCEPT !.active = survive]
    BY DEF CancelWorkers
  <1>3. survive \subseteq saved.active /\ saved.active \subseteq Selected
    BY <1>1, <1>2 DEF RunState
  <1>4. /\ saved' \in RunState /\ saved'.exists = saved.exists /\ saved'.carried = saved.carried
        /\ saved'.active = survive
    BY <1>1, <1>2, <1>3 DEF RunState
  <1>5. /\ workers' \in [Selected -> Worker]
        /\ \A m \in Selected : workers'[m] = IF m \in running \ survive THEN NoWorker ELSE workers[m]
    BY <1>1, <1>2
  <1>6. NoWorker.state = "none"
    BY DEF NoWorker
  <1>7. \A m \in Selected : workers'[m].state = "running" => m \in survive \/ m \notin saved.active
    BY <1>2, <1>5, <1>6
  <1>8. /\ sched' \in Memory /\ sched'.pc \in {"finish", "dead"}
        /\ sched'.pc = "finish" => sched'.result = sched.result
    <2>1. CASE sched' = [sched EXCEPT !.pc = "finish"]
      BY <1>1, <2>1 DEF Memory, Working
    <2>2. CASE sched' = [FreshMemory EXCEPT !.pc = "dead", !.seen = sched.seen]
      BY <2>2, ForgottenMemory
    <2> QED
      BY <2>1, <2>2 DEF CancelWorkers, Think
  <1> QED
    BY <1>3, <1>4, <1>5, <1>7, <1>8

LEMMA FinishMemory ==
  ASSUME StackPipelineAssumption, TInv, Finish
  PROVE  /\ sched' \in Memory /\ sched'.pc = "over" /\ sched'.mine = {}
         /\ trees' \in [Selected -> {"absent", "owned", "dirty"}]
         /\ \A m \in Selected : trees[m] # "absent" /\ trees'[m] = "absent" => m \notin saved.active
         /\ outcome' \in [result : StackResults \cup {"none"}, snap : Snapshot]
         /\ outcome'.result \in {"error", sched.result} /\ outcome'.snap = sched.snap
  <1>1. sched \in Memory /\ trees \in [Selected -> {"absent", "owned", "dirty"}] /\ "error" \in StackResults
    BY DEF TInv, StackResults
  <1>2. PICK removed \in SUBSET sched.touched, kept \in BOOLEAN :
          /\ removed \subseteq {m \in sched.touched : trees[m] = "owned" /\ m \notin saved.active}
          /\ trees' = [m \in Selected |-> IF m \in removed THEN "absent" ELSE trees[m]]
          /\ outcome' = [result |-> IF sched.result = "complete" /\ kept THEN "error" ELSE sched.result,
                         snap |-> sched.snap]
    <2>1. PICK free : free = {m \in sched.touched : trees[m] = "owned" /\ m \notin saved.active}
      OBVIOUS
    <2>2. PICK removed \in SUBSET free :
            /\ trees' = [m \in Selected |-> IF m \in removed THEN "absent" ELSE trees[m]]
            /\ outcome' = [result |-> IF sched.result = "complete" /\ removed # free THEN "error" ELSE sched.result,
                           snap |-> sched.snap]
      BY <2>1 DEF Finish
    <2>3. PICK kept \in BOOLEAN : kept = (removed # free)
      OBVIOUS
    <2> QED
      BY <2>1, <2>2, <2>3
  <1>3. sched' \in Memory /\ sched'.pc = "over" /\ sched'.mine = {}
    BY ForgottenMemory DEF Finish, Think
  <1>4. sched.result \in StackResults \cup {"none"} /\ sched.snap \in Snapshot
    BY <1>1 DEF Memory
  <1> QED
    BY <1>1, <1>2, <1>3, <1>4

-----------------------------------------------------------------------------
(* The workers and the others *)

LEMMA PushFacts ==
  ASSUME TInv, NEW m \in Members, NEW c \in Commit, live.heads[m].v <= c.v,
         live' = [live EXCEPT !.heads[m] = c]
  PROVE  Grows /\ live'.heads[m] = c
  <1>1. live \in Live /\ \A k \in Members : live.heads[k].v \in Nat
    BY DEF TInv, Live, Commit
  <1>2. PICK heads : heads = [live.heads EXCEPT ![m] = c]
    OBVIOUS
  <1>3. heads \in [Members -> Commit] /\ heads[m] = c /\ \A k \in Members : live.heads[k].v <= heads[k].v
    BY <1>1, <1>2 DEF Live
  <1>4. live' = [live EXCEPT !.heads = heads]
    BY <1>1, <1>2 DEF Live
  <1>5. live' \in Live /\ live'.heads = heads /\ live'.trunk = live.trunk
    BY <1>1, <1>3, <1>4 DEF Live
  <1> QED
    BY <1>1, <1>3, <1>5 DEF Grows, Live

LEMMA PushedByOne ==
  ASSUME TInv, NEW m \in Members, live' = Push(m)
  PROVE  Grows /\ live'.heads[m].v \in Nat
  <1>1. live \in Live /\ live.heads[m] \in Commit /\ live.heads[m].v \in Nat
    BY DEF TInv, Live, Commit
  <1>2. PICK c : c = [live.heads[m] EXCEPT !.v = @ + 1]
    OBVIOUS
  <1>3. c \in Commit /\ c.v = live.heads[m].v + 1
    BY <1>1, <1>2 DEF Commit
  <1>4. live' = [live EXCEPT !.heads[m] = c]
    BY <1>1, <1>2 DEF Push, Live
  <1>5. live.heads[m].v <= c.v /\ c.v \in Nat
    BY <1>1, <1>3
  <1>6. Grows /\ live'.heads[m] = c
    BY <1>3, <1>4, <1>5, PushFacts
  <1> QED
    BY <1>5, <1>6

LEMMA WorkerPushesFacts ==
  ASSUME StackPipelineAssumption, TInv, NEW m \in Selected, WorkerPushes(m)
  PROVE  /\ Grows /\ workers[m].state = "running"
         /\ pushed' \in [Selected -> SUBSET Nat]
         /\ \A k \in Selected : pushed'[k] = pushed[k] \/ (k = m /\ workers[m].stage = "ci")
  <1>1. Grows /\ live'.heads[m].v \in Nat
    BY PushedByOne, Constants DEF WorkerPushes
  <1>2. PICK v \in Nat : v = live'.heads[m].v
    BY <1>1
  <1>3. pushed' = IF workers[m].stage = "ci" THEN [pushed EXCEPT ![m] = @ \cup {v}] ELSE pushed
    BY <1>2 DEF WorkerPushes
  <1>4. pushed \in [Selected -> SUBSET Nat] /\ workers[m].state = "running"
    BY DEF TInv, WorkerPushes
  <1> QED
    BY <1>1, <1>3, <1>4

LEMMA WorkerRestacksFacts ==
  ASSUME StackPipelineAssumption, TInv, NEW m \in Selected, WorkerRestacks(m)
  PROVE  Grows /\ workers[m].state = "running"
  <1>1. live \in Live /\ \A k \in Members : live.heads[k].v \in Nat
    BY DEF TInv, Live, Commit
  <1>2. PICK heads : heads = [k \in Members |-> [v |-> live.heads[k].v + 1,
                                                 on |-> IF k = 1 THEN live.trunk ELSE live.heads[k - 1].v + 1]]
    OBVIOUS
  <1>3. \A k \in Members : heads[k] \in Commit /\ live.heads[k].v <= heads[k].v
    <2> TAKE k \in Members
    <2>1. k = 1 \/ k - 1 \in Members
      BY Constants DEF Members
    <2>2. PICK on : on = IF k = 1 THEN live.trunk ELSE live.heads[k - 1].v + 1
      OBVIOUS
    <2>3. on \in Nat
      BY <1>1, <2>1, <2>2 DEF Live
    <2>4. heads[k] = [v |-> live.heads[k].v + 1, on |-> on]
      BY <1>2, <2>2
    <2> QED
      BY <1>1, <2>3, <2>4 DEF Commit
  <1>4. heads \in [Members -> Commit]
    BY <1>2, <1>3
  <1>5. live' = [live EXCEPT !.heads = heads] /\ workers[m].state = "running"
    BY <1>2 DEF WorkerRestacks
  <1>6. live' \in Live /\ live'.heads = heads /\ live'.trunk = live.trunk
    BY <1>1, <1>4, <1>5 DEF Live
  <1> QED
    BY <1>1, <1>3, <1>5, <1>6 DEF Grows, Live

LEMMA WorkerEndsFacts ==
  ASSUME StackPipelineAssumption, TInv, NEW m \in Selected, WorkerEnds(m)
  PROVE  /\ marks' \in [Selected -> [Stages -> Mark]]
         /\ native' \in [heads : [Selected -> Commit], bases : [Selected -> Nat]]
         /\ workers' \in [Selected -> Worker]
         /\ workers[m].state = "running" /\ workers'[m].state = "exited"
         /\ \A k \in Selected : k # m => workers'[k] = workers[k]
         /\ trees' \in [Selected -> {"absent", "owned", "dirty"}]
         /\ \A k \in Selected : trees'[k] = trees[k] \/ trees'[k] = "dirty"
  <1>1. /\ marks \in [Selected -> [Stages -> Mark]] /\ workers \in [Selected -> Worker]
        /\ native \in [heads : [Selected -> Commit], bases : [Selected -> Nat]]
        /\ trees \in [Selected -> {"absent", "owned", "dirty"}]
    BY DEF TInv
  <1>2. PICK s : s = workers[m].stage
    OBVIOUS
  <1>3. PICK ok \in BOOLEAN, o \in Outcomes \ {"none"} :
          /\ workers' = [workers EXCEPT ![m].state = "exited", ![m].ok = ok]
          /\ \/ /\ marks' = [marks EXCEPT ![m][s] = [outcome |-> o, head |-> live.heads[m], base |-> Tip(m)]]
                /\ native' = IF s = "conflict" /\ o = "cleared" THEN [heads |-> LiveHeads, bases |-> Tips] ELSE native
             \/ /\ marks' = [k \in Selected |-> [marks[k] EXCEPT ![s] =
                               [outcome |-> o, head |-> live.heads[k], base |-> Tip(k)]]]
                /\ native' = NoEvidence
    BY <1>2 DEF WorkerEnds
  <1>4. marks' \in [Selected -> [Stages -> Mark]]
    <2>1. PICK mark : mark = [k \in Selected |-> [outcome |-> o, head |-> live.heads[k], base |-> Tip(k)]]
      OBVIOUS
    <2>2. \A k \in Selected : mark[k] \in Mark
      BY <1>3, <2>1, Reading, Constants DEF Mark
    <2>3. CASE marks' = [marks EXCEPT ![m][s] = [outcome |-> o, head |-> live.heads[m], base |-> Tip(m)]]
      <3>1. marks' = [marks EXCEPT ![m][s] = mark[m]]
        BY <2>1, <2>3
      <3> QED
        BY <1>1, <2>2, <3>1
    <2>4. CASE marks' = [k \in Selected |-> [marks[k] EXCEPT ![s] =
                           [outcome |-> o, head |-> live.heads[k], base |-> Tip(k)]]]
      <3>1. \A k \in Selected : marks'[k] = [marks[k] EXCEPT ![s] = mark[k]]
        BY <2>1, <2>4
      <3>2. \A k \in Selected : marks'[k] \in [Stages -> Mark]
        <4> TAKE k \in Selected
        <4>1. PICK old, new : old = marks[k] /\ new = mark[k]
          OBVIOUS
        <4>2. old \in [Stages -> Mark] /\ new \in Mark
          BY <1>1, <2>2, <4>1
        <4>3. marks'[k] = [old EXCEPT ![s] = new]
          BY <3>1, <4>1
        <4> QED
          BY <4>2, <4>3
      <3>3. marks' = [k \in Selected |-> marks'[k]]
        BY <2>4
      <3> QED
        BY <3>2, <3>3
    <2> QED
      BY <1>3, <2>3, <2>4
  <1>5. native' \in [heads : [Selected -> Commit], bases : [Selected -> Nat]]
    BY <1>1, <1>3, Reading, Empty
  <1>6. PICK worker : worker = [workers[m] EXCEPT !.state = "exited", !.ok = ok]
    OBVIOUS
  <1>7. worker \in Worker /\ worker.state = "exited"
    <2>1. PICK old : old = workers[m]
      OBVIOUS
    <2>2. old \in Worker /\ worker = [old EXCEPT !.state = "exited", !.ok = ok] /\ ok \in BOOLEAN
      BY <1>1, <1>3, <1>6, <2>1
    <2> QED
      BY <2>2 DEF Worker
  <1>8. workers' = [workers EXCEPT ![m] = worker]
    BY <1>1, <1>3, <1>6 DEF Worker
  <1>9. trees' = trees \/ trees' = [trees EXCEPT ![m] = "dirty"]
    BY DEF WorkerEnds
  <1>10. workers[m].state = "running"
    BY DEF WorkerEnds
  <1>11. /\ trees' \in [Selected -> {"absent", "owned", "dirty"}]
         /\ \A k \in Selected : trees'[k] = trees[k] \/ trees'[k] = "dirty"
    BY <1>1, <1>9
  <1>12. /\ workers' \in [Selected -> Worker] /\ workers'[m].state = "exited"
         /\ \A k \in Selected : k # m => workers'[k] = workers[k]
    BY <1>1, <1>7, <1>8
  <1> QED
    BY <1>4, <1>5, <1>10, <1>11, <1>12

LEMMA OthersFacts ==
  ASSUME StackPipelineAssumption, TInv, OthersAct
  PROVE  /\ Grows
         /\ marks' \in [Selected -> [Stages -> Mark]]
         /\ \A m \in Selected, s \in Stages : marks'[m][s].head = marks[m][s].head
  <1>1. live \in Live /\ marks \in [Selected -> [Stages -> Mark]]
    BY DEF TInv, Live
  <1>2. CASE UNCHANGED marks /\ \E m \in Members : live' \in {Push(m), [live EXCEPT !.heads[m] = [v |-> @.v + 1, on |-> Tip(m)]]}
    <2>1. PICK m \in Members : live' = Push(m) \/ live' = [live EXCEPT !.heads[m] = [v |-> @.v + 1, on |-> Tip(m)]]
      BY <1>2
    <2>2. CASE live' = [live EXCEPT !.heads[m] = [v |-> @.v + 1, on |-> Tip(m)]]
      <3>1. PICK c : c = [v |-> live.heads[m].v + 1, on |-> Tip(m)]
        OBVIOUS
      <3>2. live' = [live EXCEPT !.heads[m] = c]
        BY <1>1, <2>2, <3>1 DEF Live
      <3>3. live.heads[m].v \in Nat
        BY <1>1 DEF Live, Commit
      <3>4. Tip(m) \in Nat
        <4>1. m = 1 \/ m - 1 \in Members
          BY Constants DEF Members
        <4> QED
          BY <1>1, <4>1 DEF Tip, Live, Commit
      <3>5. c \in Commit /\ live.heads[m].v <= c.v
        BY <3>1, <3>3, <3>4 DEF Commit
      <3>6. Grows
        BY <3>2, <3>5, PushFacts
      <3> QED
        BY <1>1, <1>2, <3>6
    <2> QED
      BY <1>1, <1>2, <2>1, <2>2, PushedByOne
  <1>3. CASE live' = [live EXCEPT !.trunk = @ + 1] /\ UNCHANGED marks
    <2>1. Grows
      BY <1>1, <1>3 DEF Grows, Live, Commit
    <2> QED
      BY <1>1, <1>3, <2>1
  <1>4. CASE live' = [live EXCEPT !.same = FALSE] /\ UNCHANGED marks
    <2>1. live' \in Live /\ live'.heads = live.heads /\ live'.trunk = live.trunk
      BY <1>1, <1>4 DEF Live
    <2>2. Grows
      BY <1>1, <2>1 DEF Grows, Live, Commit
    <2> QED
      BY <1>1, <1>4, <2>2
  <1>5. CASE /\ UNCHANGED live
             /\ \E m \in Selected : marks' = [marks EXCEPT ![m]["ci"].outcome = "open"]
    <2>1. PICK m \in Selected : marks' = [marks EXCEPT ![m]["ci"].outcome = "open"]
      BY <1>5
    <2>2. PICK mark : mark = [marks[m]["ci"] EXCEPT !.outcome = "open"]
      OBVIOUS
    <2>3. "ci" \in Stages => mark \in Mark /\ mark.head = marks[m]["ci"].head
      BY <1>1, <2>2 DEF Mark, Outcomes
    <2>4. marks' = [marks EXCEPT ![m]["ci"] = mark]
      BY <1>1, <2>1, <2>2
    <2> QED
      BY <1>1, <1>5, <2>3, <2>4, SameLive
  <1> QED
    BY <1>2, <1>3, <1>4, <1>5 DEF OthersAct

-----------------------------------------------------------------------------
(* The inductive invariant *)

Between == {"pass", "phase", "gate", "pending", "before", "ended", "snap", "snap_close", "snap_judge"}
InCi == {"gate", "pending", "before", "monitor", "after"}
Launching == {"launch", "started", "confirm"}
Leaving == {"stopping", "finish", "over", "dead"}
Resting == {"open", "finish", "over", "dead"}
Unsure == Leaving \cup {"open", "started"}

\* The run state names every worker whose start was recorded, and outside the way out
\* every worker but the one that was started just now; between two dispatches there is
\* none, and in one only members that the scheduler has launched.
WorkInv ==
  /\ \A m \in Selected : workers[m].state = "running" /\ workers[m].recorded => m \in saved.active
  /\ sched.pc \notin Unsure \/ ~saved.exists =>
       \A m \in Selected : workers[m].state # "none" => m \in saved.active
  /\ sched.pc = "started" =>
       \E m \in Selected : First(m) /\ \A k \in Selected \ {m} : workers[k].state # "none" => k \in saved.active
  /\ ~saved.exists => saved.active = {} /\ sched.pc \in Resting
  /\ sched.pc \in Between => saved.active = {}
  /\ sched.pc \in Between \cup {"open"} => sched.mine = {}
  /\ sched.pc \in {"launch", "started", "collect", "monitor", "after"} => saved.active \subseteq sched.mine
  /\ sched.pc = "confirm" => \E m \in Selected : First(m) /\ saved.active \subseteq sched.mine \cup {m}
  /\ sched.pc \in Launching => sched.mine \cap sched.todo = {}
  /\ sched.pc \in Launching /\ Stage = "ci" => sched.mine \cup sched.todo = {sched.index}
  /\ sched.pc \in InCi => Stage = "ci"
  /\ sched.pc \in {"monitor", "after"} => sched.mine = {sched.index}
  /\ sched.pc = "after" => workers[sched.index].state # "running"

\* The member below is green, and the next one stands on its cleared head.
Standing == sched.index - 1 \in sched.green /\ marks[sched.index - 1]["ci"].head.v = sched.seen[sched.index].on

GateInv ==
  sched.index > Clicked =>
    /\ sched.pc = "gate" /\ sched.below.clear => sched.index - 1 \in sched.green
    /\ sched.pc \in {"pending", "before"} => Standing
    /\ sched.pc = "launch" /\ Stage = "ci" /\ sched.todo # {} => Standing

\* Whatever a CI worker pushed is carried before the next member is reached.
CarryInv ==
  /\ sched.pc \in InCi \/ (sched.pc \in Launching /\ Stage = "ci") =>
       \A m \in Selected : m < sched.index => Behind(m) = {}
  /\ sched.pc = "before" => Behind(sched.index) = {}
  /\ sched.pc = "after" => sched.failed \/ Behind(sched.index) = {}
  /\ sched.pc = "collect" /\ Stage = "ci" => sched.stop = "stopped"
  /\ PushesAreCarried

\* Bases are read after the opening heads and before the closing ones.
OneStack(snap) == \A m \in Selected \ {Clicked} : snap.bases[m] = snap.heads[m - 1].v
SnapInv ==
  /\ sched.pc \in {"snap", "snap_close", "snap_judge"} =>
       \A m \in Selected : sched.snap.heads[m].v <= live.heads[m].v
  /\ sched.pc = "snap" => \A m \in Selected : m < sched.snap.next => sched.snap.bases[m] <= Tip(m)
  /\ sched.pc = "snap_close" => \A m \in Selected : sched.snap.bases[m] <= Tip(m)
  /\ sched.pc = "snap_judge" => \A m \in Selected \ {Clicked} : sched.snap.bases[m] <= sched.snap.heads[m - 1].v
  /\ sched.pc = "stopping" => sched.result # "complete"
  /\ sched.pc = "finish" /\ sched.result = "complete" => OneStack(sched.snap)
  /\ outcome.result = "complete" => OneStack(outcome.snap)

\* Only the memory of the scheduler moves.
Quietly == UNCHANGED <<live, marks, native, pushed, workers, trees, saved, outcome>>

LEMMA Frames ==
  /\ BeginPass \/ ParallelPhase \/ CiPhase \/ BaseUnreadable \/ WorkersLaunched \/ Collected \/ Before => Quietly
  /\ PhaseEnded \/ CloseSnapshot \/ JudgeSnapshot \/ Interrupted \/ SchedulerCrash \/ StartAgain => Quietly
  /\ \A m \in Selected : Inspect(m) => Quietly
  /\ Open => UNCHANGED <<live, marks, native, pushed, workers, trees>>
  /\ ConflictPhase => UNCHANGED <<live, marks, native, pushed, workers, trees, outcome>>
  /\ \A m \in Selected : LaunchWorker(m) \/ LaunchFails(m) => UNCHANGED <<live, marks, native, pushed, outcome>>
  /\ \A m \in Selected : RecordWorker(m) \/ Confirm(m) \/ CollectWorker(m) => UNCHANGED <<live, marks, native, pushed, trees, outcome>>
  /\ AfterWorker \/ CancelWorkers => UNCHANGED <<live, marks, native, pushed, trees, outcome>>
  /\ CiGate => UNCHANGED <<marks, native, pushed, workers, trees, saved, outcome>>
  /\ Pending \/ Monitor => UNCHANGED <<marks, native, pushed, workers, trees, outcome>>
  /\ Finish => UNCHANGED <<live, marks, native, pushed, workers, saved>>
  /\ \A m \in Selected : WorkerPushes(m) => UNCHANGED <<marks, native, workers, trees, saved, sched, outcome>>
  /\ \A m \in Selected : WorkerRestacks(m) => UNCHANGED <<marks, native, pushed, workers, trees, saved, sched, outcome>>
  /\ \A m \in Selected : WorkerEnds(m) => UNCHANGED <<live, pushed, saved, sched, outcome>>
  /\ OthersAct => UNCHANGED <<native, workers, trees, pushed, saved, sched, outcome>>
  <1>1. BeginPass \/ ParallelPhase \/ CiPhase \/ BaseUnreadable \/ WorkersLaunched \/ Collected \/ Before => Quietly
    BY DEF BeginPass, ParallelPhase, CiPhase, BaseUnreadable, WorkersLaunched, Collected, Before, Others, Quietly
  <1>2. PhaseEnded \/ CloseSnapshot \/ JudgeSnapshot \/ Interrupted \/ SchedulerCrash \/ StartAgain => Quietly
    BY DEF PhaseEnded, CloseSnapshot, JudgeSnapshot, Interrupted, SchedulerCrash, StartAgain, Others, Quietly
  <1>3. \A m \in Selected : Inspect(m) => Quietly
    BY DEF Inspect, Others, Quietly
  <1>4. Open => UNCHANGED <<live, marks, native, pushed, workers, trees>>
    BY DEF Open, Others
  <1>5. ConflictPhase => UNCHANGED <<live, marks, native, pushed, workers, trees, outcome>>
    BY DEF ConflictPhase, Others
  <1>6. \A m \in Selected : LaunchWorker(m) \/ LaunchFails(m) => UNCHANGED <<live, marks, native, pushed, outcome>>
    BY DEF LaunchWorker, LaunchFails, Others
  <1>7. \A m \in Selected : RecordWorker(m) \/ Confirm(m) \/ CollectWorker(m) => UNCHANGED <<live, marks, native, pushed, trees, outcome>>
    BY DEF RecordWorker, Confirm, CollectWorker, Others
  <1>8. AfterWorker \/ CancelWorkers => UNCHANGED <<live, marks, native, pushed, trees, outcome>>
    BY DEF AfterWorker, CancelWorkers, Others
  <1>9. CiGate => UNCHANGED <<marks, native, pushed, workers, trees, saved, outcome>>
    BY DEF CiGate
  <1>10. Pending \/ Monitor => UNCHANGED <<marks, native, pushed, workers, trees, outcome>>
    BY DEF Pending, Monitor
  <1>11. Finish => UNCHANGED <<live, marks, native, pushed, workers, saved>>
    BY DEF Finish, Others
  <1>12. \A m \in Selected : WorkerPushes(m) => UNCHANGED <<marks, native, workers, trees, saved, sched, outcome>>
    BY DEF WorkerPushes
  <1>13. \A m \in Selected : WorkerRestacks(m) => UNCHANGED <<marks, native, pushed, workers, trees, saved, sched, outcome>>
    BY DEF WorkerRestacks
  <1>14. \A m \in Selected : WorkerEnds(m) => UNCHANGED <<live, pushed, saved, sched, outcome>>
    BY DEF WorkerEnds
  <1>15. OthersAct => UNCHANGED <<native, workers, trees, pushed, saved, sched, outcome>>
    BY DEF OthersAct
  <1> QED
    BY <1>1, <1>2, <1>3, <1>4, <1>5, <1>6, <1>7, <1>8, <1>9, <1>10, <1>11, <1>12, <1>13, <1>14, <1>15

\* Every step keeps the types.
LEMMA TypesKept ==
  ASSUME StackPipelineAssumption, TInv, sched.pc \in Between => sched.mine = {}, [StackNext]_stackVars
  PROVE  TInv'
  <1>1. ASSUME Quietly, sched' \in Memory
        PROVE  TInv'
    BY <1>1 DEF TInv, Quietly
  <1>2. CASE BeginPass \/ ParallelPhase \/ CiPhase \/ BaseUnreadable \/ WorkersLaunched \/ Collected
    BY <1>1, <1>2, Frames, BeginPassMemory, PhaseMemory, CiPhaseMemory, BaseUnreadableMemory, LaunchedMemory, CollectedMemory
  <1>3. CASE Before \/ CloseSnapshot \/ JudgeSnapshot
    <2>1. sched.pc \in Between
      BY <1>3 DEF Before, CloseSnapshot, JudgeSnapshot, Between
    <2> QED
      BY <1>1, <1>3, <2>1, Frames, BeforeMemory, CloseSnapshotMemory, JudgeMemory
  <1>4. CASE PhaseEnded \/ Interrupted \/ StartAgain \/ \E m \in Selected : Inspect(m)
    BY <1>1, <1>4, Frames, PhaseEndedMemory, InterruptedMemory, StartAgainMemory, InspectMemory
  <1>5. CASE SchedulerCrash
    <2>1. sched' \in Memory
      BY <1>5, ForgottenMemory DEF SchedulerCrash, Think
    <2> QED
      BY <1>1, <1>5, <2>1, Frames
  <1>6. CASE Open
    BY <1>6, Frames, OpenMemory DEF TInv
  <1>7. CASE ConflictPhase
    BY <1>7, Frames, PhaseMemory DEF TInv
  <1>8. CASE \E m \in Selected : LaunchWorker(m) \/ LaunchFails(m)
    BY <1>8, Frames, LaunchMemory, LaunchFailsMemory DEF TInv
  <1>9. CASE \E m \in Selected : RecordWorker(m) \/ Confirm(m)
    BY <1>9, Frames, RecordMemory, ConfirmMemory DEF TInv
  <1>10. CASE \E m \in Selected : CollectWorker(m)
    BY <1>10, Frames, CollectMemory DEF TInv
  <1>11. CASE AfterWorker
    BY <1>11, Frames, AfterWorkerMemory DEF TInv
  <1>12. CASE CancelWorkers
    BY <1>12, Frames, CancelWorkersMemory DEF TInv
  <1>13. CASE CiGate
    BY <1>13, Frames, GateMemory DEF TInv, Grows, Live
  <1>14. CASE Pending
    BY <1>14, Frames, PendingMemory DEF TInv, Grows, Live
  <1>15. CASE Monitor
    BY <1>15, Frames, MonitorMemory DEF TInv, Grows, Live
  <1>16. CASE Finish
    BY <1>16, Frames, FinishMemory DEF TInv
  <1>17. CASE \E m \in Selected : WorkerPushes(m)
    BY <1>17, Frames, WorkerPushesFacts DEF TInv, Grows, Live
  <1>18. CASE \E m \in Selected : WorkerRestacks(m)
    BY <1>18, Frames, WorkerRestacksFacts DEF TInv, Grows, Live
  <1>19. CASE \E m \in Selected : WorkerEnds(m)
    BY <1>19, Frames, WorkerEndsFacts DEF TInv
  <1>20. CASE OthersAct
    BY <1>20, Frames, OthersFacts DEF TInv, Grows, Live
  <1>21. CASE UNCHANGED stackVars
    BY <1>21 DEF TInv, stackVars
  <1> QED
    BY <1>2, <1>3, <1>4, <1>5, <1>6, <1>7, <1>8, <1>9, <1>10, <1>11, <1>12, <1>13, <1>14, <1>15, <1>16, <1>17,
       <1>18, <1>19, <1>20, <1>21 DEF StackNext, Schedule

-----------------------------------------------------------------------------
(* Workers and the run state that names them *)

\* Between two dispatches.
LEMMA WorkBetween ==
  ASSUME WorkInv, saved.exists, saved.active = {}, sched.pc \notin Unsure,
         UNCHANGED <<workers, saved.active, saved.exists>>,
         sched'.pc \in Between, sched'.mine = {}, sched'.pc \in InCi => Stage' = "ci"
  PROVE  WorkInv'
  BY DEF WorkInv, Between, InCi, Launching, Leaving, Unsure

\* On the way out.
LEMMA WorkLeaves ==
  ASSUME WorkInv, UNCHANGED <<workers, saved.active, saved.exists>>, sched'.pc \in Leaving,
         sched'.pc = "stopping" => sched.pc \notin Resting
  PROVE  WorkInv'
  BY DEF WorkInv, Between, InCi, Launching, Resting, Leaving, Unsure

\* The first worker of a dispatch is about to be launched.
LEMMA WorkDispatched ==
  ASSUME WorkInv, saved.exists, saved.active = {}, sched.pc \notin Unsure, sched.mine = {},
         UNCHANGED <<workers, saved.active, saved.exists>>,
         sched'.pc = "launch", sched'.mine = {}, Stage' = "ci" => sched'.todo = {sched'.index}
  PROVE  WorkInv'
  BY DEF WorkInv, Between, InCi, Launching, Leaving, Unsure

LEMMA OneFirst ==
  ASSUME StackPipelineAssumption, NEW m \in Selected, NEW k \in Selected, First(m), First(k)
  PROVE  m = k
  BY Constants DEF First, Selected, Members

LEMMA SameStage ==
  ASSUME sched'.phase = sched.phase
  PROVE  Stage' = Stage
  BY DEF Stage

LEMMA BetweenFacts ==
  ASSUME WorkInv, sched.pc \in Between
  PROVE  saved.exists /\ saved.active = {} /\ sched.mine = {} /\ sched.pc \notin Resting \cup Unsure
  <1>1. sched.pc \notin Resting \cup Unsure
    BY DEF Between, Resting, Leaving, Unsure
  <1> QED
    BY <1>1 DEF WorkInv

\* Steps of the scheduler between two dispatches.
LEMMA WorkOfQuietSteps ==
  ASSUME StackPipelineAssumption, TInv, WorkInv,
         \/ BeginPass \/ ConflictPhase \/ ParallelPhase \/ CiPhase \/ BaseUnreadable \/ CiGate \/ Pending \/ Before
         \/ PhaseEnded \/ CloseSnapshot \/ JudgeSnapshot \/ \E m \in Selected : Inspect(m)
  PROVE  WorkInv'
  <1>1. sched.pc \in Between
    BY DEF BeginPass, ConflictPhase, ParallelPhase, CiPhase, BaseUnreadable, CiGate, Pending, Before, PhaseEnded,
           CloseSnapshot, JudgeSnapshot, Inspect, Between
  <1>2. saved.exists /\ saved.active = {} /\ sched.mine = {} /\ sched.pc \notin Resting \cup Unsure
    BY <1>1, BetweenFacts
  <1>3. UNCHANGED <<workers, saved.active, saved.exists>>
    BY Frames, PhaseMemory, PendingMemory DEF Quietly
  <1>4. ASSUME sched'.pc \in Between, sched'.mine = {}, sched'.pc \in InCi => Stage' = "ci"
        PROVE  WorkInv'
    BY <1>2, <1>3, <1>4, WorkBetween
  <1>5. ASSUME sched'.pc \in {"stopping", "finish"}
        PROVE  WorkInv'
    BY <1>2, <1>3, <1>5, WorkLeaves DEF Leaving
  <1>6. CASE BeginPass
    BY <1>2, <1>4, <1>5, <1>6, BeginPassMemory DEF Between, InCi
  <1>7. CASE ConflictPhase \/ ParallelPhase
    <2>1. sched'.phase = sched.phase /\ Stage # "ci" /\ Stage' = Stage
      BY <1>7, PhaseMemory, SameStage
    <2>2. CASE sched'.pc = "launch"
      <3>1. sched'.mine = {}
        BY <1>2, <1>7, <2>2, PhaseMemory
      <3> QED
        BY <1>2, <1>3, <2>1, <2>2, <3>1, WorkDispatched
    <2>3. CASE sched'.pc # "launch"
      <3>1. (sched'.pc \in Between /\ sched'.mine = {} /\ sched'.pc \notin InCi) \/ sched'.pc = "stopping"
        BY <1>7, <2>3, PhaseMemory DEF Between, InCi
      <3> QED
        BY <1>4, <1>5, <3>1
    <2> QED
      BY <2>2, <2>3
  <1>8. CASE CiPhase
    <2>1. Stage = "ci" /\ Stage' = Stage
      BY <1>8, CiPhaseMemory, SameStage DEF CiPhase
    <2> QED
      BY <1>2, <1>4, <1>8, <2>1, CiPhaseMemory DEF Between
  <1>9. CASE BaseUnreadable
    BY <1>4, <1>9, BaseUnreadableMemory DEF Between, InCi
  <1>10. CASE CiGate
    <2>1. Stage = "ci" /\ Stage' = Stage
      BY <1>10, GateMemory, SameStage DEF CiGate, WorkInv, InCi
    <2> QED
      BY <1>2, <1>4, <1>10, <2>1, GateMemory DEF Between
  <1>11. CASE Pending
    <2>1. Stage = "ci" /\ Stage' = Stage
      BY <1>11, PendingMemory, SameStage DEF Pending, WorkInv, InCi
    <2> QED
      BY <1>2, <1>4, <1>11, <2>1, PendingMemory DEF Between
  <1>12. CASE Before
    <2>1. Stage = "ci" /\ Stage' = Stage
      BY <1>2, <1>12, BeforeMemory, SameStage DEF Before, WorkInv, InCi
    <2>2. CASE sched'.pc = "launch"
      <3>1. sched'.mine = {} /\ sched'.todo = {sched'.index}
        BY <1>2, <1>12, <2>2, BeforeMemory
      <3> QED
        BY <1>2, <1>3, <2>2, <3>1, WorkDispatched
    <2>3. CASE sched'.pc # "launch"
      BY <1>2, <1>4, <1>12, <2>1, <2>3, BeforeMemory DEF Between
    <2> QED
      BY <2>2, <2>3
  <1>13. CASE PhaseEnded
    BY <1>2, <1>4, <1>5, <1>13, PhaseEndedMemory DEF Between, InCi
  <1>14. CASE CloseSnapshot
    BY <1>2, <1>4, <1>5, <1>14, CloseSnapshotMemory DEF Between, InCi
  <1>15. CASE JudgeSnapshot
    BY <1>2, <1>4, <1>5, <1>15, JudgeMemory DEF Between, InCi
  <1>16. CASE \E m \in Selected : Inspect(m)
    BY <1>2, <1>4, <1>16, InspectMemory DEF Between, InCi
  <1> QED
    BY <1>6, <1>7, <1>8, <1>9, <1>10, <1>11, <1>12, <1>13, <1>14, <1>15, <1>16

\* Steps of the scheduler in a dispatch.
LEMMA WorkOfDispatch ==
  ASSUME StackPipelineAssumption, TInv, WorkInv,
         \/ WorkersLaunched \/ Collected \/ Monitor \/ AfterWorker
         \/ \E m \in Selected : LaunchWorker(m) \/ LaunchFails(m) \/ RecordWorker(m) \/ Confirm(m) \/ CollectWorker(m)
  PROVE  WorkInv'
  <1>1. sched.pc \in {"launch", "started", "confirm", "collect", "monitor", "after"}
    BY DEF WorkersLaunched, Collected, Monitor, AfterWorker, LaunchWorker, LaunchFails, RecordWorker, Confirm, CollectWorker
  <1>2. saved.exists /\ sched.pc \notin Resting /\ (sched.pc # "started" => sched.pc \notin Unsure)
    BY <1>1 DEF WorkInv, Resting, Leaving, Unsure
  <1>3. NoWorker.state = "none"
    BY DEF NoWorker
  <1>4. CASE \E m \in Selected : LaunchWorker(m)
    <2>1. PICK m \in Selected : LaunchWorker(m)
      BY <1>4
    <2>2. sched.pc = "launch" /\ First(m) /\ Stage' = Stage /\ saved'.exists = saved.exists
      BY <2>1, LaunchMemory, SameStage DEF LaunchWorker
    <2>3. /\ saved.active \subseteq sched.mine /\ sched.mine \cap sched.todo = {}
          /\ Stage = "ci" => sched.mine \cup sched.todo = {sched.index}
          /\ \A k \in Selected : workers[k].state # "none" => k \in saved.active
      BY <1>2, <2>2 DEF WorkInv, Launching
    <2>4. /\ sched'.pc = "started" /\ UNCHANGED saved /\ sched'.todo = sched.todo /\ sched'.index = sched.index
          /\ sched'.mine = sched.mine
          /\ \A k \in Selected : k # m => workers'[k] = workers[k]
          /\ ~workers'[m].recorded
      BY <2>1, LaunchMemory
    <2>5. First(m)' /\ \A k \in Selected \ {m} : workers'[k].state # "none" => k \in saved'.active
      BY <2>2, <2>3, <2>4 DEF First
    <2>6. \A k \in Selected : workers'[k].state = "running" /\ workers'[k].recorded => k \in saved'.active
      BY <2>4 DEF WorkInv
    <2> QED
      BY <1>2, <2>2, <2>3, <2>4, <2>5, <2>6 DEF WorkInv, Between, InCi, Launching, Leaving, Unsure
  <1>5. CASE \E m \in Selected : Confirm(m)
    <2>1. PICK m \in Selected : Confirm(m)
      BY <1>5
    <2>2. sched.pc = "confirm" /\ First(m) /\ Stage' = Stage /\ saved'.exists = saved.exists
      BY <2>1, ConfirmMemory, SameStage DEF Confirm
    <2>3. /\ sched.mine \cap sched.todo = {} /\ m \in sched.todo
          /\ Stage = "ci" => sched.mine \cup sched.todo = {sched.index}
          /\ \A k \in Selected : workers[k].state # "none" => k \in saved.active
      BY <1>2, <2>2 DEF WorkInv, Launching, First
    <2>4. saved.active \subseteq sched.mine \cup {m}
      BY <2>2, OneFirst DEF WorkInv
    <2>5. CASE sched'.pc = "launch"
      <3>1. /\ sched'.todo = sched.todo \ {m} /\ sched'.mine = sched.mine \cup {m} /\ sched'.index = sched.index
            /\ UNCHANGED <<workers, saved>>
        BY <2>1, <2>5, ConfirmMemory
      <3>2. sched'.mine \cap sched'.todo = {} /\ sched'.mine \cup sched'.todo = sched.mine \cup sched.todo
        BY <2>3, <3>1
      <3> QED
        BY <1>2, <2>2, <2>3, <2>4, <2>5, <3>1, <3>2 DEF WorkInv, Between, InCi, Launching, Leaving, Unsure
    <2>6. CASE sched'.pc # "launch"
      <3>1. /\ sched'.pc = "collect" /\ sched'.mine = sched.mine /\ saved'.active = saved.active \ {m}
            /\ \A k \in Selected : workers'[k] = IF k = m THEN NoWorker ELSE workers[k]
        BY <2>1, <2>6, ConfirmMemory
      <3>2. \A k \in Selected : workers'[k].state # "none" => k \in saved'.active
        BY <1>3, <2>3, <3>1
      <3>3. saved'.active \subseteq sched'.mine
        BY <2>4, <3>1
      <3> QED
        BY <1>2, <2>2, <3>1, <3>2, <3>3 DEF WorkInv, Between, InCi, Launching, Leaving, Unsure
    <2> QED
      BY <2>5, <2>6
  <1>6. CASE \E m \in Selected : CollectWorker(m)
    <2>1. PICK m \in Selected : CollectWorker(m)
      BY <1>6
    <2>2. /\ sched.pc = "collect" /\ sched'.pc = "collect" /\ saved'.exists = saved.exists
          /\ sched'.mine = sched.mine \ {m} /\ saved'.active = saved.active \ {m}
          /\ \A k \in Selected : workers'[k] = IF k = m THEN NoWorker ELSE workers[k]
      BY <2>1, CollectMemory DEF CollectWorker
    <2>3. saved.active \subseteq sched.mine /\ \A k \in Selected : workers[k].state # "none" => k \in saved.active
      BY <1>2, <2>2 DEF WorkInv
    <2>4. \A k \in Selected : workers'[k].state # "none" => k \in saved'.active
      BY <1>3, <2>2, <2>3
    <2> QED
      BY <1>2, <2>2, <2>3, <2>4 DEF WorkInv, Between, InCi, Launching, Leaving, Unsure
  <1>7. CASE WorkersLaunched
    <2>1. /\ sched.pc = "launch" /\ sched.todo = {} /\ Stage' = Stage /\ sched'.mine = sched.mine
          /\ sched'.index = sched.index /\ sched'.pc = IF Stage = "ci" THEN "monitor" ELSE "collect"
          /\ UNCHANGED <<workers, saved>>
      BY <1>7, Frames, LaunchedMemory, SameStage DEF WorkersLaunched, Quietly
    <2>2. saved.active \subseteq sched.mine /\ (Stage = "ci" => sched.mine = {sched.index})
      BY <2>1 DEF WorkInv, Launching
    <2> QED
      BY <1>2, <2>1, <2>2 DEF WorkInv, Between, InCi, Launching, Leaving, Unsure
  <1>8. CASE Collected
    <2>1. sched.pc = "collect" /\ sched.mine = {} /\ sched'.pc = "ended" /\ sched'.mine = {} /\ UNCHANGED <<workers, saved>>
      BY <1>8, Frames, CollectedMemory DEF Collected, Quietly
    <2>2. saved.active = {}
      BY <2>1 DEF WorkInv
    <2> QED
      BY <1>2, <2>1, <2>2, WorkBetween DEF Between, InCi
  <1>9. CASE Monitor
    <2>1. /\ sched.pc = "monitor" /\ Stage' = Stage /\ sched'.mine = sched.mine /\ sched'.index = sched.index
          /\ UNCHANGED workers /\ saved'.active = saved.active /\ saved'.exists = saved.exists
          /\ sched'.pc = "monitor" \/ (sched'.pc = "after" /\ workers[sched.index].state = "exited")
      BY <1>9, Frames, MonitorMemory, SameStage DEF Monitor
    <2>2. /\ saved.active \subseteq sched.mine /\ Stage = "ci" /\ sched.mine = {sched.index}
          /\ \A k \in Selected : workers[k].state # "none" => k \in saved.active
      BY <1>2, <2>1 DEF WorkInv, InCi
    <2> QED
      BY <1>2, <2>1, <2>2 DEF WorkInv, Between, InCi, Launching, Leaving, Unsure
  <1>10. CASE AfterWorker
    <2>1. /\ sched.pc = "after" /\ Stage' = Stage /\ sched'.mine = {} /\ saved'.exists = saved.exists
          /\ saved'.active = saved.active \ {sched.index}
          /\ \A k \in Selected : workers'[k] = IF k = sched.index THEN NoWorker ELSE workers[k]
          /\ sched'.pc \in {"ended", "gate"}
      BY <1>10, AfterWorkerMemory, SameStage DEF AfterWorker
    <2>2. /\ saved.active \subseteq sched.mine /\ Stage = "ci" /\ sched.mine = {sched.index}
          /\ \A k \in Selected : workers[k].state # "none" => k \in saved.active
      BY <1>2, <2>1 DEF WorkInv, InCi
    <2>3. saved'.active = {} /\ \A k \in Selected : workers'[k].state = "none"
      BY <1>3, <2>1, <2>2
    <2> QED
      BY <1>2, <2>1, <2>2, <2>3 DEF WorkInv, Between, InCi, Launching, Leaving, Unsure
  <1>11. CASE \E m \in Selected : LaunchFails(m)
    <2>1. PICK m \in Selected : LaunchFails(m)
      BY <1>11
    <2>2. sched.pc = "launch" /\ UNCHANGED <<workers, saved>>
      BY <2>1, LaunchFailsMemory DEF LaunchFails
    <2>3. /\ saved.active \subseteq sched.mine
          /\ \A k \in Selected : workers[k].state # "none" => k \in saved.active
      BY <1>2, <2>2 DEF WorkInv
    <2>4. CASE sched'.pc = "collect"
      <3>1. sched'.mine = sched.mine
        BY <2>1, <2>4, LaunchFailsMemory
      <3> QED
        BY <1>2, <2>2, <2>3, <2>4, <3>1 DEF WorkInv, Between, InCi, Launching, Leaving, Unsure
    <2>5. CASE sched'.pc = "stopping"
      BY <1>2, <2>2, <2>5, WorkLeaves DEF Leaving
    <2> QED
      BY <2>1, <2>4, <2>5, LaunchFailsMemory
  <1>12. CASE \E m \in Selected : RecordWorker(m)
    <2>1. PICK m \in Selected : RecordWorker(m)
      BY <1>12
    <2>2. sched.pc = "started" /\ First(m)
      BY <2>1 DEF RecordWorker
    <2>3. CASE sched'.pc = "confirm"
      <3>1. /\ sched'.todo = sched.todo /\ sched'.index = sched.index /\ Stage' = Stage /\ sched'.mine = sched.mine
            /\ saved'.active = saved.active \cup {m} /\ saved'.exists = saved.exists
            /\ \A k \in Selected : k # m => workers'[k] = workers[k]
        BY <2>1, <2>3, RecordMemory, SameStage
      <3>2. /\ saved.active \subseteq sched.mine /\ sched.mine \cap sched.todo = {}
            /\ Stage = "ci" => sched.mine \cup sched.todo = {sched.index}
        BY <2>2 DEF WorkInv, Launching
      <3>3. \A k \in Selected \ {m} : workers[k].state # "none" => k \in saved.active
        BY <2>2, OneFirst DEF WorkInv
      <3>4. \A k \in Selected : workers'[k].state # "none" => k \in saved'.active
        BY <3>1, <3>3
      <3>5. First(m)' /\ saved'.active \subseteq sched'.mine \cup {m}
        BY <2>2, <3>1, <3>2 DEF First
      <3> QED
        BY <1>2, <2>3, <3>1, <3>2, <3>4, <3>5 DEF WorkInv, Between, InCi, Launching, Leaving, Unsure
    <2>4. CASE sched'.pc = "stopping"
      <3>1. UNCHANGED <<workers, saved>>
        BY <2>1, <2>4, RecordMemory
      <3> QED
        BY <1>2, <2>4, <3>1, WorkLeaves DEF Leaving
    <2> QED
      BY <2>1, <2>3, <2>4, RecordMemory
  <1> QED
    BY <1>4, <1>5, <1>6, <1>7, <1>8, <1>9, <1>10, <1>11, <1>12

\* The beginning, the ways out, the workers and the others.
LEMMA WorkOfTheRest ==
  ASSUME StackPipelineAssumption, TInv, WorkInv,
         \/ Open \/ Interrupted \/ CancelWorkers \/ Finish \/ SchedulerCrash \/ StartAgain \/ OthersAct
         \/ \E m \in Selected : WorkerPushes(m) \/ WorkerRestacks(m) \/ WorkerEnds(m)
  PROVE  WorkInv'
  <1>1. CASE Open
    <2>1. sched.pc = "open" /\ UNCHANGED workers /\ saved'.active = saved.active /\ sched.mine = {}
          /\ (~saved.exists => saved.active = {} /\ \A k \in Selected : workers[k].state = "none")
      BY <1>1, Frames, OpenMemory DEF Open, WorkInv, Between
    <2>2. CASE sched'.pc \in {"finish", "over"}
      <3>1. saved'.exists = saved.exists \/ ~saved.exists
        BY <1>1, OpenMemory
      <3> QED
        BY <2>1, <2>2, <3>1 DEF WorkInv, Between, InCi, Launching, Resting, Leaving, Unsure
    <2>3. CASE sched'.pc = "pass"
      <3>1. ~saved.exists /\ saved'.exists /\ sched'.mine = {}
        BY <1>1, <2>1, <2>3, OpenMemory
      <3> QED
        BY <2>1, <2>3, <3>1 DEF WorkInv, Between, InCi, Launching, Resting, Leaving, Unsure
    <2> QED
      BY <1>1, <2>2, <2>3, OpenMemory
  <1>2. CASE Interrupted
    <2>1. sched.pc \notin Resting
      BY <1>2 DEF Interrupted, Working, Resting
    <2> QED
      BY <1>2, <2>1, Frames, InterruptedMemory, WorkLeaves DEF Quietly, Leaving
  <1>3. CASE Finish \/ SchedulerCrash
    <2>1. sched'.pc \in {"over", "dead"} /\ UNCHANGED <<workers, saved>>
      BY <1>3, Frames, FinishMemory, ForgottenMemory DEF SchedulerCrash, Think, Quietly
    <2> QED
      BY <2>1, WorkLeaves DEF Leaving
  <1>4. CASE CancelWorkers
    <2>1. saved.exists /\ saved'.exists = saved.exists /\ sched'.pc \in {"finish", "dead"}
      BY <1>4, CancelWorkersMemory DEF CancelWorkers, WorkInv, Resting
    <2>2. \A m \in Selected : workers'[m].state = "running" /\ workers'[m].recorded => m \in saved'.active
      <3> TAKE m \in Selected
      <3>1. NoWorker.state = "none"
        BY DEF NoWorker
      <3>2. workers[m].state = "running" /\ workers[m].recorded => m \in saved.active
        BY DEF WorkInv
      <3> QED
        BY <1>4, <3>1, <3>2, CancelWorkersMemory
    <2> QED
      BY <2>1, <2>2 DEF WorkInv, Between, InCi, Launching, Resting, Leaving, Unsure
  <1>5. CASE StartAgain
    <2>1. sched.pc = "dead" /\ sched'.pc = "open" /\ sched'.mine = {} /\ UNCHANGED <<workers, saved>>
      BY <1>5, Frames, StartAgainMemory DEF StartAgain, Quietly
    <2> QED
      BY <2>1 DEF WorkInv, Between, InCi, Launching, Resting, Leaving, Unsure
  <1>6. CASE OthersAct \/ \E m \in Selected : WorkerPushes(m) \/ WorkerRestacks(m)
    <2>1. UNCHANGED <<workers, saved, sched>>
      BY <1>6, Frames
    <2>2. Stage' = Stage /\ \A m \in Selected : First(m)' = First(m)
      BY <2>1 DEF Stage, First
    <2> QED
      BY <2>1, <2>2 DEF WorkInv
  <1>7. CASE \E m \in Selected : WorkerEnds(m)
    <2>1. PICK m \in Selected : WorkerEnds(m)
      BY <1>7
    <2>2. UNCHANGED <<saved, sched>>
      BY <2>1, Frames
    <2>3. Stage' = Stage /\ \A k \in Selected : First(k)' = First(k)
      BY <2>2 DEF Stage, First
    <2>4. /\ workers[m].state = "running" /\ workers'[m].state = "exited"
          /\ \A k \in Selected : k # m => workers'[k] = workers[k]
      BY <2>1, WorkerEndsFacts
    <2>5. \A k \in Selected : /\ workers'[k].state = "running" => workers'[k] = workers[k]
                              /\ workers'[k].state # "none" => workers[k].state # "none"
      BY <2>4
    <2>6. sched.index \in Selected
      BY DEF TInv, Memory
    <2> QED
      BY <2>2, <2>3, <2>5, <2>6 DEF WorkInv
  <1> QED
    BY <1>1, <1>2, <1>3, <1>4, <1>5, <1>6, <1>7

LEMMA WorkKept ==
  ASSUME StackPipelineAssumption, TInv, WorkInv, [StackNext]_stackVars
  PROVE  WorkInv'
  <1>1. CASE UNCHANGED stackVars
    <2>1. UNCHANGED <<workers, saved, sched>>
      BY <1>1 DEF stackVars
    <2>2. Stage' = Stage /\ \A m \in Selected : First(m)' = First(m)
      BY <2>1 DEF Stage, First
    <2> QED
      BY <2>1, <2>2 DEF WorkInv
  <1> QED
    BY <1>1, WorkOfQuietSteps, WorkOfDispatch, WorkOfTheRest DEF StackNext, Schedule

-----------------------------------------------------------------------------
(* The gate between two members *)

LEMMA GateElsewhere ==
  ASSUME \/ sched'.pc \notin {"gate", "pending", "before", "launch"}
         \/ sched'.pc = "launch" /\ Stage' # "ci"
         \/ sched'.pc = "launch" /\ sched'.todo = {}
         \/ sched'.index = Clicked /\ Clicked \in Nat
  PROVE  GateInv'
  BY DEF GateInv

LEMMA GateOfCi ==
  ASSUME StackPipelineAssumption, TInv, WorkInv, GateInv, CiGate \/ Pending \/ Before \/ AfterWorker
  PROVE  GateInv'
  <1>1. sched.index \in Selected /\ sched.index \in Nat /\ Clicked \in Nat
    BY Constants DEF TInv, Memory, Selected, Members
  <1>2. UNCHANGED marks
    BY Frames DEF Quietly
  <1>3. CASE CiGate
    <2>1. sched.pc = "gate" /\ sched'.index = sched.index
      BY <1>3, GateMemory DEF CiGate
    <2>2. CASE sched'.pc = "pending"
      <3>1. ASSUME sched.index > Clicked
            PROVE  Standing'
        <4>1. /\ sched.below.clear /\ sched'.green = sched.green /\ sched'.seen = sched.seen
              /\ marks[sched.index - 1]["ci"].head = sched.seen[sched.index - 1]
              /\ sched.seen[sched.index].on = sched.seen[sched.index - 1].v
          BY <1>1, <1>3, <2>2, <3>1, GateMemory
        <4>2. sched.index - 1 \in sched.green
          BY <2>1, <3>1, <4>1 DEF GateInv
        <4> QED
          BY <1>2, <2>1, <4>1, <4>2 DEF Standing
      <3> QED
        BY <2>1, <2>2, <3>1 DEF GateInv
    <2>3. CASE sched'.pc = "gate"
      <3>1. sched'.green = sched.green /\ (sched'.below.clear => sched.below.clear)
        BY <1>3, <2>3, GateMemory
      <3> QED
        BY <2>1, <2>3, <3>1 DEF GateInv
    <2>4. CASE sched'.pc = "ended"
      BY <2>4, GateElsewhere
    <2> QED
      BY <1>3, <2>2, <2>3, <2>4, GateMemory
  <1>4. CASE Pending
    <2>1. sched.pc = "pending" /\ sched'.index = sched.index
      BY <1>4, PendingMemory DEF Pending
    <2>2. sched.index > Clicked => Standing
      BY <2>1 DEF GateInv
    <2>3. CASE sched'.pc = "before"
      <3>1. sched'.green = sched.green /\ sched'.seen = sched.seen
        BY <1>4, <2>3, PendingMemory
      <3> QED
        BY <1>2, <2>1, <2>2, <2>3, <3>1 DEF GateInv, Standing
    <2>4. CASE sched'.pc = "gate"
      <3>1. sched'.green = sched.green
        BY <1>4, <2>4, PendingMemory
      <3> QED
        BY <2>1, <2>2, <2>4, <3>1 DEF GateInv, Standing
    <2>5. CASE sched'.pc = "ended"
      BY <2>5, GateElsewhere
    <2> QED
      BY <1>4, <2>3, <2>4, <2>5, PendingMemory
  <1>5. CASE Before
    <2>1. sched.pc = "before" /\ sched.mine = {}
      BY <1>5, BetweenFacts DEF Before, Between
    <2>2. sched.index > Clicked => Standing
      BY <2>1 DEF GateInv
    <2>3. CASE sched'.pc = "launch"
      <3>1. sched'.green = sched.green /\ sched'.seen = sched.seen /\ sched'.index = sched.index
        BY <1>5, <2>1, <2>3, BeforeMemory
      <3> QED
        BY <1>2, <2>2, <2>3, <3>1 DEF GateInv, Standing
    <2>4. CASE sched'.pc = "gate"
      <3>1. sched'.index = sched.index + 1 /\ sched.index \in sched'.green
        BY <1>5, <2>1, <2>4, BeforeMemory
      <3>2. sched'.index - 1 = sched.index
        BY <1>1, <3>1
      <3> QED
        BY <2>4, <3>1, <3>2 DEF GateInv
    <2>5. CASE sched'.pc = "ended"
      BY <2>5, GateElsewhere
    <2> QED
      BY <1>5, <2>1, <2>3, <2>4, <2>5, BeforeMemory
  <1>6. CASE AfterWorker
    <2>1. CASE sched'.pc = "gate"
      <3>1. sched'.index = sched.index + 1 /\ (sched'.below.clear => sched.index \in sched'.green)
        BY <1>6, <2>1, AfterWorkerMemory
      <3>2. sched'.index - 1 = sched.index
        BY <1>1, <3>1
      <3> QED
        BY <2>1, <3>1, <3>2 DEF GateInv
    <2>2. CASE sched'.pc = "ended"
      BY <2>2, GateElsewhere
    <2> QED
      BY <1>6, <2>1, <2>2, AfterWorkerMemory
  <1> QED
    BY <1>3, <1>4, <1>5, <1>6

\* While the gate's reading counts, no worker runs.
LEMMA NobodyAtTheGate ==
  ASSUME WorkInv, NEW m \in Selected, workers[m].state = "running"
  PROVE  /\ sched.pc \notin Between
         /\ ~(sched.pc = "launch" /\ Stage = "ci" /\ sched.todo # {})
  <1>1. sched.pc \in Between \cup {"launch"} => m \in saved.active
    BY DEF WorkInv, Between, Leaving, Unsure
  <1>2. sched.pc \notin Between
    BY <1>1 DEF WorkInv
  <1>3. ASSUME sched.pc = "launch", Stage = "ci", sched.todo # {}
        PROVE  FALSE
    <2>1. saved.active \subseteq sched.mine /\ sched.mine \cap sched.todo = {} /\ sched.mine \cup sched.todo = {sched.index}
      BY <1>3 DEF WorkInv, Launching
    <2> QED
      BY <1>1, <1>3, <2>1
  <1> QED
    BY <1>2, <1>3

LEMMA GateKept ==
  ASSUME StackPipelineAssumption, TInv, WorkInv, GateInv, [StackNext]_stackVars
  PROVE  GateInv'
  <1>1. CASE BeginPass \/ PhaseEnded \/ CloseSnapshot \/ JudgeSnapshot \/ \E m \in Selected : Inspect(m)
    <2>1. sched.mine = {}
      BY <1>1, BetweenFacts DEF BeginPass, PhaseEnded, CloseSnapshot, JudgeSnapshot, Inspect, Between
    <2>2. sched'.pc \notin {"gate", "pending", "before", "launch"}
      BY <1>1, <2>1, BeginPassMemory, PhaseEndedMemory, CloseSnapshotMemory, JudgeMemory, InspectMemory
    <2> QED
      BY <2>2, GateElsewhere
  <1>2. CASE \/ Open \/ BaseUnreadable \/ Collected \/ Monitor
           \/ \E m \in Selected : LaunchWorker(m) \/ LaunchFails(m) \/ RecordWorker(m) \/ CollectWorker(m)
    <2>1. sched'.pc \notin {"gate", "pending", "before", "launch"}
      BY <1>2, OpenMemory, BaseUnreadableMemory, CollectedMemory, MonitorMemory, LaunchMemory, LaunchFailsMemory,
         RecordMemory, CollectMemory
    <2> QED
      BY <2>1, GateElsewhere
  <1>3. CASE Interrupted \/ CancelWorkers \/ Finish \/ SchedulerCrash \/ StartAgain
    <2>1. sched'.pc \notin {"gate", "pending", "before", "launch"}
      BY <1>3, InterruptedMemory, CancelWorkersMemory, FinishMemory, ForgottenMemory, StartAgainMemory DEF SchedulerCrash, Think
    <2> QED
      BY <2>1, GateElsewhere
  <1>4. CASE ConflictPhase \/ ParallelPhase
    <2>1. Stage' # "ci" /\ sched'.pc \notin {"gate", "pending", "before"}
      BY <1>4, PhaseMemory, SameStage
    <2> QED
      BY <2>1, GateElsewhere
  <1>5. CASE CiPhase
    <2>1. sched'.index = Clicked /\ Clicked \in Nat
      BY <1>5, CiPhaseMemory, Constants
    <2> QED
      BY <2>1, GateElsewhere
  <1>6. CASE WorkersLaunched
    <2>1. sched'.pc \in {"monitor", "collect"}
      BY <1>6, LaunchedMemory
    <2> QED
      BY <2>1, GateElsewhere
  <1>7. CASE \E m \in Selected : Confirm(m)
    <2>1. PICK m \in Selected : Confirm(m)
      BY <1>7
    <2>2. sched.pc = "confirm" /\ m \in sched.todo /\ Stage' = Stage
      BY <2>1, ConfirmMemory, SameStage DEF Confirm, First
    <2>3. Stage = "ci" => sched.mine \cup sched.todo = {sched.index}
      BY <2>2 DEF WorkInv, Launching
    <2>4. \/ sched'.pc = "collect"
          \/ sched'.pc = "launch" /\ (Stage' # "ci" \/ sched'.todo = {})
      BY <2>1, <2>2, <2>3, ConfirmMemory
    <2> QED
      BY <2>4, GateElsewhere
  <1>8. CASE \E m \in Selected : WorkerPushes(m) \/ WorkerRestacks(m)
    <2>1. UNCHANGED <<sched, marks>>
      BY <1>8, Frames
    <2> QED
      BY <2>1, SameStage DEF GateInv, Standing
  <1>9. CASE \E m \in Selected : WorkerEnds(m)
    <2>1. PICK m \in Selected : WorkerEnds(m)
      BY <1>9
    <2>2. UNCHANGED sched /\ workers[m].state = "running"
      BY <2>1, Frames, WorkerEndsFacts
    <2>3. Stage' = Stage
      BY <2>2, SameStage
    <2>4. sched.pc \notin Between /\ ~(sched.pc = "launch" /\ Stage = "ci" /\ sched.todo # {})
      BY <2>2, NobodyAtTheGate
    <2> QED
      BY <2>2, <2>3, <2>4, GateElsewhere DEF Between
  <1>10. CASE OthersAct
    <2>1. UNCHANGED sched /\ \A m \in Selected, s \in Stages : marks'[m][s].head = marks[m][s].head
      BY <1>10, Frames, OthersFacts
    <2>2. Stage' = Stage /\ Stage \in Stages
      BY <2>1, SameStage, Reading
    <2>3. ASSUME sched.index > Clicked, Stage = "ci", Standing
          PROVE  Standing'
      <3>1. sched.index - 1 \in Selected
        BY <2>3, Constants DEF TInv, Memory, Selected, Members
      <3> QED
        BY <2>1, <2>2, <2>3, <3>1 DEF Standing
    <2>4. sched.pc \in {"pending", "before"} => Stage = "ci"
      BY DEF WorkInv, InCi
    <2> QED
      BY <2>1, <2>2, <2>3, <2>4 DEF GateInv
  <1>11. CASE UNCHANGED stackVars
    <2>1. UNCHANGED <<sched, marks>>
      BY <1>11 DEF stackVars
    <2> QED
      BY <2>1, SameStage DEF GateInv, Standing
  <1> QED
    BY <1>1, <1>2, <1>3, <1>4, <1>5, <1>6, <1>7, <1>8, <1>9, <1>10, <1>11, GateOfCi DEF StackNext, Schedule

-----------------------------------------------------------------------------
(* Pushes carried *)

LEMMA CarryElsewhere ==
  ASSUME \/ sched'.pc \notin InCi \cup Launching \cup {"collect", "ended"}
         \/ sched'.pc \notin InCi /\ Stage' # "ci"
         \/ sched'.pc = "ended" /\ (sched'.stop # "none" \/ sched'.blocked)
         \/ sched'.pc = "collect" /\ sched'.stop = "stopped"
  PROVE  CarryInv'
  BY DEF CarryInv, PushesAreCarried, InCi, Launching

\* The CI phase goes on at the same member.
LEMMA CarryGoesOn ==
  ASSUME TInv, CarryInv, sched.pc \in InCi \/ (sched.pc \in Launching /\ Stage = "ci"),
         sched'.index = sched.index, UNCHANGED pushed,
         \A m \in Selected : saved.carried[m] \subseteq saved'.carried[m],
         sched'.pc \in {"gate", "pending", "launch", "started", "confirm", "monitor"}
  PROVE  CarryInv'
  <1>1. \A m \in Selected : m < sched.index => Behind(m) = {}
    BY DEF CarryInv
  <1>2. \A m \in Selected : m < sched'.index => Behind(m)' = {}
    BY <1>1 DEF Behind
  <1> QED
    BY <1>2 DEF CarryInv, PushesAreCarried, InCi

\* The CI phase is done with a member.
LEMMA CarryMovesUp ==
  ASSUME StackPipelineAssumption, TInv, CarryInv, sched.pc \in InCi, UNCHANGED pushed,
         saved'.carried = saved.carried, Behind(sched.index) = {},
         \/ sched.index = NumMembers /\ sched'.pc = "ended"
         \/ sched'.pc = "gate" /\ sched'.index = sched.index + 1
  PROVE  CarryInv'
  <1>1. \A m \in Selected : m < sched.index => Behind(m) = {}
    BY DEF CarryInv
  <1>2. sched.index \in Nat /\ \A m \in Selected : m \in Nat /\ m <= NumMembers /\ NumMembers \in Nat
    BY Constants DEF TInv, Memory, Selected, Members
  <1>3. \A m \in Selected : m <= sched.index => Behind(m) = {}
    BY <1>1, <1>2
  <1>4. \A m \in Selected : Behind(m)' = Behind(m)
    BY DEF Behind
  <1>5. CASE sched.index = NumMembers /\ sched'.pc = "ended"
    <2>1. \A m \in Selected : Behind(m)' = {}
      BY <1>2, <1>3, <1>4, <1>5
    <2> QED
      BY <1>5, <2>1 DEF CarryInv, PushesAreCarried, InCi, Launching
  <1>6. CASE sched'.pc = "gate" /\ sched'.index = sched.index + 1
    <2>1. \A m \in Selected : m < sched'.index => Behind(m)' = {}
      BY <1>2, <1>3, <1>4, <1>6
    <2> QED
      BY <1>6, <2>1 DEF CarryInv, PushesAreCarried, InCi, Launching
  <1> QED
    BY <1>5, <1>6

LEMMA CarryOfCi ==
  ASSUME StackPipelineAssumption, TInv, WorkInv, CarryInv,
         CiPhase \/ CiGate \/ Pending \/ Before \/ Monitor \/ AfterWorker
  PROVE  CarryInv'
  <1>1. UNCHANGED pushed /\ sched.index \in Selected
    BY Frames DEF Quietly, TInv, Memory
  <1>2. CASE CiPhase
    <2>1. sched'.pc = "gate" /\ sched'.index = Clicked
      BY <1>2, CiPhaseMemory
    <2>2. \A m \in Selected : ~(m < Clicked)
      BY Constants DEF Selected, Members
    <2> QED
      BY <2>1, <2>2 DEF CarryInv, PushesAreCarried, InCi, Launching
  <1>3. CASE CiGate
    <2>1. sched.pc \in InCi /\ sched'.index = sched.index /\ UNCHANGED saved
      BY <1>3, Frames, GateMemory DEF CiGate, InCi
    <2>2. sched'.pc \in {"gate", "pending"} \/ (sched'.pc = "ended" /\ sched'.blocked)
      BY <1>3, GateMemory
    <2> QED
      BY <1>1, <2>1, <2>2, CarryGoesOn, CarryElsewhere
  <1>4. CASE Pending
    <2>1. /\ sched.pc \in InCi /\ sched'.index = sched.index
          /\ \A m \in Selected : saved.carried[m] \subseteq saved'.carried[m]
      BY <1>4, PendingMemory DEF Pending, InCi
    <2>2. CASE sched'.pc = "before"
      <3>1. Behind(sched.index) = {} /\ UNCHANGED saved
        BY <1>4, <2>2, PendingMemory
      <3>2. \A m \in Selected : Behind(m)' = Behind(m) /\ (m < sched.index => Behind(m) = {})
        BY <1>1, <2>1, <3>1 DEF Behind, CarryInv
      <3> QED
        BY <1>1, <2>1, <2>2, <3>1, <3>2 DEF CarryInv, PushesAreCarried, InCi, Launching
    <2>3. CASE sched'.pc # "before"
      <3>1. sched'.pc = "gate" \/ (sched'.pc = "ended" /\ sched'.blocked)
        BY <1>4, <2>3, PendingMemory
      <3> QED
        BY <1>1, <2>1, <3>1, CarryGoesOn, CarryElsewhere
    <2> QED
      BY <2>2, <2>3
  <1>5. CASE Before
    <2>1. sched.pc = "before" /\ sched.mine = {} /\ UNCHANGED saved
      BY <1>5, Frames, BetweenFacts DEF Before, Between, Quietly
    <2>2. sched.pc \in InCi /\ Behind(sched.index) = {}
      BY <2>1 DEF CarryInv, InCi
    <2>3. \/ sched'.pc = "launch" /\ sched'.index = sched.index
          \/ sched.index = NumMembers /\ sched'.pc = "ended"
          \/ sched'.pc = "gate" /\ sched'.index = sched.index + 1
          \/ sched'.pc = "ended" /\ sched'.stop = "blocked"
      BY <1>5, <2>1, BeforeMemory
    <2> QED
      BY <1>1, <2>1, <2>2, <2>3, CarryGoesOn, CarryMovesUp, CarryElsewhere
  <1>6. CASE Monitor
    <2>1. /\ sched.pc \in InCi /\ sched'.index = sched.index
          /\ \A m \in Selected : saved.carried[m] \subseteq saved'.carried[m]
      BY <1>6, MonitorMemory DEF Monitor, InCi
    <2>2. CASE sched'.pc = "monitor"
      BY <1>1, <2>1, <2>2, CarryGoesOn
    <2>3. CASE sched'.pc # "monitor"
      <3>1. sched'.pc = "after" /\ (sched'.failed \/ pushed[sched.index] \subseteq saved'.carried[sched.index])
        BY <1>6, <2>3, MonitorMemory
      <3>2. sched'.failed \/ Behind(sched.index)' = {}
        BY <1>1, <2>1, <3>1 DEF Behind
      <3>3. \A m \in Selected : m < sched'.index => Behind(m)' = {}
        BY <1>1, <2>1 DEF Behind, CarryInv
      <3> QED
        BY <3>1, <3>2, <3>3 DEF CarryInv, PushesAreCarried, InCi, Launching
    <2> QED
      BY <2>2, <2>3
  <1>7. CASE AfterWorker
    <2>1. sched.pc \in InCi /\ saved'.carried = saved.carried
          /\ (sched.failed \/ Behind(sched.index) = {})
      BY <1>7, AfterWorkerMemory DEF AfterWorker, InCi, CarryInv
    <2>2. \/ sched.index = NumMembers /\ sched'.pc = "ended" /\ ~sched.failed
          \/ sched'.pc = "gate" /\ sched'.index = sched.index + 1 /\ ~sched.failed
          \/ sched'.pc = "ended" /\ (sched'.stop # "none" \/ sched'.blocked)
      BY <1>7, AfterWorkerMemory
    <2> QED
      BY <1>1, <2>1, <2>2, CarryMovesUp, CarryElsewhere
  <1> QED
    BY <1>2, <1>3, <1>4, <1>5, <1>6, <1>7

LEMMA CarryOfDispatch ==
  ASSUME StackPipelineAssumption, TInv, WorkInv, CarryInv,
         \/ WorkersLaunched \/ Collected
         \/ \E m \in Selected : LaunchWorker(m) \/ LaunchFails(m) \/ RecordWorker(m) \/ Confirm(m) \/ CollectWorker(m)
  PROVE  CarryInv'
  <1>1. UNCHANGED pushed
    BY Frames DEF Quietly
  <1>2. CASE \E m \in Selected : LaunchWorker(m)
    <2>1. PICK m \in Selected : LaunchWorker(m)
      BY <1>2
    <2>2. /\ sched.pc = "launch" /\ sched'.pc = "started" /\ Stage' = Stage /\ saved'.carried = saved.carried
          /\ sched'.index = sched.index
      BY <2>1, LaunchMemory, SameStage DEF LaunchWorker
    <2> QED
      BY <1>1, <2>2, CarryGoesOn, CarryElsewhere DEF Launching, InCi
  <1>3. CASE \E m \in Selected : Confirm(m)
    <2>1. PICK m \in Selected : Confirm(m)
      BY <1>3
    <2>2. sched.pc = "confirm" /\ Stage' = Stage /\ saved'.carried = saved.carried
      BY <2>1, ConfirmMemory, SameStage DEF Confirm
    <2>3. CASE sched'.pc = "launch"
      <3>1. sched'.index = sched.index
        BY <2>1, <2>3, ConfirmMemory
      <3> QED
        BY <1>1, <2>2, <2>3, <3>1, CarryGoesOn, CarryElsewhere DEF Launching, InCi
    <2>4. CASE sched'.pc # "launch"
      BY <2>1, <2>4, ConfirmMemory, CarryElsewhere
    <2> QED
      BY <2>3, <2>4
  <1>4. CASE \E m \in Selected : CollectWorker(m)
    <2>1. PICK m \in Selected : CollectWorker(m)
      BY <1>4
    <2>2. sched.pc = "collect" /\ Stage' = Stage /\ sched'.pc = "collect" /\ (sched.stop # "none" => sched'.stop = sched.stop)
      BY <2>1, CollectMemory, SameStage DEF CollectWorker
    <2>3. Stage = "ci" => sched'.stop = "stopped"
      BY <2>2 DEF CarryInv
    <2> QED
      BY <2>2, <2>3, CarryElsewhere DEF InCi
  <1>5. CASE WorkersLaunched
    <2>1. /\ sched.pc = "launch" /\ Stage' = Stage /\ sched'.index = sched.index /\ UNCHANGED saved
          /\ sched'.pc = IF Stage = "ci" THEN "monitor" ELSE "collect"
      BY <1>5, Frames, LaunchedMemory, SameStage DEF WorkersLaunched, Quietly
    <2> QED
      BY <1>1, <2>1, CarryGoesOn, CarryElsewhere DEF Launching, InCi
  <1>6. CASE Collected
    <2>1. sched.pc = "collect" /\ Stage' = Stage /\ sched'.pc = "ended" /\ sched'.stop = sched.stop
      BY <1>6, CollectedMemory, SameStage DEF Collected
    <2>2. Stage = "ci" => sched'.stop = "stopped"
      BY <2>1 DEF CarryInv
    <2> QED
      BY <2>1, <2>2, CarryElsewhere DEF InCi
  <1>7. CASE \E m \in Selected : LaunchFails(m)
    <2>1. \/ sched'.pc = "collect" /\ sched'.stop = "stopped"
          \/ sched'.pc = "stopping"
      BY <1>7, LaunchFailsMemory
    <2> QED
      BY <2>1, CarryElsewhere DEF InCi, Launching
  <1>8. CASE \E m \in Selected : RecordWorker(m)
    <2>1. PICK m \in Selected : RecordWorker(m)
      BY <1>8
    <2>2. sched.pc = "started" /\ saved'.carried = saved.carried
      BY <2>1, RecordMemory DEF RecordWorker
    <2>3. CASE sched'.pc = "confirm"
      <3>1. Stage' = Stage /\ sched'.index = sched.index
        BY <2>1, <2>3, RecordMemory, SameStage
      <3> QED
        BY <1>1, <2>2, <2>3, <3>1, CarryGoesOn, CarryElsewhere DEF Launching, InCi
    <2>4. CASE sched'.pc = "stopping"
      BY <2>4, CarryElsewhere DEF InCi, Launching
    <2> QED
      BY <2>1, <2>3, <2>4, RecordMemory
  <1> QED
    BY <1>2, <1>3, <1>4, <1>5, <1>6, <1>7, <1>8

\* A CI worker pushes only while the phase is at its member.
LEMMA CarryOfPush ==
  ASSUME StackPipelineAssumption, TInv, WorkInv, CarryInv, NEW m \in Selected, WorkerPushes(m)
  PROVE  CarryInv'
  <1>1. /\ UNCHANGED <<saved, sched>> /\ workers[m].state = "running"
        /\ \A k \in Selected : pushed'[k] = pushed[k] \/ (k = m /\ workers[m].stage = "ci")
    BY Frames, WorkerPushesFacts
  <1>2. Stage' = Stage
    BY <1>1, SameStage
  <1>3. sched.pc \notin Between /\ (sched.pc \notin Unsure => m \in saved.active)
    BY <1>1, NobodyAtTheGate DEF WorkInv
  <1>4. \A k \in Selected : k # m => Behind(k)' = Behind(k)
    BY <1>1 DEF Behind
  <1>5. sched.pc # "before" /\ sched.pc # "ended" /\ (sched.pc \in InCi => sched.pc \in {"monitor", "after"})
    BY <1>3 DEF Between, InCi
  <1>6. ASSUME sched.pc \in InCi \/ (sched.pc \in Launching /\ Stage = "ci")
        PROVE  m = sched.index
    <2>1. CASE sched.pc \in InCi
      BY <1>3, <1>5, <2>1 DEF WorkInv, Leaving, Unsure
    <2>2. CASE sched.pc = "launch" /\ Stage = "ci"
      BY <1>3, <2>2 DEF WorkInv, Launching, Leaving, Unsure
    <2>3. CASE sched.pc = "confirm" /\ Stage = "ci"
      <3>1. PICK k \in Selected : k \in sched.todo /\ saved.active \subseteq sched.mine \cup {k}
        BY <2>3 DEF WorkInv, First
      <3> QED
        BY <1>3, <2>3, <3>1 DEF WorkInv, Launching, Leaving, Unsure
    <2>4. CASE sched.pc = "started" /\ Stage = "ci"
      <3>1. PICK k \in Selected : k \in sched.todo /\ (m # k => m \in saved.active)
        BY <1>1, <2>4 DEF WorkInv, First
      <3> QED
        BY <2>4, <3>1 DEF WorkInv, Launching
    <2> QED
      BY <1>6, <2>1, <2>2, <2>3, <2>4 DEF Launching
  <1>7. sched.pc # "after"
    <2>1. ASSUME sched.pc = "after"
          PROVE  FALSE
      <3>1. m = sched.index
        BY <1>6, <2>1 DEF InCi
      <3> QED
        BY <1>1, <2>1, <3>1 DEF WorkInv
    <2> QED
      BY <2>1
  <1>8. sched.index \in Nat
    BY Constants DEF TInv, Memory, Selected, Members
  <1>9. sched.pc \in InCi \/ (sched.pc \in Launching /\ Stage = "ci") =>
          \A k \in Selected : k < sched.index => Behind(k)' = {}
    BY <1>4, <1>6, <1>8 DEF CarryInv
  <1> QED
    BY <1>1, <1>2, <1>5, <1>7, <1>9 DEF CarryInv, PushesAreCarried

LEMMA CarryKept ==
  ASSUME StackPipelineAssumption, TInv, WorkInv, CarryInv, [StackNext]_stackVars
  PROVE  CarryInv'
  <1>1. CASE BeginPass \/ PhaseEnded \/ CloseSnapshot \/ JudgeSnapshot \/ \E m \in Selected : Inspect(m)
    <2>1. sched.mine = {}
      BY <1>1, BetweenFacts DEF BeginPass, PhaseEnded, CloseSnapshot, JudgeSnapshot, Inspect, Between
    <2>2. sched'.pc \notin InCi \cup Launching \cup {"collect", "ended"}
      BY <1>1, <2>1, BeginPassMemory, PhaseEndedMemory, CloseSnapshotMemory, JudgeMemory, InspectMemory DEF InCi, Launching
    <2> QED
      BY <2>2, CarryElsewhere
  <1>2. CASE Open \/ Interrupted \/ CancelWorkers \/ Finish \/ SchedulerCrash \/ StartAgain
    <2>1. sched'.pc \notin InCi \cup Launching \cup {"collect", "ended"}
      BY <1>2, OpenMemory, InterruptedMemory, CancelWorkersMemory, FinishMemory, ForgottenMemory, StartAgainMemory
      DEF SchedulerCrash, Think, InCi, Launching
    <2> QED
      BY <2>1, CarryElsewhere
  <1>3. CASE BaseUnreadable
    BY <1>3, BaseUnreadableMemory, CarryElsewhere
  <1>4. CASE ConflictPhase \/ ParallelPhase
    <2>1. Stage' # "ci" /\ sched'.pc \notin InCi
      BY <1>4, PhaseMemory, SameStage DEF InCi
    <2> QED
      BY <2>1, CarryElsewhere
  <1>5. CASE OthersAct \/ UNCHANGED stackVars \/ \E m \in Selected : WorkerRestacks(m) \/ WorkerEnds(m)
    <2>1. UNCHANGED <<sched, pushed, saved>>
      BY <1>5, Frames DEF stackVars
    <2>2. Stage' = Stage /\ \A m : Behind(m)' = Behind(m)
      BY <2>1, SameStage DEF Behind
    <2> QED
      BY <2>1, <2>2 DEF CarryInv, PushesAreCarried
  <1> QED
    BY <1>1, <1>2, <1>3, <1>4, <1>5, CarryOfCi, CarryOfDispatch, CarryOfPush DEF StackNext, Schedule

-----------------------------------------------------------------------------
(* The final snapshot *)

LEMMA SnapElsewhere ==
  ASSUME SnapInv, UNCHANGED outcome,
         \/ sched'.pc \notin {"snap", "snap_close", "snap_judge", "stopping", "finish"}
         \/ sched'.pc \in {"stopping", "finish"} /\ sched'.result # "complete"
  PROVE  SnapInv'
  BY DEF SnapInv

\* A member above the clicked one stands on the head of the member below it.
LEMMA BelowFacts ==
  ASSUME StackPipelineAssumption, TInv, NEW m \in Selected \ {Clicked}
  PROVE  m - 1 \in Selected /\ Tip(m) = live.heads[m - 1].v
  BY Constants DEF Selected, Members, Tip

LEMMA SnapOfReading ==
  ASSUME StackPipelineAssumption, TInv, WorkInv, SnapInv,
         PhaseEnded \/ CloseSnapshot \/ JudgeSnapshot \/ \E m \in Selected : Inspect(m)
  PROVE  SnapInv'
  <1>1. UNCHANGED <<live, outcome>> /\ \A m \in Selected : Tip(m)' = Tip(m)
    BY Frames DEF Quietly, Tip
  <1>2. sched.mine = {}
    BY BetweenFacts DEF PhaseEnded, CloseSnapshot, JudgeSnapshot, Inspect, Between
  <1>3. sched \in Memory /\ sched.snap \in Snapshot
    BY DEF TInv, Memory
  <1>4. \A m \in Selected : live.heads[m].v \in Nat /\ Tip(m) \in Nat
    BY Reading, Constants
  <1>5. CASE PhaseEnded
    <2>1. CASE sched'.pc = "snap"
      <3>1. sched'.snap.heads = LiveHeads /\ sched'.snap.next = Clicked
        BY <1>5, <2>1, PhaseEndedMemory
      <3>2. \A m \in Selected : sched'.snap.heads[m].v = live'.heads[m].v /\ ~(m < Clicked)
        BY <1>1, <3>1, Constants DEF LiveHeads, Selected, Members
      <3>3. \A m \in Selected : sched'.snap.heads[m].v <= live'.heads[m].v
        BY <1>1, <1>4, <3>2
      <3> QED
        BY <1>1, <2>1, <3>1, <3>2, <3>3 DEF SnapInv
    <2>2. CASE sched'.pc # "snap"
      BY <1>1, <1>5, <2>2, PhaseEndedMemory, SnapElsewhere
    <2> QED
      BY <2>1, <2>2
  <1>6. CASE \E m \in Selected : Inspect(m)
    <2>1. PICK m \in Selected : Inspect(m)
      BY <1>6
    <2>2. /\ sched.pc = "snap" /\ m = sched.snap.next /\ sched'.snap.heads = sched.snap.heads
          /\ \A k \in Selected : sched'.snap.bases[k] = IF k = m THEN Tip(m) ELSE sched.snap.bases[k]
      BY <2>1, InspectMemory DEF Inspect
    <2>3. \A k \in Selected : sched'.snap.heads[k].v <= live'.heads[k].v
      BY <1>1, <2>2 DEF SnapInv
    <2>4. \A k \in Selected : k < m => sched.snap.bases[k] <= Tip(k)
      BY <2>2 DEF SnapInv
    <2>5. \A k \in Selected : k <= m => sched'.snap.bases[k] <= Tip(k)
      <3> TAKE k \in Selected
      <3>1. k \in Nat /\ m \in Nat
        BY Constants DEF Selected, Members
      <3> QED
        BY <1>4, <2>2, <2>4, <3>1
    <2>6. CASE sched'.pc = "snap"
      <3>1. sched'.snap.next = m + 1
        BY <2>1, <2>6, InspectMemory
      <3>2. \A k \in Selected : k < m + 1 => k <= m
        BY Constants DEF Selected, Members
      <3>3. \A k \in Selected : k < sched'.snap.next => sched'.snap.bases[k] <= Tip(k)'
        BY <1>1, <2>5, <3>1, <3>2
      <3> QED
        BY <1>1, <2>3, <2>6, <3>3 DEF SnapInv
    <2>7. CASE sched'.pc = "snap_close"
      <3>1. m = NumMembers
        BY <2>1, <2>7, InspectMemory
      <3>2. \A k \in Selected : k <= m
        BY <3>1, Constants DEF Selected, Members
      <3>3. \A k \in Selected : sched'.snap.bases[k] <= Tip(k)'
        BY <1>1, <2>5, <3>2
      <3> QED
        BY <1>1, <2>3, <2>7, <3>3 DEF SnapInv
    <2> QED
      BY <2>1, <2>6, <2>7, InspectMemory
  <1>7. CASE CloseSnapshot
    <2>1. CASE sched'.pc = "snap_judge"
      <3>1. sched'.snap = sched.snap /\ LiveHeads = sched.snap.heads /\ sched.pc = "snap_close"
        BY <1>2, <1>7, <2>1, CloseSnapshotMemory DEF CloseSnapshot
      <3>2. \A m \in Selected : sched.snap.heads[m] = live.heads[m]
        BY <3>1 DEF LiveHeads
      <3>3. \A m \in Selected : sched.snap.heads[m].v <= live.heads[m].v /\ sched.snap.bases[m] <= Tip(m)
        BY <3>1 DEF SnapInv
      <3>4. \A m \in Selected \ {Clicked} : sched.snap.bases[m] <= sched.snap.heads[m - 1].v
        BY <3>2, <3>3, BelowFacts
      <3> QED
        BY <1>1, <2>1, <3>1, <3>3, <3>4 DEF SnapInv
    <2>2. CASE sched'.pc # "snap_judge"
      <3>1. sched'.pc = "pass" \/ (sched'.pc = "finish" /\ sched'.result = "partial")
        BY <1>2, <1>7, <2>2, CloseSnapshotMemory
      <3> QED
        BY <1>1, <3>1, SnapElsewhere
    <2> QED
      BY <2>1, <2>2
  <1>8. CASE JudgeSnapshot
    <2>1. CASE Tips = sched.snap.bases /\ sched'.pc = "finish"
               /\ sched'.snap.bases = sched.snap.bases /\ sched'.snap.heads = sched.snap.heads
      <3>1. sched.pc = "snap_judge"
        BY <1>8 DEF JudgeSnapshot
      <3>2. OneStack(sched.snap)
        <4> SUFFICES ASSUME NEW m \in Selected \ {Clicked}
                     PROVE  sched.snap.bases[m] = sched.snap.heads[m - 1].v
          BY DEF OneStack
        <4>1. m - 1 \in Selected /\ Tip(m) = live.heads[m - 1].v
          BY BelowFacts
        <4>2. sched.snap.bases[m] = live.heads[m - 1].v
          BY <2>1, <4>1 DEF Tips
        <4>3. /\ sched.snap.bases[m] <= sched.snap.heads[m - 1].v
              /\ sched.snap.heads[m - 1].v <= live.heads[m - 1].v
          BY <3>1, <4>1 DEF SnapInv
        <4>4. sched.snap.heads[m - 1].v \in Nat /\ live.heads[m - 1].v \in Nat
          BY <1>3, <1>4, <4>1 DEF Snapshot, Commit
        <4> QED
          BY <4>2, <4>3, <4>4
      <3>3. OneStack(sched'.snap)
        BY <2>1, <3>2 DEF OneStack
      <3> QED
        BY <1>1, <2>1, <3>3 DEF SnapInv
    <2>2. CASE sched'.pc = "pass" \/ (sched'.pc = "finish" /\ sched'.result = "partial")
      BY <1>1, <2>2, SnapElsewhere
    <2> QED
      BY <1>2, <1>8, <2>1, <2>2, JudgeMemory
  <1> QED
    BY <1>5, <1>6, <1>7, <1>8

\* The stack grows under the reader.
LEMMA SnapOfOthers ==
  ASSUME StackPipelineAssumption, TInv, SnapInv, Grows, UNCHANGED <<sched, outcome>>
  PROVE  SnapInv'
  <1>1. sched.snap \in Snapshot
    BY DEF TInv, Memory
  <1>2. \A m \in Selected : /\ sched.snap.heads[m].v \in Nat /\ sched.snap.bases[m] \in Nat
                            /\ live.heads[m].v \in Nat /\ live'.heads[m].v \in Nat
                            /\ live.heads[m].v <= live'.heads[m].v
    BY <1>1, Reading, Constants DEF Snapshot, Commit, Grows, Live
  <1>3. \A m \in Selected : Tip(m) \in Nat /\ Tip(m)' \in Nat /\ Tip(m) <= Tip(m)'
    BY GrowsTips
  <1>4. sched.pc \in {"snap", "snap_close", "snap_judge"} =>
          \A m \in Selected : sched.snap.heads[m].v <= live'.heads[m].v
    BY <1>2 DEF SnapInv
  <1>5. sched.pc = "snap" => \A m \in Selected : m < sched.snap.next => sched.snap.bases[m] <= Tip(m)'
    BY <1>2, <1>3 DEF SnapInv
  <1>6. sched.pc = "snap_close" => \A m \in Selected : sched.snap.bases[m] <= Tip(m)'
    BY <1>2, <1>3 DEF SnapInv
  <1> QED
    BY <1>4, <1>5, <1>6 DEF SnapInv

LEMMA SnapKept ==
  ASSUME StackPipelineAssumption, TInv, WorkInv, SnapInv, [StackNext]_stackVars
  PROVE  SnapInv'
  <1>1. CASE Open
    <2>1. CASE UNCHANGED outcome
      BY <1>1, <2>1, OpenMemory, SnapElsewhere
    <2>2. CASE outcome'.result = "stopped" /\ outcome' # outcome
      <3>1. sched'.pc = "over"
        BY <1>1, <2>2, OpenMemory
      <3> QED
        BY <2>2, <3>1 DEF SnapInv
    <2> QED
      BY <1>1, <2>1, <2>2, OpenMemory
  <1>2. CASE BeginPass \/ ConflictPhase \/ ParallelPhase \/ CiPhase \/ BaseUnreadable
    <2>1. UNCHANGED outcome
      BY <1>2, Frames DEF Quietly
    <2> QED
      BY <1>2, <2>1, BeginPassMemory, PhaseMemory, CiPhaseMemory, BaseUnreadableMemory, SnapElsewhere
  <1>3. CASE \/ WorkersLaunched \/ Collected
             \/ \E m \in Selected : LaunchWorker(m) \/ LaunchFails(m) \/ RecordWorker(m) \/ Confirm(m) \/ CollectWorker(m)
    <2>1. UNCHANGED outcome
      BY <1>3, Frames DEF Quietly
    <2>2. \/ sched'.pc \in {"launch", "started", "confirm", "collect", "monitor", "ended"}
          \/ sched'.pc = "stopping" /\ sched'.result # "complete"
      BY <1>3, LaunchedMemory, CollectedMemory, LaunchMemory, LaunchFailsMemory, RecordMemory, ConfirmMemory, CollectMemory
    <2> QED
      BY <2>1, <2>2, SnapElsewhere
  <1>4. CASE CiGate \/ Pending \/ Monitor \/ AfterWorker \/ Before
    <2>1. UNCHANGED outcome
      BY <1>4, Frames DEF Quietly
    <2>2. Before => sched.mine = {}
      BY BetweenFacts DEF Before, Between
    <2>3. sched'.pc \in {"gate", "pending", "before", "monitor", "after", "launch", "ended"}
      BY <1>4, <2>2, GateMemory, PendingMemory, MonitorMemory, AfterWorkerMemory, BeforeMemory
    <2> QED
      BY <2>1, <2>3, SnapElsewhere
  <1>5. CASE Interrupted \/ SchedulerCrash \/ StartAgain
    <2>1. UNCHANGED outcome
      BY <1>5, Frames DEF Quietly
    <2> QED
      BY <1>5, <2>1, InterruptedMemory, ForgottenMemory, StartAgainMemory, SnapElsewhere DEF SchedulerCrash, Think
  <1>6. CASE CancelWorkers
    <2>1. UNCHANGED outcome
      BY <1>6, Frames
    <2>2. sched.result # "complete"
      BY <1>6 DEF CancelWorkers, SnapInv
    <2> QED
      BY <1>6, <2>1, <2>2, CancelWorkersMemory, SnapElsewhere
  <1>7. CASE Finish
    <2>1. /\ sched.pc = "finish" /\ sched'.pc = "over"
          /\ outcome'.result \in {"error", sched.result} /\ outcome'.snap = sched.snap
      BY <1>7, FinishMemory DEF Finish
    <2>2. sched.result = "complete" => OneStack(sched.snap)
      BY <2>1 DEF SnapInv
    <2>3. outcome'.result = "complete" => OneStack(outcome'.snap)
      BY <2>1, <2>2 DEF OneStack
    <2> QED
      BY <2>1, <2>3 DEF SnapInv
  <1>8. CASE \/ OthersAct \/ UNCHANGED stackVars
             \/ \E m \in Selected : WorkerPushes(m) \/ WorkerRestacks(m) \/ WorkerEnds(m)
    <2>1. UNCHANGED <<sched, outcome>>
      BY <1>8, Frames DEF stackVars
    <2>2. Grows
      BY <1>8, Frames, OthersFacts, WorkerPushesFacts, WorkerRestacksFacts, SameLive DEF stackVars
    <2> QED
      BY <2>1, <2>2, SnapOfOthers
  <1> QED
    BY <1>1, <1>2, <1>3, <1>4, <1>5, <1>6, <1>7, <1>8, SnapOfReading DEF StackNext, Schedule

-----------------------------------------------------------------------------
(* Theorems *)

IInv == TInv /\ WorkInv /\ GateInv /\ CarryInv /\ SnapInv

LEMMA InitHolds ==
  ASSUME StackPipelineAssumption, StackInit
  PROVE  IInv
  <1>1. live \in [heads : [Members -> Commit], trunk : Nat, same : BOOLEAN]
    BY DEF StackInit, Commit
  <1>2. LiveHeads \in [Selected -> Commit]
    BY <1>1, Constants DEF LiveHeads
  <1>3. PICK quiet, heads : quiet = FreshMemory /\ heads = LiveHeads /\ sched = [quiet EXCEPT !.seen = heads]
    BY DEF StackInit
  <1>4. quiet \in Memory /\ quiet.pc = "open" /\ quiet.mine = {} /\ quiet.index = Clicked
    BY <1>3, QuietTypes
  <1>5. sched \in Memory /\ sched.pc = "open" /\ sched.mine = {} /\ sched.index = Clicked
    BY <1>2, <1>3, <1>4 DEF Memory
  <1>6. PICK note : note = NoNote
    OBVIOUS
  <1>7. saved \in RunState /\ saved.active = {} /\ ~saved.exists
    <2>1. note \in Note /\ NoHeads \in [Selected -> Commit]
      BY <1>6, Empty
    <2>2. [s \in {"conflict", "description"} |-> [m \in Selected |-> note]] \in [Noted -> [Selected -> Note]]
      BY <2>1 DEF Noted
    <2>3. PICK heads2, notes : /\ heads2 = NoHeads
                               /\ notes = [s \in {"conflict", "description"} |-> [m \in Selected |-> note]]
      OBVIOUS
    <2>4. saved = [exists |-> FALSE, active |-> {}, carried |-> [m \in Selected |-> {}], auth |-> heads2, notes |-> notes]
      BY <1>6, <2>3 DEF StackInit
    <2> QED
      BY <2>1, <2>2, <2>3, <2>4 DEF RunState
  <1>8. outcome = [result |-> "none", snap |-> NoSnapshot]
    BY DEF StackInit
  <1>9. TInv
    <2>1. marks \in [Selected -> [Stages -> Mark]]
      BY Empty DEF StackInit
    <2>2. native \in [heads : [Selected -> Commit], bases : [Selected -> Nat]]
      BY Empty DEF StackInit
    <2>3. workers \in [Selected -> Worker] /\ trees \in [Selected -> {"absent", "owned", "dirty"}]
          /\ pushed \in [Selected -> SUBSET Nat]
      BY Empty DEF StackInit
    <2>4. outcome \in [result : StackResults \cup {"none"}, snap : Snapshot]
      BY <1>8, Empty
    <2> QED
      BY <1>1, <1>5, <1>7, <2>1, <2>2, <2>3, <2>4 DEF TInv
  <1>10. \A m \in Selected : workers[m].state = "none"
    BY DEF StackInit, NoWorker
  <1>11. WorkInv
    BY <1>5, <1>7, <1>10 DEF WorkInv, Between, InCi, Launching, Resting, Leaving, Unsure
  <1>12. GateInv
    BY <1>5, Constants DEF GateInv
  <1>13. CarryInv
    BY <1>5 DEF CarryInv, PushesAreCarried, InCi, Launching
  <1>14. SnapInv
    BY <1>5, <1>8 DEF SnapInv
  <1> QED
    BY <1>9, <1>11, <1>12, <1>13, <1>14 DEF IInv

LEMMA StepHolds ==
  ASSUME StackPipelineAssumption, IInv, [StackNext]_stackVars
  PROVE  IInv'
  <1>1. sched.pc \in Between => sched.mine = {}
    BY BetweenFacts DEF IInv
  <1> QED
    BY <1>1, TypesKept, WorkKept, GateKept, CarryKept, SnapKept DEF IInv

LEMMA Invariant ==
  ASSUME StackPipelineAssumption
  PROVE  StackSpec => []IInv
  <1>1. StackInit => IInv
    BY InitHolds
  <1>2. IInv /\ [StackNext]_stackVars => IInv'
    BY StepHolds
  <1> QED
    BY <1>1, <1>2, PTL DEF StackSpec

\* Every variable keeps its type: no pass after the second, no phase past the
\* last, no member outside the selection.
THEOREM TypeCorrect ==
  ASSUME StackPipelineAssumption
  PROVE  StackSpec => []StackTypeOK
  <1>1. TInv => StackTypeOK
    BY Constants DEF TInv, StackTypeOK, Mark, Worker, RunState, Memory
  <1>2. IInv => StackTypeOK
    BY <1>1 DEF IInv
  <1> QED
    BY <1>2, Invariant, PTL

\* Who begins to run was launched just now.
LEMMA NewWorker ==
  ASSUME StackPipelineAssumption, TInv, [StackNext]_stackVars, NEW m \in Selected,
         workers'[m].state = "running", workers[m].state # "running"
  PROVE  LaunchWorker(m)
  <1>1. NoWorker.state = "none" /\ workers'[m] # workers[m]
    BY DEF NoWorker
  <1>2. PICK k \in Selected : LaunchWorker(k) \/ WorkerEnds(k)
    <2>1. ~UNCHANGED workers
      BY <1>1
    <2>2. /\ ~CancelWorkers /\ ~AfterWorker
          /\ \A k \in Selected : ~Confirm(k) /\ ~CollectWorker(k) /\ ~RecordWorker(k)
      BY <1>1, CancelWorkersMemory, AfterWorkerMemory, ConfirmMemory, CollectMemory, RecordMemory
    <2> QED
      BY <2>1, <2>2, Frames, LaunchFailsMemory DEF StackNext, Schedule, stackVars, Quietly
  <1>3. CASE WorkerEnds(k)
    BY <1>1, <1>3, WorkerEndsFacts
  <1>4. CASE LaunchWorker(k)
    <2>1. k = m
      BY <1>1, <1>4, LaunchMemory
    <2> QED
      BY <1>4, <2>1
  <1> QED
    BY <1>2, <1>3, <1>4

\* No two workers on one pull request, through every crash and second start.
THEOREM WorkersAreAlone ==
  ASSUME StackPipelineAssumption
  PROVE  StackSpec => OneWorkerPerMember
  <1>1. IInv /\ [StackNext]_stackVars => [AloneOnMember]_stackVars
    <2> SUFFICES ASSUME IInv, [StackNext]_stackVars, NEW m \in Selected,
                        workers'[m].state = "running", workers[m].state # "running"
                 PROVE  m \notin saved.active /\ workers[m].state = "none"
      BY DEF AloneOnMember
    <2>1. LaunchWorker(m) /\ WorkInv
      BY NewWorker DEF IInv
    <2>2. sched.pc = "launch" /\ m \in sched.todo
      BY <2>1 DEF LaunchWorker, First
    <2>3. m \notin saved.active
      BY <2>1, <2>2 DEF WorkInv, Launching
    <2>4. workers[m].state = "none"
      BY <2>1, <2>2, <2>3 DEF WorkInv, Leaving, Unsure
    <2> QED
      BY <2>3, <2>4
  <1> QED
    BY <1>1, Invariant, PTL DEF StackSpec, OneWorkerPerMember

\* A CI worker is started only on a green member below, and on a head that
\* stands on the very head that was cleared.
THEOREM RepairsGoBottomUp ==
  ASSUME StackPipelineAssumption
  PROVE  StackSpec => BottomUp
  <1>1. IInv /\ [StackNext]_stackVars => [OnGreen]_stackVars
    <2> SUFFICES ASSUME IInv, [StackNext]_stackVars, NEW m \in Selected \ {Clicked},
                        workers'[m].state = "running", workers[m].state # "running", workers'[m].stage = "ci"
                 PROVE  m - 1 \in sched.green /\ marks[m - 1]["ci"].head.v = workers'[m].head.on
      BY DEF OnGreen
    <2>1. LaunchWorker(m) /\ TInv /\ WorkInv /\ GateInv
      BY NewWorker DEF IInv
    <2>2. sched.pc = "launch" /\ m \in sched.todo
      BY <2>1 DEF LaunchWorker, First
    <2>3. workers'[m].head = sched.seen[m] /\ Stage = "ci"
      BY <2>1, LaunchMemory
    <2>4. m = sched.index
      BY <2>1, <2>2, <2>3 DEF WorkInv, Launching
    <2>5. sched.index > Clicked
      BY <2>4, Constants DEF Selected, Members
    <2>6. Standing
      BY <2>1, <2>2, <2>3, <2>5 DEF GateInv
    <2> QED
      BY <2>3, <2>4, <2>6 DEF Standing
  <1> QED
    BY <1>1, Invariant, PTL DEF StackSpec, BottomUp

\* A CI phase that is neither blocked nor stopped leaves no push behind.
THEOREM EveryPushIsCarried ==
  ASSUME StackPipelineAssumption
  PROVE  StackSpec => []PushesAreCarried
  <1>1. IInv => PushesAreCarried
    BY DEF IInv, CarryInv
  <1> QED
    BY <1>1, Invariant, PTL

\* Complete means one consistent stack, whatever moved while it was read.
THEOREM CompleteStackIsOne ==
  ASSUME StackPipelineAssumption
  PROVE  StackSpec => []CompleteIsOneStack
  <1>1. IInv => CompleteIsOneStack
    BY DEF IInv, SnapInv, OneStack, CompleteIsOneStack
  <1> QED
    BY <1>1, Invariant, PTL

\* No worktree is removed from under a worker whose start was recorded.
THEOREM WorktreesInUseStay ==
  ASSUME StackPipelineAssumption
  PROVE  StackSpec => WorktreeInUseIsKept
  <1>1. IInv /\ [StackNext]_stackVars => [NotInUse]_stackVars
    <2> SUFFICES ASSUME IInv, [StackNext]_stackVars, NEW m \in Selected, trees[m] # "absent", trees'[m] = "absent"
                 PROVE  ~(workers[m].state = "running" /\ workers[m].recorded)
      BY DEF NotInUse
    <2>1. TInv /\ WorkInv
      BY DEF IInv
    <2>2. Finish
      <3>1. ~UNCHANGED trees
        OBVIOUS
      <3>2. \A k \in Selected : ~LaunchWorker(k) /\ ~LaunchFails(k) /\ ~WorkerEnds(k)
        BY <2>1, LaunchMemory, LaunchFailsMemory, WorkerEndsFacts
      <3> QED
        BY <3>1, <3>2, Frames DEF StackNext, Schedule, stackVars, Quietly
    <2>3. m \notin saved.active
      BY <2>1, <2>2, FinishMemory
    <2> QED
      BY <2>1, <2>3 DEF WorkInv
  <1> QED
    BY <1>1, Invariant, PTL DEF StackSpec, WorktreeInUseIsKept

=============================================================================
