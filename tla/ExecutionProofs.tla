-------------------------- MODULE ExecutionProofs ---------------------------
(***************************************************************************)
(* Theorems about Execution and ExecutionControls, for every tree of       *)
(* processes, on both systems, and for any number of processes that die:   *)
(* types and cancellation; what a sealed result says of the tree below its *)
(* controller; and what the session that started a run may rely on.        *)
(***************************************************************************)
EXTENDS ExecutionControls, TLAPS

(* The tree of processes.  TreeAssumption admits induction from the root   *)
(* down; what follows from it is all that is needed of the tree.           *)
LEMMA AncTransitive == \A c \in Node : \A b \in Anc[c] : Anc[b] \subseteq Anc[c]
<1> DEFINE tree == {c \in Node : \A b \in Anc[c] : Anc[b] \subseteq Anc[c]}
<1>1. Root \in tree
  BY NodeAssumption, TreeAssumption
<1>2. ASSUME NEW c \in Node \ {Root}, Parent[c] \in tree PROVE c \in tree
  BY <1>2, TreeAssumption
<1>3. tree = Node
  <2>1. tree \in SUBSET Node
    OBVIOUS
  <2> HIDE DEF tree
  <2> QED BY <1>1, <1>2, <2>1, TreeAssumption
<1> QED BY <1>3

LEMMA AncAcyclic == \A c \in Node : c \notin Anc[c]
<1> DEFINE tree == {c \in Node : c \notin Anc[c]}
<1>1. Root \in tree
  BY NodeAssumption, TreeAssumption
<1>2. ASSUME NEW c \in Node \ {Root}, Parent[c] \in tree PROVE c \in tree
  <2>1. Anc[c] = {Parent[c]} \cup Anc[Parent[c]] /\ Parent[c] \in Node
    BY NodeAssumption, TreeAssumption
  <2>2. Parent[c] \notin Anc[Parent[c]]
    BY <1>2
  <2>3. c \in Anc[Parent[c]] => Anc[c] \subseteq Anc[Parent[c]]
    BY <2>1, AncTransitive
  <2> QED BY <2>1, <2>2, <2>3
<1>3. tree = Node
  <2>1. tree \in SUBSET Node
    OBVIOUS
  <2> HIDE DEF tree
  <2> QED BY <1>1, <1>2, <2>1, TreeAssumption
<1> QED BY <1>3

LEMMA AncControllers == \A c \in Node : Anc[c] \subseteq Controllers
<1> DEFINE tree == {c \in Node : Anc[c] \subseteq Controllers}
<1>1. Root \in tree
  BY NodeAssumption, TreeAssumption
<1>2. ASSUME NEW c \in Node \ {Root}, Parent[c] \in tree PROVE c \in tree
  BY <1>2, TreeAssumption
<1>3. tree = Node
  <2>1. tree \in SUBSET Node
    OBVIOUS
  <2> HIDE DEF tree
  <2> QED BY <1>1, <1>2, <2>1, TreeAssumption
<1> QED BY <1>3

LEMMA RootAbove == \A c \in Node \ {Root} : Root \in Anc[c]
<1> DEFINE tree == {c \in Node : c = Root \/ Root \in Anc[c]}
<1>1. Root \in tree
  BY NodeAssumption
<1>2. ASSUME NEW c \in Node \ {Root}, Parent[c] \in tree PROVE c \in tree
  BY <1>2, TreeAssumption
<1>3. tree = Node
  <2>1. tree \in SUBSET Node
    OBVIOUS
  <2> HIDE DEF tree
  <2> QED BY <1>1, <1>2, <2>1, TreeAssumption
<1> QED BY <1>3

(* Between a node and one above it there is a child of the upper one.      *)
LEMMA Branch ==
  \A c \in Node : \A n \in Anc[c] :
    \E b \in {c} \cup Anc[c] : b \in Node \ {Root} /\ Parent[b] = n
<1> DEFINE tree == {c \in Node : \A n \in Anc[c] :
                      \E b \in {c} \cup Anc[c] : b \in Node \ {Root} /\ Parent[b] = n}
<1>1. Root \in tree
  BY NodeAssumption, TreeAssumption
<1>2. ASSUME NEW c \in Node \ {Root}, Parent[c] \in tree PROVE c \in tree
  BY <1>2, TreeAssumption
<1>3. tree = Node
  <2>1. tree \in SUBSET Node
    OBVIOUS
  <2> HIDE DEF tree
  <2> QED BY <1>1, <1>2, <2>1, TreeAssumption
<1> QED BY <1>3

LEMMA UnderFacts ==
  ASSUME NEW n \in Node
  PROVE  /\ Under(n) \subseteq Node \ {Root}
         /\ n \notin Under(n)
         /\ \A m \in Under(n) : Under(m) \subseteq Under(n)
         /\ \A m \in Under(n) : Parent[m] = n \/ Parent[m] \in Under(n)
         /\ \A m \in Node \ {Root} : Parent[m] = n \/ Parent[m] \in Under(n) => m \in Under(n)
         /\ n \notin Controllers => Under(n) = {}
<1> USE NodeAssumption, TreeAssumption
<1>1. Under(n) \subseteq Node \ {Root}
  BY DEF Under
<1>2. n \notin Under(n)
  BY AncAcyclic DEF Under
<1>3. \A m \in Under(n) : Under(m) \subseteq Under(n)
  BY AncTransitive DEF Under
<1>4. \A m \in Under(n) : Parent[m] = n \/ Parent[m] \in Under(n)
  BY <1>1 DEF Under
<1>5. \A m \in Node \ {Root} : Parent[m] = n \/ Parent[m] \in Under(n) => m \in Under(n)
  BY DEF Under
<1>6. n \notin Controllers => Under(n) = {}
  BY AncControllers DEF Under
<1> QED BY <1>1, <1>2, <1>3, <1>4, <1>5, <1>6

LEMMA ParentIsOther == \A c \in Node \ {Root} : Parent[c] \in Node /\ Parent[c] # c
BY AncAcyclic, NodeAssumption, TreeAssumption

-----------------------------------------------------------------------------
(* Facts about the ends of processes, of which every action that ends one  *)
(* makes use.                                                              *)
LEMMA LostType ==
  ASSUME NEW S, NEW memory \in [Node -> S], NEW empty \in S, NEW n, NEW gone
  PROVE  Lost(memory, n, gone, empty) \in [Node -> S]
BY DEF Lost

LEMMA EndType ==
  ASSUME TypeOK, NEW n \in Node, NEW gone,
         NEW code \in {NoCode, Killed, 0, 1, 130}, End(n, code, gone)
  PROVE  /\ pc' \in [Node -> ControllerPC]
         /\ exit' \in [Node -> {NoCode, Killed, 0, 1, 130}]
         /\ children' \in [Node -> SUBSET Node]
         /\ draft' \in [Node -> Results]
         /\ lock' \in Node \cup {Free, Canceller}
         /\ strays' \subseteq Node
<1>1. pc' \in [Node -> ControllerPC]
  <2>1. "halted" \in ControllerPC
    BY DEF ControllerPC
  <2> QED BY <2>1, LostType DEF End, TypeOK
<1>2. exit' \in [Node -> {NoCode, Killed, 0, 1, 130}]
  <2>1. Lost(exit, n, gone, Killed) \in [Node -> {NoCode, Killed, 0, 1, 130}]
    BY LostType DEF TypeOK
  <2> QED BY <2>1 DEF End
<1>3. children' \in [Node -> SUBSET Node]
  BY LostType DEF End, TypeOK
<1>4. draft' \in [Node -> Results]
  <2>1. NoResult \in Results
    BY DEF NoResult, Results
  <2> QED BY <2>1, LostType DEF End, TypeOK
<1> QED BY <1>1, <1>2, <1>3, <1>4 DEF End, TypeOK

(* The values finish computes have the types their variables have.         *)
LEMMA MemType == NoMem \in Mems
BY DEF NoMem, Mems

LEMMA ErrType ==
  ASSUME NEW memory \in [Node -> Mems], NEW n \in Node,
         NEW e \in SUBSET {"drainage", "forced", "evidence"}
  PROVE  [memory EXCEPT ![n].err = e] \in [Node -> Mems]
BY DEF Mems

LEMMA AddErrorType ==
  ASSUME TypeOK, NEW n \in Node, NEW e \in SUBSET {"drainage", "forced", "evidence"},
         AddError(n, e)
  PROVE  mem' \in [Node -> Mems]
<1>1. mem[n].err \cup e \in SUBSET {"drainage", "forced", "evidence"}
  BY DEF TypeOK, Mems
<1>2. mem' = [mem EXCEPT ![n].err = mem[n].err \cup e]
  BY DEF AddError
<1> QED BY <1>1, <1>2, ErrType DEF TypeOK

LEMMA PayloadType ==
  ASSUME TypeOK, NEW n \in Node
  PROVE  Payload(n) \in Results /\ Errors(n) \in SUBSET {"drainage", "forced", "evidence"}
<1>1. mem[n].code \in {NoCode, 0, 1, 130} /\ mem[n].cancelled \in BOOLEAN
      /\ mem[n].waiting \in BOOLEAN
      /\ mem[n].err \in SUBSET {"drainage", "forced", "evidence"}
  BY DEF TypeOK, Mems
<1>2. Errors(n) \in SUBSET {"drainage", "forced", "evidence"}
  BY <1>1 DEF Errors
<1>3. Payload(n) \in Results
  BY <1>1, <1>2 DEF Payload, Results, TerminalStatus
<1> QED BY <1>2, <1>3

LEMMA OverriddenType ==
  ASSUME TypeOK, NEW n \in Node
  PROVE  Overridden(n) \in Results
<1>1. draft[n] \in Results
  BY DEF TypeOK
<1> QED BY <1>1 DEF Overridden, Results, TerminalStatus

LEMMA OverriddenStatus ==
  ASSUME TypeOK, NEW n \in Node
  PROVE  Overridden(n).status \in {"cancelled_local", "failed"}
<1>1. draft[n] \in [code : {NoCode, 0, 1, 130}, status : TerminalStatus \cup {"none"},
                    drained : BOOLEAN, remoteMay : BOOLEAN, pending : BOOLEAN]
  BY DEF TypeOK, Results
<1> DEFINE d == draft[n]
           clean == mem[n].err \cap {"drainage", "evidence"} = {}
<1>2. Overridden(n).status = IF clean THEN "cancelled_local" ELSE "failed"
  <2>1. Overridden(n) = [d EXCEPT !.code = IF clean THEN 130 ELSE 1,
                           !.status = IF clean THEN "cancelled_local" ELSE "failed",
                           !.remoteMay = TRUE]
    BY DEF Overridden
  <2> HIDE DEF clean, d
  <2>2. d \in [code : {NoCode, 0, 1, 130}, status : TerminalStatus \cup {"none"},
               drained : BOOLEAN, remoteMay : BOOLEAN, pending : BOOLEAN]
    BY <1>1 DEF d
  <2> QED BY <2>1, <2>2
<1> QED BY <1>2

LEMMA ToFinishType ==
  ASSUME TypeOK, NEW n \in Node, NEW code \in {0, 1, 130},
         NEW cancelled \in BOOLEAN, NEW waiting \in BOOLEAN,
         ToFinish(n, code, cancelled, waiting), UNCHANGED lock,
         receipt' = receipt \/ \E c \in Node : receipt' = [receipt EXCEPT ![c] = "launch_failed"]
  PROVE  TypeOK'
<1>1. [code |-> code, cancelled |-> cancelled, waiting |-> waiting, err |-> {}] \in Mems
  BY DEF Mems
<1>2. mem' \in [Node -> Mems]
  BY <1>1 DEF ToFinish, TypeOK
<1>3. pc' \in [Node -> ControllerPC]
  BY DEF ToFinish, Goto, TypeOK, ControllerPC, Ending
<1> QED BY <1>2, <1>3 DEF ToFinish, TypeOK, hosted

-----------------------------------------------------------------------------
LEMMA InitType == Init => TypeOK
<1> SUFFICES ASSUME Init PROVE TypeOK
  OBVIOUS
<1>1. NoResult \in Results /\ NoMem \in Mems
  BY DEF NoResult, Results, NoMem, Mems
<1>2. "boot" \in ControllerPC /\ "absent" \in ControllerPC
  BY DEF ControllerPC
<1>3. 0 \in 0..MaxCrashes
  BY BoundAssumption
<1> QED BY <1>1, <1>2, <1>3 DEF Init, TypeOK

LEMMA NextType == TypeOK /\ [Next]_vars => TypeOK'
<1> SUFFICES ASSUME TypeOK, [Next]_vars PROVE TypeOK'
  OBVIOUS
<1> USE NodeAssumption, BoundAssumption
<1>1. ASSUME NEW n \in Controllers, StartUp(n) PROVE TypeOK'
  <2>0. n \in Node
    OBVIOUS
  <2>1. CASE Boot(n)
    BY <2>0, <2>1 DEF Boot, Goto, TypeOK, hosted, ControllerPC
  <2>2. CASE BootFails(n)
    BY <2>0, <2>2, EndType DEF BootFails, TypeOK, hosted
  <2>3. CASE Ready(n)
    BY <2>0, <2>3 DEF Ready, Goto, TypeOK, hosted, ControllerPC
  <2> QED BY <1>1, <2>1, <2>2, <2>3 DEF StartUp
<1>2. ASSUME NEW n \in Controllers, Work(n) PROVE TypeOK'
  <2>0. n \in Node
    OBVIOUS
  <2>1. ASSUME NEW waiting \in BOOLEAN, Return(n, waiting) PROVE TypeOK'
    BY <2>0, <2>1, ToFinishType DEF Return
  <2>2. CASE Fail(n)
    BY <2>0, <2>2, ToFinishType DEF Fail
  <2>3. ASSUME NEW c \in Node, Admit(n, c) PROVE TypeOK'
    BY <2>0, <2>3 DEF Admit, Goto, TypeOK, hosted, ControllerPC, Launching
  <2>4. ASSUME NEW c \in Node, Collect(n, c) PROVE TypeOK'
    BY <2>0, <2>4 DEF Collect, Drainage, TypeOK, hosted
  <2>5. ASSUME NEW c \in Node, Terminate(n, c) PROVE TypeOK'
    <3> DEFINE gone == IF IsWindows THEN Under(c) \cup {c} ELSE {}
    <3>1. End(c, Killed, gone)
      BY <2>5 DEF Terminate
    <3>2. Lost(mem, c, gone, NoMem) \in [Node -> Mems]
      BY MemType, LostType DEF TypeOK
    <3>3. mem' \in [Node -> Mems]
      <4> DEFINE before == Lost(mem, c, gone, NoMem)
      <4>1. mem' = [before EXCEPT ![n].err =
                     IF pc[n] = "finish" /\ ~mem[n].cancelled THEN @ \cup {"drainage"} ELSE @]
        BY <2>5 DEF Terminate
      <4>2. before \in [Node -> Mems]
        BY <3>2
      <4> HIDE DEF before
      <4> QED BY <4>1, <4>2, <2>0 DEF Mems
    <3> HIDE DEF gone
    <3> QED BY <2>5, <3>1, <3>3, EndType DEF Terminate, TypeOK, hosted
  <2> QED BY <1>2, <2>1, <2>2, <2>3, <2>4, <2>5 DEF Work
<1>3. ASSUME NEW n \in Controllers, Stop(n) PROVE TypeOK'
  <2>1. CASE StopOnCancel(n)
    BY <2>1, ToFinishType DEF StopOnCancel
  <2>2. CASE StopOnOrphan(n)
    BY <2>2, ToFinishType DEF StopOnOrphan
  <2> QED BY <1>3, <2>1, <2>2 DEF Stop
<1>4. ASSUME NEW n \in Controllers, Launch(n) PROVE TypeOK'
  <2>0. n \in Node
    OBVIOUS
  <2>1. CASE Acquire(n)
    BY <2>0, <2>1 DEF Acquire, Goto, TypeOK, hosted, ControllerPC, Launching
  <2>2. ASSUME NEW c \in Node, LaunchAborted(n, c) PROVE TypeOK'
    BY <2>0, <2>2 DEF LaunchAborted, Goto, TypeOK, hosted, ControllerPC
  <2>3. ASSUME NEW c \in Node, Refused(n, c) PROVE TypeOK'
    <3>1. CASE OwnersAlive(n)
      BY <2>0, <2>3, <3>1, ToFinishType DEF Refused
    <3>2. CASE ~OwnersAlive(n)
      BY <2>0, <2>3, <3>2 DEF Refused, Goto, TypeOK, hosted, ControllerPC
    <3> QED BY <3>1, <3>2
  <2>4. ASSUME NEW c \in Node, Popen(n, c) PROVE TypeOK'
    BY <2>0, <2>4 DEF Popen, TypeOK, hosted, ControllerPC, Launching
  <2>5. ASSUME NEW c \in Node, Bind(n, c) PROVE TypeOK'
    BY <2>0, <2>5 DEF Bind, Goto, TypeOK, hosted, ControllerPC
  <2>6. ASSUME NEW c \in Node, BindFails(n, c) PROVE TypeOK'
    BY <2>0, <2>6 DEF BindFails, TypeOK, hosted, ControllerPC
  <2>7. ASSUME NEW c \in Node, BindFailsUndrained(n, c) PROVE TypeOK'
    BY <2>0, <2>7 DEF BindFailsUndrained, Goto, TypeOK, hosted, ControllerPC
  <2> QED BY <1>4, <2>1, <2>2, <2>3, <2>4, <2>5, <2>6, <2>7 DEF Launch
<1>5. ASSUME NEW n \in Controllers, Conclude(n) PROVE TypeOK'
  <2>0. n \in Node
    OBVIOUS
  <2>1. ASSUME NEW c \in Node, Settle(n, c) PROVE TypeOK'
    <3>1. mem' \in [Node -> Mems]
      BY <2>0, <2>1, AddErrorType DEF Settle
    <3> QED BY <2>0, <2>1, <3>1 DEF Settle, Drainage, TypeOK, hosted
  <2>2. ASSUME NEW c \in Node, SettleMissed(n, c) PROVE TypeOK'
    <3>1. mem' \in [Node -> Mems]
      BY <2>0, <2>2, AddErrorType DEF SettleMissed
    <3> QED BY <2>0, <2>2, <3>1 DEF SettleMissed, TypeOK, hosted
  <2>3. CASE Judge(n)
    <3>1. mem' \in [Node -> Mems]
      BY <2>0, <2>3, PayloadType, ErrType DEF Judge, TypeOK
    <3> QED BY <2>0, <2>3, <3>1, PayloadType DEF Judge, Goto, TypeOK, hosted, ControllerPC, Ending
  <2>4. CASE Gate(n)
    BY <2>0, <2>4, OverriddenType DEF Gate, Goto, TypeOK, hosted, ControllerPC, Ending
  <2>5. CASE WriteResult(n)
    BY <2>0, <2>5 DEF WriteResult, Goto, TypeOK, hosted, ControllerPC, Ending
  <2>6. CASE Seal(n)
    BY <2>0, <2>6 DEF Seal, Goto, TypeOK, hosted, ControllerPC, Ending, Results
  <2>7. CASE Leave(n)
    <3>1. draft[n].code \in {NoCode, Killed, 0, 1, 130}
      BY <2>0 DEF TypeOK, Results
    <3>2. mem' \in [Node -> Mems]
      BY <2>7, MemType, LostType DEF Leave, TypeOK
    <3> QED BY <2>0, <2>7, <3>1, <3>2, EndType DEF Leave, TypeOK, hosted
  <2> QED BY <1>5, <2>1, <2>2, <2>3, <2>4, <2>5, <2>6, <2>7 DEF Conclude
<1>6. ASSUME NEW n \in Dispatchers, Hosted(n) PROVE TypeOK'
  BY <1>6 DEF Hosted, RecordCreating, Post, Observe, RemoteEnds, TypeOK
<1>7. CASE Environment
  <2>1. CASE CancelAdmit
    BY <2>1 DEF CancelAdmit, TypeOK, hosted
  <2>5. CASE CancelWrite
    BY <2>5 DEF CancelWrite, TypeOK, hosted
  <2>6. CASE CancellerDies
    BY <2>6 DEF CancellerDies, TypeOK, hosted
  <2>2. ASSUME NEW n \in Node, Crash(n) PROVE TypeOK'
    <3>1. mem' \in [Node -> Mems]
      BY <2>2, MemType, LostType DEF Crash, TypeOK
    <3> QED BY <2>2, <3>1, EndType DEF Crash, TypeOK, hosted
  <2>3. ASSUME NEW n \in Node, NEW leaves \in BOOLEAN, CommandExits(n, leaves) PROVE TypeOK'
    BY <2>3 DEF CommandExits, TypeOK, hosted, ControllerPC
  <2>4. ASSUME NEW n \in Node, StrayExits(n) PROVE TypeOK'
    BY <2>4 DEF StrayExits, TypeOK, hosted
  <2> QED BY <1>7, <2>1, <2>2, <2>3, <2>4, <2>5, <2>6 DEF Environment
<1>8. CASE Over
  BY <1>8 DEF Over, vars, hosted, TypeOK
<1>9. CASE UNCHANGED vars
  BY <1>9 DEF vars, TypeOK
<1> QED BY <1>1, <1>2, <1>3, <1>4, <1>5, <1>6, <1>7, <1>8, <1>9 DEF Next

(* Every variable of a run keeps the range of the file or attribute it     *)
(* stands for, whatever the tree and however many processes die.           *)
THEOREM TypeCorrect == Spec => []TypeOK
BY InitType, NextType, PTL DEF Spec

-----------------------------------------------------------------------------
(***************************************************************************)
(* Cancellation.  The request and everything it must fence are ordered by  *)
(* the guard, so the inductive invariant says who holds it (LockInv), that *)
(* a launch is of a process that does not exist yet (LaunchInv), and what  *)
(* the holder of the guard has found about the request (FenceInv).         *)
(***************************************************************************)
LockInv ==
  /\ \A n \in Node : pc[n] \in {"popen", "bind", "write", "seal"} => lock = n
  /\ canceller = "write" => lock = Canceller

LaunchOf(c) ==
  /\ receipt[c] = "none" => pc[c] = "absent"
  /\ receipt[c] = "admitted" =>
       /\ pc[Parent[c]] \in Launching \cup {"halted"}
       /\ pc[Parent[c]] \in {"admit", "popen"} => pc[c] = "absent"
       /\ pc[Parent[c]] = "bind" => pc[c] # "absent"
       /\ pc[Parent[c]] \in Launching =>
            \A d \in Node \ {Root} :
              Parent[d] = Parent[c] /\ receipt[d] = "admitted" => d = c

LaunchInv == \A c \in Node \ {Root} : LaunchOf(c)

FenceInv ==
  /\ \A n \in Node :
       /\ pc[n] = "popen" => ~cancel
       /\ pc[n] = "write" /\ draft[n].status = "finished" => ~cancel
       /\ pc[n] = "seal" => result[n] = draft[n]
       /\ result[n].status = "finished" =>
            /\ pc[n] \in {"seal", "leave", "halted"}
            /\ pc[n] = "leave" => handle[n] = "finished"
  /\ canceller = "write" => result[Root].status # "finished"
  /\ cancel => result[Root].status # "finished"

CancelInv == TypeOK /\ LockInv /\ LaunchInv /\ FenceInv

LEMMA InitCancel == Init => CancelInv
<1> SUFFICES ASSUME Init PROVE CancelInv
  OBVIOUS
<1>1. TypeOK
  BY InitType
<1>2. LockInv
  BY DEF Init, LockInv
<1>3. LaunchInv
  BY DEF Init, LaunchInv, LaunchOf
<1>4. FenceInv
  BY DEF Init, FenceInv, NoResult
<1> QED BY <1>1, <1>2, <1>3, <1>4 DEF CancelInv

(* What the end of processes does to the variables of CancelInv.           *)
LEMMA EndEffect ==
  ASSUME TypeOK, NEW n \in Node, Alive(n), NEW gone \in SUBSET Node, NEW code,
         End(n, code, gone)
  PROVE  /\ \A m \in Node : \/ pc'[m] = pc[m] /\ draft'[m] = draft[m]
                            \/ pc'[m] = "halted" /\ Alive(m)
         /\ \/ lock' = lock
            \/ lock' = Free /\ lock \in Node /\ pc'[lock] = "halted"
<1>1. \A m \in Node : m \notin Dead(n, gone) => pc'[m] = pc[m] /\ draft'[m] = draft[m]
  BY DEF End, Lost
<1>2. \A m \in Node : m \in Dead(n, gone) => pc'[m] = "halted" /\ Alive(m)
  BY DEF End, Lost, Dead
<1>3. lock' = lock \/ (lock' = Free /\ lock \in Dead(n, gone) /\ lock \in Node)
  BY DEF End, Dead
<1> QED BY <1>1, <1>2, <1>3

LEMMA EndCancel ==
  ASSUME CancelInv, TypeOK', NEW n \in Node, Alive(n), NEW gone \in SUBSET Node,
         NEW code, End(n, code, gone), UNCHANGED <<handle, receipt, result, cancel, canceller>>
  PROVE  CancelInv'
<1> USE NodeAssumption, TreeAssumption
<1>0. TypeOK /\ LockInv /\ LaunchInv /\ FenceInv
  BY DEF CancelInv
<1>1. \A m \in Node : \/ pc'[m] = pc[m] /\ draft'[m] = draft[m]
                      \/ pc'[m] = "halted" /\ Alive(m)
  BY <1>0, EndEffect
<1>2. \/ lock' = lock
      \/ lock' = Free /\ lock \in Node /\ pc'[lock] = "halted"
  BY <1>0, EndEffect
<1>3. LockInv'
  BY <1>0, <1>1, <1>2 DEF LockInv, Alive
<1>4. LaunchInv'
  <2> SUFFICES ASSUME NEW c \in Node \ {Root} PROVE LaunchOf(c)'
    BY DEF LaunchInv
  <2>1. Parent[c] \in Node
    OBVIOUS
  <2>2. LaunchOf(c)
    BY <1>0 DEF LaunchInv
  <2> QED BY <1>1, <2>1, <2>2 DEF LaunchOf, Alive, Launching
<1>5. FenceInv'
  BY <1>0, <1>1 DEF FenceInv, Alive
<1> QED BY <1>3, <1>4, <1>5 DEF CancelInv

(* A step that moves one process n along, not into or out of a launch, and *)
(* touches neither the guard, nor a receipt, nor a result.                 *)
LEMMA MoveCancel ==
  ASSUME CancelInv, TypeOK', NEW n \in Node, NEW where,
         where \in {"ready", "main", "finish", "gate"},
         pc[n] \notin Launching \cup {"absent", "seal", "leave", "halted"},
         pc' = [pc EXCEPT ![n] = where],
         \A m \in Node : m # n => handle'[m] = handle[m] /\ draft'[m] = draft[m],
         UNCHANGED <<receipt, result, lock, cancel, canceller>>
  PROVE  CancelInv'
<1> USE NodeAssumption, TreeAssumption
<1>0. TypeOK /\ LockInv /\ LaunchInv /\ FenceInv
  BY DEF CancelInv
<1>1. \A m \in Node : pc'[m] = IF m = n THEN where ELSE pc[m]
  BY <1>0 DEF TypeOK
<1>3. LockInv'
  BY <1>0, <1>1 DEF LockInv
<1>4. LaunchInv'
  <2> SUFFICES ASSUME NEW c \in Node \ {Root} PROVE LaunchOf(c)'
    BY DEF LaunchInv
  <2>1. Parent[c] \in Node /\ LaunchOf(c)
    BY <1>0 DEF LaunchInv
  <2> QED BY <1>1, <2>1 DEF LaunchOf, Launching
<1>5. FenceInv'
  BY <1>0, <1>1 DEF FenceInv
<1> QED BY <1>3, <1>4, <1>5 DEF CancelInv

(* A step that moves no process, and no receipt but one that was past its  *)
(* admission.                                                              *)
LEMMA IdleCancel ==
  ASSUME CancelInv, TypeOK',
         \A c \in Node : \/ receipt'[c] = receipt[c]
                        \/ /\ receipt[c] \notin {"none", "admitted"}
                           /\ receipt'[c] \notin {"none", "admitted"},
         UNCHANGED <<pc, handle, result, lock, cancel, canceller, draft>>
  PROVE  CancelInv'
<1> USE NodeAssumption, TreeAssumption
<1>0. TypeOK /\ LockInv /\ LaunchInv /\ FenceInv
  BY DEF CancelInv
<1>1. LockInv' /\ FenceInv'
  BY <1>0 DEF LockInv, FenceInv
<1>2. LaunchInv'
  BY <1>0 DEF LaunchInv, LaunchOf
<1> QED BY <1>1, <1>2 DEF CancelInv

(* The launch of c by n: the steps that change its receipt, the guard or   *)
(* the process.                                                            *)
LEMMA LaunchCancel ==
  ASSUME CancelInv, TypeOK', NEW n \in Controllers,
         \/ Acquire(n)
         \/ \E c \in Node :
              \/ Admit(n, c) \/ LaunchAborted(n, c) \/ Refused(n, c) \/ Popen(n, c)
              \/ Bind(n, c) \/ BindFails(n, c) \/ BindFailsUndrained(n, c)
  PROVE  CancelInv'
<1> USE NodeAssumption, TreeAssumption
<1>0. TypeOK /\ LockInv /\ LaunchInv /\ FenceInv /\ n \in Node
  BY DEF CancelInv
<1>1. CASE Acquire(n)
  <2>1. LockInv'
    BY <1>0, <1>1 DEF Acquire, Goto, LockInv, TypeOK
  <2>2. LaunchInv'
    BY <1>0, <1>1 DEF Acquire, Goto, LaunchInv, LaunchOf, Launching, TypeOK
  <2>3. FenceInv'
    BY <1>0, <1>1 DEF Acquire, CheckPasses, Goto, FenceInv, TypeOK
  <2> QED BY <2>1, <2>2, <2>3 DEF CancelInv
<1>2. ASSUME NEW c \in Node, Admit(n, c) PROVE CancelInv'
  <2>1. LockInv'
    BY <1>0, <1>2 DEF Admit, Goto, LockInv, TypeOK
  <2>2. LaunchInv'
    BY <1>0, <1>2 DEF Admit, Launched, Goto, LaunchInv, LaunchOf, Launching, TypeOK
  <2>3. FenceInv'
    BY <1>0, <1>2 DEF Admit, Goto, FenceInv, TypeOK
  <2> QED BY <2>1, <2>2, <2>3 DEF CancelInv
<1>3. ASSUME NEW c \in Node, LaunchAborted(n, c) \/ Refused(n, c) PROVE CancelInv'
  <2>0. /\ pc[n] = "admit" /\ InLaunch(n, c)
        /\ receipt' = [receipt EXCEPT ![c] = "launch_failed"]
        /\ pc' = [pc EXCEPT ![n] = "main"] \/ pc' = [pc EXCEPT ![n] = "finish"]
        /\ UNCHANGED <<handle, result, cancel, lock, canceller, draft>>
    BY <1>3 DEF LaunchAborted, Refused, ToFinish, Goto
  <2>1. LockInv'
    BY <1>0, <2>0 DEF LockInv, TypeOK
  <2>2. LaunchInv'
    BY <1>0, <2>0 DEF InLaunch, LaunchInv, LaunchOf, Launching, TypeOK
  <2>3. FenceInv'
    BY <1>0, <2>0 DEF FenceInv, TypeOK
  <2> QED BY <2>1, <2>2, <2>3 DEF CancelInv
<1>4. ASSUME NEW c \in Node, Popen(n, c) PROVE CancelInv'
  <2>0. pc[c] = "absent" /\ c # n
    BY <1>0, <1>4 DEF Popen, InLaunch, LaunchInv, LaunchOf
  <2>1. LockInv'
    BY <1>0, <1>4 DEF Popen, LockInv, TypeOK
  <2>2. LaunchInv'
    BY <1>0, <1>4, <2>0 DEF Popen, InLaunch, LaunchInv, LaunchOf, Launching, TypeOK
  <2>3. FenceInv'
    BY <1>0, <1>4, <2>0 DEF Popen, FenceInv, TypeOK
  <2> QED BY <2>1, <2>2, <2>3 DEF CancelInv
<1>5. ASSUME NEW c \in Node,
             Bind(n, c) \/ BindFails(n, c) \/ BindFailsUndrained(n, c)
      PROVE CancelInv'
  <2>0. /\ pc[n] \in {"popen", "bind"} /\ InLaunch(n, c) /\ c # n
        /\ receipt'[c] \notin {"none", "admitted"}
        /\ \A m \in Node : m # c => receipt'[m] = receipt[m]
        /\ pc'[n] = "main"
        /\ \A m \in Node : m # n => pc'[m] = pc[m] \/ (m = c /\ pc'[m] = "halted")
        /\ pc[c] = "absent" => pc'[c] = "absent"
        /\ lock' = Free
        /\ UNCHANGED <<handle, result, cancel, canceller, draft>>
    BY <1>0, <1>5, ParentIsOther
       DEF Bind, BindFails, BindFailsUndrained, InLaunch, Goto, TypeOK, LaunchInv, LaunchOf
  <2>1. LockInv'
    BY <1>0, <2>0 DEF LockInv
  <2>2. LaunchInv'
    BY <1>0, <2>0 DEF InLaunch, LaunchInv, LaunchOf, Launching
  <2>3. FenceInv'
    BY <1>0, <2>0 DEF FenceInv
  <2> QED BY <2>1, <2>2, <2>3 DEF CancelInv
<1> QED BY <1>1, <1>2, <1>3, <1>4, <1>5
(* Sealing: the steps of finish under the guard.                           *)
LEMMA SealCancel ==
  ASSUME CancelInv, TypeOK', NEW n \in Controllers, Gate(n) \/ WriteResult(n) \/ Seal(n)
  PROVE  CancelInv'
<1> USE NodeAssumption, TreeAssumption
<1>0. TypeOK /\ LockInv /\ LaunchInv /\ FenceInv /\ n \in Node
  BY DEF CancelInv
<1>1. CASE Gate(n)
  <2>0. cancel => draft'[n].status # "finished"
    <3>1. cancel => draft'[n] = Overridden(n)
      BY <1>0, <1>1 DEF Gate, TypeOK
    <3> QED BY <1>0, <3>1, OverriddenStatus
  <2>1. LockInv'
    BY <1>0, <1>1 DEF Gate, Goto, LockInv, TypeOK
  <2>2. LaunchInv'
    BY <1>0, <1>1 DEF Gate, Goto, LaunchInv, LaunchOf, Launching, TypeOK
  <2>3. FenceInv'
    BY <1>0, <1>1, <2>0 DEF Gate, Goto, FenceInv, TypeOK
  <2> QED BY <2>1, <2>2, <2>3 DEF CancelInv
<1>2. CASE WriteResult(n)
  <2>1. LockInv'
    BY <1>0, <1>2 DEF WriteResult, Goto, LockInv, TypeOK
  <2>2. LaunchInv'
    BY <1>0, <1>2 DEF WriteResult, Goto, LaunchInv, LaunchOf, Launching, TypeOK
  <2>3. FenceInv'
    BY <1>0, <1>2 DEF WriteResult, Goto, FenceInv, LockInv, TypeOK
  <2> QED BY <2>1, <2>2, <2>3 DEF CancelInv
<1>3. CASE Seal(n)
  <2>1. LockInv'
    BY <1>0, <1>3 DEF Seal, Goto, LockInv, TypeOK
  <2>2. LaunchInv'
    BY <1>0, <1>3 DEF Seal, Goto, LaunchInv, LaunchOf, Launching, TypeOK
  <2>3. FenceInv'
    BY <1>0, <1>3 DEF Seal, Goto, FenceInv, TypeOK
  <2> QED BY <2>1, <2>2, <2>3 DEF CancelInv
<1> QED BY <1>1, <1>2, <1>3

(* The control process.                                                    *)
LEMMA RequestCancel ==
  ASSUME CancelInv, TypeOK', CancelAdmit \/ CancelWrite \/ CancellerDies
  PROVE  CancelInv'
<1> USE NodeAssumption, TreeAssumption
<1>0. TypeOK /\ LockInv /\ LaunchInv /\ FenceInv
  BY DEF CancelInv
<1>1. LaunchInv'
  BY <1>0 DEF CancelAdmit, CancelWrite, CancellerDies, LaunchInv, LaunchOf
<1>2. LockInv'
  BY <1>0 DEF CancelAdmit, CancelWrite, CancellerDies, LockInv
<1>3. FenceInv'
  <2>1. CASE CancelAdmit
    <3>1. result[Root].status # "finished"
      BY <1>0, <2>1 DEF CancelAdmit, FenceInv, LockInv, Alive, Sealed, TerminalStatus
    <3> QED BY <1>0, <2>1, <3>1 DEF CancelAdmit, FenceInv
  <2>2. CASE CancelWrite
    BY <1>0, <2>2 DEF CancelWrite, FenceInv, LockInv
  <2>3. CASE CancellerDies
    BY <1>0, <2>3 DEF CancellerDies, FenceInv
  <2> QED BY <2>1, <2>2, <2>3
<1> QED BY <1>1, <1>2, <1>3 DEF CancelInv

LEMMA NextCancel == CancelInv /\ [Next]_vars => CancelInv'
<1> SUFFICES ASSUME CancelInv, [Next]_vars PROVE CancelInv'
  OBVIOUS
<1> USE NodeAssumption
<1>0. TypeOK /\ TypeOK'
  BY NextType DEF CancelInv
<1>1. ASSUME NEW n \in Controllers, StartUp(n) PROVE CancelInv'
  <2>1. CASE Boot(n) \/ Ready(n)
    BY <1>0, <2>1, MoveCancel DEF Boot, Ready, Goto, TypeOK, Launching
  <2>2. CASE BootFails(n)
    BY <1>0, <2>2, EndCancel DEF BootFails, Alive, Jobs, Under
  <2> QED BY <1>1, <2>1, <2>2 DEF StartUp
<1>2. ASSUME NEW n \in Controllers, Work(n) PROVE CancelInv'
  <2>1. ASSUME NEW waiting \in BOOLEAN, Return(n, waiting) PROVE CancelInv'
    BY <1>0, <2>1, MoveCancel DEF Return, ToFinish, Goto, Launching
  <2>2. CASE Fail(n)
    BY <1>0, <2>2, MoveCancel DEF Fail, ToFinish, Goto, Launching
  <2>3. ASSUME NEW c \in Node, Admit(n, c) PROVE CancelInv'
    BY <1>0, <2>3, LaunchCancel
  <2>4. ASSUME NEW c \in Node, Collect(n, c) PROVE CancelInv'
    <3>1. \A m \in Node : \/ receipt'[m] = receipt[m]
                          \/ /\ receipt[m] \notin {"none", "admitted"}
                             /\ receipt'[m] \notin {"none", "admitted"}
      BY <1>0, <2>4 DEF Collect, Drainage, TypeOK
    <3> QED BY <1>0, <2>4, <3>1, IdleCancel DEF Collect
  <2>5. ASSUME NEW c \in Node, Terminate(n, c) PROVE CancelInv'
    <3> DEFINE gone == IF IsWindows THEN Under(c) \cup {c} ELSE {}
    <3>1. gone \in SUBSET Node
      BY DEF Under
    <3>2. Alive(c) /\ End(c, Killed, gone)
          /\ UNCHANGED <<handle, receipt, result, cancel, canceller>>
      BY <2>5 DEF Terminate
    <3> HIDE DEF gone
    <3> QED BY <1>0, <3>1, <3>2, EndCancel
  <2> QED BY <1>2, <2>1, <2>2, <2>3, <2>4, <2>5 DEF Work
<1>3. ASSUME NEW n \in Controllers, Stop(n) PROVE CancelInv'
  BY <1>0, <1>3, MoveCancel DEF Stop, StopOnCancel, StopOnOrphan, ToFinish, Goto, Launching
<1>4. ASSUME NEW n \in Controllers, Launch(n) PROVE CancelInv'
  BY <1>0, <1>4, LaunchCancel DEF Launch
<1>5. ASSUME NEW n \in Controllers, Conclude(n) PROVE CancelInv'
  <2>1. ASSUME NEW c \in Node, Settle(n, c) \/ SettleMissed(n, c) PROVE CancelInv'
    <3>1. \A m \in Node : \/ receipt'[m] = receipt[m]
                          \/ /\ receipt[m] \notin {"none", "admitted"}
                             /\ receipt'[m] \notin {"none", "admitted"}
      BY <1>0, <2>1 DEF Settle, SettleMissed, Drainage, TypeOK
    <3> QED BY <1>0, <2>1, <3>1, IdleCancel DEF Settle, SettleMissed
  <2>2. CASE Judge(n)
    BY <1>0, <2>2, MoveCancel DEF Judge, Goto, TypeOK, Launching
  <2>3. CASE Gate(n) \/ WriteResult(n) \/ Seal(n)
    BY <1>0, <2>3, SealCancel
  <2>4. CASE Leave(n)
    BY <1>0, <2>4, EndCancel DEF Leave, Alive, Jobs, Under
  <2> QED BY <1>5, <2>1, <2>2, <2>3, <2>4 DEF Conclude
<1>6. ASSUME NEW n \in Dispatchers, Hosted(n) PROVE CancelInv'
  BY <1>0, <1>6, IdleCancel DEF Hosted, RecordCreating, Post, Observe, RemoteEnds
<1>7. CASE Environment
  <2>1. CASE CancelAdmit \/ CancelWrite \/ CancellerDies
    BY <1>0, <2>1, RequestCancel
  <2>2. ASSUME NEW n \in Node, Crash(n) PROVE CancelInv'
    BY <1>0, <2>2, EndCancel DEF Crash, Jobs, Under
  <2>3. ASSUME NEW n \in Node, NEW leaves \in BOOLEAN, CommandExits(n, leaves)
        PROVE CancelInv'
    <3>1. LockInv' /\ FenceInv'
      BY <1>0, <2>3 DEF CancelInv, CommandExits, LockInv, FenceInv, Alive, TypeOK
    <3>2. LaunchInv'
      BY <1>0, <2>3, TreeAssumption
         DEF CancelInv, CommandExits, LaunchInv, LaunchOf, Launching, Alive, TypeOK
    <3> QED BY <1>0, <3>1, <3>2 DEF CancelInv
  <2>4. ASSUME NEW n \in Node, StrayExits(n) PROVE CancelInv'
    BY <1>0, <2>4, IdleCancel DEF StrayExits
  <2> QED BY <1>7, <2>1, <2>2, <2>3, <2>4 DEF Environment
<1>8. CASE Over \/ UNCHANGED vars
  BY <1>0, <1>8, IdleCancel DEF Over, vars
<1> QED BY <1>1, <1>2, <1>3, <1>4, <1>5, <1>6, <1>7, <1>8 DEF Next

(* A root that was asked to cancel has not sealed "finished", for every    *)
(* tree and every order of crashes, launches and requests.                 *)
THEOREM CancelledRootNeverFinished == Spec => []CancelledNeverFinished
<1>1. CancelInv => CancelledNeverFinished
  BY DEF CancelInv, FenceInv, CancelledNeverFinished
<1> QED BY <1>1, InitCancel, NextCancel, PTL DEF Spec
(* The same of every controller from the request on: only WriteResult      *)
(* writes a result, and its draft was overridden under the guard.          *)
THEOREM NothingFinishesAfterCancel == Spec => NoFinishAfterCancel
<1> DEFINE A == cancel => \A n \in Node :
                  result'[n].status = "finished" => result[n].status = "finished"
<1>1. CancelInv /\ [Next]_vars => A
  <2> SUFFICES ASSUME CancelInv, [Next]_vars, cancel PROVE UNCHANGED result \/ A
    OBVIOUS
  <2> USE NodeAssumption
  <2>1. ASSUME NEW n \in Controllers, WriteResult(n) PROVE A
    BY <2>1 DEF CancelInv, FenceInv, WriteResult, TypeOK
  <2>2. ASSUME NEW n \in Controllers, Conclude(n) PROVE UNCHANGED result \/ A
    BY <2>1, <2>2 DEF Conclude, Settle, SettleMissed, Judge, Gate, Seal, Leave
  <2>3. ASSUME NEW n \in Controllers, StartUp(n) \/ Work(n) \/ Stop(n) \/ Launch(n)
        PROVE UNCHANGED result
    <3>1. CASE StartUp(n) \/ Stop(n)
      BY <3>1 DEF StartUp, Boot, BootFails, Ready, Stop, StopOnCancel, StopOnOrphan, ToFinish
    <3>2. CASE Work(n)
      BY <3>2 DEF Work, Return, Fail, Admit, Collect, Terminate, ToFinish
    <3>3. CASE Launch(n)
      BY <3>3 DEF Launch, LaunchAborted, Acquire, Refused, Popen, Bind, BindFails,
                  BindFailsUndrained, ToFinish
    <3> QED BY <2>3, <3>1, <3>2, <3>3
  <2>4. ASSUME NEW n \in Dispatchers, Hosted(n) PROVE UNCHANGED result
    BY <2>4 DEF Hosted, RecordCreating, Post, Observe, RemoteEnds
  <2>5. CASE Environment
    BY <2>5 DEF Environment, CancelAdmit, CancelWrite, CancellerDies, Crash, CommandExits,
                StrayExits
  <2>6. CASE Over \/ UNCHANGED vars
    BY <2>6 DEF Over, vars
  <2> QED BY <2>2, <2>3, <2>4, <2>5, <2>6 DEF Next
<1>2. CancelInv /\ [Next]_vars => [A]_vars
  BY <1>1
<1> QED BY <1>2, InitCancel, NextCancel, PTL DEF Spec, NoFinishAfterCancel

(* After the request no process of the tree is started: Popen needs the    *)
(* guard and a check that passed under it, and every other step leaves a   *)
(* process that does not exist alone.                                      *)
THEOREM CancelFencesLaunches == Spec => CancelFence
<1> DEFINE A == cancel => \A n \in Node : pc[n] = "absent" => pc'[n] = "absent"
<1>1. CancelInv /\ [Next]_vars => A
  <2> SUFFICES ASSUME CancelInv, [Next]_vars, cancel, NEW m \in Node, pc[m] = "absent"
               PROVE pc'[m] = "absent"
    OBVIOUS
  <2> USE NodeAssumption
  <2>0. TypeOK
    BY DEF CancelInv
  <2>E. ASSUME NEW n \in Node, Alive(n), NEW gone \in SUBSET Node, NEW code,
               End(n, code, gone)
        PROVE pc'[m] = "absent"
    BY <2>0, <2>E, EndEffect DEF Alive
  <2>1. ASSUME NEW n \in Controllers, StartUp(n) \/ Stop(n) PROVE pc'[m] = "absent"
    <3>1. CASE BootFails(n)
      BY <3>1, <2>E DEF BootFails, Alive, Jobs, Under
    <3>2. CASE Boot(n) \/ Ready(n) \/ Stop(n)
      BY <2>0, <3>2 DEF Boot, Ready, Stop, StopOnCancel, StopOnOrphan, ToFinish, Goto, TypeOK
    <3> QED BY <2>1, <3>1, <3>2 DEF StartUp
  <2>2. ASSUME NEW n \in Controllers, Work(n) PROVE pc'[m] = "absent"
    <3>1. ASSUME NEW c \in Node, Terminate(n, c) PROVE pc'[m] = "absent"
      <4> DEFINE gone == IF IsWindows THEN Under(c) \cup {c} ELSE {}
      <4>1. gone \in SUBSET Node
        BY DEF Under
      <4>2. Alive(c) /\ End(c, Killed, gone)
        BY <3>1 DEF Terminate
      <4> HIDE DEF gone
      <4> QED BY <4>1, <4>2, <2>E
    <3>2. ASSUME NEW c \in Node, Admit(n, c) \/ Collect(n, c) PROVE pc'[m] = "absent"
      BY <2>0, <3>2 DEF Admit, Collect, Goto, TypeOK
    <3>3. ASSUME NEW waiting \in BOOLEAN, Return(n, waiting) \/ Fail(n)
          PROVE pc'[m] = "absent"
      BY <2>0, <3>3 DEF Return, Fail, ToFinish, Goto, TypeOK
    <3> QED BY <2>2, <3>1, <3>2, <3>3 DEF Work
  <2>3. ASSUME NEW n \in Controllers, Launch(n) PROVE pc'[m] = "absent"
    <3>1. CASE Acquire(n)
      BY <2>0, <3>1 DEF Acquire, Goto, TypeOK
    <3>2. ASSUME NEW c \in Node, Popen(n, c) PROVE FALSE
      BY <3>2 DEF Popen, CancelInv, FenceInv
    <3>3. ASSUME NEW c \in Node, LaunchAborted(n, c) \/ Refused(n, c)
          PROVE pc'[m] = "absent"
      BY <2>0, <3>3 DEF LaunchAborted, Refused, ToFinish, Goto, TypeOK
    <3>4. ASSUME NEW c \in Node, Bind(n, c) \/ BindFailsUndrained(n, c)
          PROVE pc'[m] = "absent"
      BY <2>0, <3>4 DEF Bind, BindFailsUndrained, Goto, TypeOK
    <3>5. ASSUME NEW c \in Node, BindFails(n, c) PROVE pc'[m] = "absent"
      <4>1. pc[n] = "bind" => pc[c] # "absent"
        BY <3>5 DEF BindFails, InLaunch, CancelInv, LaunchInv, LaunchOf
      <4> QED BY <2>0, <3>5, <4>1 DEF BindFails, TypeOK
    <3> QED BY <2>3, <3>1, <3>2, <3>3, <3>4, <3>5 DEF Launch
  <2>4. ASSUME NEW n \in Controllers, Conclude(n) PROVE pc'[m] = "absent"
    <3>1. CASE Leave(n)
      BY <3>1, <2>E DEF Leave, Alive, Jobs, Under
    <3>2. CASE Judge(n) \/ Gate(n) \/ WriteResult(n) \/ Seal(n)
      BY <2>0, <3>2 DEF Judge, Gate, WriteResult, Seal, Goto, TypeOK
    <3>3. ASSUME NEW c \in Node, Settle(n, c) \/ SettleMissed(n, c)
          PROVE pc'[m] = "absent"
      BY <3>3 DEF Settle, SettleMissed
    <3> QED BY <2>4, <3>1, <3>2, <3>3 DEF Conclude
  <2>5. ASSUME NEW n \in Dispatchers, Hosted(n) PROVE pc'[m] = "absent"
    BY <2>5 DEF Hosted, RecordCreating, Post, Observe, RemoteEnds
  <2>6. CASE Environment
    <3>1. ASSUME NEW n \in Node, Crash(n) PROVE pc'[m] = "absent"
      BY <3>1, <2>E DEF Crash, Jobs, Under
    <3>2. ASSUME NEW n \in Node, NEW leaves \in BOOLEAN,
                 CommandExits(n, leaves) \/ StrayExits(n)
          PROVE pc'[m] = "absent"
      BY <2>0, <3>2 DEF CommandExits, StrayExits, Alive, TypeOK
    <3>3. CASE CancelAdmit \/ CancelWrite \/ CancellerDies
      BY <3>3 DEF CancelAdmit, CancelWrite, CancellerDies
    <3> QED BY <2>6, <3>1, <3>2, <3>3 DEF Environment
  <2>7. CASE Over \/ UNCHANGED vars
    BY <2>7 DEF Over, vars
  <2> QED BY <2>1, <2>2, <2>3, <2>4, <2>5, <2>6, <2>7 DEF Next
<1>2. CancelInv /\ [Next]_vars => [A]_vars
  BY <1>1
<1> QED BY <1>2, InitCancel, NextCancel, PTL DEF Spec, CancelFence

-----------------------------------------------------------------------------
(* What a sealed result says of the tree of processes below its controller. *)

(***************************************************************************)
(* The inductive invariant.                                                *)
(*   SealInv     what is sealed is what was written, after it was judged   *)
(*   RequestInv  a request is made of a root that runs and has not sealed  *)
(*   BirthInv    nothing was started below a controller that has no handle *)
(*   ReceiptInv  a receipt that is settled is of a process that is gone    *)
(*   ChildInv    who was launched is a child that finish still has to      *)
(*               settle, or gone, or an error it has noted                 *)
(*   JobInv      Windows leaves nothing below a process that has ended     *)
(*   DispatchInv what is recorded of a hosted task before and after it     *)
(*   HonestInv   a result, from when it is drafted, is true of the tree    *)
(***************************************************************************)
Ended == {"gate", "write", "seal", "leave", "halted"}
Collectable == {"bound", "draining", "drained", "drain_failed", "bootstrap_failed"}
Gone(m) == ~Alive(m) /\ m \notin strays

SealInv ==
  \A n \in Controllers :
    /\ pc[n] = "gate" => (draft[n].drained <=> "drainage" \notin mem[n].err)
    /\ pc[n] \in {"gate", "write", "seal"} => draft[n].status \in TerminalStatus
    /\ Sealed(n) => pc[n] \in {"leave", "halted"} /\ result[n].status = handle[n]

RequestInv ==
  /\ handle[Root] = "none" => ~cancel /\ canceller = "idle"
  /\ canceller = "write" => ~Sealed(Root)

FileInv == SealInv /\ RequestInv

BirthInv ==
  /\ \A c \in strays : pc[c] = "halted"
  /\ \A c \in Controllers :
       /\ pc[c] \in {"absent", "boot"} => handle[c] = "none"
       /\ c # Root /\ receipt[c] = "admitted" => handle[c] = "none"
       /\ handle[c] = "none" =>
            /\ pc[c] \in {"absent", "boot", "halted"}
            /\ \A m \in Under(c) : receipt[m] = "none" /\ pc[m] = "absent"

ReceiptInv ==
  \A c \in Node \ {Root} :
    receipt[c] \in {"none", "launch_failed", "drained", "bootstrap_failed"} => Gone(c)

ChildInv ==
  \A n \in Node :
    /\ \A c \in children[n] :
         c # Root /\ Parent[c] = n /\ receipt[c] \in Collectable
    /\ IsWindows /\ pc[n] \notin Ended /\ (pc[n] = "finish" => "drainage" \notin mem[n].err) =>
         \A c \in Node \ {Root} :
           Parent[c] = n => c \in children[n] \/ receipt[c] = "admitted" \/ Gone(c)

JobInv == IsWindows => \A n \in Node : pc[n] = "halted" => \A m \in Under(n) : Gone(m)

TreeInv == BirthInv /\ ReceiptInv /\ ChildInv /\ JobInv

DispatchInv ==
  \A n \in Node :
    /\ dispatch[n] = "none" => remote[n] = "none"
    /\ dispatch[n] = "terminal" => remote[n] = "done"

Whole(n) ==
  \A m \in Under(n) \cap Controllers :
    receipt[m] \in {"none", "launch_failed"} \/ (Sealed(m) /\ result[m].status = "finished")

(* Nothing runs below n, and n itself is past its last launch.             *)
Stopped(n) == pc[n] \in Ended /\ \A m \in Under(n) : Gone(m)

Honest(n, r) ==
  /\ r.drained => Stopped(n)
  /\ r.code = 0 => r.drained /\ Whole(n)
  /\ ~r.remoteMay => r.drained /\ \A m \in {n} \cup Under(n) : remote[m] # "running"
  /\ r.status \in {"finished", "cancelled_local"} => r.drained

HonestInv == \A n \in Controllers : Honest(n, result[n]) /\ Honest(n, draft[n])

ResultInv == DispatchInv /\ HonestInv

(* What the end of processes does to each of them.                         *)
LEMMA EndKills ==
  ASSUME TypeOK, NEW n \in Node, NEW gone \in SUBSET Node, NEW code, End(n, code, gone)
  PROVE  /\ \A m \in Node :
              IF m = n \/ (m \in gone /\ Alive(m))
              THEN pc'[m] = "halted" /\ children'[m] = {} /\ draft'[m] = NoResult
              ELSE pc'[m] = pc[m] /\ children'[m] = children[m] /\ draft'[m] = draft[m]
         /\ strays' = strays \ gone
BY DEF End, Lost, Dead

(* The steps that end processes, and what they have in common.             *)
Ends(n, gone) ==
  /\ n \in Node /\ Alive(n)
  /\ gone \subseteq Under(n) \cup {n}
  /\ IF IsWindows THEN Under(n) \subseteq gone ELSE gone = {}
  /\ \E code \in {NoCode, Killed, 0, 1, 130} : End(n, code, gone)
  /\ UNCHANGED <<handle, receipt, result, cancel, canceller, hosted>>
  /\ \A m \in Node :
       pc'[m] # "halted" =>
         \/ mem'[m] = mem[m]
         \/ pc[m] \in {"main", "finish"} /\ mem[m].err \subseteq mem'[m].err

LEMMA EndsSteps ==
  ASSUME TypeOK, NEW n \in Node,
         \/ n \in Controllers /\ BootFails(n)
         \/ n \in Controllers /\ Leave(n)
         \/ Crash(n)
         \/ \E c \in Node : Terminate(n, c)
  PROVE  \E c \in Node, gone \in SUBSET Node : Ends(c, gone)
<1>1. ASSUME End(n, NoCode, Jobs(n)) \/ End(n, Killed, Jobs(n)) \/ End(n, 0, Jobs(n))
               \/ End(n, 1, Jobs(n)) \/ End(n, 130, Jobs(n)),
             Alive(n), mem' = mem \/ mem' = Lost(mem, n, Jobs(n), NoMem),
             UNCHANGED <<handle, receipt, result, cancel, canceller, hosted>>
      PROVE  Ends(n, Jobs(n)) /\ Jobs(n) \in SUBSET Node
  <2>1. Jobs(n) \in SUBSET Node /\ Jobs(n) \subseteq Under(n) \cup {n}
        /\ IF IsWindows THEN Under(n) \subseteq Jobs(n) ELSE Jobs(n) = {}
    BY DEF Jobs, Under
  <2>2. PICK code \in {NoCode, Killed, 0, 1, 130} : End(n, code, Jobs(n))
    BY <1>1
  <2>3. ASSUME NEW m \in Node, pc'[m] # "halted" PROVE mem'[m] = mem[m]
    <3>1. m \notin Dead(n, Jobs(n))
      BY <2>2, <2>3 DEF End, Lost
    <3> QED BY <1>1, <3>1 DEF Lost
  <2> QED BY <1>1, <2>1, <2>2, <2>3 DEF Ends
<1>2. CASE n \in Controllers /\ BootFails(n)
  BY <1>1, <1>2 DEF BootFails, Alive
<1>3. CASE n \in Controllers /\ Leave(n)
  <2>1. draft[n].code \in {NoCode, 0, 1, 130}
    BY DEF TypeOK, Results
  <2> QED BY <1>1, <1>3, <2>1 DEF Leave, Alive
<1>4. CASE Crash(n)
  BY <1>1, <1>4 DEF Crash
<1>5. ASSUME NEW c \in Node, Terminate(n, c) PROVE \E gone \in SUBSET Node : Ends(c, gone)
  <2> DEFINE gone == IF IsWindows THEN Under(c) \cup {c} ELSE {}
  <2>1. /\ gone \in SUBSET Node /\ gone \subseteq Under(c) \cup {c}
        /\ IF IsWindows THEN Under(c) \subseteq gone ELSE gone = {}
    BY DEF Under
  <2>2. /\ Alive(c) /\ End(c, Killed, gone) /\ pc[n] \in {"main", "finish"}
        /\ UNCHANGED <<handle, receipt, result, cancel, canceller, hosted>>
        /\ mem' = [Lost(mem, c, gone, NoMem) EXCEPT ![n].err =
                     IF pc[n] = "finish" /\ ~mem[n].cancelled THEN @ \cup {"drainage"} ELSE @]
    BY <1>5 DEF Terminate
  <2> HIDE DEF gone
  <2>3. ASSUME NEW m \in Node, pc'[m] # "halted"
        PROVE  \/ mem'[m] = mem[m]
               \/ pc[m] \in {"main", "finish"} /\ mem[m].err \subseteq mem'[m].err
    <3> DEFINE before == Lost(mem, c, gone, NoMem)
    <3>1. m \notin Dead(c, gone)
      BY <2>2, <2>3 DEF End, Lost
    <3>2. before \in [Node -> Mems] /\ before[m] = mem[m]
      BY <3>1, LostType, MemType DEF Lost, TypeOK
    <3> HIDE DEF before
    <3>3. m # n => mem'[m] = mem[m]
      BY <2>2, <3>2 DEF before
    <3>4. m = n => mem[m].err \subseteq mem'[m].err
      <4>1. mem' = [before EXCEPT ![n].err =
                     IF pc[n] = "finish" /\ ~mem[n].cancelled THEN @ \cup {"drainage"} ELSE @]
        BY <2>2 DEF before
      <4> QED BY <3>2, <4>1 DEF Mems
    <3> QED BY <2>2, <3>3, <3>4
  <2> QED BY <2>1, <2>2, <2>3 DEF Ends
<1> QED BY <1>2, <1>3, <1>4, <1>5

-----------------------------------------------------------------------------
(* Files: what is sealed, and what the control process may still do.       *)
LEMMA InitFile == Init => FileInv
BY NodeAssumption DEF Init, FileInv, SealInv, RequestInv, Sealed, TerminalStatus, NoResult

LEMMA EndsFile ==
  ASSUME TypeOK, FileInv, NEW n \in Node, NEW gone \in SUBSET Node, Ends(n, gone)
  PROVE  FileInv'
<1>1. PICK code : End(n, code, gone)
  BY DEF Ends
<1>2. \A m \in Node : \/ pc'[m] = "halted"
                      \/ pc'[m] = pc[m] /\ draft'[m] = draft[m]
  BY <1>1, EndKills
<1>3. \A m \in Node : Alive(m) \/ pc'[m] = pc[m]
  <2>1. Alive(n)
    BY DEF Ends
  <2> QED BY <1>1, <2>1, EndKills
<1>4. SealInv'
  BY <1>2, <1>3, NodeAssumption DEF Ends, FileInv, SealInv, Sealed, Alive, TerminalStatus
<1>5. RequestInv'
  BY DEF Ends, FileInv, RequestInv, Sealed
<1> QED BY <1>4, <1>5 DEF FileInv

LEMMA NextFile == CancelInv /\ FileInv /\ [Next]_vars => FileInv'
<1> SUFFICES ASSUME CancelInv, FileInv, [Next]_vars PROVE FileInv'
  OBVIOUS
<1> USE NodeAssumption
<1>0. TypeOK /\ LockInv /\ LaunchInv /\ FenceInv /\ SealInv /\ RequestInv
  BY DEF CancelInv, FileInv
<1>1. ASSUME NEW n \in Node,
             \/ n \in Controllers /\ BootFails(n)
             \/ n \in Controllers /\ Leave(n)
             \/ Crash(n)
             \/ \E c \in Node : Terminate(n, c)
      PROVE  FileInv'
  BY <1>0, <1>1, EndsSteps, EndsFile
<1>2. ASSUME NEW n \in Controllers, Boot(n) \/ Ready(n) PROVE FileInv'
  BY <1>0, <1>2 DEF Boot, Ready, Goto, CheckPasses, TypeOK, FileInv, SealInv, RequestInv, Sealed,
                    TerminalStatus
<1>3. ASSUME NEW n \in Controllers, NEW waiting \in BOOLEAN, Return(n, waiting) \/ Fail(n) \/ Stop(n)
      PROVE  FileInv'
  BY <1>0, <1>3 DEF Return, Fail, Stop, StopOnCancel, StopOnOrphan, ToFinish, Goto, TypeOK,
                    FileInv, SealInv, RequestInv, Sealed
<1>4. ASSUME NEW n \in Controllers, NEW c \in Node, Admit(n, c) \/ Collect(n, c) PROVE FileInv'
  BY <1>0, <1>4 DEF Admit, Collect, Goto, TypeOK, FileInv, SealInv, RequestInv, Sealed
<1>5. ASSUME NEW n \in Controllers, Launch(n) PROVE FileInv'
  <2>1. CASE Acquire(n)
    BY <1>0, <2>1 DEF Acquire, Goto, TypeOK, FileInv, SealInv, RequestInv, Sealed
  <2>2. ASSUME NEW c \in Node, LaunchAborted(n, c) \/ Refused(n, c) PROVE FileInv'
    BY <1>0, <2>2 DEF LaunchAborted, Refused, ToFinish, Goto, TypeOK, FileInv, SealInv, RequestInv,
                      Sealed
  <2>3. ASSUME NEW c \in Node, Popen(n, c) PROVE FileInv'
    <3>1. pc[c] = "absent" /\ c # n
      BY <1>0, <2>3 DEF Popen, InLaunch, LaunchInv, LaunchOf
    <3> QED BY <1>0, <2>3, <3>1 DEF Popen, TypeOK, FileInv, SealInv, RequestInv, Sealed
  <2>4. ASSUME NEW c \in Node, Bind(n, c) \/ BindFails(n, c) \/ BindFailsUndrained(n, c)
        PROVE FileInv'
    <3>1. c # n /\ (pc[n] = "popen" => pc[c] = "absent")
      BY <1>0, <2>4, ParentIsOther
         DEF Bind, BindFails, BindFailsUndrained, InLaunch, LaunchInv, LaunchOf
    <3> QED BY <1>0, <2>4, <3>1
            DEF Bind, BindFails, BindFailsUndrained, Goto, TypeOK, FileInv, SealInv, RequestInv,
                Sealed
  <2> QED BY <1>5, <2>1, <2>2, <2>3, <2>4 DEF Launch
<1>6. ASSUME NEW n \in Controllers, NEW c \in Node, Settle(n, c) \/ SettleMissed(n, c)
      PROVE  FileInv'
  BY <1>0, <1>6 DEF Settle, SettleMissed, AddError, TypeOK, FileInv, SealInv, RequestInv, Sealed
<1>7. ASSUME NEW n \in Controllers, Judge(n) PROVE FileInv'
  <2>1. draft'[n].drained <=> "drainage" \notin mem'[n].err
    <3>1. mem'[n].err = Errors(n)
      BY <1>0, <1>7 DEF Judge, TypeOK, Mems
    <3>2. draft'[n] = Payload(n)
      BY <1>0, <1>7 DEF Judge, TypeOK
    <3>3. Payload(n).drained = ("drainage" \notin Errors(n))
      BY DEF Payload
    <3> QED BY <3>1, <3>2, <3>3
  <2>2. draft'[n].status \in TerminalStatus
    BY <1>0, <1>7 DEF Judge, TypeOK, Payload, TerminalStatus
  <2> QED BY <1>0, <1>7, <2>1, <2>2 DEF Judge, Goto, TypeOK, FileInv, SealInv, RequestInv, Sealed
<1>8. ASSUME NEW n \in Controllers, Gate(n) PROVE FileInv'
  <2>1. draft'[n].status \in TerminalStatus
    <3>1. CASE cancel
      BY <1>0, <1>8, <3>1, OverriddenStatus DEF Gate, TypeOK, TerminalStatus
    <3>2. CASE ~cancel
      BY <1>0, <1>8, <3>2 DEF Gate, TypeOK, SealInv
    <3> QED BY <3>1, <3>2
  <2> QED BY <1>0, <1>8, <2>1 DEF Gate, Goto, TypeOK, FileInv, SealInv, RequestInv, Sealed
<1>9. ASSUME NEW n \in Controllers, WriteResult(n) PROVE FileInv'
  BY <1>0, <1>9 DEF WriteResult, Goto, TypeOK, FileInv, SealInv, RequestInv, Sealed
<1>10. ASSUME NEW n \in Controllers, Seal(n) PROVE FileInv'
  BY <1>0, <1>10 DEF Seal, Goto, TypeOK, LockInv, FenceInv, FileInv, SealInv, RequestInv, Sealed,
                     TerminalStatus
<1>11. ASSUME NEW n \in Dispatchers, Hosted(n) PROVE FileInv'
  BY <1>0, <1>11 DEF Hosted, RecordCreating, Post, Observe, RemoteEnds, FileInv, SealInv,
                     RequestInv, Sealed
<1>12. CASE CancelAdmit \/ CancelWrite \/ CancellerDies
  BY <1>0, <1>12 DEF CancelAdmit, CancelWrite, CancellerDies, FileInv, SealInv, RequestInv, Sealed
<1>13. ASSUME NEW n \in Node, NEW leaves \in BOOLEAN, CommandExits(n, leaves) \/ StrayExits(n)
       PROVE  FileInv'
  BY <1>0, <1>13 DEF CommandExits, StrayExits, TypeOK, FileInv, SealInv, RequestInv, Sealed
<1>14. CASE Over \/ UNCHANGED vars
  BY <1>0, <1>14 DEF Over, vars, FileInv, SealInv, RequestInv, Sealed
<1> QED
  BY <1>1, <1>2, <1>3, <1>4, <1>5, <1>6, <1>7, <1>8, <1>9, <1>10, <1>11, <1>12, <1>13, <1>14
     DEF Next, StartUp, Work, Conclude, Environment

-----------------------------------------------------------------------------
(* The tree: who may still run below whom.                                 *)
LEMMA InitTree == Init => TreeInv
<1> SUFFICES ASSUME Init PROVE TreeInv
  OBVIOUS
<1> USE NodeAssumption
<1>1. \A n \in Node : Under(n) \subseteq Node \ {Root}
  BY UnderFacts
<1>2. BirthInv
  BY <1>1 DEF Init, BirthInv
<1>3. ReceiptInv /\ JobInv
  BY <1>1 DEF Init, ReceiptInv, JobInv, Gone, Alive
<1>4. ChildInv
  BY DEF Init, ChildInv, Gone, Alive
<1> QED BY <1>2, <1>3, <1>4 DEF TreeInv

LEMMA EndsTree ==
  ASSUME TypeOK, TreeInv, NEW n \in Node, NEW gone \in SUBSET Node, Ends(n, gone)
  PROVE  TreeInv'
<1> USE NodeAssumption
<1>1. PICK code : End(n, code, gone)
  BY DEF Ends
<1>2. Alive(n) /\ UNCHANGED <<handle, receipt>>
  BY DEF Ends
<1>3. \A m \in Node : \/ pc'[m] = "halted" /\ children'[m] = {} /\ Alive(m)
                      \/ pc'[m] = pc[m] /\ children'[m] = children[m]
  BY <1>1, <1>2, EndKills
<1>4. strays' \subseteq strays
  BY <1>1, EndKills
<1>5. \A m \in Node : Gone(m) => Gone(m)'
  BY <1>3, <1>4 DEF Gone, Alive
<1>6. BirthInv'
  <2>1. \A c \in strays' : pc'[c] = "halted"
    BY <1>3, <1>4 DEF TreeInv, BirthInv, Alive, TypeOK
  <2>2. \A m \in Node : pc[m] = "absent" => pc'[m] = "absent"
    BY <1>3 DEF Alive
  <2>3. \A c \in Node : Under(c) \subseteq Node
    BY DEF Under
  <2> QED BY <1>2, <1>3, <2>1, <2>2, <2>3 DEF TreeInv, BirthInv
<1>7. ReceiptInv'
  BY <1>2, <1>5 DEF TreeInv, ReceiptInv
<1>8. ChildInv'
  <2> SUFFICES ASSUME NEW m \in Node
               PROVE  /\ \A c \in children'[m] :
                           c # Root /\ Parent[c] = m /\ receipt'[c] \in Collectable
                      /\ IsWindows /\ pc'[m] \notin Ended
                           /\ (pc'[m] = "finish" => "drainage" \notin mem'[m].err) =>
                           \A c \in Node \ {Root} :
                             Parent[c] = m =>
                               c \in children'[m] \/ receipt'[c] = "admitted" \/ Gone(c)'
    BY DEF ChildInv
  <2>1. CASE pc'[m] = "halted" /\ children'[m] = {}
    BY <2>1 DEF Ended
  <2>2. CASE pc'[m] # "halted" /\ pc'[m] = pc[m] /\ children'[m] = children[m]
    <3>1. "drainage" \in mem[m].err => "drainage" \in mem'[m].err
      BY <2>2 DEF Ends
    <3> QED BY <1>2, <1>5, <2>2, <3>1 DEF TreeInv, ChildInv
  <2>3. CASE pc'[m] = "halted" /\ pc'[m] = pc[m] /\ children'[m] = children[m]
    BY <1>2, <2>3 DEF TreeInv, ChildInv, Ended
  <2> QED BY <1>3, <2>1, <2>2, <2>3
<1>9. JobInv'
  <2> SUFFICES ASSUME IsWindows, NEW m \in Node, pc'[m] = "halted", NEW k \in Under(m)
               PROVE  Gone(k)'
    BY DEF JobInv
  <2>1. k \in Node /\ Under(n) \subseteq gone /\ gone \subseteq Under(n) \cup {n}
    BY DEF Under, Ends
  <2>2. CASE pc[m] = "halted"
    BY <1>5, <2>1, <2>2 DEF TreeInv, JobInv
  <2>3. CASE pc[m] # "halted"
    <3>1. m = n \/ m \in gone
      BY <1>1, <2>3, EndKills
    <3>2. k \in gone
      BY <2>1, <3>1, UnderFacts
    <3>3. pc'[k] \in {"absent", "halted"}
      BY <1>1, <2>1, <3>2, EndKills DEF Alive
    <3>4. k \notin strays'
      BY <1>1, <3>2, EndKills
    <3> QED BY <3>3, <3>4 DEF Gone, Alive
  <2> QED BY <2>2, <2>3
<1> QED BY <1>6, <1>7, <1>8, <1>9 DEF TreeInv

(* A step of a controller that has a handle, and does not end here: of the *)
(* tree it only moves the controller itself.                               *)
Moves(n) ==
  /\ pc[n] \notin {"absent", "boot", "halted"}
  /\ pc'[n] \notin {"absent", "boot", "halted"}
  /\ pc[n] \in Ended => pc'[n] \in Ended
  /\ pc[n] = "finish" => pc'[n] \in Ended \cup {"finish"}
  /\ \A m \in Node \ {n} : pc'[m] = pc[m] /\ mem'[m] = mem[m] /\ handle'[m] = handle[m]
  /\ handle'[n] = handle[n] \/ handle'[n] # "none"
  /\ pc'[n] = "finish" => pc[n] # "finish" \/ mem[n].err \subseteq mem'[n].err
  /\ UNCHANGED <<receipt, children, strays>>

LEMMA MovesTree ==
  ASSUME TypeOK, TreeInv, NEW n \in Controllers, Moves(n)
  PROVE  TreeInv'
<1> USE NodeAssumption
<1>0. handle[n] # "none" /\ n \in Node
  BY DEF TreeInv, BirthInv, Moves
<1>1. \A m \in Node : pc'[m] \in {"absent", "boot", "halted"} <=> pc[m] \in {"absent", "boot", "halted"}
  BY DEF Moves
<1>2. \A m \in Node : Gone(m) <=> Gone(m)'
  BY DEF Moves, Gone, Alive
<1>3. BirthInv'
  <2>1. \A c \in Node : Under(c) \subseteq Node
    BY DEF Under
  <2>2. \A m \in Node : pc'[m] = pc[m] \/ m = n
    BY DEF Moves
  <2>3. \A c \in strays' : pc'[c] = "halted"
    BY <2>2 DEF Moves, TreeInv, BirthInv, TypeOK
  <2>4. \A c \in Controllers : handle'[c] = "none" <=> handle[c] = "none"
    BY <1>0 DEF Moves
  <2>5. receipt' = receipt
    BY DEF Moves
  <2>6. \A m \in Node : pc[m] = "absent" => pc'[m] = "absent"
    BY <2>2 DEF Moves
  <2>7. pc[n] \notin {"absent", "boot", "halted"} /\ pc'[n] \notin {"absent", "boot", "halted"}
    BY DEF Moves
  <2>8. ASSUME NEW c \in Controllers
        PROVE  /\ pc'[c] \in {"absent", "boot"} => handle'[c] = "none"
               /\ c # Root /\ receipt'[c] = "admitted" => handle'[c] = "none"
               /\ handle'[c] = "none" =>
                    /\ pc'[c] \in {"absent", "boot", "halted"}
                    /\ \A m \in Under(c) : receipt'[m] = "none" /\ pc'[m] = "absent"
    BY <2>1, <2>2, <2>4, <2>5, <2>6, <2>7 DEF TreeInv, BirthInv
  <2> QED BY <2>3, <2>8 DEF BirthInv
<1>4. ReceiptInv'
  BY <1>2 DEF Moves, TreeInv, ReceiptInv
<1>5. ChildInv'
  <2> SUFFICES ASSUME NEW m \in Node
               PROVE  /\ \A c \in children'[m] :
                           c # Root /\ Parent[c] = m /\ receipt'[c] \in Collectable
                      /\ IsWindows /\ pc'[m] \notin Ended
                           /\ (pc'[m] = "finish" => "drainage" \notin mem'[m].err) =>
                           \A c \in Node \ {Root} :
                             Parent[c] = m =>
                               c \in children'[m] \/ receipt'[c] = "admitted" \/ Gone(c)'
    BY DEF ChildInv
  <2>1. pc'[m] \notin Ended /\ (pc'[m] = "finish" => "drainage" \notin mem'[m].err) =>
          pc[m] \notin Ended /\ (pc[m] = "finish" => "drainage" \notin mem[m].err)
    BY DEF Moves
  <2>2. children' = children /\ receipt' = receipt
    BY DEF Moves
  <2> QED BY <1>2, <2>1, <2>2 DEF TreeInv, ChildInv
<1>6. JobInv'
  <2>1. \A m \in Node : Under(m) \subseteq Node
    BY DEF Under
  <2> QED BY <1>2, <2>1 DEF Moves, TreeInv, JobInv
<1> QED BY <1>3, <1>4, <1>5, <1>6 DEF TreeInv

(* Above a process that a running controller launches all have a handle,   *)
(* and on Windows all run.                                                 *)
LEMMA LaunchAbove ==
  ASSUME TreeInv, NEW n \in Controllers, pc[n] \notin {"absent", "boot", "halted"},
         NEW c \in Node \ {Root}, Parent[c] = n
  PROVE  \A x \in Node : c \in Under(x) =>
           /\ x \in Controllers /\ handle[x] # "none"
           /\ IsWindows => pc[x] # "halted"
<1> SUFFICES ASSUME NEW x \in Node, c \in Under(x)
             PROVE  /\ x \in Controllers /\ handle[x] # "none"
                    /\ IsWindows => pc[x] # "halted"
  OBVIOUS
<1>1. x = n \/ n \in Under(x)
  BY UnderFacts
<1>2. x \in Controllers
  BY UnderFacts
<1>3. handle[x] # "none"
  BY <1>1, <1>2 DEF TreeInv, BirthInv
<1>4. IsWindows => pc[x] # "halted"
  BY <1>1 DEF TreeInv, JobInv, Gone, Alive
<1> QED BY <1>2, <1>3, <1>4

LEMMA BootTree ==
  ASSUME TypeOK, TreeInv, NEW n \in Controllers, Boot(n)
  PROVE  TreeInv'
<1> USE NodeAssumption
<1>1. \A m \in Node : Gone(m) <=> Gone(m)'
  BY DEF Boot, Goto, Gone, Alive, TypeOK
<1>2. \A m \in Node : Under(m) \subseteq Node
  BY DEF Under
<1>3. BirthInv'
  <2>1. \A c \in strays' : pc'[c] = "halted"
    BY DEF Boot, Goto, TreeInv, BirthInv, TypeOK
  <2>2. \A m \in Node : pc[m] = "absent" => pc'[m] = "absent"
    BY DEF Boot, Goto, TypeOK
  <2>3. ASSUME NEW c \in Controllers
        PROVE  /\ pc'[c] \in {"absent", "boot"} => handle'[c] = "none"
               /\ c # Root /\ receipt'[c] = "admitted" => handle'[c] = "none"
               /\ handle'[c] = "none" =>
                    /\ pc'[c] \in {"absent", "boot", "halted"}
                    /\ \A m \in Under(c) : receipt'[m] = "none" /\ pc'[m] = "absent"
    BY <1>2, <2>2 DEF Boot, Goto, TreeInv, BirthInv, TypeOK
  <2> QED BY <2>1, <2>3 DEF BirthInv
<1>4. ReceiptInv'
  BY <1>1 DEF Boot, TreeInv, ReceiptInv
<1>5. ChildInv'
  BY <1>1 DEF Boot, Goto, TreeInv, ChildInv, Ended, TypeOK
<1>6. JobInv'
  BY <1>1, <1>2 DEF Boot, Goto, TreeInv, JobInv, TypeOK
<1> QED BY <1>3, <1>4, <1>5, <1>6 DEF TreeInv

(* The steps of a launch of c by n.                                        *)
LEMMA AdmitTree ==
  ASSUME TypeOK, LaunchInv, TreeInv, NEW n \in Controllers, NEW c \in Node, Admit(n, c)
  PROVE  TreeInv'
<1> USE NodeAssumption
<1>1. /\ c # Root /\ Parent[c] = n /\ receipt[c] = "none" /\ pc[n] = "main" /\ c # n
      /\ pc' = [pc EXCEPT ![n] = "admit"] /\ receipt' = [receipt EXCEPT ![c] = "admitted"]
      /\ UNCHANGED <<handle, children, strays, mem>>
  BY ParentIsOther DEF Admit, Launched, Goto
<1>2. \A m \in Node : Gone(m) <=> Gone(m)'
  BY <1>1 DEF Gone, Alive, TypeOK
<1>3. \A m \in Node : Under(m) \subseteq Node
  BY DEF Under
<1>4. BirthInv'
  <2>1. \A x \in Node : c \in Under(x) => handle[x] # "none"
    BY <1>1, LaunchAbove
  <2>2. pc[c] = "absent"
    BY <1>1 DEF LaunchInv, LaunchOf
  <2>3. \A x \in Node : pc'[x] \in {"absent", "boot", "halted"} => pc'[x] = pc[x]
    BY <1>1 DEF TypeOK
  <2>4. \A x \in Node : pc[x] \in {"absent", "boot", "halted"} => pc'[x] = pc[x]
    BY <1>1 DEF TypeOK
  <2> QED BY <1>1, <1>3, <2>1, <2>2, <2>3, <2>4 DEF TreeInv, BirthInv, TypeOK
<1>5. ReceiptInv'
  BY <1>1, <1>2 DEF TreeInv, ReceiptInv, TypeOK
<1>6. ChildInv'
  BY <1>1, <1>2 DEF TreeInv, ChildInv, Ended, Collectable, TypeOK
<1>7. JobInv'
  BY <1>1, <1>2, <1>3 DEF TreeInv, JobInv, TypeOK
<1> QED BY <1>4, <1>5, <1>6, <1>7 DEF TreeInv

LEMMA RefusedTree ==
  ASSUME TypeOK, LaunchInv, TreeInv, NEW n \in Controllers, NEW c \in Node,
         LaunchAborted(n, c) \/ Refused(n, c)
  PROVE  TreeInv'
<1> USE NodeAssumption
<1>1. /\ c # Root /\ Parent[c] = n /\ receipt[c] = "admitted" /\ pc[n] = "admit" /\ c # n
      /\ pc' = [pc EXCEPT ![n] = "main"] \/ pc' = [pc EXCEPT ![n] = "finish"]
      /\ receipt' = [receipt EXCEPT ![c] = "launch_failed"]
      /\ \A m \in Node : m # n => mem'[m] = mem[m]
      /\ UNCHANGED <<handle, children, strays>>
  BY ParentIsOther DEF LaunchAborted, Refused, InLaunch, ToFinish, Goto, TypeOK
<1>2. \A m \in Node : Gone(m) <=> Gone(m)'
  BY <1>1 DEF Gone, Alive, TypeOK
<1>3. \A m \in Node : Under(m) \subseteq Node
  BY DEF Under
<1>4. pc[c] = "absent" /\ Gone(c)
  BY <1>1 DEF LaunchInv, LaunchOf, TreeInv, BirthInv, Gone, Alive
<1>5. BirthInv'
  <2>1. \A x \in Node : c \in Under(x) => handle[x] # "none"
    BY <1>1, LaunchAbove
  <2>3. \A x \in Node : pc'[x] \in {"absent", "boot", "halted"} => pc'[x] = pc[x]
    BY <1>1 DEF TypeOK
  <2>4. \A x \in Node : pc[x] \in {"absent", "boot", "halted"} => pc'[x] = pc[x]
    BY <1>1 DEF TypeOK
  <2> QED BY <1>1, <1>3, <2>1, <2>3, <2>4 DEF TreeInv, BirthInv, TypeOK
<1>6. ReceiptInv'
  BY <1>1, <1>2, <1>4 DEF TreeInv, ReceiptInv, TypeOK
<1>7. ChildInv'
  <2>1. \A m \in Node : \A d \in children'[m] :
          d # Root /\ Parent[d] = m /\ receipt'[d] \in Collectable
    BY <1>1 DEF TreeInv, ChildInv, Collectable, TypeOK
  <2>2. ASSUME IsWindows, NEW m \in Node, pc'[m] \notin Ended,
               pc'[m] = "finish" => "drainage" \notin mem'[m].err,
               NEW d \in Node \ {Root}, Parent[d] = m
        PROVE  d \in children'[m] \/ receipt'[d] = "admitted" \/ Gone(d)'
    <3>1. pc[m] \notin Ended /\ (pc[m] = "finish" => "drainage" \notin mem[m].err)
      BY <1>1, <2>2 DEF Ended, TypeOK
    <3>2. d \in children[m] \/ receipt[d] = "admitted" \/ Gone(d)
      BY <2>2, <3>1 DEF TreeInv, ChildInv
    <3> QED BY <1>1, <1>2, <1>4, <3>2 DEF TypeOK
  <2> QED BY <2>1, <2>2 DEF ChildInv
<1>8. JobInv'
  BY <1>1, <1>2, <1>3 DEF TreeInv, JobInv, TypeOK
<1> QED BY <1>5, <1>6, <1>7, <1>8 DEF TreeInv

LEMMA PopenTree ==
  ASSUME TypeOK, LaunchInv, TreeInv, NEW n \in Controllers, NEW c \in Node, Popen(n, c)
  PROVE  TreeInv'
<1> USE NodeAssumption
<1>1. /\ c # Root /\ Parent[c] = n /\ receipt[c] = "admitted" /\ pc[n] = "popen" /\ c # n
      /\ pc'[n] = "bind" /\ pc'[c] \in {"boot", "main"}
      /\ c \in Controllers => pc'[c] = "boot"
      /\ \A m \in Node : m # n /\ m # c => pc'[m] = pc[m]
      /\ UNCHANGED <<handle, receipt, children, strays, mem>>
  BY ParentIsOther DEF Popen, InLaunch, TypeOK
<1>2. pc[c] = "absent"
  BY <1>1 DEF LaunchInv, LaunchOf
<1>3. \A m \in Node : m # c => (Gone(m) <=> Gone(m)')
  BY <1>1 DEF Gone, Alive
<1>4. \A x \in Node : Under(x) \subseteq Node
  BY DEF Under
<1>5. \A x \in Node : c \in Under(x) =>
        /\ handle[x] # "none"
        /\ IsWindows => pc[x] # "halted"
  BY <1>1, LaunchAbove
<1>6. BirthInv'
  <2>1. \A m \in strays' : pc'[m] = "halted"
    BY <1>1, <1>2 DEF TreeInv, BirthInv, TypeOK
  <2>2. ASSUME NEW x \in Controllers
        PROVE  /\ pc'[x] \in {"absent", "boot"} => handle'[x] = "none"
               /\ x # Root /\ receipt'[x] = "admitted" => handle'[x] = "none"
    BY <1>1, <1>2 DEF TreeInv, BirthInv
  <2>3. ASSUME NEW x \in Controllers, handle'[x] = "none"
        PROVE  pc'[x] \in {"absent", "boot", "halted"}
    BY <1>1, <2>3 DEF TreeInv, BirthInv
  <2>4. ASSUME NEW x \in Controllers, handle'[x] = "none", NEW m \in Under(x)
        PROVE  receipt'[m] = "none" /\ pc'[m] = "absent"
    <3>1. m # c /\ receipt[m] = "none" /\ pc[m] = "absent" /\ m \in Node
      BY <1>1, <1>4, <1>5, <2>4 DEF TreeInv, BirthInv
    <3> QED BY <1>1, <3>1
  <2> QED BY <2>1, <2>2, <2>3, <2>4 DEF BirthInv
<1>7. ReceiptInv'
  BY <1>1, <1>3 DEF TreeInv, ReceiptInv
<1>8. ChildInv'
  <2>1. ASSUME NEW m \in Node, pc'[m] \notin Ended, pc'[m] = "finish" => "drainage" \notin mem'[m].err
        PROVE  pc[m] \notin Ended /\ (pc[m] = "finish" => "drainage" \notin mem[m].err)
    BY <1>1, <1>2, <2>1 DEF Ended
  <2> QED BY <1>1, <1>3, <2>1 DEF TreeInv, ChildInv
<1>9. JobInv'
  <2> SUFFICES ASSUME IsWindows, NEW x \in Node, pc'[x] = "halted", NEW m \in Under(x)
               PROVE  Gone(m)'
    BY DEF JobInv
  <2>1. pc[x] = "halted" /\ m \in Node
    BY <1>1, <1>4
  <2>2. m # c
    BY <1>5, <2>1
  <2> QED BY <1>3, <2>1, <2>2 DEF TreeInv, JobInv
<1> QED BY <1>6, <1>7, <1>8, <1>9 DEF TreeInv

LEMMA BindTree ==
  ASSUME TypeOK, LaunchInv, TreeInv, NEW n \in Controllers, NEW c \in Node,
         Bind(n, c) \/ BindFails(n, c) \/ BindFailsUndrained(n, c)
  PROVE  TreeInv'
<1> USE NodeAssumption
<1>0. LaunchOf(c)
  BY DEF LaunchInv, Bind, BindFails, BindFailsUndrained, InLaunch
<1>1. /\ c # Root /\ Parent[c] = n /\ receipt[c] = "admitted" /\ pc[n] \in {"popen", "bind"} /\ c # n
      /\ pc'[n] = "main" /\ receipt'[c] \in {"bound", "launch_failed", "launch_undrained"}
      /\ \A m \in Node : m # c => receipt'[m] = receipt[m] /\ (m # n => pc'[m] = pc[m])
      /\ pc'[c] = pc[c] \/ (receipt'[c] = "launch_failed" /\ pc'[c] = "halted")
      /\ UNCHANGED <<handle, strays, mem>>
  BY ParentIsOther DEF Bind, BindFails, BindFailsUndrained, InLaunch, Goto, TypeOK
<1>2. receipt'[c] = "launch_failed" => Gone(c)'
  <2>1. CASE BindFails(n, c)
    BY <1>0, <1>1, <2>1 DEF BindFails, LaunchOf, Gone, Alive, TypeOK
  <2>2. CASE Bind(n, c) \/ BindFailsUndrained(n, c)
    BY <2>2 DEF Bind, BindFailsUndrained, TypeOK
  <2> QED BY <2>1, <2>2
<1>3. \A m \in Node : Gone(m) => Gone(m)'
  BY <1>1 DEF Gone, Alive
<1>4. \A x \in Node : Under(x) \subseteq Node
  BY DEF Under
<1>5. \A x \in Node : c \in Under(x) => handle[x] # "none"
  BY <1>1, LaunchAbove
<1>6. BirthInv'
  <2>1. \A m \in strays' : pc'[m] = "halted"
    BY <1>1 DEF TreeInv, BirthInv, TypeOK
  <2>2. ASSUME NEW x \in Controllers
        PROVE  /\ pc'[x] \in {"absent", "boot"} => handle'[x] = "none"
               /\ x # Root /\ receipt'[x] = "admitted" => handle'[x] = "none"
    BY <1>1 DEF TreeInv, BirthInv
  <2>3. ASSUME NEW x \in Controllers, handle'[x] = "none"
        PROVE  pc'[x] \in {"absent", "boot", "halted"}
    BY <1>1, <2>3 DEF TreeInv, BirthInv
  <2>4. ASSUME NEW x \in Controllers, handle'[x] = "none", NEW m \in Under(x)
        PROVE  receipt'[m] = "none" /\ pc'[m] = "absent"
    <3>1. m # c /\ receipt[m] = "none" /\ pc[m] = "absent" /\ m \in Node
      BY <1>1, <1>4, <1>5, <2>4 DEF TreeInv, BirthInv
    <3> QED BY <1>1, <3>1
  <2> QED BY <2>1, <2>2, <2>3, <2>4 DEF BirthInv
<1>7. ReceiptInv'
  BY <1>1, <1>2, <1>3 DEF TreeInv, ReceiptInv
<1>8. ChildInv'
  <2>1. children' = children \/ (receipt'[c] = "bound" /\ children' = [children EXCEPT ![n] = @ \cup {c}])
    BY DEF Bind, BindFails, BindFailsUndrained, TypeOK
  <2>2. \A m \in Node : \A d \in children[m] : d # c /\ d \in Node
    BY <1>1 DEF TreeInv, ChildInv, Collectable, TypeOK
  <2>3. \A m \in Node : \A d \in children'[m] :
          d # Root /\ Parent[d] = m /\ receipt'[d] \in Collectable
    BY <1>1, <2>1, <2>2 DEF TreeInv, ChildInv, Collectable, TypeOK
  <2>4. receipt'[c] = "bound" => c \in children'[n]
    BY <1>1 DEF Bind, BindFails, BindFailsUndrained, TypeOK
  <2>5. receipt'[c] = "launch_undrained" => ~IsWindows
    BY DEF Bind, BindFails, BindFailsUndrained, TypeOK
  <2>6. \A m \in Node : children[m] \subseteq children'[m]
    BY <2>1 DEF TypeOK
  <2>7. ASSUME IsWindows, NEW m \in Node, pc'[m] \notin Ended,
               pc'[m] = "finish" => "drainage" \notin mem'[m].err,
               NEW d \in Node \ {Root}, Parent[d] = m
        PROVE  d \in children'[m] \/ receipt'[d] = "admitted" \/ Gone(d)'
    <3>1. CASE d = c
      BY <1>1, <1>2, <2>4, <2>5, <2>7, <3>1
    <3>2. CASE d # c
      <4>1. pc[m] \notin Ended /\ (pc[m] = "finish" => "drainage" \notin mem[m].err)
        BY <1>1, <2>7 DEF Ended
      <4>2. d \in children[m] \/ receipt[d] = "admitted" \/ Gone(d)
        BY <2>7, <4>1 DEF TreeInv, ChildInv
      <4> QED BY <1>1, <1>3, <2>6, <3>2, <4>2
    <3> QED BY <3>1, <3>2
  <2> QED BY <2>3, <2>7 DEF ChildInv
<1>9. JobInv'
  <2> SUFFICES ASSUME IsWindows, NEW x \in Node, pc'[x] = "halted", NEW m \in Under(x)
               PROVE  Gone(m)'
    BY DEF JobInv
  <2>1. m \in Node
    BY <1>4
  <2>2. CASE pc[x] = "halted"
    BY <1>3, <2>1, <2>2 DEF TreeInv, JobInv
  <2>3. CASE pc[x] # "halted"
    <3>1. x = c
      BY <1>1, <2>3
    <3>2. x \in Controllers
      BY UnderFacts
    <3>3. pc[m] = "absent"
      BY <1>1, <3>1, <3>2 DEF TreeInv, BirthInv
    <3>4. m \notin strays
      BY <3>3 DEF TreeInv, BirthInv
    <3> QED BY <1>3, <2>1, <3>3, <3>4 DEF Gone, Alive
  <2> QED BY <2>2, <2>3
<1> QED BY <1>6, <1>7, <1>8, <1>9 DEF TreeInv

(* What an exited child left, once it is read: a settled receipt is earned.*)
LEMMA DrainageGone ==
  ASSUME TypeOK, TreeInv, NEW c \in Node \ {Root}, ~Alive(c), receipt[c] \in Collectable
  PROVE  /\ Drainage(c) \in Collectable
         /\ Drainage(c) \in {"drained", "bootstrap_failed"} => Gone(c)
         /\ Drainage(c) \notin {"draining", "drain_failed"} => Gone(c)
<1>1. CASE receipt[c] \notin {"bound", "draining"}
  <2>1. Drainage(c) = receipt[c]
    BY <1>1 DEF Drainage
  <2> QED BY <1>1, <2>1 DEF TreeInv, ReceiptInv, Collectable
<1>2. CASE receipt[c] \in {"bound", "draining"}
  <2>1. CASE Quiet(c)
    BY <1>2, <2>1 DEF Drainage, Quiet, Gone, Collectable
  <2>2. CASE ~Quiet(c)
    BY <1>2, <2>2 DEF Drainage, Collectable
  <2> QED BY <2>1, <2>2
<1> QED BY <1>1, <1>2

LEMMA CollectTree ==
  ASSUME TypeOK, TreeInv, NEW n \in Controllers, NEW c \in Node,
         Collect(n, c) \/ Settle(n, c) \/ SettleMissed(n, c)
  PROVE  TreeInv'
<1> USE NodeAssumption
<1>1. /\ c \in children[n] /\ ~Alive(c) /\ c # Root /\ Parent[c] = n /\ receipt[c] \in Collectable
      /\ receipt' = receipt \/ receipt' = [receipt EXCEPT ![c] = Drainage(c)]
      /\ UNCHANGED <<pc, handle, strays>>
  BY DEF Collect, Settle, SettleMissed, TreeInv, ChildInv
<1>2. \A m \in Node : Gone(m) <=> Gone(m)'
  BY <1>1 DEF Gone, Alive
<1>3. \A x \in Node : Under(x) \subseteq Node
  BY DEF Under
<1>4. Drainage(c) \in Collectable /\ Drainage(c) \in {"drained", "bootstrap_failed"} => Gone(c)
  BY <1>1, DrainageGone
<1>5. BirthInv'
  <2>1. \A m \in Node : receipt'[m] \in {"none", "admitted"} <=> receipt[m] \in {"none", "admitted"}
    BY <1>1, <1>4, DrainageGone DEF Collectable, TypeOK
  <2>2. \A m \in Node : receipt'[m] = receipt[m] \/ m = c
    BY <1>1 DEF TypeOK
  <2>3. receipt[c] \notin {"none", "admitted"}
    BY <1>1 DEF Collectable
  <2>4. ASSUME NEW x \in Controllers, handle'[x] = "none", NEW m \in Under(x)
        PROVE  receipt'[m] = "none" /\ pc'[m] = "absent"
    BY <1>1, <1>3, <2>2, <2>3, <2>4 DEF TreeInv, BirthInv
  <2>5. ASSUME NEW x \in Controllers
        PROVE  /\ pc'[x] \in {"absent", "boot"} => handle'[x] = "none"
               /\ x # Root /\ receipt'[x] = "admitted" => handle'[x] = "none"
               /\ handle'[x] = "none" => pc'[x] \in {"absent", "boot", "halted"}
    BY <1>1, <2>1, <2>2, <2>3 DEF TreeInv, BirthInv
  <2>6. \A m \in strays' : pc'[m] = "halted"
    BY <1>1 DEF TreeInv, BirthInv
  <2> QED BY <2>4, <2>5, <2>6 DEF BirthInv
<1>6. ReceiptInv'
  <2> SUFFICES ASSUME NEW m \in Node \ {Root},
                      receipt'[m] \in {"none", "launch_failed", "drained", "bootstrap_failed"}
               PROVE  Gone(m)
    BY <1>2 DEF ReceiptInv
  <2>1. CASE receipt'[m] = receipt[m]
    BY <2>1 DEF TreeInv, ReceiptInv
  <2>2. CASE m = c /\ receipt'[m] = Drainage(c)
    BY <1>1, <2>2, DrainageGone DEF Collectable
  <2> QED BY <1>1, <2>1, <2>2 DEF TypeOK
<1>7. ChildInv'
  <2>1. \A m \in Node : children'[m] \subseteq children[m] /\ (m # n => children'[m] = children[m] /\ mem'[m] = mem[m])
        /\ \A d \in children[n] : d # c => d \in children'[n]
    BY DEF Collect, Settle, SettleMissed, AddError, TypeOK
  <2>2. \A m \in Node : \A d \in children'[m] :
          d # Root /\ Parent[d] = m /\ receipt'[d] \in Collectable
    BY <1>1, <2>1, DrainageGone DEF TreeInv, ChildInv, TypeOK
  <2>3. mem[n].err \subseteq mem'[n].err
    BY DEF Collect, Settle, SettleMissed, AddError, TypeOK, Mems
  <2>4. IsWindows /\ "drainage" \notin mem'[n].err => c \in children'[n] \/ Gone(c)
    <3>1. CASE Collect(n, c)
      BY <1>1, <3>1 DEF Collect
    <3>2. CASE Settle(n, c)
      <4>1. "drainage" \notin mem'[n].err => receipt'[c] \notin {"draining", "drain_failed"}
        BY <3>2 DEF Settle, AddError, TypeOK, Mems
      <4>2. receipt'[c] = Drainage(c)
        BY <3>2 DEF Settle, TypeOK
      <4> QED BY <1>1, <4>1, <4>2, DrainageGone
    <3>3. CASE SettleMissed(n, c)
      BY <3>3 DEF SettleMissed
    <3> QED BY <3>1, <3>2, <3>3
  <2>5. ASSUME IsWindows, NEW m \in Node, pc'[m] \notin Ended,
               pc'[m] = "finish" => "drainage" \notin mem'[m].err,
               NEW d \in Node \ {Root}, Parent[d] = m
        PROVE  d \in children'[m] \/ receipt'[d] = "admitted" \/ Gone(d)'
    <3>1. CASE d = c /\ pc[n] = "finish"
      BY <1>1, <1>2, <2>4, <2>5, <3>1
    <3>2. CASE d = c /\ pc[n] # "finish"
      BY <1>1, <3>2, <2>5 DEF Collect, Settle, SettleMissed
    <3>3. CASE d # c
      <4>1. pc[m] \notin Ended /\ (pc[m] = "finish" => "drainage" \notin mem[m].err)
        BY <1>1, <2>1, <2>3, <2>5
      <4>2. d \in children[m] \/ receipt[d] = "admitted" \/ Gone(d)
        BY <2>5, <4>1 DEF TreeInv, ChildInv
      <4> QED BY <1>1, <1>2, <2>1, <2>5, <3>3, <4>2 DEF TypeOK
    <3> QED BY <3>1, <3>2, <3>3
  <2> QED BY <2>2, <2>5 DEF ChildInv
<1>8. JobInv'
  BY <1>1, <1>2, <1>3 DEF TreeInv, JobInv
<1> QED BY <1>5, <1>6, <1>7, <1>8 DEF TreeInv

LEMMA CommandTree ==
  ASSUME TypeOK, TreeInv, NEW c \in Node, NEW leaves \in BOOLEAN,
         CommandExits(c, leaves) \/ StrayExits(c)
  PROVE  TreeInv'
<1> USE NodeAssumption
<1>1. CASE CommandExits(c, leaves)
  <2>1. /\ c \notin Controllers /\ Alive(c) /\ Under(c) = {}
        /\ pc'[c] = "halted" /\ \A m \in Node : m # c => pc'[m] = pc[m]
        /\ strays' \subseteq strays \cup {c}
        /\ UNCHANGED <<handle, receipt, children, mem>>
    BY <1>1, UnderFacts DEF CommandExits, TypeOK
  <2>2. \A m \in Node : Gone(m) => Gone(m)' /\ m # c
    BY <2>1 DEF Gone, Alive
  <2>3. \A x \in Node : Under(x) \subseteq Node
    BY DEF Under
  <2>4. BirthInv'
    <3>1. \A m \in strays' : pc'[m] = "halted"
      BY <2>1 DEF TreeInv, BirthInv, TypeOK
    <3>2. ASSUME NEW x \in Controllers, handle'[x] = "none", NEW m \in Under(x)
          PROVE  receipt'[m] = "none" /\ pc'[m] = "absent"
      BY <2>1, <2>3, <3>2 DEF TreeInv, BirthInv, Alive
    <3>3. ASSUME NEW x \in Controllers
          PROVE  /\ pc'[x] \in {"absent", "boot"} => handle'[x] = "none"
                 /\ x # Root /\ receipt'[x] = "admitted" => handle'[x] = "none"
                 /\ handle'[x] = "none" => pc'[x] \in {"absent", "boot", "halted"}
      BY <2>1 DEF TreeInv, BirthInv
    <3> QED BY <3>1, <3>2, <3>3 DEF BirthInv
  <2>5. ReceiptInv'
    BY <2>1, <2>2 DEF TreeInv, ReceiptInv
  <2>6. ChildInv'
    <3>1. \A m \in Node : pc'[m] \notin Ended => pc'[m] = pc[m]
      BY <2>1 DEF Ended
    <3> QED BY <2>1, <2>2, <3>1 DEF TreeInv, ChildInv
  <2>7. JobInv'
    BY <2>1, <2>2, <2>3 DEF TreeInv, JobInv
  <2> QED BY <2>4, <2>5, <2>6, <2>7 DEF TreeInv
<1>2. CASE StrayExits(c)
  <2>1. /\ strays' \subseteq strays
        /\ UNCHANGED <<pc, handle, receipt, children, mem>>
    BY <1>2 DEF StrayExits
  <2>2. \A m \in Node : Gone(m) => Gone(m)'
    BY <2>1 DEF Gone, Alive
  <2>3. \A x \in Node : Under(x) \subseteq Node
    BY DEF Under
  <2>4. BirthInv' /\ ReceiptInv' /\ JobInv'
    BY <2>1, <2>2, <2>3 DEF TreeInv, BirthInv, ReceiptInv, JobInv
  <2>5. ChildInv'
    BY <2>1, <2>2 DEF TreeInv, ChildInv
  <2> QED BY <2>4, <2>5 DEF TreeInv
<1> QED BY <1>1, <1>2

LEMMA NextTree == CancelInv /\ FileInv /\ TreeInv /\ [Next]_vars => TreeInv'
<1> SUFFICES ASSUME CancelInv, FileInv, TreeInv, [Next]_vars PROVE TreeInv'
  OBVIOUS
<1> USE NodeAssumption
<1>0. TypeOK /\ LaunchInv /\ SealInv
  BY DEF CancelInv, FileInv
<1>1. ASSUME NEW n \in Node,
             \/ n \in Controllers /\ BootFails(n)
             \/ n \in Controllers /\ Leave(n)
             \/ Crash(n)
             \/ \E c \in Node : Terminate(n, c)
      PROVE  TreeInv'
  BY <1>0, <1>1, EndsSteps, EndsTree
<1>2. ASSUME NEW n \in Controllers, Boot(n) PROVE TreeInv'
  BY <1>0, <1>2, BootTree
<1>3. ASSUME NEW n \in Controllers, NEW waiting \in BOOLEAN,
             Ready(n) \/ Return(n, waiting) \/ Fail(n) \/ Stop(n)
      PROVE  TreeInv'
  <2>1. Moves(n)
    BY <1>0, <1>3 DEF Ready, Return, Fail, Stop, StopOnCancel, StopOnOrphan, ToFinish, Goto, TypeOK,
                      Moves, Ended
  <2> QED BY <1>0, <2>1, MovesTree
<1>4. ASSUME NEW n \in Controllers,
             Acquire(n) \/ Judge(n) \/ Gate(n) \/ WriteResult(n)
      PROVE  TreeInv'
  <2>1. Moves(n)
    BY <1>0, <1>4 DEF Acquire, Judge, Gate, WriteResult, Goto, TypeOK, Moves, Ended
  <2> QED BY <1>0, <2>1, MovesTree
<1>5. ASSUME NEW n \in Controllers, Seal(n) PROVE TreeInv'
  <2>1. draft[n].status # "none"
    BY <1>0, <1>5 DEF Seal, SealInv, TerminalStatus
  <2>2. Moves(n)
    BY <1>0, <1>5, <2>1 DEF Seal, Goto, TypeOK, Moves, Ended
  <2> QED BY <1>0, <2>2, MovesTree
<1>6. ASSUME NEW n \in Controllers, NEW c \in Node,
             \/ Admit(n, c) \/ LaunchAborted(n, c) \/ Refused(n, c) \/ Popen(n, c)
             \/ Bind(n, c) \/ BindFails(n, c) \/ BindFailsUndrained(n, c)
      PROVE  TreeInv'
  BY <1>0, <1>6, AdmitTree, RefusedTree, PopenTree, BindTree
<1>7. ASSUME NEW n \in Controllers, NEW c \in Node,
             Collect(n, c) \/ Settle(n, c) \/ SettleMissed(n, c)
      PROVE  TreeInv'
  BY <1>0, <1>7, CollectTree
<1>8. ASSUME NEW n \in Node, NEW leaves \in BOOLEAN, CommandExits(n, leaves) \/ StrayExits(n)
      PROVE  TreeInv'
  BY <1>0, <1>8, CommandTree
<1>9. ASSUME UNCHANGED <<pc, handle, receipt, children, strays, mem>> PROVE TreeInv'
  <2>1. \A m \in Node : Gone(m) => Gone(m)'
    BY <1>9 DEF Gone, Alive
  <2>2. \A x \in Node : Under(x) \subseteq Node
    BY DEF Under
  <2>3. BirthInv' /\ ReceiptInv' /\ JobInv'
    BY <1>9, <2>1, <2>2 DEF TreeInv, BirthInv, ReceiptInv, JobInv
  <2>4. ChildInv'
    BY <1>9, <2>1 DEF TreeInv, ChildInv
  <2> QED BY <2>3, <2>4 DEF TreeInv
<1>10. ASSUME NEW n \in Dispatchers, Hosted(n) PROVE TreeInv'
  BY <1>9, <1>10 DEF Hosted, RecordCreating, Post, Observe, RemoteEnds
<1>11. CASE CancelAdmit \/ CancelWrite \/ CancellerDies
  BY <1>9, <1>11 DEF CancelAdmit, CancelWrite, CancellerDies
<1>12. CASE Over \/ UNCHANGED vars
  BY <1>9, <1>12 DEF Over, vars
<1> QED
  BY <1>1, <1>2, <1>3, <1>4, <1>5, <1>6, <1>7, <1>8, <1>10, <1>11, <1>12
     DEF Next, StartUp, Work, Launch, Conclude, Environment

-----------------------------------------------------------------------------
(* Results.  Below a controller that has stopped nobody is left to act:    *)
(* its tree is frozen, and what was true of it when it was judged stays so.*)
LEMMA Frozen ==
  ASSUME CancelInv, TreeInv, [Next]_vars, NEW n \in Controllers, Stopped(n)
  PROVE  /\ Stopped(n)'
         /\ \A m \in Under(n) :
              receipt'[m] = receipt[m] /\ handle'[m] = handle[m] /\ result'[m] = result[m]
         /\ \A m \in {n} \cup Under(n) : remote'[m] = "running" => remote[m] = "running"
<1> USE NodeAssumption
<1> DEFINE Calm ==
      /\ \A m \in Under(n) :
           receipt'[m] = receipt[m] /\ handle'[m] = handle[m] /\ result'[m] = result[m]
      /\ \A m \in {n} \cup Under(n) : remote'[m] = "running" => remote[m] = "running"
<1> SUFFICES Stopped(n)' /\ Calm
  OBVIOUS
<1>0. /\ TypeOK /\ LaunchInv /\ n \in Node /\ Under(n) \subseteq Node \ {Root} /\ n \notin Under(n)
      /\ pc[n] \in {"gate", "write", "seal", "leave", "halted"}
      /\ \A m \in Under(n) : pc[m] \in {"absent", "halted"} /\ m \notin strays
  BY UnderFacts DEF CancelInv, Stopped, Ended, Gone, Alive
<1>1. \A c \in Node \ {Root} :
        pc[Parent[c]] \notin {"gate", "write", "seal", "leave", "halted", "absent"} => c \notin Under(n)
  BY <1>0, UnderFacts
<1>2. ASSUME pc'[n] \in {"gate", "write", "seal", "leave", "halted"},
             \A m \in Under(n) : pc'[m] \in {"absent", "halted"} /\ m \notin strays'
      PROVE  Stopped(n)'
  BY <1>2 DEF Stopped, Ended, Gone, Alive
<1>3. ASSUME NEW p \in Node,
             \/ p \in Controllers /\ BootFails(p)
             \/ p \in Controllers /\ Leave(p)
             \/ Crash(p)
             \/ \E c \in Node : Terminate(p, c)
      PROVE  Stopped(n)' /\ Calm
  <2>1. PICK c \in Node, gone \in SUBSET Node : Ends(c, gone)
    BY <1>0, <1>3, EndsSteps
  <2>2. PICK code : End(c, code, gone)
    BY <2>1 DEF Ends
  <2>3. \A m \in Node : pc'[m] = pc[m] \/ pc'[m] = "halted"
    BY <1>0, <2>2, EndKills
  <2>4. strays' \subseteq strays
    BY <1>0, <2>2, EndKills
  <2>5. UNCHANGED <<handle, receipt, result, remote>>
    BY <2>1 DEF Ends, hosted
  <2>6. Stopped(n)'
    BY <1>0, <1>2, <2>3, <2>4
  <2> QED BY <2>5, <2>6
<1>4. ASSUME NEW p \in Controllers, NEW waiting \in BOOLEAN,
             Boot(p) \/ Ready(p) \/ Return(p, waiting) \/ Fail(p) \/ Stop(p) \/ Acquire(p) \/ Judge(p)
      PROVE  Stopped(n)' /\ Calm
  <2>1. /\ p \notin Under(n) /\ p # n
        /\ \A m \in Node : m # p => pc'[m] = pc[m] /\ handle'[m] = handle[m]
        /\ UNCHANGED <<receipt, result, remote, strays>>
    BY <1>0, <1>4 DEF Boot, Ready, Return, Fail, Stop, StopOnCancel, StopOnOrphan, Acquire, Judge,
                      ToFinish, Goto, TypeOK, hosted
  <2> QED BY <1>0, <1>2, <2>1
<1>5. ASSUME NEW p \in Controllers, Gate(p) \/ WriteResult(p) \/ Seal(p)
      PROVE  Stopped(n)' /\ Calm
  <2>1. /\ p \notin Under(n) /\ pc'[p] \in {"write", "seal", "leave"}
        /\ \A m \in Node : m # p => pc'[m] = pc[m] /\ handle'[m] = handle[m] /\ result'[m] = result[m]
        /\ UNCHANGED <<receipt, remote, strays>>
    BY <1>0, <1>5 DEF Gate, WriteResult, Seal, Goto, TypeOK, hosted
  <2> QED BY <1>0, <1>2, <2>1
<1>6. ASSUME NEW p \in Controllers, NEW c \in Node,
             \/ Admit(p, c) \/ LaunchAborted(p, c) \/ Refused(p, c) \/ Popen(p, c)
             \/ Bind(p, c) \/ BindFails(p, c) \/ BindFailsUndrained(p, c)
      PROVE  Stopped(n)' /\ Calm
  <2>1. /\ c # Root /\ Parent[c] = p /\ pc[p] \in {"main", "admit", "popen", "bind"} /\ c # p
        /\ \A m \in Node : m # c /\ m # p => pc'[m] = pc[m]
        /\ \A m \in Node : m # c => receipt'[m] = receipt[m]
        /\ UNCHANGED <<handle, result, remote, strays>>
    BY <1>0, <1>6, ParentIsOther
       DEF Admit, LaunchAborted, Refused, Popen, Bind, BindFails, BindFailsUndrained, InLaunch,
           ToFinish, Goto, TypeOK, hosted
  <2>2. c \notin Under(n) /\ p \notin Under(n) /\ p # n
    BY <1>0, <1>1, <2>1
  <2>3. c = n => pc'[n] \in {"gate", "write", "seal", "leave", "halted"}
    BY <1>0, <1>6, <2>1
       DEF Admit, LaunchAborted, Refused, Popen, Bind, BindFails, BindFailsUndrained, InLaunch,
           ToFinish, Goto, TypeOK, LaunchInv, LaunchOf
  <2> QED BY <1>0, <1>2, <2>1, <2>2, <2>3
<1>7. ASSUME NEW p \in Controllers, NEW c \in Node,
             Collect(p, c) \/ Settle(p, c) \/ SettleMissed(p, c)
      PROVE  Stopped(n)' /\ Calm
  <2>1. /\ c # Root /\ Parent[c] = p /\ pc[p] \in {"main", "finish"}
        /\ \A m \in Node : m # c => receipt'[m] = receipt[m]
        /\ UNCHANGED <<pc, handle, result, remote, strays>>
    BY <1>0, <1>7 DEF Collect, Settle, SettleMissed, TreeInv, ChildInv, TypeOK, hosted
  <2>2. c \notin Under(n)
    BY <1>1, <2>1
  <2> QED BY <1>0, <1>2, <2>1, <2>2
<1>8. ASSUME NEW c \in Node, NEW leaves \in BOOLEAN, CommandExits(c, leaves) \/ StrayExits(c)
      PROVE  Stopped(n)' /\ Calm
  <2>1. CASE CommandExits(c, leaves)
    <3>1. /\ c \notin Under(n) /\ c # n
          /\ \A m \in Node : m # c => pc'[m] = pc[m]
          /\ strays' \subseteq strays \cup {c}
          /\ UNCHANGED <<handle, receipt, result, remote>>
      BY <1>0, <2>1 DEF CommandExits, Alive, TypeOK, hosted
    <3> QED BY <1>0, <1>2, <3>1
  <2>2. CASE StrayExits(c)
    BY <1>0, <1>2, <2>2 DEF StrayExits, hosted
  <2> QED BY <1>8, <2>1, <2>2
<1>9. ASSUME NEW p \in Dispatchers, Hosted(p) PROVE Stopped(n)' /\ Calm
  <2>1. UNCHANGED <<pc, strays, handle, receipt, result>>
    BY <1>9 DEF Hosted, RecordCreating, Post, Observe, RemoteEnds
  <2>2. \A m \in {n} \cup Under(n) : remote'[m] = "running" => remote[m] = "running"
    <3>1. CASE Post(p)
      BY <1>0, <3>1 DEF Post, TypeOK
    <3>2. CASE remote' = remote \/ remote' = [remote EXCEPT ![p] = "done"]
      BY <1>0, <3>2 DEF TypeOK
    <3> QED BY <1>9, <3>1, <3>2 DEF Hosted, RecordCreating, Observe, RemoteEnds
  <2> QED BY <1>0, <1>2, <2>1, <2>2
<1>10. CASE CancelAdmit \/ CancelWrite \/ CancellerDies \/ Over \/ UNCHANGED vars
  <2>1. UNCHANGED <<pc, strays, handle, receipt, result, remote>>
    BY <1>10 DEF CancelAdmit, CancelWrite, CancellerDies, Over, vars, hosted
  <2> QED BY <1>0, <1>2, <2>1
<1> HIDE DEF Calm
<1> QED
  BY <1>3, <1>4, <1>5, <1>6, <1>7, <1>8, <1>9, <1>10
     DEF Next, StartUp, Work, Launch, Conclude, Environment

(* What finish writes when it finds no error is true of the tree.          *)
LEMMA PayloadHonest ==
  ASSUME CancelInv, TreeInv, DispatchInv, NEW n \in Controllers, pc[n] = "finish", children[n] = {}
  PROVE  /\ Payload(n).drained => \A m \in Under(n) : Gone(m)
         /\ Payload(n).code = 0 => Payload(n).drained /\ Whole(n)
         /\ ~Payload(n).remoteMay =>
              Payload(n).drained /\ \A m \in {n} \cup Under(n) : remote[m] # "running"
         /\ Payload(n).status \in {"finished", "cancelled_local"} => Payload(n).drained
<1> USE NodeAssumption
<1>0. TypeOK /\ LaunchInv /\ n \in Node
  BY DEF CancelInv
<1>1. /\ Payload(n).drained = ("drainage" \notin Errors(n))
      /\ Payload(n).code = 0 => Errors(n) = {}
      /\ Payload(n).remoteMay = (\/ Errors(n) # {}
                                 \/ \E m \in Under(n) : Sealed(m) /\ result[m].remoteMay
                                 \/ Seen(n) \ {"terminal"} # {})
      /\ Payload(n).status \in {"finished", "cancelled_local"} => Errors(n) = {}
  <2> DEFINE code == IF Errors(n) = {} THEN mem[n].code ELSE 1
             rest == \/ Errors(n) # {}
                     \/ \E m \in Under(n) : Sealed(m) /\ result[m].remoteMay
                     \/ Seen(n) \ {"terminal"} # {}
  <2>1. /\ Payload(n).drained = ("drainage" \notin Errors(n))
        /\ Payload(n).code = code
        /\ Payload(n).remoteMay = rest
        /\ Payload(n).status = IF mem[n].cancelled /\ Errors(n) = {} THEN "cancelled_local"
                               ELSE IF code # 0 THEN "failed" ELSE "finished"
    BY DEF Payload
  <2>2. code = 0 => Errors(n) = {}
    OBVIOUS
  <2> HIDE DEF code
  <2> QED BY <2>1, <2>2
<1>2. ASSUME "drainage" \notin Errors(n) PROVE \A m \in Under(n) : Gone(m)
  <2>1. ~Undrained(n) /\ "drainage" \notin mem[n].err
    BY <1>2 DEF Errors
  <2>2. CASE ~IsWindows
    <3>1. \A m \in Under(n) : m \in Node \ {Root}
      BY UnderFacts
    <3> QED BY <2>1, <2>2, <3>1
            DEF Undrained, Launched, LocalDrained, TreeInv, ReceiptInv
  <2>3. CASE IsWindows
    <3> SUFFICES ASSUME NEW m \in Under(n) PROVE Gone(m)
      OBVIOUS
    <3>1. m \in Node /\ n \in Anc[m]
      BY DEF Under
    <3>2. PICK b \in {m} \cup Anc[m] : b \in Node \ {Root} /\ Parent[b] = n
      BY <3>1, Branch
    <3>3. receipt[b] # "admitted"
      BY <1>0, <3>2 DEF LaunchInv, LaunchOf, Launching
    <3>4. Gone(b)
      BY <1>0, <2>1, <2>3, <3>2, <3>3 DEF TreeInv, ChildInv, Ended
    <3>5. CASE b = m
      BY <3>4, <3>5
    <3>6. CASE b # m
      <4>1. m \in Under(b) /\ b \in Controllers
        BY <3>1, <3>2, <3>6, AncControllers DEF Under
      <4>2. CASE pc[b] = "halted"
        BY <2>3, <4>1, <4>2, <3>2 DEF TreeInv, JobInv
      <4>3. CASE pc[b] = "absent"
        BY <4>1, <4>3, <3>1 DEF TreeInv, BirthInv, Gone, Alive
      <4> QED BY <3>4, <4>2, <4>3 DEF Gone, Alive
    <3> QED BY <3>5, <3>6
  <2> QED BY <2>2, <2>3
<1>3. ASSUME Errors(n) = {} PROVE Whole(n)
  <2>1. ~BadEvidence(n)
    BY <1>3 DEF Errors
  <2> QED BY <2>1 DEF BadEvidence, GoodChild, Whole
<1>4. ASSUME Seen(n) \ {"terminal"} = {}, NEW m \in {n} \cup Under(n) PROVE remote[m] # "running"
  <2>1. m \in Node /\ dispatch[m] \in {"none", "terminal"}
    BY <1>0, <1>4 DEF Seen, Under
  <2> QED BY <2>1 DEF DispatchInv
<1>5. Payload(n).drained => \A m \in Under(n) : Gone(m)
  BY <1>1, <1>2
<1>6. Errors(n) = {} => "drainage" \notin Errors(n)
  OBVIOUS
<1>7. ~Payload(n).remoteMay => Errors(n) = {} /\ Seen(n) \ {"terminal"} = {}
  BY <1>1
<1>8. ~Payload(n).remoteMay => \A m \in {n} \cup Under(n) : remote[m] # "running"
  BY <1>4, <1>7
<1> QED BY <1>1, <1>3, <1>5, <1>6, <1>7, <1>8

LEMMA InitResult == Init => ResultInv
BY NodeAssumption DEF Init, ResultInv, DispatchInv, HonestInv, Honest, NoResult, NoCode

LEMMA NextDispatch == TypeOK /\ DispatchInv /\ [Next]_vars => DispatchInv'
<1> SUFFICES ASSUME TypeOK, DispatchInv, [Next]_vars PROVE DispatchInv'
  OBVIOUS
<1> USE NodeAssumption
<1>1. ASSUME NEW p \in Dispatchers, Hosted(p) PROVE DispatchInv'
  <2>1. CASE RecordCreating(p)
    BY <2>1 DEF RecordCreating, DispatchInv, TypeOK
  <2>2. CASE Post(p)
    BY <2>2 DEF Post, DispatchInv, TypeOK
  <2>3. ASSUME NEW seen \in {"active", "unconfirmed", "terminal"}, Observe(p, seen)
        PROVE  DispatchInv'
    BY <2>3 DEF Observe, DispatchInv, TypeOK
  <2>4. CASE RemoteEnds(p)
    BY <2>4 DEF RemoteEnds, DispatchInv, TypeOK
  <2> QED BY <1>1, <2>1, <2>2, <2>3, <2>4 DEF Hosted
<1>2. ASSUME UNCHANGED hosted PROVE DispatchInv'
  BY <1>2 DEF hosted, DispatchInv
<1>3. ASSUME NEW p \in Controllers, StartUp(p) \/ Stop(p) PROVE UNCHANGED hosted
  BY <1>3 DEF StartUp, Boot, BootFails, Ready, Stop, StopOnCancel, StopOnOrphan, ToFinish
<1>4. ASSUME NEW p \in Controllers, Work(p) PROVE UNCHANGED hosted
  BY <1>4 DEF Work, Return, Fail, Admit, Collect, Terminate, ToFinish
<1>5. ASSUME NEW p \in Controllers, Launch(p) PROVE UNCHANGED hosted
  BY <1>5 DEF Launch, LaunchAborted, Acquire, Refused, Popen, Bind, BindFails, BindFailsUndrained,
              ToFinish
<1>6. ASSUME NEW p \in Controllers, Conclude(p) PROVE UNCHANGED hosted
  BY <1>6 DEF Conclude, Settle, SettleMissed, Judge, Gate, WriteResult, Seal, Leave
<1>7. ASSUME Environment PROVE UNCHANGED hosted
  BY <1>7 DEF Environment, CancelAdmit, CancelWrite, CancellerDies, Crash, CommandExits, StrayExits,
              hosted
<1>8. ASSUME Over \/ UNCHANGED vars PROVE UNCHANGED hosted
  BY <1>8 DEF Over, vars, hosted
<1> QED BY <1>1, <1>2, <1>3, <1>4, <1>5, <1>6, <1>7, <1>8 DEF Next

(* Where the results and drafts of a step come from.                       *)
LEMMA ResultSteps ==
  ASSUME TypeOK, [Next]_vars, NEW n \in Controllers
  PROVE  /\ result'[n] \in {result[n], draft[n]}
         /\ \/ draft'[n] \in {draft[n], NoResult}
            \/ Judge(n) /\ draft'[n] = Payload(n)
            \/ Gate(n) /\ cancel /\ draft'[n] = Overridden(n)
<1> USE NodeAssumption
<1> DEFINE Kept == result' = result /\ draft'[n] \in {draft[n], NoResult}
<1>1. ASSUME NEW p \in Node,
             \/ p \in Controllers /\ BootFails(p)
             \/ p \in Controllers /\ Leave(p)
             \/ Crash(p)
             \/ \E c \in Node : Terminate(p, c)
      PROVE  Kept
  <2>1. PICK c \in Node, gone \in SUBSET Node : Ends(c, gone)
    BY <1>1, EndsSteps
  <2>2. PICK code : End(c, code, gone)
    BY <2>1 DEF Ends
  <2>3. draft'[n] = NoResult \/ draft'[n] = draft[n]
    BY <2>2, EndKills
  <2>4. result' = result
    BY <2>1 DEF Ends
  <2> QED BY <2>3, <2>4
<1>2. ASSUME NEW p \in Controllers, NEW waiting \in BOOLEAN,
             Boot(p) \/ Ready(p) \/ Return(p, waiting) \/ Fail(p) \/ Stop(p) \/ Acquire(p)
      PROVE  Kept
  BY <1>2 DEF Boot, Ready, Return, Fail, Stop, StopOnCancel, StopOnOrphan, Acquire, ToFinish
<1>3. ASSUME NEW p \in Controllers, NEW c \in Node,
             \/ Admit(p, c) \/ LaunchAborted(p, c) \/ Refused(p, c) \/ Popen(p, c)
             \/ Bind(p, c) \/ BindFails(p, c) \/ BindFailsUndrained(p, c)
             \/ Collect(p, c) \/ Settle(p, c) \/ SettleMissed(p, c)
      PROVE  Kept
  BY <1>3 DEF Admit, LaunchAborted, Refused, Popen, Bind, BindFails, BindFailsUndrained, Collect,
              Settle, SettleMissed, ToFinish
<1>4. ASSUME NEW p \in Controllers, Judge(p) \/ Gate(p) \/ WriteResult(p) \/ Seal(p)
      PROVE  /\ result'[n] \in {result[n], draft[n]}
             /\ \/ draft'[n] \in {draft[n], NoResult}
                \/ Judge(n) /\ draft'[n] = Payload(n)
                \/ Gate(n) /\ cancel /\ draft'[n] = Overridden(n)
  <2>1. CASE p = n
    BY <1>4, <2>1 DEF Judge, Gate, WriteResult, Seal, TypeOK
  <2>2. CASE p # n
    BY <1>4, <2>2 DEF Judge, Gate, WriteResult, Seal, TypeOK
  <2> QED BY <2>1, <2>2
<1>5. ASSUME NEW p \in Dispatchers, Hosted(p) PROVE Kept
  BY <1>5 DEF Hosted, RecordCreating, Post, Observe, RemoteEnds
<1>6. ASSUME NEW p \in Node, NEW leaves \in BOOLEAN, CommandExits(p, leaves) \/ StrayExits(p)
      PROVE  Kept
  BY <1>6 DEF CommandExits, StrayExits
<1>7. CASE CancelAdmit \/ CancelWrite \/ CancellerDies \/ Over \/ UNCHANGED vars
  BY <1>7 DEF CancelAdmit, CancelWrite, CancellerDies, Over, vars
<1>8. Kept => result'[n] = result[n] /\ draft'[n] \in {draft[n], NoResult}
  OBVIOUS
<1> HIDE DEF Kept
<1> QED
  BY <1>1, <1>2, <1>3, <1>4, <1>5, <1>6, <1>7, <1>8
     DEF Next, StartUp, Work, Launch, Conclude, Environment

LEMMA NextResult ==
  CancelInv /\ FileInv /\ TreeInv /\ ResultInv /\ [Next]_vars => ResultInv'
<1> SUFFICES ASSUME CancelInv, FileInv, TreeInv, ResultInv, [Next]_vars PROVE ResultInv'
  OBVIOUS
<1> USE NodeAssumption
<1>0. TypeOK /\ DispatchInv /\ HonestInv /\ SealInv
  BY DEF CancelInv, ResultInv, FileInv
<1>1. ASSUME NEW n \in Controllers, NEW r, Honest(n, r)
      PROVE  /\ r.drained => Stopped(n)'
             /\ r.code = 0 => r.drained /\ Whole(n)'
             /\ ~r.remoteMay => r.drained /\ \A m \in {n} \cup Under(n) : remote'[m] # "running"
             /\ r.status \in {"finished", "cancelled_local"} => r.drained
  <2>1. CASE Stopped(n)
    <3>1. Stopped(n)' /\ \A m \in Under(n) :
              receipt'[m] = receipt[m] /\ handle'[m] = handle[m] /\ result'[m] = result[m]
      BY <2>1, Frozen
    <3>2. \A m \in {n} \cup Under(n) : remote'[m] = "running" => remote[m] = "running"
      BY <2>1, Frozen
    <3>3. Whole(n) => Whole(n)'
      BY <3>1 DEF Whole, Sealed
    <3> QED BY <1>1, <3>1, <3>2, <3>3 DEF Honest
  <2>2. CASE ~Stopped(n)
    BY <1>1, <2>2 DEF Honest
  <2> QED BY <2>1, <2>2
<1>2. ASSUME NEW n \in Controllers PROVE Honest(n, result[n]) /\ Honest(n, draft[n])
  BY <1>0 DEF HonestInv
<1>3. ASSUME NEW n \in Controllers PROVE Honest(n, result[n])'
  <2>1. result'[n] = result[n] \/ result'[n] = draft[n]
    BY <1>0, ResultSteps
  <2>2. CASE result'[n] = result[n]
    BY <1>1, <1>2, <2>2 DEF Honest
  <2>3. CASE result'[n] = draft[n]
    BY <1>1, <1>2, <2>3 DEF Honest
  <2> QED BY <2>1, <2>2, <2>3
<1>4. ASSUME NEW n \in Controllers PROVE Honest(n, draft[n])'
  <2>1. CASE draft'[n] = draft[n]
    BY <1>1, <1>2, <2>1 DEF Honest
  <2>2. CASE draft'[n] = NoResult
    BY <2>2 DEF Honest, NoResult, NoCode
  <2>3. CASE Judge(n) /\ draft'[n] = Payload(n)
    <3>1. /\ pc[n] = "finish" /\ children[n] = {} /\ pc'[n] = "gate"
          /\ \A m \in Node : m # n => pc'[m] = pc[m]
          /\ UNCHANGED <<strays, handle, receipt, result, remote>>
      BY <1>0, <2>3 DEF Judge, Goto, TypeOK, hosted
    <3>2. (\A m \in Under(n) : Gone(m)) => Stopped(n)'
      BY <3>1, UnderFacts DEF Stopped, Ended, Gone, Alive
    <3>3. Whole(n) => Whole(n)'
      BY <3>1 DEF Whole, Sealed
    <3>4. /\ Payload(n).drained => \A m \in Under(n) : Gone(m)
          /\ Payload(n).code = 0 => Payload(n).drained /\ Whole(n)
          /\ ~Payload(n).remoteMay =>
               Payload(n).drained /\ \A m \in {n} \cup Under(n) : remote[m] # "running"
          /\ Payload(n).status \in {"finished", "cancelled_local"} => Payload(n).drained
      BY <1>0, <3>1, PayloadHonest
    <3> QED BY <2>3, <3>1, <3>2, <3>3, <3>4 DEF Honest
  <2>4. CASE Gate(n) /\ cancel /\ draft'[n] = Overridden(n)
    <3> DEFINE clean == mem[n].err \cap {"drainage", "evidence"} = {}
    <3>1. Overridden(n) = [draft[n] EXCEPT !.code = IF clean THEN 130 ELSE 1,
                             !.status = IF clean THEN "cancelled_local" ELSE "failed",
                             !.remoteMay = TRUE]
      BY DEF Overridden
    <3>2. draft[n] \in Results
      BY <1>0 DEF TypeOK
    <3>3. clean => draft[n].drained
      BY <1>0, <2>4 DEF Gate, SealInv
    <3> HIDE DEF clean
    <3>4. /\ Overridden(n).drained = draft[n].drained /\ Overridden(n).code # 0
          /\ Overridden(n).remoteMay = TRUE
          /\ Overridden(n).status = IF clean THEN "cancelled_local" ELSE "failed"
      BY <3>1, <3>2 DEF Results
    <3>5. draft[n].drained => Stopped(n)'
      BY <1>1, <1>2
    <3> QED BY <2>4, <3>3, <3>4, <3>5 DEF Honest
  <2> QED BY <1>0, <2>1, <2>2, <2>3, <2>4, ResultSteps
<1>5. DispatchInv'
  BY <1>0, NextDispatch
<1> QED BY <1>3, <1>4, <1>5 DEF ResultInv, HonestInv

-----------------------------------------------------------------------------
RunInv == CancelInv /\ FileInv /\ TreeInv /\ ResultInv

LEMMA RunInvariant == Spec => []RunInv
<1>1. Init => RunInv
  BY InitCancel, InitFile, InitTree, InitResult DEF RunInv
<1>2. RunInv /\ [Next]_vars => RunInv'
  BY NextCancel, NextFile, NextTree, NextResult DEF RunInv
<1> QED BY <1>1, <1>2, PTL DEF Spec

(* A result that says local_children_drained is true of every process that *)
(* was ever started below its controller, and stays true: whatever died,   *)
(* was orphaned or left a process behind.                                  *)
THEOREM DrainedResultIsTrue == Spec => []DrainedMeansStopped
<1>1. RunInv => DrainedMeansStopped
  BY DEF RunInv, ResultInv, HonestInv, Honest, Stopped, Gone, DrainedMeansStopped
<1> QED BY <1>1, RunInvariant, PTL

(* Exit code 0 is sealed only over a tree whose controllers all sealed     *)
(* "finished" themselves, or never came to start.                          *)
THEOREM SuccessIsOfWholeTree == Spec => []SuccessMeansWholeTree
<1>1. RunInv => SuccessMeansWholeTree
  BY DEF RunInv, ResultInv, HonestInv, Honest, Whole, SuccessMeansWholeTree
<1> QED BY <1>1, RunInvariant, PTL

(* A result that denies remote work was written of a tree none of whose    *)
(* hosted tasks runs, and none is created afterwards.                      *)
THEOREM DenialOfRemoteWorkIsTrue == Spec => []RemoteHonesty
<1>1. RunInv => RemoteHonesty
  BY DEF RunInv, ResultInv, HonestInv, Honest, RemoteHonesty
<1> QED BY <1>1, RunInvariant, PTL

-----------------------------------------------------------------------------
(* What the session that started a run may rely on: the run keeps the        *)
(* promises of ForegroundRun, and execution-status reports no outcome but    *)
(* the one the root sealed.                                                  *)

(* Who is gone comes back only by being started.                           *)
LEMMA GoneStays ==
  ASSUME TypeOK, LaunchInv, [Next]_vars, NEW m \in Node, Gone(m)
  PROVE  Gone(m)' \/ \E n \in Controllers : m # Root /\ Parent[m] = n /\ Popen(n, m)
<1> USE NodeAssumption
<1>0. pc[m] \in {"absent", "halted"} /\ m \notin strays
  BY DEF Gone, Alive
<1>1. ASSUME pc'[m] = pc[m] \/ pc'[m] = "halted", strays' \subseteq strays \/ strays' \subseteq strays \cup (Node \ {m})
      PROVE  Gone(m)'
  BY <1>0, <1>1 DEF Gone, Alive
<1>2. ASSUME NEW p \in Node,
             \/ p \in Controllers /\ BootFails(p)
             \/ p \in Controllers /\ Leave(p)
             \/ Crash(p)
             \/ \E c \in Node : Terminate(p, c)
      PROVE  Gone(m)'
  <2>1. PICK c \in Node, gone \in SUBSET Node : Ends(c, gone)
    BY <1>2, EndsSteps
  <2>2. PICK code : End(c, code, gone)
    BY <2>1 DEF Ends
  <2>3. (pc'[m] = pc[m] \/ pc'[m] = "halted") /\ strays' \subseteq strays
    BY <2>2, EndKills
  <2> QED BY <1>1, <2>3
<1>3. ASSUME NEW p \in Controllers, NEW waiting \in BOOLEAN,
             \/ Boot(p) \/ Ready(p) \/ Return(p, waiting) \/ Fail(p) \/ Stop(p)
             \/ Acquire(p) \/ Judge(p) \/ Gate(p) \/ WriteResult(p) \/ Seal(p)
      PROVE  Gone(m)'
  <2>1. p # m /\ pc'[m] = pc[m] /\ strays' = strays
    BY <1>0, <1>3 DEF Boot, Ready, Return, Fail, Stop, StopOnCancel, StopOnOrphan, Acquire, Judge, Gate,
                      WriteResult, Seal, ToFinish, Goto, TypeOK
  <2> QED BY <1>1, <2>1
<1>4. ASSUME NEW p \in Controllers, NEW c \in Node,
             \/ Admit(p, c) \/ LaunchAborted(p, c) \/ Refused(p, c)
             \/ Bind(p, c) \/ BindFails(p, c) \/ BindFailsUndrained(p, c)
      PROVE  Gone(m)'
  <2>1. p # m /\ (pc'[m] = pc[m] \/ pc'[m] = "halted") /\ strays' = strays
    BY <1>0, <1>4 DEF Admit, LaunchAborted, Refused, Bind, BindFails, BindFailsUndrained, ToFinish,
                      Goto, TypeOK
  <2> QED BY <1>1, <2>1
<1>5. ASSUME NEW p \in Controllers, NEW c \in Node, Popen(p, c)
      PROVE  Gone(m)' \/ (m = c /\ m # Root /\ Parent[m] = p)
  <2>1. p # m /\ (m # c => pc'[m] = pc[m]) /\ strays' = strays /\ c # Root /\ Parent[c] = p
    BY <1>0, <1>5 DEF Popen, InLaunch, TypeOK
  <2> QED BY <1>1, <2>1
<1>6. ASSUME NEW p \in Controllers, NEW c \in Node,
             Collect(p, c) \/ Settle(p, c) \/ SettleMissed(p, c)
      PROVE  Gone(m)'
  BY <1>1, <1>6 DEF Collect, Settle, SettleMissed
<1>7. ASSUME NEW c \in Node, NEW leaves \in BOOLEAN, CommandExits(c, leaves) \/ StrayExits(c)
      PROVE  Gone(m)'
  <2>1. CASE CommandExits(c, leaves)
    <3>1. c # m
      BY <1>0, <2>1 DEF CommandExits, Alive
    <3> QED BY <1>1, <2>1, <3>1 DEF CommandExits, TypeOK
  <2>2. CASE StrayExits(c)
    BY <1>1, <2>2 DEF StrayExits
  <2> QED BY <1>7, <2>1, <2>2
<1>8. ASSUME NEW p \in Dispatchers, Hosted(p) PROVE Gone(m)'
  BY <1>1, <1>8 DEF Hosted, RecordCreating, Post, Observe, RemoteEnds
<1>9. CASE CancelAdmit \/ CancelWrite \/ CancellerDies \/ Over \/ UNCHANGED vars
  BY <1>1, <1>9 DEF CancelAdmit, CancelWrite, CancellerDies, Over, vars
<1> QED
  BY <1>2, <1>3, <1>4, <1>5, <1>6, <1>7, <1>8, <1>9
     DEF Next, StartUp, Work, Launch, Conclude, Environment

(* The steps in which the session could see its run change.                *)
RootKept == handle'[Root] = handle[Root] /\ Alive(Root)' = Alive(Root) /\ cancel' = cancel

LEMMA RootSteps ==
  ASSUME TypeOK, LaunchInv, [Next]_vars
  PROVE  \/ RootKept
         \/ Boot(Root) \/ Ready(Root) \/ Seal(Root) \/ CancelWrite
         \/ \E gone \in SUBSET Node : Ends(Root, gone)
<1> USE NodeAssumption
<1>1. ASSUME NEW p \in Node,
             \/ p \in Controllers /\ BootFails(p)
             \/ p \in Controllers /\ Leave(p)
             \/ Crash(p)
             \/ \E c \in Node : Terminate(p, c)
      PROVE  RootKept \/ \E gone \in SUBSET Node : Ends(Root, gone)
  <2>1. PICK c \in Node, gone \in SUBSET Node : Ends(c, gone)
    BY <1>1, EndsSteps
  <2>2. CASE c = Root
    BY <2>1, <2>2
  <2>3. CASE c # Root
    <3>1. PICK code : End(c, code, gone)
      BY <2>1 DEF Ends
    <3>2. Root \notin gone
      BY <2>1, <2>3, UnderFacts DEF Ends
    <3>3. pc'[Root] = pc[Root]
      BY <2>3, <3>1, <3>2, EndKills
    <3> QED BY <2>1, <3>3 DEF Ends, RootKept, Alive
  <2> QED BY <2>2, <2>3
<1>2. ASSUME NEW p \in Controllers, NEW waiting \in BOOLEAN,
             \/ Return(p, waiting) \/ Fail(p) \/ Stop(p)
             \/ Acquire(p) \/ Judge(p) \/ Gate(p) \/ WriteResult(p)
      PROVE  RootKept
  BY <1>2 DEF Return, Fail, Stop, StopOnCancel, StopOnOrphan, Acquire, Judge, Gate,
              WriteResult, ToFinish, Goto, TypeOK, RootKept, Alive
<1>3. ASSUME NEW p \in Controllers, Boot(p) \/ Ready(p) \/ Seal(p)
      PROVE  RootKept \/ Boot(Root) \/ Ready(Root) \/ Seal(Root)
  <2>1. CASE p # Root
    BY <1>3, <2>1 DEF Boot, Ready, Seal, Goto, TypeOK, RootKept, Alive
  <2> QED BY <1>3, <2>1
<1>4. ASSUME NEW p \in Controllers, NEW c \in Node,
             \/ Admit(p, c) \/ LaunchAborted(p, c) \/ Refused(p, c) \/ Popen(p, c)
             \/ Bind(p, c) \/ BindFails(p, c) \/ BindFailsUndrained(p, c)
             \/ Collect(p, c) \/ Settle(p, c) \/ SettleMissed(p, c)
      PROVE  RootKept
  BY <1>4, ParentIsOther
     DEF Admit, LaunchAborted, Refused, Popen, Bind, BindFails, BindFailsUndrained, Collect, Settle,
         SettleMissed, InLaunch, ToFinish, Goto, TypeOK, RootKept, Alive
<1>5. ASSUME NEW c \in Node, NEW leaves \in BOOLEAN, CommandExits(c, leaves) \/ StrayExits(c)
      PROVE  RootKept
  BY <1>5 DEF CommandExits, StrayExits, TypeOK, RootKept, Alive
<1>6. ASSUME NEW p \in Dispatchers, Hosted(p) PROVE RootKept
  BY <1>6 DEF Hosted, RecordCreating, Post, Observe, RemoteEnds, RootKept, Alive
<1>7. CASE CancelAdmit \/ CancellerDies \/ Over \/ UNCHANGED vars
  BY <1>7 DEF CancelAdmit, CancellerDies, Over, vars, RootKept, Alive
<1> HIDE DEF RootKept
<1> QED
  BY <1>1, <1>2, <1>3, <1>4, <1>5, <1>6, <1>7
     DEF Next, StartUp, Work, Launch, Conclude, Environment

(* The refinement, seen from the root: what a session observes is the      *)
(* outcome RootRun, and whether something of the tree is Live.             *)
Live == \E m \in Under(Root) : Alive(m) \/ m \in strays

LEMMA LiveStays ==
  ASSUME TypeOK, LaunchInv, [Next]_vars, Live', ~Live
  PROVE  \E n \in Controllers, m \in Node : Popen(n, m) /\ m # Root /\ Parent[m] = n
BY GoneStays, UnderFacts, NodeAssumption DEF Live, Gone

LEMMA QuietIsStopped ==
  ASSUME RunInv, result[Root].status \in {"finished", "cancelled_local"}
  PROVE  Stopped(Root) /\ ~Live
BY NodeAssumption DEF RunInv, ResultInv, HonestInv, Honest, Stopped, Gone, Live

(* Nothing is started under a run that the session may not see grow.       *)
LEMMA GrowsOnlyLoose ==
  ASSUME RunInv, NEW n \in Controllers, NEW m \in Node, Popen(n, m)
  PROVE  RootRun \in {"running", "failed", "abandoned"}
<1> USE NodeAssumption
<1>0. /\ TypeOK /\ FenceInv /\ BirthInv /\ SealInv
      /\ pc[n] = "popen" /\ n \in Node
  BY DEF RunInv, CancelInv, FileInv, TreeInv, Popen
<1>1. ~cancel
  BY <1>0 DEF FenceInv
<1>2. n = Root \/ n \in Under(Root)
  BY <1>0, RootAbove DEF Under
<1>3. handle[Root] # "none"
  BY <1>0, <1>2 DEF BirthInv
<1>4. Sealed(Root) => handle[Root] = "failed"
  <2>1. SUFFICES ASSUME Sealed(Root), handle[Root] # "failed" PROVE FALSE
    OBVIOUS
  <2>2. result[Root].status \in {"finished", "cancelled_local"}
    BY <1>0, <2>1 DEF SealInv, Sealed, TerminalStatus
  <2>3. Stopped(Root)
    BY <2>2, QuietIsStopped
  <2> QED BY <1>0, <1>2, <2>3 DEF Stopped, Gone, Alive, Ended
<1> QED BY <1>1, <1>3, <1>4 DEF RootRun

LEMMA RootKeptRefines ==
  ASSUME RunInv, [Next]_vars, RootKept
  PROVE  RootRun' = RootRun /\ (Live' /\ ~Live => RootRun \in {"running", "failed", "abandoned"})
<1>1. RootRun' = RootRun
  BY DEF RootKept, RootRun, Sealed
<1>2. ASSUME Live', ~Live PROVE RootRun \in {"running", "failed", "abandoned"}
  <2>1. TypeOK /\ LaunchInv
    BY DEF RunInv, CancelInv
  <2> QED BY <1>2, <2>1, LiveStays, GrowsOnlyLoose
<1> QED BY <1>1, <1>2

LEMMA RootMovesRefine ==
  ASSUME RunInv, RunInv', [Next]_vars, Boot(Root) \/ Ready(Root) \/ Seal(Root)
  PROVE  /\ Live' = Live
         /\ \/ RootRun' = RootRun
            \/ RootRun = "idle" /\ RootRun' = "running"
            \/ RootRun = "running" /\ RootRun' = "finished" /\ ~Live
            \/ RootRun \in {"running", "cancelling"} /\ RootRun' = "cancelled_local" /\ ~Live
            \/ RootRun \in {"running", "cancelling"} /\ RootRun' = "failed"
<1> USE NodeAssumption
<1>0. TypeOK /\ FenceInv /\ BirthInv /\ SealInv /\ RequestInv
  BY DEF RunInv, CancelInv, FileInv, TreeInv
<1>1. Live' = Live
  <2>1. \A m \in Under(Root) : m \in Node /\ m # Root
    BY UnderFacts
  <2>2. /\ \A m \in Node : m # Root => pc'[m] = pc[m]
        /\ strays' = strays
    BY <1>0 DEF Boot, Ready, Seal, Goto, TypeOK
  <2> QED BY <2>1, <2>2 DEF Live, Alive
<1>2. CASE Boot(Root)
  <2>1. handle[Root] = "none" /\ ~cancel /\ handle'[Root] = "starting" /\ pc'[Root] = "ready" /\ cancel' = cancel
    BY <1>0, <1>2 DEF Boot, Goto, TypeOK, BirthInv, RequestInv
  <2>2. RootRun = "idle" /\ RootRun' = "running"
    BY <2>1 DEF RootRun, Sealed, TerminalStatus, Alive
  <2> QED BY <1>1, <2>2
<1>3. CASE Ready(Root)
  <2>1. /\ handle[Root] # "none" /\ ~Sealed(Root) /\ handle'[Root] = "ready" /\ cancel' = cancel
        /\ pc[Root] = "ready" /\ pc'[Root] = "main"
    BY <1>0, <1>3 DEF Ready, Goto, TypeOK, BirthInv, SealInv
  <2>2. RootRun = RootRun'
    BY <2>1 DEF RootRun, Sealed, TerminalStatus, Alive
  <2> QED BY <1>1, <2>2
<1>4. CASE Seal(Root)
  <2>1. /\ handle[Root] # "none" /\ ~Sealed(Root) /\ pc[Root] = "seal"
        /\ handle'[Root] = result[Root].status /\ handle'[Root] \in TerminalStatus
    BY <1>0, <1>4 DEF Seal, Goto, TypeOK, BirthInv, SealInv, FenceInv
  <2>2. RootRun' = handle'[Root]
    BY <2>1 DEF RootRun, Sealed
  <2>3. RootRun = IF cancel THEN "cancelling" ELSE "running"
    BY <2>1 DEF RootRun, Alive
  <2>4. handle'[Root] = "finished" => ~cancel
    BY <1>0, <2>1 DEF FenceInv
  <2>5. handle'[Root] \in {"finished", "cancelled_local"} => ~Live
    BY <2>1, QuietIsStopped
  <2> QED BY <1>1, <2>1, <2>2, <2>3, <2>4, <2>5 DEF TerminalStatus
<1> QED BY <1>2, <1>3, <1>4

LEMMA RootEndsRefine ==
  ASSUME RunInv, NEW gone \in SUBSET Node, Ends(Root, gone)
  PROVE  /\ Live' => Live
         /\ \/ RootRun' = RootRun
            \/ RootRun \in {"running", "cancelling"} /\ RootRun' = "abandoned"
<1> USE NodeAssumption
<1>0. TypeOK
  BY DEF RunInv, CancelInv
<1>1. PICK code : End(Root, code, gone)
  BY DEF Ends
<1>2. pc'[Root] = "halted" /\ Alive(Root) /\ UNCHANGED <<handle, cancel>>
  BY <1>0, <1>1, EndKills DEF Ends
<1>3. Live' => Live
  <2>1. \A m \in Node : pc'[m] = pc[m] \/ pc'[m] = "halted"
    BY <1>0, <1>1, EndKills
  <2>2. strays' \subseteq strays /\ Under(Root) \subseteq Node
    BY <1>0, <1>1, EndKills, UnderFacts
  <2> QED BY <2>1, <2>2 DEF Live, Alive
<1>4. \/ RootRun' = RootRun
      \/ RootRun \in {"running", "cancelling"} /\ RootRun' = "abandoned"
  BY <1>2 DEF RootRun, Sealed, Alive
<1> QED BY <1>3, <1>4

LEMMA RequestRefines ==
  ASSUME RunInv, CancelWrite
  PROVE  /\ Live' = Live
         /\ \/ RootRun' = RootRun
            \/ RootRun = "running" /\ RootRun' = "cancelling"
<1>1. handle[Root] # "none" /\ ~Sealed(Root) /\ cancel' = TRUE /\ UNCHANGED <<pc, handle, strays>>
  BY DEF RunInv, FileInv, RequestInv, CancelWrite
<1>2. Live' = Live
  BY <1>1 DEF Live, Alive
<1> QED BY <1>1, <1>2 DEF RootRun, Sealed, Alive

(* Every step of a run is one that ForegroundRun allows, or one the        *)
(* session does not see.                                                   *)
THEOREM RunKeepsItsPromise == Spec => ForegroundPromise
<1>1. Init => Foreground!Init
  <2> SUFFICES ASSUME Init PROVE Foreground!Init
    OBVIOUS
  <2>1. RootRun = "idle"
    BY NodeAssumption DEF Init, RootRun, Sealed, TerminalStatus
  <2>2. ~Live
    BY NodeAssumption, UnderFacts DEF Init, Live, Alive
  <2> QED BY <2>1, <2>2 DEF Foreground!Init, Live
<1>2. RunInv /\ RunInv' /\ [Next]_vars => [Foreground!Next]_(Foreground!vars)
  <2> SUFFICES ASSUME RunInv, RunInv', [Next]_vars PROVE [Foreground!Next]_(Foreground!vars)
    OBVIOUS
  <2> USE DEF Foreground!Next, Foreground!Start, Foreground!Grow, Foreground!Shrink,
              Foreground!RequestCancel, Foreground!Finish, Foreground!CancelLocally, Foreground!Fail,
              Foreground!vars, Foreground!Active, Foreground!LooseOutcomes, Live
  <2>0. TypeOK /\ LaunchInv
    BY DEF RunInv, CancelInv
  <2>1. CASE RootKept
    BY <2>1, RootKeptRefines
  <2>2. CASE Boot(Root) \/ Ready(Root) \/ Seal(Root)
    BY <2>2, RootMovesRefine
  <2>3. ASSUME NEW gone \in SUBSET Node, Ends(Root, gone)
        PROVE  [Foreground!Next]_(Foreground!vars)
    BY <2>3, RootEndsRefine
  <2>4. CASE CancelWrite
    BY <2>4, RequestRefines
  <2> QED BY <2>0, <2>1, <2>2, <2>3, <2>4, RootSteps
<1> QED BY <1>1, <1>2, RunInvariant, PTL DEF Spec, ForegroundPromise, Foreground!Spec

-----------------------------------------------------------------------------
(* execution-status. A handle with a digest, once read, is still the       *)
(* root's when the result is read; without one no answer is terminal.      *)
HandleStatus == {"none", "starting", "ready"} \cup TerminalStatus

ViewType ==
  view \in [at : {"idle", "result", "owner", "listed"},
            seen : HandleStatus \cup {"terminal_unsealed", "abandoned", "cancel_requested"},
            answer : HandleStatus \cup {"terminal_unsealed", "abandoned", "cancel_requested",
                                        "no_execution"}]

ViewInv ==
  /\ view.at = "result" /\ view.seen \in TerminalStatus => handle[Root] = view.seen
  /\ view.at \in {"owner", "listed"} => view.seen \notin TerminalStatus
  /\ view.answer \in TerminalStatus => handle[Root] = view.answer

LEMMA SealStays ==
  ASSUME RunInv, [Next]_vars, Sealed(Root)
  PROVE  handle'[Root] = handle[Root]
<1> USE NodeAssumption
<1>0. TypeOK /\ LaunchInv /\ pc[Root] \in {"leave", "halted"}
  BY DEF RunInv, CancelInv, FileInv, SealInv
<1>1. ~Boot(Root) /\ ~Ready(Root) /\ ~Seal(Root)
  BY <1>0 DEF Boot, Ready, Seal
<1>2. CASE RootKept
  BY <1>2 DEF RootKept
<1>3. CASE CancelWrite
  BY <1>3 DEF CancelWrite
<1>4. ASSUME NEW gone \in SUBSET Node, Ends(Root, gone) PROVE handle'[Root] = handle[Root]
  BY <1>4 DEF Ends
<1> QED BY <1>0, <1>1, <1>2, <1>3, <1>4, RootSteps

(* What execution-status answers of a run is what its root sealed, however *)
(* the reads of handle, result and owner fall between the owner's writes.  *)
THEOREM StatusReportsTheSeal == ControlSpec => []ReportedOutcomeIsSealed
<1> DEFINE IInv == RunInv /\ ViewType /\ ViewInv
<1> USE NodeAssumption
<1>1. ControlInit => IInv
  <2> SUFFICES ASSUME ControlInit PROVE IInv
    OBVIOUS
  <2>1. RunInv
    BY InitCancel, InitFile, InitTree, InitResult DEF ControlInit, RunInv
  <2> QED BY <2>1 DEF ControlInit, NoView, ViewType, ViewInv, HandleStatus, TerminalStatus
<1>2. IInv /\ [ControlNext]_controlVars => IInv'
  <2> SUFFICES ASSUME IInv, [ControlNext]_controlVars PROVE IInv'
    OBVIOUS
  <2>0. TypeOK /\ SealInv /\ handle[Root] \in HandleStatus /\ result[Root] \in Results
    BY DEF RunInv, CancelInv, FileInv, TypeOK, HandleStatus
  <2>1. CASE [Next]_vars /\ UNCHANGED view
    <3>1. RunInv'
      BY <2>1, NextCancel, NextFile, NextTree, NextResult DEF RunInv
    <3>2. Sealed(Root) => handle'[Root] = handle[Root]
      BY <2>1, SealStays
    <3> QED BY <2>1, <3>1, <3>2 DEF ViewType, ViewInv, Sealed
  <2>2. ASSUME Control, UNCHANGED vars PROVE IInv'
    <3>1. RunInv' /\ handle' = handle
      <4>1. handle' = handle
        BY <2>2 DEF vars
      <4> QED BY <2>2, <4>1, NextCancel, NextFile, NextTree, NextResult DEF RunInv
    <3>2. Sealed(Root) => result[Root].status = handle[Root] /\ result[Root] # NoResult
      BY <2>0 DEF SealInv, Sealed, NoResult, TerminalStatus
    <3>3. CASE ReadHandle
      BY <2>0, <3>1, <3>3 DEF ReadHandle, ViewType, ViewInv, HandleStatus, TerminalStatus
    <3>4. CASE ReadResult
      BY <2>0, <3>1, <3>2, <3>4 DEF ReadResult, ViewType, ViewInv, Sealed, HandleStatus, TerminalStatus
    <3>5. CASE ReadOwner
      BY <2>0, <3>1, <3>5 DEF ReadOwner, ViewType, ViewInv, HandleStatus, TerminalStatus
    <3>6. CASE Select
      BY <2>0, <3>1, <3>6 DEF Select, ViewType, ViewInv, HandleStatus, TerminalStatus
    <3> QED BY <2>2, <3>3, <3>4, <3>5, <3>6 DEF Control
  <2> QED BY <2>1, <2>2 DEF ControlNext, controlVars
<1>3. IInv => ReportedOutcomeIsSealed
  BY DEF ViewInv, ReportedOutcomeIsSealed, Sealed
<1> QED BY <1>1, <1>2, <1>3, PTL DEF ControlSpec

=============================================================================
