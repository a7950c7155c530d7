----------------------------- MODULE Execution -----------------------------
(***************************************************************************)
(* The foreground execution runtime (agent-tasks-runtime, execution.py): a *)
(* root controller and the tree of processes it owns.  Every controller    *)
(* keeps a handle file, launches children under one launch receipt each,   *)
(* and at its end drains them, judges what they left on disk and seals a   *)
(* terminal result.  One lock, the root's cancel.guard, orders launches,   *)
(* the cancellation request and every sealing.                             *)
(*                                                                         *)
(* Controllers run controller_main; the other nodes are plain commands.    *)
(* A process may die at any moment.  On Linux what it had started lives    *)
(* on, on Windows the closing of its job handles kills all of it.          *)
(***************************************************************************)
EXTENDS Integers, FiniteSets

CONSTANTS
  Node,          (* the processes a run may ever own                        *)
  Root,          (* the root controller                                     *)
  Controllers,   (* nodes started with require_execution=True, and Root     *)
  Dispatchers,   (* controllers whose program creates one hosted task       *)
  Parent,        (* the controller that launches each node but Root         *)
  Anc,           (* the nodes above each node                               *)
  IsWindows,     (* IS_WINDOWS                                              *)
  MaxCrashes,    (* bound: how many processes die on their own              *)
  Free, Canceller  (* holders of the guard that are not nodes               *)

ASSUME NodeAssumption ==
  /\ Root \in Controllers /\ Controllers \subseteq Node
  /\ Dispatchers \subseteq Controllers
  /\ Free \notin Node /\ Canceller \notin Node /\ Free # Canceller
ASSUME TreeAssumption ==
  /\ Parent \in [Node \ {Root} -> Controllers]
  /\ Anc \in [Node -> SUBSET Node]
  /\ Anc[Root] = {}
  /\ \A n \in Node \ {Root} : Anc[n] = {Parent[n]} \cup Anc[Parent[n]]
  /\ \A tree \in SUBSET Node :
       /\ Root \in tree
       /\ \A n \in Node \ {Root} : Parent[n] \in tree => n \in tree
       => tree = Node
ASSUME BoundAssumption == MaxCrashes \in Nat /\ IsWindows \in BOOLEAN

VARIABLES
  pc,         (* where each process is; "absent" before Popen               *)
  exit,       (* its exit code as its parent reads it                       *)
  handle,     (* status in its handle file, "none" before it exists         *)
  receipt,    (* lifecycle in its child-*.json, written by its parent       *)
  result,     (* its result.json                                            *)
  cancel,     (* the root's cancel.json exists                              *)
  lock,       (* holder of the root's cancel.guard                          *)
  canceller,  (* the execution-cancel control process                       *)
  children,   (* Execution.children not yet settled by finish               *)
  forced,     (* children whose tree terminate_tree was called on           *)
  mem,        (* finish's local variables, of each controller               *)
  draft,      (* finish's payload                                           *)
  strays,     (* commands that left a process of theirs behind              *)
  dispatch,   (* remote_status in the controller's .dispatch.json           *)
  remote,     (* the hosted task itself                                     *)
  crashes

vars == <<pc, exit, handle, receipt, result, cancel, lock, canceller, children,
          forced, mem, draft, strays, dispatch, remote, crashes>>
hosted == <<dispatch, remote>>

NoCode == -1
Killed == -9
TerminalStatus == {"finished", "failed", "cancelled_local"}
Launching == {"admit", "popen", "bind"}
Ending == {"finish", "gate", "write", "seal", "leave"}
ControllerPC == {"absent", "boot", "ready", "main", "halted"} \cup Launching \cup Ending

NoResult == [code |-> NoCode, status |-> "none", drained |-> FALSE,
             remoteMay |-> TRUE, pending |-> FALSE]
Results == [code : {NoCode, 0, 1, 130}, status : TerminalStatus \cup {"none"},
            drained : BOOLEAN, remoteMay : BOOLEAN, pending : BOOLEAN]
NoMem == [code |-> NoCode, cancelled |-> FALSE, waiting |-> FALSE, err |-> {}]
Mems == [code : {NoCode, 0, 1, 130}, cancelled : BOOLEAN, waiting : BOOLEAN,
         err : SUBSET {"drainage", "forced", "evidence"}]

Alive(n) == pc[n] \notin {"absent", "halted"}
Under(n) == {m \in Node : n \in Anc[m]}
Launched(n) == receipt[n] # "none"
LocalDrained(n) == receipt[n] \in {"drained", "bootstrap_failed", "launch_failed"}
Sealed(n) == handle[n] \in TerminalStatus

(* require_owner on the root and on the parent: their generation runs.     *)
Owners(n) == IF n = Root THEN {} ELSE {Root, Parent[n]}
OwnersAlive(n) == \A m \in Owners(n) : Alive(m)
CheckPasses(n) == OwnersAlive(n) /\ ~cancel

(* Nothing is left of the group (Linux) or of the job (Windows) of c.      *)
Quiet(c) ==
  /\ c \notin strays
  /\ IsWindows => \A m \in Under(c) : ~Alive(m) /\ m \notin strays

(* The process of n ends with a code, and with it every process of gone;   *)
(* their memory and their locks go too.                                    *)
Dead(n, gone) == {n} \cup {m \in gone : Alive(m)}

Lost(memory, n, gone, empty) ==
  [m \in Node |-> IF m \in Dead(n, gone) THEN empty ELSE memory[m]]

End(n, code, gone) ==
  /\ pc' = Lost(pc, n, gone, "halted")
  /\ exit' = [Lost(exit, n, gone, Killed) EXCEPT ![n] = code]
  /\ children' = Lost(children, n, gone, {})
  /\ draft' = Lost(draft, n, gone, NoResult)
  /\ lock' = IF lock \in Dead(n, gone) THEN Free ELSE lock
  /\ strays' = strays \ gone

(* The kill-on-close jobs that n holds.                                    *)
Jobs(n) == IF IsWindows THEN Under(n) ELSE {}
Goto(n, where) == pc' = [pc EXCEPT ![n] = where]

Init ==
  /\ pc = [n \in Node |-> IF n = Root THEN "boot" ELSE "absent"]
  /\ exit = [n \in Node |-> NoCode]
  /\ handle = [n \in Node |-> "none"]
  /\ receipt = [n \in Node |-> "none"]
  /\ result = [n \in Node |-> NoResult]
  /\ cancel = FALSE
  /\ lock = Free
  /\ canceller = "idle"
  /\ children = [n \in Node |-> {}]
  /\ forced = {}
  /\ mem = [n \in Node |-> NoMem]
  /\ draft = [n \in Node |-> NoResult]
  /\ strays = {}
  /\ dispatch = [n \in Node |-> "none"]
  /\ remote = [n \in Node |-> "none"]
  /\ crashes = 0

-----------------------------------------------------------------------------
(* Starting up: Execution.__init__ and ready.                              *)

(* A child waits for its bound receipt and for both owners, then publishes *)
(* its handle.                                                             *)
Boot(n) ==
  /\ pc[n] = "boot"
  /\ n # Root => receipt[n] = "bound" /\ OwnersAlive(n)
  /\ handle' = [handle EXCEPT ![n] = "starting"]
  /\ Goto(n, "ready")
  /\ UNCHANGED <<exit, receipt, result, cancel, lock, canceller, children, forced,
                 mem, draft, strays, hosted, crashes>>

(* An owner is gone, the receipt says otherwise, or ten seconds passed     *)
(* before it was bound; a Windows child is resumed only once it is.        *)
BootFails(n) ==
  /\ pc[n] = "boot" /\ n # Root
  /\ \/ ~OwnersAlive(n)
     \/ receipt[n] # "bound"
  /\ IsWindows => receipt[n] # "admitted"
  /\ End(n, 1, Jobs(n))
  /\ UNCHANGED <<handle, receipt, result, cancel, canceller, forced, mem, hosted, crashes>>

Ready(n) ==
  /\ pc[n] = "ready"
  /\ CheckPasses(n)
  /\ handle' = [handle EXCEPT ![n] = "ready"]
  /\ Goto(n, "main")
  /\ UNCHANGED <<exit, receipt, result, cancel, lock, canceller, children, forced,
                 mem, draft, strays, hosted, crashes>>

-----------------------------------------------------------------------------
(* Leaving main: controller_main turns every way out into a call of finish.*)

ToFinish(n, code, cancelled, waiting) ==
  /\ Goto(n, "finish")
  /\ mem' = [mem EXCEPT ![n] = [code |-> code, cancelled |-> cancelled,
                                waiting |-> waiting, err |-> {}]]
  /\ UNCHANGED <<exit, handle, result, cancel, canceller, children, forced,
                 draft, strays, hosted, crashes>>

(* main returned 0 with a structured result and the last check passed; the *)
(* result may say that hosted work is still awaited.                       *)
Return(n, waiting) ==
  /\ pc[n] = "main"
  /\ CheckPasses(n)
  /\ ToFinish(n, 0, FALSE, waiting)
  /\ UNCHANGED <<receipt, lock>>

(* main raised, returned another code or left no structured result.        *)
Fail(n) ==
  /\ pc[n] = "main"
  /\ ToFinish(n, 1, FALSE, FALSE)
  /\ UNCHANGED <<receipt, lock>>

(* Mutant of StopOnCancel: the request is looked for at start-up only.     *)
StopOnCancelEarly(n) ==
  /\ pc[n] = "ready"
  /\ OwnersAlive(n) /\ cancel
  /\ ToFinish(n, 130, TRUE, FALSE)
  /\ UNCHANGED <<receipt, lock>>

(* check_cancel raises Cancelled, from ready or from main's polling loops. *)
StopOnCancel(n) ==
  /\ pc[n] \in {"ready", "main"}
  /\ OwnersAlive(n) /\ cancel
  /\ ToFinish(n, 130, TRUE, FALSE)
  /\ UNCHANGED <<receipt, lock>>

(* Mutant of StopOnOrphan: the owners are looked for at start-up only.     *)
StopOnOrphanEarly(n) ==
  /\ pc[n] = "ready"
  /\ ~OwnersAlive(n)
  /\ ToFinish(n, 1, FALSE, FALSE)
  /\ UNCHANGED <<receipt, lock>>

(* check_cancel raises ExecutionError: an owner of this child is gone.     *)
StopOnOrphan(n) ==
  /\ pc[n] \in {"ready", "main"}
  /\ ~OwnersAlive(n)
  /\ ToFinish(n, 1, FALSE, FALSE)
  /\ UNCHANGED <<receipt, lock>>

-----------------------------------------------------------------------------
(* Execution.start: admit on disk, then check and Popen under the guard.   *)

Admit(n, c) ==
  /\ pc[n] = "main"
  /\ c # Root /\ Parent[c] = n /\ ~Launched(c)
  /\ CheckPasses(n)
  /\ receipt' = [receipt EXCEPT ![c] = "admitted"]
  /\ Goto(n, "admit")
  /\ UNCHANGED <<exit, handle, result, cancel, lock, canceller, children, forced,
                 mem, draft, strays, hosted, crashes>>

(* The child of n that is being launched.                                  *)
InLaunch(n, c) == c # Root /\ Parent[c] = n /\ receipt[c] = "admitted"

(* Its output files cannot be opened: no process was started.              *)
LaunchAborted(n, c) ==
  /\ pc[n] = "admit" /\ InLaunch(n, c)
  /\ receipt' = [receipt EXCEPT ![c] = "launch_failed"]
  /\ Goto(n, "main")
  /\ UNCHANGED <<exit, handle, result, cancel, lock, canceller, children, forced,
                 mem, draft, strays, hosted, crashes>>

(* Mutant of Acquire: the check before admission is not repeated.          *)
AcquireUnchecked(n) ==
  /\ pc[n] = "admit"
  /\ lock = Free
  /\ lock' = n
  /\ Goto(n, "popen")
  /\ UNCHANGED <<exit, handle, receipt, result, cancel, canceller, children, forced,
                 mem, draft, strays, hosted, crashes>>

(* The guard is taken and check_cancel passes under it.                    *)
Acquire(n) ==
  /\ pc[n] = "admit"
  /\ lock = Free
  /\ CheckPasses(n)
  /\ lock' = n
  /\ Goto(n, "popen")
  /\ UNCHANGED <<exit, handle, receipt, result, cancel, canceller, children, forced,
                 mem, draft, strays, hosted, crashes>>

(* check_cancel raises under the guard, which is released.  A cancellation *)
(* passes through main; main may handle the loss of an owner as an error.  *)
Refused(n, c) ==
  /\ pc[n] = "admit" /\ InLaunch(n, c)
  /\ lock = Free
  /\ ~CheckPasses(n)
  /\ receipt' = [receipt EXCEPT ![c] = "launch_failed"]
  /\ IF OwnersAlive(n)
     THEN ToFinish(n, 130, TRUE, FALSE)
     ELSE /\ Goto(n, "main")
          /\ UNCHANGED <<exit, handle, result, cancel, canceller, children, forced,
                         mem, draft, strays, hosted, crashes>>
  /\ UNCHANGED lock

Popen(n, c) ==
  /\ pc[n] = "popen" /\ InLaunch(n, c)
  /\ pc' = [pc EXCEPT ![n] = "bind", ![c] = IF c \in Controllers THEN "boot" ELSE "main"]
  /\ UNCHANGED <<exit, handle, receipt, result, cancel, lock, canceller, children, forced,
                 mem, draft, strays, hosted, crashes>>

(* The generation of the child is on its receipt; the guard is released.   *)
Bind(n, c) ==
  /\ pc[n] = "bind" /\ InLaunch(n, c)
  /\ receipt' = [receipt EXCEPT ![c] = "bound"]
  /\ children' = [children EXCEPT ![n] = @ \cup {c}]
  /\ lock' = Free
  /\ Goto(n, "main")
  /\ UNCHANGED <<exit, handle, result, cancel, canceller, forced,
                 mem, draft, strays, hosted, crashes>>

(* Popen or the binding fails; the process, if any, is killed and waited   *)
(* for, and nothing of its group is left.                                  *)
BindFails(n, c) ==
  /\ pc[n] \in {"popen", "bind"} /\ InLaunch(n, c)
  /\ c \notin strays
  /\ receipt' = [receipt EXCEPT ![c] = "launch_failed"]
  /\ pc' = [pc EXCEPT ![n] = "main", ![c] = IF pc[n] = "bind" THEN "halted" ELSE @]
  /\ exit' = [exit EXCEPT ![c] = IF pc[n] = "bind" /\ Alive(c) THEN Killed ELSE @]
  /\ lock' = Free
  /\ UNCHANGED <<handle, result, cancel, canceller, children, forced,
                 mem, draft, strays, hosted, crashes>>

(* Mutant of BindFailsUndrained: the cleanup is taken to have succeeded.   *)
BindFailsAssumed(n, c) ==
  /\ pc[n] = "bind" /\ InLaunch(n, c) /\ ~IsWindows
  /\ receipt' = [receipt EXCEPT ![c] = "launch_failed"]
  /\ lock' = Free
  /\ Goto(n, "main")
  /\ UNCHANGED <<exit, handle, result, cancel, canceller, children, forced,
                 mem, draft, strays, hosted, crashes>>

(* As BindFails, but on Linux the cleanup cannot confirm the end of it.    *)
BindFailsUndrained(n, c) ==
  /\ pc[n] = "bind" /\ InLaunch(n, c) /\ ~IsWindows
  /\ receipt' = [receipt EXCEPT ![c] = "launch_undrained"]
  /\ lock' = Free
  /\ Goto(n, "main")
  /\ UNCHANGED <<exit, handle, result, cancel, canceller, children, forced,
                 mem, draft, strays, hosted, crashes>>

-----------------------------------------------------------------------------
(* Owned children: OwnedProcess poll, wait and terminate_tree.             *)

(* verify_execution: the exit code of a controller is backed by a sealed   *)
(* result.                                                                 *)
Verified(c) ==
  c \in Controllers =>
    /\ Sealed(c)
    /\ result[c].code = exit[c]
    /\ exit[c] = 0 => result[c].status = "finished"
    /\ result[c].drained

ForcedByJob(c) == IsWindows /\ c \in forced

(* The lifecycle _complete and verify_execution write once c has exited.   *)
Drainage(c) ==
  IF receipt[c] \notin {"bound", "draining"} THEN receipt[c]
  ELSE IF ~Quiet(c) THEN IF IsWindows THEN "draining" ELSE "drain_failed"
  ELSE IF c \in Controllers /\ handle[c] = "none" /\ ~ForcedByJob(c)
       THEN "bootstrap_failed" ELSE "drained"

(* The workflow polls a child that has exited.                             *)
Collect(n, c) ==
  /\ pc[n] = "main" /\ c \in children[n]
  /\ ~Alive(c) /\ Drainage(c) # receipt[c]
  /\ receipt' = [receipt EXCEPT ![c] = Drainage(c)]
  /\ UNCHANGED <<pc, exit, handle, result, cancel, lock, canceller, children, forced,
                 mem, draft, strays, hosted, crashes>>

AddError(n, e) == mem' = [mem EXCEPT ![n].err = @ \cup e]

(* terminate_tree of a running child: by the workflow (a timeout, a        *)
(* failure) or by finish, to which a child still running is an error       *)
(* unless the run was cancelled.                                           *)
Terminate(n, c) ==
  /\ pc[n] \in {"main", "finish"} /\ c \in children[n]
  /\ Alive(c)
  /\ forced' = forced \cup {c}
  /\ LET gone == IF IsWindows THEN Under(c) \cup {c} ELSE {} IN
       /\ End(c, Killed, gone)
       /\ mem' = [Lost(mem, c, gone, NoMem) EXCEPT ![n].err =
                    IF pc[n] = "finish" /\ ~mem[n].cancelled THEN @ \cup {"drainage"} ELSE @]
  /\ UNCHANGED <<handle, receipt, result, cancel, canceller, hosted, crashes>>

(* finish's loop over the children, on one that has exited.                *)
Settle(n, c) ==
  /\ pc[n] = "finish" /\ c \in children[n]
  /\ ~Alive(c)
  /\ receipt' = [receipt EXCEPT ![c] = Drainage(c)]
  /\ AddError(n, IF receipt'[c] \in {"draining", "drain_failed"} THEN {"drainage"}
                 ELSE IF ForcedByJob(c) THEN {"forced"}
                 ELSE IF ~Verified(c) THEN {"drainage"} ELSE {})
  /\ children' = [children EXCEPT ![n] = @ \ {c}]
  /\ UNCHANGED <<pc, exit, handle, result, cancel, lock, canceller, forced,
                 draft, strays, hosted, crashes>>

(* On Linux the child may exit between finish's poll and the generation    *)
(* check of terminate_tree, which then raises and waits for nothing.       *)
SettleMissed(n, c) ==
  /\ pc[n] = "finish" /\ c \in children[n]
  /\ ~IsWindows /\ ~Alive(c) /\ receipt[c] = "bound"
  /\ AddError(n, {"drainage"})
  /\ children' = [children EXCEPT ![n] = @ \ {c}]
  /\ UNCHANGED <<pc, exit, handle, receipt, result, cancel, lock, canceller, forced,
                 draft, strays, hosted, crashes>>

-----------------------------------------------------------------------------
(* finish: the evidence below the handle, the payload, the sealing.        *)

(* Mutant of GoodChild: any sealed result will do.                         *)
GoodChildSealed(n, m) ==
  /\ Sealed(m)
  /\ result[m].remoteMay => mem[n].waiting /\ result[m].pending

(* A sealed child that is clean, or whose hosted work this run awaits.     *)
GoodChild(n, m) ==
  /\ Sealed(m)
  /\ result[m].code = 0 /\ result[m].status = "finished" /\ result[m].drained
  /\ result[m].remoteMay => mem[n].waiting /\ result[m].pending

BadEvidence(n) ==
  \E m \in Under(n) :
    \/ handle[m] # "none" /\ ~GoodChild(n, m)
    \/ receipt[m] \in {"bootstrap_failed", "launch_undrained"}
    \/ /\ m \in Controllers /\ handle[m] = "none"
       /\ receipt[m] \notin {"none", "launch_failed"}

Undrained(n) ==
  \/ ~IsWindows /\ \E m \in Under(n) : Launched(m) /\ ~LocalDrained(m)
  \/ \E c \in Node \ {Root} : Parent[c] = n /\ receipt[c] = "launch_undrained"

Errors(n) ==
  mem[n].err \cup (IF Undrained(n) THEN {"drainage"} ELSE {})
             \cup (IF BadEvidence(n) THEN {"evidence"} ELSE {})

(* Mutant of Seen: the controller's own dispatch observation is left out.  *)
Seen(n) == {dispatch[m] : m \in {n} \cup Under(n)} \ {"none"}

Payload(n) ==
  LET code == IF Errors(n) = {} THEN mem[n].code ELSE 1 IN
  [code |-> code,
   status |-> IF mem[n].cancelled /\ Errors(n) = {} THEN "cancelled_local"
              ELSE IF code # 0 THEN "failed" ELSE "finished",
   drained |-> "drainage" \notin Errors(n),
   remoteMay |-> \/ Errors(n) # {}
                 \/ \E m \in Under(n) : Sealed(m) /\ result[m].remoteMay
                 \/ Seen(n) \ {"terminal"} # {},
   pending |-> mem[n].waiting /\ "active" \in Seen(n)
                 /\ Seen(n) \subseteq {"active", "terminal"}]

Judge(n) ==
  /\ pc[n] = "finish" /\ children[n] = {}
  /\ draft' = [draft EXCEPT ![n] = Payload(n)]
  /\ mem' = [mem EXCEPT ![n].err = Errors(n)]
  /\ Goto(n, "gate")
  /\ UNCHANGED <<exit, handle, receipt, result, cancel, lock, canceller, children, forced,
                 strays, hosted, crashes>>

(* Mutants of Overridden: a misspelled status; errors forgotten.           *)
OverriddenMisnamed(n) ==
  [draft[n] EXCEPT !.code = 130, !.status = "cancelled", !.remoteMay = TRUE]

OverriddenAlways(n) ==
  [draft[n] EXCEPT !.code = 130, !.status = "cancelled_local", !.remoteMay = TRUE]

(* Under the guard, a cancellation that arrived meanwhile overrides.       *)
Overridden(n) ==
  LET clean == mem[n].err \cap {"drainage", "evidence"} = {} IN
  [draft[n] EXCEPT !.code = IF clean THEN 130 ELSE 1,
                   !.status = IF clean THEN "cancelled_local" ELSE "failed",
                   !.remoteMay = TRUE]

(* Mutant of Gate: sealed without looking for a cancellation.              *)
GateBlind(n) ==
  /\ pc[n] = "gate" /\ lock = Free
  /\ lock' = n
  /\ Goto(n, "write")
  /\ UNCHANGED <<exit, handle, receipt, result, cancel, canceller, children, forced,
                 mem, draft, strays, hosted, crashes>>

Gate(n) ==
  /\ pc[n] = "gate" /\ lock = Free
  /\ lock' = n
  /\ draft' = [draft EXCEPT ![n] = IF cancel THEN Overridden(n) ELSE @]
  /\ Goto(n, "write")
  /\ UNCHANGED <<exit, handle, receipt, result, cancel, canceller, children, forced,
                 mem, strays, hosted, crashes>>

WriteResult(n) ==
  /\ pc[n] = "write"
  /\ result' = [result EXCEPT ![n] = draft[n]]
  /\ Goto(n, "seal")
  /\ UNCHANGED <<exit, handle, receipt, cancel, lock, canceller, children, forced,
                 mem, draft, strays, hosted, crashes>>

(* The digest of the result enters the handle; the guard is released.      *)
Seal(n) ==
  /\ pc[n] = "seal"
  /\ handle' = [handle EXCEPT ![n] = draft[n].status]
  /\ lock' = Free
  /\ Goto(n, "leave")
  /\ UNCHANGED <<exit, receipt, result, cancel, canceller, children, forced,
                 mem, draft, strays, hosted, crashes>>

Leave(n) ==
  /\ pc[n] = "leave"
  /\ End(n, draft[n].code, Jobs(n))
  /\ mem' = Lost(mem, n, Jobs(n), NoMem)
  /\ UNCHANGED <<handle, receipt, result, cancel, canceller, forced, hosted, crashes>>

-----------------------------------------------------------------------------
(* execution-cancel: cancel under the guard, in a process of its own.  A   *)
(* repeated request writes nothing; a terminal or ownerless root is left.  *)

(* Mutant of CancelAdmit: the request is written over a terminal root.     *)
CancelAdmitLate ==
  /\ canceller = "idle" /\ lock = Free /\ ~cancel
  /\ handle[Root] # "none" /\ Alive(Root)
  /\ lock' = Canceller
  /\ canceller' = "write"
  /\ UNCHANGED <<pc, exit, handle, receipt, result, cancel, children, forced,
                 mem, draft, strays, hosted, crashes>>

CancelAdmit ==
  /\ canceller = "idle" /\ lock = Free /\ ~cancel
  /\ handle[Root] # "none" /\ ~Sealed(Root) /\ Alive(Root)
  /\ lock' = Canceller
  /\ canceller' = "write"
  /\ UNCHANGED <<pc, exit, handle, receipt, result, cancel, children, forced,
                 mem, draft, strays, hosted, crashes>>

CancelWrite ==
  /\ canceller = "write"
  /\ cancel' = TRUE
  /\ canceller' = "idle"
  /\ lock' = Free
  /\ UNCHANGED <<pc, exit, handle, receipt, result, children, forced,
                 mem, draft, strays, hosted, crashes>>

CancellerDies ==
  /\ canceller = "write" /\ crashes < MaxCrashes
  /\ canceller' = "idle"
  /\ lock' = Free
  /\ crashes' = crashes + 1
  /\ UNCHANGED <<pc, exit, handle, receipt, result, cancel, children, forced,
                 mem, draft, strays, hosted>>

-----------------------------------------------------------------------------
(* Processes that die or end on their own, and hosted tasks.               *)

Crash(n) ==
  /\ n \in Controllers /\ Alive(n) /\ crashes < MaxCrashes
  /\ End(n, Killed, Jobs(n))
  /\ mem' = Lost(mem, n, Jobs(n), NoMem)
  /\ crashes' = crashes + 1
  /\ UNCHANGED <<handle, receipt, result, cancel, canceller, forced, hosted>>

(* A command exits, and may leave a process of its group or job behind.    *)
CommandExits(c, leaves) ==
  /\ c \notin Controllers /\ Alive(c)
  /\ IsWindows => receipt[c] # "admitted"
  /\ pc' = [pc EXCEPT ![c] = "halted"]
  /\ exit' = [exit EXCEPT ![c] = 0]
  /\ strays' = IF leaves THEN strays \cup {c} ELSE strays
  /\ UNCHANGED <<handle, receipt, result, cancel, lock, canceller, children, forced,
                 mem, draft, hosted, crashes>>

StrayExits(c) ==
  /\ c \in strays
  /\ strays' = strays \ {c}
  /\ UNCHANGED <<pc, exit, handle, receipt, result, cancel, lock, canceller, children,
                 forced, mem, draft, hosted, crashes>>

(* record_dispatch without a task, before the POST.                        *)
RecordCreating(n) ==
  /\ n \in Dispatchers /\ pc[n] = "main" /\ dispatch[n] = "none"
  /\ dispatch' = [dispatch EXCEPT ![n] = "creating"]
  /\ UNCHANGED <<pc, exit, handle, receipt, result, cancel, lock, canceller, children,
                 forced, mem, draft, strays, remote, crashes>>

(* Mutant of Post: the task is created before its intent is recorded.      *)
PostUnrecorded(n) ==
  /\ n \in Dispatchers /\ pc[n] = "main" /\ remote[n] = "none"
  /\ remote' = [remote EXCEPT ![n] = "running"]
  /\ UNCHANGED <<pc, exit, handle, receipt, result, cancel, lock, canceller, children,
                 forced, mem, draft, strays, dispatch, crashes>>

Post(n) ==
  /\ n \in Dispatchers /\ pc[n] = "main"
  /\ dispatch[n] = "creating" /\ remote[n] = "none"
  /\ remote' = [remote EXCEPT ![n] = "running"]
  /\ UNCHANGED <<pc, exit, handle, receipt, result, cancel, lock, canceller, children,
                 forced, mem, draft, strays, dispatch, crashes>>

(* record_dispatch with a task whose state is active, terminal or neither. *)
Observe(n, seen) ==
  /\ n \in Dispatchers /\ pc[n] = "main"
  /\ \/ remote[n] = "running" /\ seen \in {"active", "unconfirmed"}
     \/ remote[n] = "done" /\ seen = "terminal"
  /\ dispatch[n] # seen
  /\ dispatch' = [dispatch EXCEPT ![n] = seen]
  /\ UNCHANGED <<pc, exit, handle, receipt, result, cancel, lock, canceller, children,
                 forced, mem, draft, strays, remote, crashes>>

RemoteEnds(n) ==
  /\ remote[n] = "running"
  /\ remote' = [remote EXCEPT ![n] = "done"]
  /\ UNCHANGED <<pc, exit, handle, receipt, result, cancel, lock, canceller, children,
                 forced, mem, draft, strays, dispatch, crashes>>

-----------------------------------------------------------------------------
(* The run is over and nothing of it is left.                              *)
Over ==
  /\ \A n \in Node : ~Alive(n)
  /\ UNCHANGED vars

Launch(n) ==
  \/ Acquire(n)
  \/ \E c \in Node :
       \/ LaunchAborted(n, c)
       \/ Refused(n, c)
       \/ Popen(n, c)
       \/ Bind(n, c)
       \/ BindFails(n, c)
       \/ BindFailsUndrained(n, c)

Conclude(n) ==
  \/ \E c \in Node : Settle(n, c) \/ SettleMissed(n, c)
  \/ Judge(n)
  \/ Gate(n)
  \/ WriteResult(n)
  \/ Seal(n)
  \/ Leave(n)

StartUp(n) == Boot(n) \/ BootFails(n) \/ Ready(n)

Work(n) ==
  \/ \E waiting \in BOOLEAN : Return(n, waiting)
  \/ Fail(n)
  \/ \E c \in Node : Admit(n, c) \/ Collect(n, c) \/ Terminate(n, c)

Stop(n) == StopOnCancel(n) \/ StopOnOrphan(n)

Hosted(n) ==
  \/ RecordCreating(n)
  \/ Post(n)
  \/ \E seen \in {"active", "unconfirmed", "terminal"} : Observe(n, seen)
  \/ RemoteEnds(n)

Environment ==
  \/ CancelAdmit
  \/ CancelWrite
  \/ CancellerDies
  \/ \E n \in Node :
       \/ Crash(n)
       \/ \E leaves \in BOOLEAN : CommandExits(n, leaves)
       \/ StrayExits(n)

Next ==
  \/ \E n \in Controllers : StartUp(n) \/ Work(n) \/ Stop(n) \/ Launch(n) \/ Conclude(n)
  \/ \E n \in Dispatchers : Hosted(n)
  \/ Environment
  \/ Over

Spec == Init /\ [][Next]_vars

(* A process that runs goes on: start-up, a launch that was admitted and   *)
(* finish are straight-line code; main polls check_cancel while it waits   *)
(* (every 0.2 s in run, every few seconds in the workflows' monitors); the *)
(* control process writes its request.  Nothing obliges main to return, a  *)
(* command to exit, a hosted task to end or anyone to ask for cancellation.*)
Fairness ==
  /\ \A n \in Controllers :
       /\ WF_vars(StartUp(n))
       /\ WF_vars(Stop(n))
       /\ WF_vars(Launch(n))
       /\ WF_vars(Conclude(n) \/ \E c \in Node : pc[n] = "finish" /\ Terminate(n, c))
  /\ WF_vars(CancelWrite)

FairSpec == Spec /\ Fairness

-----------------------------------------------------------------------------
(* Properties                                                              *)

(* Every variable stays in the range its file or attribute has.            *)
TypeOK ==
  /\ pc \in [Node -> ControllerPC]
  /\ exit \in [Node -> {NoCode, Killed, 0, 1, 130}]
  /\ handle \in [Node -> {"none", "starting", "ready"} \cup TerminalStatus]
  /\ receipt \in [Node -> {"none", "admitted", "bound", "draining", "drained",
                           "drain_failed", "launch_failed", "launch_undrained",
                           "bootstrap_failed"}]
  /\ result \in [Node -> Results] /\ draft \in [Node -> Results]
  /\ cancel \in BOOLEAN
  /\ lock \in Node \cup {Free, Canceller}
  /\ canceller \in {"idle", "write"}
  /\ children \in [Node -> SUBSET Node]
  /\ forced \subseteq Node /\ strays \subseteq Node
  /\ mem \in [Node -> Mems]
  /\ dispatch \in [Node -> {"none", "creating", "active", "unconfirmed", "terminal"}]
  /\ remote \in [Node -> {"none", "running", "done"}]
  /\ crashes \in 0..MaxCrashes

(* Once cancel.json exists no controller of the tree starts a process, not *)
(* even one that had checked for it before: start checks again under the   *)
(* guard that the request is written under.                                *)
CancelFence ==
  [][cancel => \A n \in Node : pc[n] = "absent" => pc'[n] = "absent"]_vars

(* Once cancel.json exists no controller seals "finished", and a root that *)
(* had sealed "finished" was never sent a request.                         *)
CancelledNeverFinished == cancel => result[Root].status # "finished"
NoFinishAfterCancel ==
  [][cancel => \A n \in Node :
       result'[n].status = "finished" => result[n].status = "finished"]_vars

(* A result that says local_children_drained is true of the whole tree     *)
(* below its controller, orphans of dead controllers included, and stays   *)
(* true.                                                                   *)
DrainedMeansStopped ==
  \A n \in Controllers : result[n].drained =>
    \A m \in Under(n) : ~Alive(m) /\ m \notin strays

(* Exit code 0 is sealed only when every controller below it was sealed    *)
(* "finished", or never started.                                           *)
SuccessMeansWholeTree ==
  \A n \in Controllers : result[n].code = 0 =>
    \A m \in Under(n) \cap Controllers :
      \/ receipt[m] \in {"none", "launch_failed"}
      \/ Sealed(m) /\ result[m].status = "finished"

(* A result that denies remote work leaves no hosted task of its tree      *)
(* running: not one whose POST was never answered, nor one of a controller *)
(* that died.                                                              *)
RemoteHonesty ==
  \A n \in Controllers : ~result[n].remoteMay =>
    \A m \in {n} \cup Under(n) : remote[m] # "running"

(* A cancellation request ends the root, sealed or dead.                   *)
CancelEndsRoot == cancel ~> ~Alive(Root)

(* When the root is gone, every controller it left behind notices and ends.*)
OrphansEnd == ~Alive(Root) ~> \A n \in Controllers : ~Alive(n)

(* The run as its session sees it: the promises of ForegroundRun.          *)
RootRun ==
  IF Sealed(Root) THEN handle[Root]
  ELSE IF handle[Root] = "none" THEN "idle"
  ELSE IF ~Alive(Root) THEN "abandoned"
  ELSE IF cancel THEN "cancelling" ELSE "running"

Foreground == INSTANCE ForegroundRun WITH
  run <- RootRun,
  live <- \E m \in Under(Root) : Alive(m) \/ m \in strays

ForegroundPromise == Foreground!Spec

=============================================================================
