--------------------------- MODULE PipelineSweeps ---------------------------
(***************************************************************************)
(* What a run of PR Pipeline promises of its stages, whichever route runs  *)
(* it: stages start one at a time and in order, a stage starts at most     *)
(* once in a sweep, there are at most MaxSweeps sweeps, nothing starts     *)
(* after the run's verdict, and a run judged complete or incomplete has    *)
(* no stage under way.                                                     *)
(***************************************************************************)
EXTENDS Integers

CONSTANTS NumStages,  \* how many stages a sweep has
          MaxSweeps   \* MAX_SWEEPS

VARIABLES launched,   \* the <<sweep, stage>> that were started
          running,    \* the one under way, or Nothing
          verdict     \* what the run was judged to be, "none" before

vars == <<launched, running, verdict>>

Nothing == <<0, 0>>
Visits == (1..MaxSweeps) \X (1..NumStages)
Verdicts == {"complete", "incomplete", "blocked", "error"}

\* Visit v comes after visit u.
After(u, v) == u[1] < v[1] \/ (u[1] = v[1] /\ u[2] < v[2])

Init ==
  /\ launched = {}
  /\ running = Nothing
  /\ verdict = "none"

Begin(v) ==
  /\ verdict = "none"
  /\ running = Nothing
  /\ \A u \in launched : After(u, v)
  /\ launched' = launched \cup {v}
  /\ running' = v
  /\ UNCHANGED verdict

End ==
  /\ running # Nothing
  /\ running' = Nothing
  /\ UNCHANGED <<launched, verdict>>

Judge(r) ==
  /\ verdict = "none"
  /\ r \in {"complete", "incomplete"} => running = Nothing
  /\ verdict' = r
  /\ running' = Nothing
  /\ UNCHANGED launched

Next ==
  \/ \E v \in Visits : Begin(v)
  \/ End
  \/ \E r \in Verdicts : Judge(r)

Spec == Init /\ [][Next]_vars
=============================================================================
