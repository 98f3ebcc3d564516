------------------------------ MODULE FencedRun ------------------------------
(***************************************************************************)
(* What the fencing of a run promises, without leases, messages or clocks: *)
(* a run is queued once, held by at most one execution at a time, gets at  *)
(* most one plan, which its holder of that moment agrees on, and ends      *)
(* once.  An execution works on a plan only while that is the agreed one,  *)
(* even after it has stopped being the holder.  Several runs may move in   *)
(* one step (a scheduler tick is one transaction over many rows).          *)
(***************************************************************************)
CONSTANTS Runs, Executions, Plans, NoExec, NoPlan

VARIABLES
  phase,    \* phase[r]: "absent", "waiting", "held" or "ended"
  holder,   \* holder[r]: the execution that holds r, or NoExec
  agreed,   \* agreed[r]: the plan of r, or NoPlan
  work      \* work[e]: the run and the plan e is applying, if any

fencedVars == <<phase, holder, agreed, work>>

Init ==
  /\ phase = [r \in Runs |-> "absent"]
  /\ holder = [r \in Runs |-> NoExec]
  /\ agreed = [r \in Runs |-> NoPlan]
  /\ work = [e \in Executions |-> {}]

Keeps(r) == phase'[r] = phase[r] /\ holder'[r] = holder[r] /\ agreed'[r] = agreed[r]

\* A row is inserted; one that cannot be executed is born ended.
Queue(r) ==
  /\ phase[r] = "absent" /\ phase'[r] \in {"waiting", "ended"}
  /\ holder'[r] = NoExec /\ agreed'[r] = NoPlan

\* A waiting run, or one whose holder was given up, is granted to an execution.
Grant(r) ==
  /\ phase[r] \in {"waiting", "held"} /\ phase'[r] = "held"
  /\ holder'[r] \in Executions \ {holder[r]}
  /\ agreed'[r] = agreed[r]

\* The holder is given up and the run waits again.
GiveUp(r) ==
  /\ phase[r] = "held" /\ phase'[r] = "waiting"
  /\ holder'[r] = NoExec /\ agreed'[r] = agreed[r]

\* The holder persists the plan, once.
Agree(r) ==
  /\ phase[r] = "held" /\ agreed[r] = NoPlan
  /\ agreed'[r] \in Plans
  /\ work'[holder[r]] = {[run |-> r, plan |-> agreed'[r]]}
  /\ phase'[r] = phase[r] /\ holder'[r] = holder[r]

\* The run ends, by its holder or without one.
End(r) ==
  /\ phase[r] \in {"waiting", "held"} /\ phase'[r] = "ended"
  /\ holder'[r] = NoExec /\ agreed'[r] = agreed[r]

\* A job an execution takes up is the plan that is agreed for that run.
Works(e) ==
  \A job \in work'[e] :
    job \in work[e] \/ (job.plan \in Plans /\ job.plan = agreed'[job.run])

Next ==
  /\ \A r \in Runs : Keeps(r) \/ Queue(r) \/ Grant(r) \/ GiveUp(r) \/ Agree(r) \/ End(r)
  /\ \A e \in Executions : Works(e)

Spec == Init /\ [][Next]_fencedVars
=============================================================================
