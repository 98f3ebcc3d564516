---------------------------- MODULE FencedRunProofs ----------------------------
(* Proofs about RunLifecycle, continued: revision and target of a run, and the *)
(* refinement of FencedRun, for every value of the constants.                  *)
EXTENDS RunLifecycleProofs

-----------------------------------------------------------------------------
(* What a step may do to rows, executions and profiles. *)

\* A used row keeps its profile and revision, an ended one never becomes active,
\* and a row that comes into use is of a profile that exists.
LEMMA RowEffect ==
  ASSUME TypeInv, [Next]_vars, NEW r \in Runs
  PROVE  /\ status[r] # "none" => /\ status'[r] # "none"
                                  /\ runRev'[r] = runRev[r] /\ runProfile'[r] = runProfile[r]
         /\ status'[r] \in Active => status[r] \in Active \cup {"none"}
         /\ status[r] = "none" /\ status'[r] # "none" => present[runProfile'[r]]
<1> USE DEF Active, Terminal
<1>1. ASSUME NEW p \in Profiles, NEW d \in BOOLEAN, StartRun(p, d)
      PROVE  /\ status[r] # "none" => /\ status'[r] # "none"
                                      /\ runRev'[r] = runRev[r] /\ runProfile'[r] = runProfile[r]
             /\ status'[r] \in Active => status[r] \in Active \cup {"none"}
             /\ status[r] = "none" /\ status'[r] # "none" => present[runProfile'[r]]
  <2>1. created + 1 \in Runs /\ created \in Nat
    BY <1>1, ConstantsAssumption DEF StartRun, TypeInv, TypeOK, Runs
  <2>2. status[created + 1] = "none"
    BY <2>1 DEF TypeInv, Shape
  <2>3. /\ status' = [status EXCEPT ![created + 1] = "queued"]
        /\ runRev' = [runRev EXCEPT ![created + 1] = revision[p]]
        /\ runProfile' = [runProfile EXCEPT ![created + 1] = p] /\ present[p]
    BY <1>1 DEF StartRun
  <2> QED
    BY <2>1, <2>2, <2>3 DEF TypeInv, TypeOK
<1>2. CASE CreateDueRuns
  <2>1. PICK recovered \in SUBSET Runs, n \in Nat : \E who \in NewRows(n) :
           /\ recovered \subseteq Recoverable
           /\ \A q \in created + 1 .. created + n : q \in Runs /\ status[q] = "none"
           /\ Batch(recovered, n, who)
    BY <1>2, TickEffect
  <2>2. PICK who \in NewRows(n) :
           /\ recovered \subseteq Recoverable
           /\ \A q \in created + 1 .. created + n : q \in Runs /\ status[q] = "none"
           /\ Batch(recovered, n, who)
    BY <2>1
  <2> DEFINE fresh == created + 1 .. created + n
  <2>3. \A q \in fresh : present[who[q]]
    BY DEF NewRows, DueProfiles
  <2>4. status' = [q \in Runs |-> IF q \in {i \in fresh : who[i] \in BadSchedule} THEN "failed"
                                 ELSE IF q \in recovered \cup fresh THEN "queued"
                                 ELSE status[q]]
    BY <2>2 DEF Batch
  <2>5. /\ runProfile' = [q \in Runs |-> IF q \in fresh THEN who[q] ELSE runProfile[q]]
        /\ runRev' = [q \in Runs |-> IF q \in fresh THEN revision[who[q]] ELSE runRev[q]]
    BY <2>2 DEF Batch
  <2>6. \A q \in recovered : status[q] \in Active
    BY <2>2 DEF Recoverable
  <2> HIDE DEF fresh
  <2> QED
    BY <2>2, <2>3, <2>4, <2>5, <2>6 DEF fresh
<1>3. ASSUME runRev' = runRev, runProfile' = runProfile,
             \A q \in Runs : \/ status'[q] = status[q]
                             \/ status[q] \in Active /\ status'[q] \in Active \cup Terminal
      PROVE  /\ status[r] # "none" => /\ status'[r] # "none"
                                      /\ runRev'[r] = runRev[r] /\ runProfile'[r] = runProfile[r]
             /\ status'[r] \in Active => status[r] \in Active \cup {"none"}
             /\ status[r] = "none" /\ status'[r] # "none" => present[runProfile'[r]]
  BY <1>3 DEF TypeInv, TypeOK
<1> DEFINE Moved == /\ runRev' = runRev /\ runProfile' = runProfile
                    /\ \A q \in Runs : \/ status'[q] = status[q]
                                       \/ /\ status[q] \in Active
                                          /\ status'[q] \in Active \cup Terminal
<1> USE DEF runVars
<1>4. ASSUME NEW q \in Runs, CancelRun(q) PROVE Moved
  BY <1>4 DEF CancelRun, TypeInv, TypeOK
<1>5. ASSUME NEW q \in Runs, ClaimRefused(q) PROVE Moved
  BY <1>5 DEF ClaimRefused, ClaimVerdict, TypeInv, TypeOK
<1>6. ASSUME NEW e \in Executions, NEW q \in Runs, ClaimGranted(e, q) PROVE Moved
  <2>1. Claimable(q)
    BY <1>6 DEF ClaimGranted, ClaimVerdict
  <2> QED
    BY <1>6, <2>1 DEF ClaimGranted, Claimable, TypeInv, TypeOK
<1>7. ASSUME NEW e \in Executions, Finish(e) PROVE Moved
  BY <1>7 DEF Finish, Holds, Outcomes, TypeInv, TypeOK
<1>8. CASE ArchiveWorkspace
  <2>1. Moved
    BY <1>8 DEF ArchiveWorkspace, TypeInv, TypeOK
  <2> QED
    BY <1>3, <2>1
<1>9. ASSUME ~(\E p \in Profiles, d \in BOOLEAN : StartRun(p, d)), ~CreateDueRuns,
             ~(\E q \in Runs : CancelRun(q) \/ ClaimRefused(q)),
             ~(\E e \in Executions, q \in Runs : ClaimGranted(e, q)),
             ~(\E e \in Executions : Finish(e)), ~ArchiveWorkspace
      PROVE  UNCHANGED <<status, runRev, runProfile>>
  <2>1. ASSUME ApiNext PROVE UNCHANGED <<status, runRev, runProfile>>
    BY <1>9, <2>1 DEF ApiNext, CreateProfile, UpdateProfile, DeleteProfile, UnarchiveWorkspace
  <2>2. ASSUME SchedulerNext PROVE UNCHANGED <<status, runRev, runProfile>>
    BY <1>9, <2>2 DEF SchedulerNext, SchedulerSelect, TickRolledBack
  <2>3. ASSUME WorkerNext PROVE UNCHANGED <<status, runRev, runProfile>>
    BY <1>9, <2>3 DEF WorkerNext, ExecutionStep, LoadPlan, PersistPlan, ExecutionError,
                      RenewLease, ChangeBindings
  <2>4. ASSUME FaultNext \/ Tick \/ UNCHANGED vars
        PROVE  UNCHANGED <<status, runRev, runProfile>>
    BY <2>4 DEF FaultNext, Crash, HeartbeatLost, LoseMessage, Tick, vars
  <2> QED
    BY <2>1, <2>2, <2>3, <2>4 DEF Next
<1> QED
  BY <1>1, <1>2, <1>3, <1>4, <1>5, <1>6, <1>7, <1>8, <1>9

\* The steps that touch an execution or a plan.
ExecStep ==
  \/ \E e \in Executions, r \in Runs : ClaimGranted(e, r)
  \/ \E e \in Executions : \/ LoadPlan(e) \/ PersistPlan(e) \/ ExecutionError(e)
                           \/ Finish(e) \/ Crash(e)

execOf == <<plan, pc, xrun, xrev, xconn, xplan>>

LEMMA OtherExecSteps == [Next]_vars => ExecStep \/ UNCHANGED execOf
<1> SUFFICES ASSUME [Next]_vars, ~ExecStep PROVE UNCHANGED execOf
  OBVIOUS
<1> USE DEF execOf, runVars, execVars, schedVars
<1>1. ASSUME ApiNext PROVE UNCHANGED execOf
  BY <1>1 DEF ApiNext, StartRun, CancelRun, CreateProfile, UpdateProfile, DeleteProfile,
              ArchiveWorkspace, UnarchiveWorkspace
<1>2. ASSUME SchedulerNext PROVE UNCHANGED execOf
  BY <1>2 DEF SchedulerNext, SchedulerSelect, CreateDueRuns, TickRolledBack
<1>3. ASSUME WorkerNext PROVE UNCHANGED execOf
  BY <1>3 DEF ExecStep, WorkerNext, ExecutionStep, ClaimRefused, RenewLease, ChangeBindings
<1>4. ASSUME FaultNext \/ Tick \/ UNCHANGED vars PROVE UNCHANGED execOf
  BY <1>4 DEF ExecStep, FaultNext, HeartbeatLost, LoseMessage, Tick, vars
<1> QED
  BY <1>1, <1>2, <1>3, <1>4 DEF Next

-----------------------------------------------------------------------------
(* The revision of a run *)

\* Strengthening: a row nobody has used carries no plan and has no execution, and
\* what an execution has computed or loaded is of its own revision.
RevisionInv ==
  /\ \A r \in Runs : status[r] = "none" => plan[r] = NoPlan
  /\ \A e \in Executions : pc[e] # "idle" => status[xrun[e]] # "none"
  /\ \A e \in Executions : pc[e] \in {"planned", "applying"} => xplan[e].rev = xrev[e]
  /\ RunsAtQueuedRevision

LEMMA RevisionStep == TypeInv /\ RevisionInv /\ [Next]_vars => RevisionInv'
<1> SUFFICES ASSUME TypeInv, RevisionInv, [Next]_vars PROVE RevisionInv'
  OBVIOUS
<1>1. \A r \in Runs : status[r] # "none" => status'[r] # "none" /\ runRev'[r] = runRev[r]
  BY RowEffect
<1>2. \A e \in Executions : pc[e] # "idle" => xrun[e] \in Runs
  BY DEF TypeInv, Shape
<1> USE DEF RevisionInv, RunsAtQueuedRevision
<1>3. CASE UNCHANGED execOf
  BY <1>1, <1>2, <1>3 DEF execOf
<1>4. ASSUME NEW e \in Executions, NEW r \in Runs, ClaimGranted(e, r) PROVE RevisionInv'
  <2>1. /\ Claimable(r) /\ plan' = plan
        /\ pc' = [pc EXCEPT ![e] = "claimed"] /\ xrun' = [xrun EXCEPT ![e] = r]
        /\ xrev' = [xrev EXCEPT ![e] = IF plan[r] # NoPlan THEN runRev[r]
                                       ELSE revision[runProfile[r]]]
        /\ plan[r] = NoPlan => revision[runProfile[r]] = runRev[r]
        /\ xplan' = xplan
    BY <1>4 DEF ClaimGranted, ClaimVerdict
  <2>2. status[r] # "none"
    BY <2>1 DEF Claimable
  <2>3. \A d \in Executions : pc'[d] # "idle" =>
          status'[xrun'[d]] # "none" /\ xrev'[d] = runRev'[xrun'[d]]
    BY <1>1, <1>2, <2>1, <2>2 DEF TypeInv, TypeOK
  <2>4. \A d \in Executions : pc'[d] \in {"planned", "applying"} => xplan'[d].rev = xrev'[d]
    BY <2>1 DEF TypeInv, TypeOK
  <2>5. \A q \in Runs : /\ status'[q] = "none" => plan'[q] = NoPlan
                        /\ plan'[q] # NoPlan => plan'[q].rev = runRev'[q]
    BY <1>1, <2>1
  <2> QED
    BY <2>3, <2>4, <2>5
<1>5. ASSUME NEW e \in Executions, LoadPlan(e) PROVE RevisionInv'
  <2>1. UNCHANGED <<plan, xrun, xrev>>
    BY <1>5 DEF LoadPlan, runVars
  <2>2. pc[e] # "idle" /\ \A d \in Executions \ {e} : pc'[d] = pc[d] /\ xplan'[d] = xplan[d]
    BY <1>5 DEF LoadPlan, TypeInv, TypeOK
  <2>3. pc'[e] \in {"planned", "applying"} => xplan'[e].rev = xrev[e]
    BY <1>5 DEF LoadPlan, TypeInv, TypeOK
  <2> QED
    BY <1>1, <1>2, <2>1, <2>2, <2>3
<1>6. ASSUME NEW e \in Executions, PersistPlan(e) PROVE RevisionInv'
  <2>1. /\ pc[e] = "planned" /\ UNCHANGED <<xrun, xrev, xplan>>
        /\ \/ plan' = plan
           \/ status[xrun[e]] = "running" /\ plan' = [plan EXCEPT ![xrun[e]] = xplan[e]]
        /\ \E c \in {"applying", "failing"} : pc' = [pc EXCEPT ![e] = c]
    BY <1>6 DEF PersistPlan, MayPersist, Holds
  <2>2. xplan[e].rev = runRev[xrun[e]]
    BY <2>1
  <2>3. \A q \in Runs : /\ status'[q] = "none" => plan'[q] = NoPlan
                        /\ plan'[q] # NoPlan => plan'[q].rev = runRev'[q]
    BY <1>1, <1>2, <2>1, <2>2 DEF TypeInv, TypeOK
  <2>4. \A d \in Executions : pc'[d] # "idle" =>
          /\ pc[d] # "idle"
          /\ pc'[d] \in {"planned", "applying"} => pc[d] \in {"planned", "applying"}
    BY <2>1 DEF TypeInv, TypeOK
  <2> QED
    BY <1>1, <1>2, <2>1, <2>3, <2>4
<1>7. ASSUME NEW e \in Executions, ExecutionError(e) \/ Finish(e) \/ Crash(e)
      PROVE  RevisionInv'
  <2>1. /\ plan' = plan
        /\ pc[e] # "idle" /\ pc'[e] \in {"idle", "failing"}
        /\ pc'[e] # "idle" => xrun'[e] = xrun[e] /\ xrev'[e] = xrev[e]
        /\ \A d \in Executions \ {e} : /\ pc'[d] = pc[d] /\ xrun'[d] = xrun[d]
                                       /\ xrev'[d] = xrev[d] /\ xplan'[d] = xplan[d]
    BY <1>7 DEF ExecutionError, Finish, Crash, Forget, TypeInv, TypeOK, runVars
  <2> QED
    BY <1>1, <1>2, <2>1
<1> QED
  BY <1>3, <1>4, <1>5, <1>6, <1>7, OtherExecSteps DEF ExecStep

\* Whatever happens to its profile, a run is planned and executed at the revision
\* it was queued with, by every execution of it (runtime.py, _claim, _load_plan).
THEOREM RunsAtQueuedRevisionAlways == Spec => []RunsAtQueuedRevision
<1>1. Init => RevisionInv
  BY DEF Init, RevisionInv, RunsAtQueuedRevision
<1>2. RevisionInv => RunsAtQueuedRevision
  BY DEF RevisionInv
<1> QED
  BY TypeInit, TypeStep, RevisionStep, <1>1, <1>2, PTL DEF Spec

-----------------------------------------------------------------------------
(* The target of a run *)

\* Strengthening: the profile of a run exists, and as long as the run is active the
\* profile, the plan and every execution agree on the connection; after that, plan
\* and executions still do.
TargetInv ==
  /\ \A r \in Runs : status[r] # "none" => present[runProfile[r]]
  /\ \A r \in Runs :
       status[r] \in Active /\ plan[r] # NoPlan => plan[r].conn = conn[runProfile[r]]
  /\ \A e \in Executions : pc[e] # "idle" =>
       /\ status[xrun[e]] \in Active => xconn[e] = conn[runProfile[xrun[e]]]
       /\ plan[xrun[e]] # NoPlan => plan[xrun[e]].conn = xconn[e]
  /\ \A e \in Executions : pc[e] \in {"planned", "applying"} => xplan[e].conn = xconn[e]

LEMMA TargetStep == TypeInv /\ RevisionInv /\ TargetInv /\ [Next]_vars => TargetInv'
<1> SUFFICES ASSUME TypeInv, RevisionInv, TargetInv, [Next]_vars PROVE TargetInv'
  OBVIOUS
<1>1. \A r \in Runs :
        /\ status[r] # "none" => status'[r] # "none" /\ runProfile'[r] = runProfile[r]
        /\ status'[r] \in Active => status[r] \in Active \cup {"none"}
        /\ status[r] = "none" /\ status'[r] # "none" => present[runProfile'[r]]
  BY RowEffect
<1>2. /\ \A e \in Executions : pc[e] # "idle" => xrun[e] \in Runs
      /\ \A r \in Runs : runProfile[r] \in Profiles
  BY DEF TypeInv, TypeOK, Shape
<1>3. /\ \A r \in Runs : status[r] = "none" => plan[r] = NoPlan
      /\ \A e \in Executions : pc[e] # "idle" => status[xrun[e]] # "none"
  BY DEF RevisionInv
<1>4. "none" \notin Active
  BY DEF Active
<1> USE DEF TargetInv
<1>5. ASSUME UNCHANGED <<present, conn>>, UNCHANGED execOf PROVE TargetInv'
  BY <1>1, <1>2, <1>3, <1>4, <1>5 DEF execOf
<1>6. ASSUME NEW e \in Executions, NEW r \in Runs, ClaimGranted(e, r) PROVE TargetInv'
  <2>1. /\ Claimable(r) /\ UNCHANGED <<plan, xplan, present, conn>>
        /\ pc' = [pc EXCEPT ![e] = "claimed"] /\ xrun' = [xrun EXCEPT ![e] = r]
        /\ xconn' = [xconn EXCEPT ![e] = conn[runProfile[r]]]
    BY <1>6 DEF ClaimGranted, ClaimVerdict, profileVars
  <2>2. status[r] \in Active
    BY <2>1 DEF Claimable, Active
  <2>3. \A d \in Executions : pc'[d] # "idle" =>
          /\ status'[xrun'[d]] \in Active => xconn'[d] = conn'[runProfile'[xrun'[d]]]
          /\ plan'[xrun'[d]] # NoPlan => plan'[xrun'[d]].conn = xconn'[d]
    BY <1>1, <1>2, <1>3, <1>4, <2>1, <2>2 DEF TypeInv, TypeOK
  <2>4. \A d \in Executions : pc'[d] \in {"planned", "applying"} => xplan'[d].conn = xconn'[d]
    BY <2>1 DEF TypeInv, TypeOK
  <2> QED
    BY <1>1, <1>2, <1>3, <1>4, <2>1, <2>3, <2>4
<1>7. ASSUME NEW e \in Executions, LoadPlan(e) PROVE TargetInv'
  <2>1. pc[e] # "idle" /\ UNCHANGED <<plan, xrun, xconn, present, conn>>
    BY <1>7 DEF LoadPlan, runVars, profileVars
  <2>2. \A d \in Executions \ {e} : pc'[d] = pc[d] /\ xplan'[d] = xplan[d]
    BY <1>7 DEF LoadPlan, TypeInv, TypeOK
  <2>3. pc'[e] \in {"planned", "applying"} => xplan'[e].conn = xconn[e]
    BY <1>7, <2>1 DEF LoadPlan, TypeInv, TypeOK
  <2> QED
    BY <1>1, <1>2, <1>3, <1>4, <2>1, <2>2, <2>3
<1>8. ASSUME NEW e \in Executions, PersistPlan(e) PROVE TargetInv'
  <2>1. /\ pc[e] = "planned" /\ UNCHANGED <<xrun, xconn, xplan, present, conn>>
        /\ \/ plan' = plan
           \/ status[xrun[e]] = "running" /\ plan' = [plan EXCEPT ![xrun[e]] = xplan[e]]
        /\ \E c \in {"applying", "failing"} : pc' = [pc EXCEPT ![e] = c]
    BY <1>8 DEF PersistPlan, MayPersist, Holds, profileVars
  <2>2. status[xrun[e]] = "running" => xplan[e].conn = conn[runProfile[xrun[e]]]
    BY <2>1 DEF Active
  <2>3. \A d \in Executions :
          /\ pc'[d] # "idle" => pc[d] # "idle"
          /\ pc'[d] \in {"planned", "applying"} => pc[d] \in {"planned", "applying"}
    BY <2>1 DEF TypeInv, TypeOK
  <2>4. \A r \in Runs :
          plan'[r] = plan[r] \/ (r = xrun[e] /\ status[r] = "running" /\ plan'[r] = xplan[e])
    BY <1>2, <2>1 DEF TypeInv, TypeOK
  <2>5. \A r \in Runs :
          status'[r] \in Active /\ plan'[r] # NoPlan => plan'[r].conn = conn[runProfile'[r]]
    BY <1>1, <1>3, <1>4, <2>2, <2>4
  <2>6. \A d \in Executions : pc'[d] # "idle" =>
          /\ status'[xrun[d]] \in Active => xconn[d] = conn[runProfile'[xrun[d]]]
          /\ plan'[xrun[d]] # NoPlan => plan'[xrun[d]].conn = xconn[d]
    BY <1>1, <1>2, <1>3, <1>4, <2>2, <2>3, <2>4 DEF Active
  <2> QED
    BY <1>1, <1>2, <2>1, <2>3, <2>5, <2>6
<1>9. ASSUME NEW e \in Executions, ExecutionError(e) \/ Finish(e) \/ Crash(e)
      PROVE  TargetInv'
  <2>1. /\ UNCHANGED <<plan, present, conn>>
        /\ pc[e] # "idle" /\ pc'[e] \in {"idle", "failing"}
        /\ pc'[e] # "idle" => xrun'[e] = xrun[e] /\ xconn'[e] = xconn[e]
        /\ \A d \in Executions \ {e} : /\ pc'[d] = pc[d] /\ xrun'[d] = xrun[d]
                                       /\ xconn'[d] = xconn[d] /\ xplan'[d] = xplan[d]
    BY <1>9 DEF ExecutionError, Finish, Crash, Forget, TypeInv, TypeOK, runVars, profileVars
  <2> QED
    BY <1>1, <1>2, <1>3, <1>4, <2>1
<1>10. ASSUME NEW p \in Profiles, NEW en \in BOOLEAN, NEW c \in Connections,
              CreateProfile(p, en, c)
       PROVE  TargetInv'
  <2>1. /\ ~present[p] /\ UNCHANGED runVars /\ UNCHANGED execVars
        /\ present' = [present EXCEPT ![p] = TRUE] /\ conn' = [conn EXCEPT ![p] = c]
    BY <1>10 DEF CreateProfile
  <2>2. \A r \in Runs : status[r] # "none" => runProfile[r] # p
    BY <2>1
  <2> QED
    BY <1>2, <1>3, <1>4, <2>1, <2>2 DEF runVars, execVars, TypeInv, TypeOK
<1>11. ASSUME NEW p \in Profiles, NEW en \in BOOLEAN, NEW c \in Connections,
              NEW s \in BOOLEAN, UpdateProfile(p, en, c, s)
       PROVE  TargetInv'
  <2>1. /\ UNCHANGED runVars /\ UNCHANGED execVars /\ present' = present
        /\ conn' = [conn EXCEPT ![p] = c] /\ (c # conn[p] => ~HasActive(p))
    BY <1>11 DEF UpdateProfile, MayMove
  <2>2. \A r \in Runs : status[r] \in Active => conn'[runProfile[r]] = conn[runProfile[r]]
    BY <1>2, <2>1 DEF HasActive, TypeInv, TypeOK
  <2> QED
    BY <1>2, <2>1, <2>2 DEF runVars, execVars
<1>12. ASSUME NEW p \in Profiles, DeleteProfile(p) PROVE TargetInv'
  <2>1. /\ UNCHANGED runVars /\ UNCHANGED execVars /\ conn' = conn
        /\ present' = [present EXCEPT ![p] = FALSE]
        /\ \A r \in Runs : status[r] # "none" => runProfile[r] # p
    BY <1>12 DEF DeleteProfile
  <2> QED
    BY <1>2, <2>1 DEF runVars, execVars, TypeInv, TypeOK
<1>13. ASSUME ~ExecStep,
              ~(\E p \in Profiles : DeleteProfile(p)),
              ~(\E p \in Profiles, en \in BOOLEAN, c \in Connections : CreateProfile(p, en, c)),
              ~(\E p \in Profiles, en \in BOOLEAN, c \in Connections, s \in BOOLEAN :
                  UpdateProfile(p, en, c, s))
       PROVE  UNCHANGED <<present, conn>>
  <2> USE DEF profileVars
  <2>1. ASSUME ApiNext PROVE UNCHANGED <<present, conn>>
    BY <1>13, <2>1 DEF ApiNext, StartRun, CancelRun, ArchiveWorkspace, UnarchiveWorkspace
  <2>2. ASSUME SchedulerNext PROVE UNCHANGED <<present, conn>>
    BY <2>2 DEF SchedulerNext, SchedulerSelect, CreateDueRuns, TickRolledBack
  <2>3. ASSUME WorkerNext PROVE UNCHANGED <<present, conn>>
    BY <1>13, <2>3 DEF WorkerNext, ExecutionStep, ExecStep, ClaimRefused, RenewLease,
                       ChangeBindings
  <2>4. ASSUME FaultNext \/ Tick \/ UNCHANGED vars PROVE UNCHANGED <<present, conn>>
    BY <1>13, <2>4 DEF FaultNext, ExecStep, HeartbeatLost, LoseMessage, Tick, vars
  <2> QED
    BY <2>1, <2>2, <2>3, <2>4 DEF Next
<1> QED
  BY <1>5, <1>6, <1>7, <1>8, <1>9, <1>10, <1>11, <1>12, <1>13, OtherExecSteps DEF ExecStep

\* An execution, fresh, resumed or stale, applies a plan only to the connection the
\* plan was computed for: update_profile moves no profile with an active run, and a
\* profile that has runs is not deleted (routers/profiles.py).
THEOREM AppliesToPlannedTargetAlways == Spec => []AppliesToPlannedTarget
<1>1. Init => RevisionInv /\ TargetInv
  BY DEF Init, RevisionInv, RunsAtQueuedRevision, TargetInv, Active
<1>2. TargetInv => AppliesToPlannedTarget
  BY DEF TargetInv, AppliesToPlannedTarget
<1> QED
  BY TypeInit, TypeStep, RevisionStep, TargetStep, <1>1, <1>2, PTL DEF Spec

-----------------------------------------------------------------------------
(* The refinement of FencedRun *)

LEMMA FencedInit == Init => Fenced!Init
  BY DEF Init, Phase, Working, Fenced!Init

\* The invariants the refinement rests on.
FencedInv == TypeInv /\ LeaseMatchesStatus /\ PlanInv /\ RevisionInv

\* What a step makes of one run is nothing, or one of the moves of FencedRun.
FencedMove(r) ==
  \/ Fenced!Keeps(r) \/ Fenced!Queue(r) \/ Fenced!Grant(r) \/ Fenced!GiveUp(r)
  \/ Fenced!Agree(r) \/ Fenced!End(r)

LEMMA KeepsRow ==
  ASSUME NEW r \in Runs, status'[r] = status[r], owner'[r] = owner[r], plan'[r] = plan[r]
  PROVE  FencedMove(r)
  BY DEF FencedMove, Fenced!Keeps, Phase

\* Inserted rows, ended rows and rows whose execution is given up.
LEMMA RowMoves ==
  ASSUME NEW r \in Runs, plan'[r] = plan[r], owner'[r] = NoExec,
         status'[r] \in {"queued"} \cup Terminal,
         \/ status[r] = "none" /\ plan[r] = NoPlan
         \/ status[r] = "running"
         \/ status[r] = "queued" /\ (status'[r] \in Terminal \/ owner[r] = NoExec)
  PROVE  FencedMove(r)
<1> USE DEF FencedMove, Phase, Terminal
<1>1. CASE status[r] = "none"
  BY <1>1 DEF Fenced!Queue
<1>2. CASE status[r] = "running" /\ status'[r] = "queued"
  BY <1>2 DEF Fenced!GiveUp
<1>3. CASE status[r] = "queued" /\ status'[r] = "queued"
  BY <1>3 DEF Fenced!Keeps
<1>4. CASE status[r] \in {"queued", "running"} /\ status'[r] \in Terminal
  BY <1>4 DEF Fenced!End
<1> QED
  BY <1>1, <1>2, <1>3, <1>4

LEMMA FencedStep ==
  FencedInv /\ FencedInv' /\ [Next]_vars => Fenced!Next
<1> SUFFICES ASSUME FencedInv, FencedInv', [Next]_vars PROVE Fenced!Next
  OBVIOUS
<1>1. /\ TypeInv /\ LeaseMatchesStatus /\ PlanInv /\ RevisionInv
      /\ TypeInv' /\ LeaseMatchesStatus' /\ PlanInv'
  BY DEF FencedInv
<1> USE DEF runVars
<1>2. ASSUME NEW p \in Profiles, NEW d \in BOOLEAN, StartRun(p, d), NEW r \in Runs
      PROVE  FencedMove(r)
  <2>1. created + 1 \in Runs /\ created \in Nat
    BY <1>1, <1>2, ConstantsAssumption DEF StartRun, TypeInv, TypeOK, Runs
  <2>2. status[created + 1] = "none" /\ UNCHANGED <<owner, plan>>
    BY <1>1, <1>2, <2>1 DEF StartRun, TypeInv, Shape
  <2>3. status' = [status EXCEPT ![created + 1] = "queued"]
    BY <1>2 DEF StartRun
  <2>4. CASE r = created + 1
    <3>1. status'[r] = "queued" /\ owner'[r] = NoExec /\ plan[r] = NoPlan /\ plan'[r] = plan[r]
      BY <1>1, <2>1, <2>2, <2>3, <2>4 DEF LeaseMatchesStatus, RevisionInv, TypeInv, TypeOK
    <3> QED
      BY <2>2, <2>4, <3>1, RowMoves
  <2>5. CASE r # created + 1
    BY <2>2, <2>3, <2>5, KeepsRow DEF TypeInv, TypeOK
  <2> QED
    BY <2>4, <2>5
<1>3. ASSUME NEW q \in Runs, CancelRun(q), NEW r \in Runs PROVE FencedMove(r)
  <2>1. /\ status[q] = "queued" /\ status' = [status EXCEPT ![q] = "canceled"]
        /\ UNCHANGED <<owner, plan>>
    BY <1>3 DEF CancelRun
  <2>2. CASE r = q
    <3>1. status'[r] = "canceled" /\ owner'[r] = NoExec
      BY <1>1, <2>1, <2>2 DEF LeaseMatchesStatus, TypeInv, TypeOK
    <3> QED
      BY <2>1, <2>2, <3>1, RowMoves DEF Terminal
  <2>3. CASE r # q
    BY <2>1, <2>3, KeepsRow DEF TypeInv, TypeOK
  <2> QED
    BY <2>2, <2>3
<1>4. ASSUME NEW q \in Runs, ClaimRefused(q), NEW r \in Runs PROVE FencedMove(r)
  <2>1. /\ plan' = plan
        /\ \/ UNCHANGED <<status, owner>>
           \/ /\ status[q] \in Active
              /\ \E s \in Terminal : status' = [status EXCEPT ![q] = s]
              /\ owner' = [owner EXCEPT ![q] = NoExec]
    BY <1>4 DEF ClaimRefused, ClaimVerdict, ReleaseLease, Terminal
  <2>2. CASE r = q /\ status[q] \in Active /\ status'[q] \in Terminal /\ owner'[q] = NoExec
    BY <2>1, <2>2, RowMoves DEF Active
  <2>3. CASE status'[r] = status[r] /\ owner'[r] = owner[r]
    BY <2>1, <2>3, KeepsRow
  <2> QED
    BY <1>1, <2>1, <2>2, <2>3 DEF TypeInv, TypeOK
<1>5. ASSUME NEW e \in Executions, NEW q \in Runs, ClaimGranted(e, q), NEW r \in Runs
      PROVE  FencedMove(r)
  <2>1. /\ Claimable(q) /\ plan' = plan /\ owner[q] # e
        /\ status' = [status EXCEPT ![q] = "running"] /\ owner' = [owner EXCEPT ![q] = e]
    BY <1>5 DEF ClaimGranted, ClaimVerdict, Fresh
  <2>2. CASE r = q
    <3>1. status[q] \in {"queued", "running"} /\ status'[q] = "running" /\ owner'[q] = e
      BY <1>1, <2>1 DEF Claimable, TypeInv, TypeOK
    <3> QED
      BY <2>1, <2>2, <3>1 DEF FencedMove, Fenced!Grant, Phase
  <2>3. CASE r # q
    BY <2>1, <2>3, KeepsRow DEF TypeInv, TypeOK
  <2> QED
    BY <2>2, <2>3
<1>6. ASSUME NEW e \in Executions, Finish(e), NEW r \in Runs PROVE FencedMove(r)
  <2>1. /\ plan' = plan
        /\ \/ UNCHANGED <<status, owner>>
           \/ /\ status[xrun[e]] = "running"
              /\ \E s \in Terminal : status' = [status EXCEPT ![xrun[e]] = s]
              /\ owner' = [owner EXCEPT ![xrun[e]] = NoExec]
    BY <1>6 DEF Finish, Holds, Outcomes, ReleaseLease, Terminal
  <2>2. CASE r = xrun[e] /\ status[r] = "running" /\ status'[r] \in Terminal /\ owner'[r] = NoExec
    BY <2>1, <2>2, RowMoves
  <2>3. CASE status'[r] = status[r] /\ owner'[r] = owner[r]
    BY <2>1, <2>3, KeepsRow
  <2> QED
    BY <1>1, <2>1, <2>2, <2>3 DEF TypeInv, TypeOK
<1>7. ASSUME ArchiveWorkspace, NEW r \in Runs PROVE FencedMove(r)
  <2>1. /\ UNCHANGED <<owner, plan>>
        /\ status'[r] = IF status[r] = "queued" THEN "canceled" ELSE status[r]
    BY <1>7 DEF ArchiveWorkspace
  <2>2. CASE status[r] = "queued"
    <3>1. owner'[r] = NoExec
      BY <1>1, <2>1, <2>2 DEF LeaseMatchesStatus
    <3> QED
      BY <2>1, <2>2, <3>1, RowMoves DEF Terminal
  <2>3. CASE status[r] # "queued"
    BY <2>1, <2>3, KeepsRow
  <2> QED
    BY <2>2, <2>3
<1>8. ASSUME CreateDueRuns, NEW r \in Runs PROVE FencedMove(r)
  <2>1. PICK recovered \in SUBSET Runs, n \in Nat : \E who \in NewRows(n) :
           /\ recovered \subseteq Recoverable
           /\ \A q \in created + 1 .. created + n : q \in Runs /\ status[q] = "none"
           /\ Batch(recovered, n, who)
    BY <1>1, <1>8, TickEffect
  <2> DEFINE fresh == created + 1 .. created + n
  <2>2. /\ \A q \in recovered : status[q] \in Active /\ status'[q] = "queued" /\ owner'[q] = NoExec
        /\ \A q \in fresh : /\ status[q] = "none" /\ status'[q] \in {"queued", "failed"}
                            /\ owner'[q] = owner[q]
        /\ \A q \in Runs \ (recovered \cup fresh) : status'[q] = status[q] /\ owner'[q] = owner[q]
    BY <2>1 DEF Batch, Recoverable, Active
  <2>3. plan' = plan
    BY <1>8 DEF CreateDueRuns
  <2> HIDE DEF fresh
  <2>4. CASE r \in recovered
    <3>1. owner[r] = NoExec \/ status[r] = "running"
      BY <1>1, <2>2, <2>4 DEF Active, LeaseMatchesStatus
    <3> QED
      BY <2>2, <2>3, <2>4, <3>1, RowMoves DEF Active
  <2>5. CASE r \in fresh
    <3>1. owner'[r] = NoExec /\ plan[r] = NoPlan
      BY <1>1, <2>2, <2>5 DEF LeaseMatchesStatus, RevisionInv
    <3> QED
      BY <2>2, <2>3, <2>5, <3>1, RowMoves DEF Terminal
  <2>6. CASE r \notin recovered \cup fresh
    BY <2>2, <2>3, <2>6, KeepsRow
  <2> QED
    BY <2>4, <2>5, <2>6
<1>9. ASSUME NEW e \in Executions, PersistPlan(e), NEW r \in Runs PROVE FencedMove(r)
  <2>1. /\ pc[e] = "planned" /\ UNCHANGED <<status, owner, xrun, xplan>>
        /\ xrun[e] \in Runs /\ xplan[e] \in Plans
    BY <1>1, <1>9 DEF PersistPlan, TypeInv, Shape, PlanInv
  <2>2. CASE plan'[r] = plan[r]
    BY <2>1, <2>2, KeepsRow
  <2>3. CASE plan'[r] # plan[r]
    <3>1. /\ MayPersist(e) /\ plan' = [plan EXCEPT ![xrun[e]] = xplan[e]]
          /\ pc' = [pc EXCEPT ![e] = "applying"]
      BY <1>9, <2>3 DEF PersistPlan
    <3>2. r = xrun[e] /\ plan'[r] = xplan[e] /\ plan[r] = NoPlan
      BY <1>1, <2>1, <2>3, <3>1 DEF MayPersist, TypeInv, TypeOK
    <3>3. status[r] = "running" /\ owner[r] = e /\ pc'[e] = "applying"
      BY <1>1, <3>1, <3>2 DEF MayPersist, Holds, TypeInv, TypeOK
    <3> QED
      BY <2>1, <3>2, <3>3 DEF FencedMove, Fenced!Agree, Phase, Working
  <2> QED
    BY <2>2, <2>3
<1>10. ASSUME NEW r \in Runs PROVE FencedMove(r)
  <2>1. CASE UNCHANGED <<status, owner, plan>>
    BY <2>1, KeepsRow
  <2>2. CASE UNCHANGED <<status, owner, lease, runProfile>> /\ ~(\E e \in Executions : PersistPlan(e))
    <3>1. plan' = plan
      BY <2>2, OtherExecSteps
      DEF execOf, ExecStep, ClaimGranted, LoadPlan, ExecutionError, Finish, Crash
    <3> QED
      BY <2>1, <2>2, <3>1
  <2>3. CASE Tick \/ \E e \in Executions : RenewLease(e)
    <3>1. UNCHANGED <<status, owner, plan>>
      BY <2>3 DEF Tick, RenewLease
    <3> QED
      BY <2>1, <3>1
  <2> QED
    BY <1>2, <1>3, <1>4, <1>5, <1>6, <1>7, <1>8, <1>9, <2>2, <2>3, OtherSteps DEF RowStep
<1>11. ASSUME NEW e \in Executions PROVE Fenced!Works(e)
  <2>1. pc'[e] = "applying" =>
          xrun'[e] \in Runs /\ xplan'[e] \in Plans /\ plan'[xrun'[e]] = xplan'[e]
    BY <1>1 DEF TypeInv, Shape, PlanInv, AppliesPersistedPlan
  <2> QED
    BY <2>1 DEF Fenced!Works, Working
<1> QED
  BY <1>10, <1>11 DEF FencedMove, Fenced!Next

\* Rows, messages, leases and executions keep the promise of FencedRun, whatever is
\* lost, late, repeated or crashed (docs/architecture.md, "Run lifecycle").
THEOREM ImplementsFencedRunAlways == Spec => ImplementsFencedRun
<1>1. Init => FencedInv
  BY TypeInit DEF Init, FencedInv, LeaseMatchesStatus, PlanInv,
     AppliesPersistedPlan, RevisionInv, RunsAtQueuedRevision
<1>2. FencedInv /\ [Next]_vars => FencedInv'
  BY TypeStep, LeaseStep, PlanStep, RevisionStep DEF FencedInv
<1> QED
  BY <1>1, <1>2, FencedInit, FencedStep, PTL
  DEF Spec, ImplementsFencedRun, Fenced!Spec

=============================================================================
