-------------------------- MODULE RunLifecycleProofs --------------------------
(* Proofs about RunLifecycle, for every value of its constants. *)
EXTENDS RunLifecycle, FiniteSetTheorems, TLAPS

-----------------------------------------------------------------------------
(* The scheduler's batch: bounds of the counters of one tick. *)

\* A tick inserts as many rows as are wanted and free, never a negative number.
LEMMA RowsWantedBound ==
  ASSUME NEW recovered \in SUBSET Runs, created \in 0 .. MaxRuns,
         snapshot \subseteq Profiles
  PROVE  /\ RowsWanted(recovered) \in Nat
         /\ created + RowsWanted(recovered) \in 0 .. MaxRuns
<1>1. IsFiniteSet(recovered)
  <2>1. IsFiniteSet(Runs)
    <3>1. 1 \in Int /\ MaxRuns \in Int
      BY ConstantsAssumption
    <3> QED
      BY <3>1, FS_Interval DEF Runs
  <2> QED
    BY <2>1, FS_Subset
<1>2. Cardinality(recovered) \in Nat
  BY <1>1, FS_CardinalityType
<1>3. DueProfiles \in SUBSET Profiles
  BY DEF DueProfiles
<1>4. Cardinality(DueProfiles) \in Nat
  BY <1>3, FS_Subset, FS_CardinalityType, ConstantsAssumption
<1>5. BatchSize \in Nat /\ MaxRuns \in Nat
  BY ConstantsAssumption
<1> QED
  BY <1>2, <1>4, <1>5 DEF RowsWanted

\* The rows a tick recovers, and the rows it inserts for due profiles.
LEMMA BatchSets ==
  ASSUME TypeOK
  PROVE  /\ Oldest(Recoverable, BatchSize) \in SUBSET Runs
         /\ Oldest(Recoverable, BatchSize) \subseteq Recoverable
         /\ RowsWanted(Oldest(Recoverable, BatchSize)) \in Nat
         /\ created + RowsWanted(Oldest(Recoverable, BatchSize)) \in 0 .. MaxRuns
<1>1. Oldest(Recoverable, BatchSize) \in SUBSET Runs
  BY DEF Oldest, Recoverable
<1>2. Oldest(Recoverable, BatchSize) \subseteq Recoverable
  BY DEF Oldest
<1> QED
  BY <1>1, <1>2, RowsWantedBound DEF TypeOK

-----------------------------------------------------------------------------
(* Types *)

LEMMA SendType ==
  ASSUME NEW rs \in SUBSET Runs, msgs \subseteq Runs, faults \in 0 .. MaxFaults, Send(rs)
  PROVE  msgs' \subseteq Runs /\ faults' \in 0 .. MaxFaults
  BY ConstantsAssumption DEF Send, Spend

\* Rows are inserted in order, and an execution at work has a run.
Shape ==
  /\ \A r \in Runs : r > created => status[r] = "none"
  /\ \A e \in Executions : pc[e] # "idle" => xrun[e] \in Runs

TypeInv == TypeOK /\ Shape

LEMMA TypeInit == Init => TypeInv
<1>1. AnyProfile \in Profiles /\ AnyConn \in Connections
  BY ConstantsAssumption DEF AnyProfile, AnyConn
<1> SUFFICES ASSUME Init PROVE TypeInv
  OBVIOUS
<1>2. present \in [Profiles -> BOOLEAN] /\ enabled \in [Profiles -> BOOLEAN]
  <2>1. \A p \in Profiles : (p \in BadConfig \cup BadSchedule) \in BOOLEAN
    OBVIOUS
  <2>2. present = [p \in Profiles |-> p \in BadConfig \cup BadSchedule] /\ enabled = present
    BY DEF Init
  <2>3. present \in [Profiles -> BOOLEAN]
    BY <2>1, <2>2
  <2> QED
    BY <2>2, <2>3
<1>3. /\ status \in [Runs -> Active \cup Terminal \cup {"none"}]
      /\ owner \in [Runs -> Executions \cup {NoExec}]
      /\ lease \in [Runs -> NoLease .. LeaseTicks]
      /\ age \in [Runs -> 0 .. RedeliveryTicks]
      /\ plan \in [Runs -> Plans \cup {NoPlan}]
      /\ runProfile \in [Runs -> Profiles]
      /\ runRev \in [Runs -> 0 .. MaxRevision]
      /\ dry \in [Runs -> BOOLEAN]
      /\ created \in 0 .. MaxRuns
  BY <1>1, ConstantsAssumption DEF Init, NoLease
<1>4. /\ revision \in [Profiles -> 1 .. MaxRevision]
      /\ due \in [Profiles -> Nat] /\ cool \in [Profiles -> 0 .. CooldownTicks]
      /\ conn \in [Profiles -> Connections] /\ bound \in [Profiles -> BOOLEAN]
  BY <1>1, ConstantsAssumption DEF Init
<1>5. /\ msgs \subseteq Runs /\ snapshot \subseteq Profiles
      /\ faults \in 0 .. MaxFaults
  BY ConstantsAssumption DEF Init
<1>8. archived \in BOOLEAN /\ ticking \in BOOLEAN
  BY DEF Init
<1>6. /\ pc \in [Executions -> {"idle", "claimed", "planned", "applying", "failing"}]
      /\ xrun \in [Executions -> 0 .. MaxRuns]
      /\ xrev \in [Executions -> 0 .. MaxRevision]
      /\ xconn \in [Executions -> Connections]
      /\ xplan \in [Executions -> Plans \cup {NoPlan}]
      /\ slow \in [Executions -> BOOLEAN]
  BY <1>1, ConstantsAssumption DEF Init
<1>7. Shape
  BY DEF Init, Shape
<1> QED
  BY <1>2, <1>3, <1>4, <1>5, <1>6, <1>7, <1>8 DEF TypeInv, TypeOK

LEMMA TypeStartRun ==
  ASSUME TypeInv, NEW p \in Profiles, NEW d \in BOOLEAN, StartRun(p, d)
  PROVE  TypeInv'
<1> DEFINE r == created + 1
<1>1. r \in Runs /\ created' = r /\ created' \in 0 .. MaxRuns
  BY ConstantsAssumption DEF StartRun, Runs, TypeInv, TypeOK
<1>2. /\ status' = [status EXCEPT ![r] = "queued"]
      /\ age' = [age EXCEPT ![r] = 0]
      /\ runProfile' = [runProfile EXCEPT ![r] = p]
      /\ runRev' = [runRev EXCEPT ![r] = revision[p]]
      /\ dry' = [dry EXCEPT ![r] = d]
  BY DEF StartRun
<1>3. /\ UNCHANGED <<owner, lease, plan, present, enabled, revision, due, conn, bound, archived>>
      /\ UNCHANGED <<ticking, snapshot, pc, xrun, xrev, xconn, xplan, slow>>
  BY DEF StartRun, schedVars, execVars
<1>4. msgs' \subseteq Runs /\ faults' \in 0 .. MaxFaults
  BY <1>1, SendType DEF StartRun, TypeInv, TypeOK
<1>5. cool' \in [Profiles -> 0 .. CooldownTicks]
  BY ConstantsAssumption DEF StartRun, TypeInv, TypeOK
<1>6. r > created /\ \A s \in Runs : s > r => s > created /\ s # r
  BY ConstantsAssumption DEF Runs, TypeInv, TypeOK
<1> HIDE DEF r
<1>7. status' \in [Runs -> Active \cup Terminal \cup {"none"}]
  BY <1>2 DEF TypeInv, TypeOK, Active
<1>8. age' \in [Runs -> 0 .. RedeliveryTicks]
  <2>1. age \in [Runs -> 0 .. RedeliveryTicks] /\ 0 \in 0 .. RedeliveryTicks
    BY ConstantsAssumption DEF TypeInv, TypeOK
  <2> QED
    BY <1>2, <2>1
<1>9. runProfile' \in [Runs -> Profiles]
  BY <1>2 DEF TypeInv, TypeOK
<1>10. runRev' \in [Runs -> 0 .. MaxRevision]
  <2>1. revision[p] \in 0 .. MaxRevision
    BY ConstantsAssumption DEF TypeInv, TypeOK
  <2> QED
    BY <1>2, <2>1 DEF TypeInv, TypeOK
<1>11. dry' \in [Runs -> BOOLEAN]
  BY <1>2 DEF TypeInv, TypeOK
<1>12. TypeOK'
  BY <1>1, <1>3, <1>4, <1>5, <1>7, <1>8, <1>9, <1>10, <1>11 DEF TypeInv, TypeOK
<1>13. Shape'
  <2>1. \A s \in Runs : s > created' => status'[s] = "none"
    BY <1>1, <1>2, <1>6 DEF TypeInv, TypeOK, Shape
  <2> QED
    BY <1>3, <2>1 DEF TypeInv, Shape
<1> QED
  BY <1>12, <1>13 DEF TypeInv

LEMMA TypeApi == TypeInv /\ ApiNext => TypeInv'
<1> SUFFICES ASSUME TypeInv, ApiNext PROVE TypeInv'
  OBVIOUS
<1> USE ConstantsAssumption DEF TypeInv, TypeOK, Shape, Runs, Active, Terminal,
        runVars, profileVars, schedVars, execVars
<1>1. ASSUME NEW p \in Profiles, NEW d \in BOOLEAN, StartRun(p, d) PROVE TypeInv'
  <2> HIDE DEF TypeInv
  <2> QED
    BY <1>1, TypeStartRun
<1>2. ASSUME NEW r \in Runs, CancelRun(r) PROVE TypeInv'
  BY <1>2 DEF CancelRun
<1>3. ASSUME NEW p \in Profiles, NEW en \in BOOLEAN, NEW c \in Connections,
             CreateProfile(p, en, c)
      PROVE  TypeInv'
  <2>1. present' \in [Profiles -> BOOLEAN] /\ enabled' \in [Profiles -> BOOLEAN]
    BY <1>3 DEF CreateProfile
  <2>2. /\ revision' \in [Profiles -> 1 .. MaxRevision]
        /\ due' \in [Profiles -> Nat] /\ conn' \in [Profiles -> Connections]
    BY <1>3 DEF CreateProfile
  <2> QED
    BY <1>3, <2>1, <2>2 DEF CreateProfile
<1>4. ASSUME NEW p \in Profiles, NEW en \in BOOLEAN, NEW c \in Connections,
             NEW s \in BOOLEAN, UpdateProfile(p, en, c, s)
      PROVE  TypeInv'
  <2>1. enabled' \in [Profiles -> BOOLEAN]
    BY <1>4 DEF UpdateProfile
  <2>2. /\ revision' \in [Profiles -> 1 .. MaxRevision]
        /\ conn' \in [Profiles -> Connections]
    BY <1>4 DEF UpdateProfile
  <2>3. due' \in [Profiles -> Nat]
    BY <1>4 DEF UpdateProfile
  <2> QED
    BY <1>4, <2>1, <2>2, <2>3 DEF UpdateProfile
<1>5. ASSUME NEW p \in Profiles, DeleteProfile(p) PROVE TypeInv'
  BY <1>5 DEF DeleteProfile
<1>6. ASSUME ArchiveWorkspace PROVE TypeInv'
  BY <1>6 DEF ArchiveWorkspace
<1>7. ASSUME UnarchiveWorkspace PROVE TypeInv'
  BY <1>7 DEF UnarchiveWorkspace
<1> HIDE DEF TypeInv
<1> QED
  BY <1>1, <1>2, <1>3, <1>4, <1>5, <1>6, <1>7, Zenon DEF ApiNext

LEMMA TypeScheduler == TypeInv /\ SchedulerNext => TypeInv'
<1> SUFFICES ASSUME TypeInv, SchedulerNext PROVE TypeInv'
  OBVIOUS
<1>1. CASE SchedulerSelect
  BY <1>1 DEF SchedulerSelect, TypeInv, TypeOK, Shape, runVars, profileVars, execVars
<1>2. CASE TickRolledBack
  BY <1>2 DEF TickRolledBack, TypeInv, TypeOK, Shape, runVars, profileVars, execVars
<1>3. CASE CreateDueRuns
  <2> DEFINE recovered == Oldest(Recoverable, BatchSize)
             n == RowsWanted(recovered)
             fresh == created + 1 .. created + n
  <2>1. recovered \in SUBSET Runs /\ n \in Nat /\ created + n \in 0 .. MaxRuns
    BY BatchSets DEF TypeInv
  <2>2. recovered \subseteq Recoverable
    BY BatchSets DEF TypeInv
  <2>3. PICK who \in NewRows(n) : Batch(recovered, n, who)
    BY <1>3 DEF CreateDueRuns
  <2> HIDE DEF recovered, n
  <2>4. created \in 0 .. MaxRuns /\ MaxRuns \in Nat
    BY ConstantsAssumption DEF TypeInv, TypeOK
  <2>5. fresh \subseteq Runs
    BY <2>1, <2>4 DEF Runs
  <2>6. \A r \in fresh : who[r] \in Profiles
    BY <2>3 DEF NewRows, DueProfiles, TypeInv, TypeOK
  <2>7. ticking' = FALSE /\ snapshot' = {}
    BY <1>3 DEF CreateDueRuns
  <2>8. UNCHANGED <<plan, dry, present, enabled, revision, conn, bound, cool,
                    archived, pc, xrun, xrev, xconn, xplan, slow>>
    BY <1>3 DEF CreateDueRuns, execVars
  <2>9. created' \in 0 .. MaxRuns
    BY <2>1, <2>3 DEF Batch
  <2>10. /\ status' \in [Runs -> Active \cup Terminal \cup {"none"}]
         /\ owner' \in [Runs -> Executions \cup {NoExec}]
    BY <2>3 DEF Batch, TypeInv, TypeOK, Active, Terminal
  <2>11. /\ lease' \in [Runs -> NoLease .. LeaseTicks]
         /\ age' \in [Runs -> 0 .. RedeliveryTicks]
    BY <2>3, ConstantsAssumption DEF Batch, TypeInv, TypeOK, NoLease
  <2>12. runProfile' \in [Runs -> Profiles]
    BY <2>3, <2>6 DEF Batch, TypeInv, TypeOK
  <2>13. runRev' \in [Runs -> 0 .. MaxRevision]
    BY <2>3, <2>6 DEF Batch, TypeInv, TypeOK
  <2>14. due' \in [Profiles -> Nat]
    BY <2>3, ConstantsAssumption DEF Batch, TypeInv, TypeOK
  <2>15. msgs' \subseteq Runs /\ faults' \in 0 .. MaxFaults
    <3>1. recovered \cup (fresh \ {r \in fresh : who[r] \in BadSchedule}) \subseteq Runs
      BY <2>1, <2>5
    <3> QED
      BY <2>3, <3>1, ConstantsAssumption DEF Batch, Send, Spend, TypeInv, TypeOK
  <2>16. TypeOK'
    BY <2>7, <2>8, <2>9, <2>10, <2>11, <2>12, <2>13, <2>14, <2>15 DEF TypeInv, TypeOK
  <2>17. \A r \in Runs : r > created' => status'[r] = "none"
    <3> SUFFICES ASSUME NEW r \in Runs, r > created' PROVE status'[r] = "none"
      OBVIOUS
    <3>1. created' = created + n /\ r \in Int
      BY <2>3 DEF Batch, Runs
    <3>2. r \notin fresh /\ r > created
      BY <2>1, <2>4, <3>1
    <3>3. status[r] = "none"
      BY <3>2 DEF TypeInv, Shape
    <3>4. r \notin recovered
      BY <2>2, <3>3 DEF Recoverable
    <3> QED
      BY <2>3, <3>2, <3>3, <3>4 DEF Batch
  <2>18. \A e \in Executions : pc'[e] # "idle" => xrun'[e] \in Runs
    BY <2>8 DEF TypeInv, Shape
  <2> QED
    BY <2>16, <2>17, <2>18 DEF TypeInv, Shape
<1> QED
  BY <1>1, <1>2, <1>3 DEF SchedulerNext

LEMMA TypeWorker == TypeInv /\ WorkerNext => TypeInv'
<1> SUFFICES ASSUME TypeInv, WorkerNext PROVE TypeInv'
  OBVIOUS
<1> USE ConstantsAssumption DEF TypeInv, TypeOK, Shape, Active, Terminal,
        runVars, profileVars, schedVars, execVars
<1>1. ASSUME NEW r \in Runs, ClaimRefused(r) PROVE TypeInv'
  BY <1>1 DEF ClaimRefused, ClaimVerdict, Delivered, ReleaseLease, NoLease
<1>2. ASSUME NEW e \in Executions, NEW r \in Runs, ClaimGranted(e, r) PROVE TypeInv'
  <2>1. Claimable(r)
    BY <1>2 DEF ClaimGranted, ClaimVerdict
  <2>2. ~(r > created)
    BY <2>1 DEF Claimable
  <2>3. msgs' \subseteq Runs
    BY <1>2 DEF ClaimGranted, Delivered
  <2>4. /\ status' \in [Runs -> Active \cup Terminal \cup {"none"}]
        /\ owner' \in [Runs -> Executions \cup {NoExec}]
        /\ lease' \in [Runs -> NoLease .. LeaseTicks]
    BY <1>2 DEF ClaimGranted, NoLease
  <2>5. /\ pc' \in [Executions -> {"idle", "claimed", "planned", "applying", "failing"}]
        /\ xrun' \in [Executions -> 0 .. MaxRuns]
        /\ xconn' \in [Executions -> Connections]
    BY <1>2 DEF ClaimGranted, Runs
  <2>7. xrev' \in [Executions -> 0 .. MaxRevision]
    BY <1>2 DEF ClaimGranted
  <2>6. Shape'
    BY <1>2, <2>2 DEF ClaimGranted
  <2> QED
    BY <1>2, <2>3, <2>4, <2>5, <2>6, <2>7 DEF ClaimGranted
<1>3. ASSUME NEW e \in Executions, LoadPlan(e) PROVE TypeInv'
  BY <1>3 DEF LoadPlan, Plans
<1>4. ASSUME NEW e \in Executions, PersistPlan(e) PROVE TypeInv'
  BY <1>4 DEF PersistPlan, MayPersist
<1>5. ASSUME NEW e \in Executions, Finish(e) PROVE TypeInv'
  <2>1. AnyConn \in Connections
    BY DEF AnyConn
  <2>2. /\ status' \in [Runs -> Active \cup Terminal \cup {"none"}]
        /\ owner' \in [Runs -> Executions \cup {NoExec}]
        /\ lease' \in [Runs -> NoLease .. LeaseTicks]
    BY <1>5 DEF Finish, Outcomes, ReleaseLease, NoLease
  <2>3. /\ pc' \in [Executions -> {"idle", "claimed", "planned", "applying", "failing"}]
        /\ xrun' \in [Executions -> 0 .. MaxRuns]
        /\ xrev' \in [Executions -> 0 .. MaxRevision]
        /\ xconn' \in [Executions -> Connections]
        /\ xplan' \in [Executions -> Plans \cup {NoPlan}]
    BY <1>5, <2>1 DEF Finish, Forget
  <2>4. slow' \in [Executions -> BOOLEAN]
    BY <1>5 DEF Finish, Forget
  <2>5. Shape'
    <3>1. \A r \in Runs : r > created' => status'[r] = "none"
      BY <1>5 DEF Finish, Holds
    <3>2. \A d \in Executions : pc'[d] # "idle" => xrun'[d] \in Runs
      BY <1>5 DEF Finish, Forget
    <3> QED
      BY <3>1, <3>2
  <2> QED
    BY <1>5, <2>2, <2>3, <2>4, <2>5 DEF Finish
<1>6. ASSUME NEW e \in Executions, ExecutionError(e) PROVE TypeInv'
  BY <1>6 DEF ExecutionError
<1>7. ASSUME NEW e \in Executions, RenewLease(e) PROVE TypeInv'
  BY <1>7 DEF RenewLease, NoLease
<1>8. ASSUME NEW e \in Executions, NEW b \in BOOLEAN, ChangeBindings(e, b) PROVE TypeInv'
  BY <1>8 DEF ChangeBindings
<1> QED
  BY <1>1, <1>2, <1>3, <1>4, <1>5, <1>6, <1>7, <1>8 DEF WorkerNext, ExecutionStep

LEMMA TypeFault == TypeInv /\ FaultNext => TypeInv'
<1> SUFFICES ASSUME TypeInv, FaultNext PROVE TypeInv'
  OBVIOUS
<1> USE ConstantsAssumption DEF TypeInv, TypeOK, Shape, Spend,
        runVars, profileVars, schedVars, execVars
<1>1. ASSUME NEW e \in Executions, Crash(e) PROVE TypeInv'
  BY <1>1 DEF Crash, Forget, AnyConn
<1>2. ASSUME NEW e \in Executions, HeartbeatLost(e) PROVE TypeInv'
  BY <1>2 DEF HeartbeatLost
<1>3. ASSUME NEW r \in Runs, LoseMessage(r) PROVE TypeInv'
  BY <1>3 DEF LoseMessage
<1> QED
  BY <1>1, <1>2, <1>3 DEF FaultNext

LEMMA TypeTick == TypeInv /\ Tick => TypeInv'
  BY ConstantsAssumption
  DEF TypeInv, TypeOK, Shape, Tick, NoLease, Expired, runVars, profileVars,
      schedVars, execVars

LEMMA TypeStep == TypeInv /\ [Next]_vars => TypeInv'
<1>1. TypeInv /\ UNCHANGED vars => TypeInv'
  BY DEF TypeInv, TypeOK, Shape, vars, runVars, profileVars, schedVars, execVars
<1> QED
  BY <1>1, TypeApi, TypeScheduler, TypeWorker, TypeFault, TypeTick DEF Next

\* Every row, message and execution has a value of its type in every reachable
\* state; in particular no lease outlives lease_seconds (runtime.py, _renew_lease).
THEOREM TypeCorrect == Spec => []TypeOK
<1>1. TypeInv => TypeOK
  BY DEF TypeInv
<1> QED
  BY TypeInit, TypeStep, <1>1, PTL DEF Spec

-----------------------------------------------------------------------------
(* The steps that touch a run's row, and what a scheduler tick does to it. *)

RowStep ==
  \/ \E p \in Profiles, d \in BOOLEAN : StartRun(p, d)
  \/ \E r \in Runs : CancelRun(r) \/ ClaimRefused(r)
  \/ \E e \in Executions, r \in Runs : ClaimGranted(e, r)
  \/ \E e \in Executions : Finish(e) \/ RenewLease(e)
  \/ ArchiveWorkspace \/ CreateDueRuns \/ Tick

\* Every other step leaves the rows' status, lease and profile alone.
LEMMA OtherSteps == [Next]_vars => RowStep \/ UNCHANGED <<status, owner, lease, runProfile>>
<1> SUFFICES ASSUME [Next]_vars, ~RowStep
             PROVE  UNCHANGED <<status, owner, lease, runProfile>>
  OBVIOUS
<1> USE DEF runVars, profileVars, execVars, schedVars
<1>1. ASSUME ApiNext PROVE UNCHANGED <<status, owner, lease, runProfile>>
  BY <1>1 DEF RowStep, ApiNext, CreateProfile, UpdateProfile, DeleteProfile, UnarchiveWorkspace
<1>2. ASSUME SchedulerNext PROVE UNCHANGED <<status, owner, lease, runProfile>>
  BY <1>2 DEF RowStep, SchedulerNext, SchedulerSelect, TickRolledBack
<1>3. ASSUME WorkerNext PROVE UNCHANGED <<status, owner, lease, runProfile>>
  BY <1>3 DEF RowStep, WorkerNext, ExecutionStep, LoadPlan, PersistPlan,
              ExecutionError, ChangeBindings
<1>4. ASSUME FaultNext PROVE UNCHANGED <<status, owner, lease, runProfile>>
  BY <1>4 DEF FaultNext, Crash, HeartbeatLost, LoseMessage
<1>5. ASSUME UNCHANGED vars PROVE UNCHANGED <<status, owner, lease, runProfile>>
  BY <1>5 DEF vars
<1> QED
  BY <1>1, <1>2, <1>3, <1>4, <1>5 DEF Next, RowStep

\* One tick recovers rows that are queued or running with an expired lease, and
\* inserts rows nobody has used, no two of them for one profile.
LEMMA TickEffect ==
  ASSUME TypeInv, CreateDueRuns
  PROVE  \E recovered \in SUBSET Runs, n \in Nat : \E who \in NewRows(n) :
           /\ recovered \subseteq Recoverable
           /\ \A r \in created + 1 .. created + n : r \in Runs /\ status[r] = "none"
           /\ IndexAllows(who)
           /\ Batch(recovered, n, who)
<1> DEFINE recovered == Oldest(Recoverable, BatchSize)
           n == RowsWanted(recovered)
<1>1. /\ recovered \in SUBSET Runs /\ recovered \subseteq Recoverable
      /\ n \in Nat /\ created + n \in 0 .. MaxRuns
  BY BatchSets DEF TypeInv
<1>2. PICK who \in NewRows(n) : IndexAllows(who) /\ Batch(recovered, n, who)
  BY DEF CreateDueRuns
<1> HIDE DEF recovered, n
<1>3. created \in Nat /\ MaxRuns \in Nat
  BY ConstantsAssumption DEF TypeInv, TypeOK
<1>4. \A r \in created + 1 .. created + n : r \in Runs /\ status[r] = "none"
  BY <1>1, <1>3 DEF Runs, TypeInv, Shape
<1> QED
  BY <1>1, <1>2, <1>4

-----------------------------------------------------------------------------
(* Leases *)

LEMMA LeaseStep == TypeInv /\ LeaseMatchesStatus /\ [Next]_vars => LeaseMatchesStatus'
<1> SUFFICES ASSUME TypeInv, LeaseMatchesStatus, [Next]_vars PROVE LeaseMatchesStatus'
  OBVIOUS
<1>0. CASE UNCHANGED <<status, owner, lease, runProfile>>
  BY <1>0 DEF LeaseMatchesStatus
<1>1. ASSUME NEW p \in Profiles, NEW d \in BOOLEAN, StartRun(p, d) PROVE LeaseMatchesStatus'
  <2>1. created + 1 \in Runs /\ created \in Nat
    BY <1>1, ConstantsAssumption DEF StartRun, TypeInv, TypeOK, Runs
  <2>2. status[created + 1] = "none"
    BY <2>1 DEF TypeInv, Shape
  <2>3. status' = [status EXCEPT ![created + 1] = "queued"] /\ UNCHANGED <<owner, lease>>
    BY <1>1 DEF StartRun
  <2> QED
    BY <2>2, <2>3 DEF LeaseMatchesStatus, TypeInv, TypeOK
<1>2. ASSUME NEW r \in Runs, CancelRun(r) PROVE LeaseMatchesStatus'
  BY <1>2 DEF CancelRun, LeaseMatchesStatus, TypeInv, TypeOK
<1>3. ASSUME NEW r \in Runs, ClaimRefused(r) PROVE LeaseMatchesStatus'
  BY <1>3 DEF ClaimRefused, ClaimVerdict, ReleaseLease, LeaseMatchesStatus, TypeInv, TypeOK
<1>4. ASSUME NEW e \in Executions, NEW r \in Runs, ClaimGranted(e, r) PROVE LeaseMatchesStatus'
  <2>1. /\ status' = [status EXCEPT ![r] = "running"]
        /\ owner' = [owner EXCEPT ![r] = e]
        /\ lease' = [lease EXCEPT ![r] = LeaseTicks]
    BY <1>4 DEF ClaimGranted
  <2>2. e # NoExec /\ LeaseTicks # NoLease
    BY ConstantsAssumption DEF NoLease
  <2> QED
    BY <2>1, <2>2 DEF LeaseMatchesStatus, TypeInv, TypeOK
<1>5. ASSUME NEW e \in Executions, Finish(e) PROVE LeaseMatchesStatus'
  BY <1>5 DEF Finish, Outcomes, ReleaseLease, LeaseMatchesStatus, TypeInv, TypeOK
<1>6. ASSUME NEW e \in Executions, RenewLease(e) PROVE LeaseMatchesStatus'
  BY <1>6, ConstantsAssumption
     DEF RenewLease, Holds, NoLease, LeaseMatchesStatus, TypeInv, TypeOK
<1>7. CASE ArchiveWorkspace
  BY <1>7 DEF ArchiveWorkspace, NoRunningSync, LeaseMatchesStatus, TypeInv, TypeOK
<1>8. CASE CreateDueRuns
  <2>1. PICK recovered \in SUBSET Runs, n \in Nat : \E who \in NewRows(n) :
           /\ recovered \subseteq Recoverable
           /\ \A r \in created + 1 .. created + n : r \in Runs /\ status[r] = "none"
           /\ Batch(recovered, n, who)
    BY <1>8, TickEffect
  <2> QED
    BY <2>1 DEF Batch, Recoverable, LeaseMatchesStatus, TypeInv, TypeOK
<1>9. CASE Tick
  BY <1>9, ConstantsAssumption DEF Tick, NoLease, Expired, LeaseMatchesStatus, TypeInv, TypeOK
<1> QED
  BY <1>0, <1>1, <1>2, <1>3, <1>4, <1>5, <1>6, <1>7, <1>8, <1>9, OtherSteps DEF RowStep

\* A row has an owner and an expiry exactly while it is running, so a run can
\* always be either claimed, recovered or left to its owner (runtime.py).
THEOREM LeaseMatchesStatusAlways == Spec => []LeaseMatchesStatus
<1>1. Init => LeaseMatchesStatus
  BY DEF Init, LeaseMatchesStatus
<1> QED
  BY TypeInit, TypeStep, LeaseStep, <1>1, PTL DEF Spec

-----------------------------------------------------------------------------
(* One active run per profile *)

LEMMA OneActiveStep == TypeInv /\ OneActiveRun /\ [Next]_vars => OneActiveRun'
<1> SUFFICES ASSUME TypeInv, OneActiveRun, [Next]_vars PROVE OneActiveRun'
  OBVIOUS
<1> USE DEF Active, Terminal
<1>0. CASE UNCHANGED <<status, owner, lease, runProfile>>
  BY <1>0 DEF OneActiveRun
<1>1. ASSUME NEW p \in Profiles, NEW d \in BOOLEAN, StartRun(p, d) PROVE OneActiveRun'
  <2>1. \A r \in Runs : status[r] \in Active => runProfile[r] # p
    BY <1>1 DEF StartRun, HasActive
  <2>2. /\ status' = [status EXCEPT ![created + 1] = "queued"]
        /\ runProfile' = [runProfile EXCEPT ![created + 1] = p]
    BY <1>1 DEF StartRun
  <2> QED
    BY <2>1, <2>2 DEF OneActiveRun, TypeInv, TypeOK
<1>2. ASSUME NEW r \in Runs, CancelRun(r) PROVE OneActiveRun'
  BY <1>2 DEF CancelRun, OneActiveRun, TypeInv, TypeOK
<1>3. ASSUME NEW r \in Runs, ClaimRefused(r) PROVE OneActiveRun'
  BY <1>3 DEF ClaimRefused, ClaimVerdict, OneActiveRun, TypeInv, TypeOK
<1>4. ASSUME NEW e \in Executions, NEW r \in Runs, ClaimGranted(e, r) PROVE OneActiveRun'
  <2>1. Claimable(r)
    BY <1>4 DEF ClaimGranted, ClaimVerdict
  <2>2. status' = [status EXCEPT ![r] = "running"] /\ runProfile' = runProfile
    BY <1>4 DEF ClaimGranted
  <2> QED
    BY <2>1, <2>2 DEF Claimable, OneActiveRun, TypeInv, TypeOK
<1>5. ASSUME NEW e \in Executions, Finish(e) PROVE OneActiveRun'
  BY <1>5 DEF Finish, Outcomes, OneActiveRun, TypeInv, TypeOK
<1>6. ASSUME NEW e \in Executions, RenewLease(e) PROVE OneActiveRun'
  BY <1>6 DEF RenewLease, OneActiveRun
<1>7. CASE ArchiveWorkspace
  BY <1>7 DEF ArchiveWorkspace, OneActiveRun, TypeInv, TypeOK
<1>8. CASE CreateDueRuns
  <2>1. PICK recovered \in SUBSET Runs, n \in Nat : \E who \in NewRows(n) :
           /\ recovered \subseteq Recoverable
           /\ \A r \in created + 1 .. created + n : r \in Runs /\ status[r] = "none"
           /\ IndexAllows(who)
           /\ Batch(recovered, n, who)
    BY <1>8, TickEffect
  <2>2. PICK who \in NewRows(n) :
           /\ recovered \subseteq Recoverable
           /\ \A r \in created + 1 .. created + n : r \in Runs /\ status[r] = "none"
           /\ IndexAllows(who)
           /\ Batch(recovered, n, who)
    BY <2>1
  <2> DEFINE fresh == created + 1 .. created + n
             invalid == {r \in fresh : who[r] \in BadSchedule}
  <2>3. DOMAIN who = fresh /\ \A r, s \in fresh : who[r] = who[s] => r = s
    BY DEF NewRows
  <2>4. /\ status' = [r \in Runs |-> IF r \in invalid THEN "failed"
                                     ELSE IF r \in recovered \cup fresh THEN "queued"
                                     ELSE status[r]]
        /\ runProfile' = [r \in Runs |-> IF r \in fresh THEN who[r] ELSE runProfile[r]]
    BY <2>2 DEF Batch
  <2>5. \A r \in fresh : status[r] = "none"
    BY <2>2
  <2>6. \A r \in recovered : status[r] \in Active
    BY <2>2 DEF Recoverable
  <2>7. \A r \in fresh \ invalid : \A s \in Runs : status[s] \in Active => runProfile[s] # who[r]
    BY <2>2, <2>3 DEF IndexAllows, HasActive
  <2> HIDE DEF fresh
  <2> SUFFICES ASSUME NEW r \in Runs, NEW s \in Runs,
                      status'[r] \in Active, status'[s] \in Active,
                      runProfile'[r] = runProfile'[s]
               PROVE  r = s
    BY DEF OneActiveRun
  <2>8. \A q \in Runs : status'[q] \in Active =>
          \/ q \in fresh \ invalid /\ runProfile'[q] = who[q]
          \/ q \notin fresh /\ status[q] \in Active /\ runProfile'[q] = runProfile[q]
    BY <2>4, <2>6
  <2>9. CASE r \in fresh /\ s \in fresh
    BY <2>3, <2>8, <2>9
  <2>10. CASE r \notin fresh /\ s \notin fresh
    BY <2>8, <2>10 DEF OneActiveRun
  <2>11. CASE r \in fresh /\ s \notin fresh
    BY <2>7, <2>8, <2>11
  <2>12. CASE r \notin fresh /\ s \in fresh
    BY <2>7, <2>8, <2>12
  <2> QED
    BY <2>9, <2>10, <2>11, <2>12
<1>9. CASE Tick
  BY <1>9 DEF Tick, OneActiveRun
<1> QED
  BY <1>0, <1>1, <1>2, <1>3, <1>4, <1>5, <1>6, <1>7, <1>8, <1>9, OtherSteps DEF RowStep

\* A profile never has two queued or running runs: the API checks under its row
\* lock, the scheduler's stale anti-join is stopped by the unique index.
THEOREM OneActiveRunAlways == Spec => []OneActiveRun
<1>1. Init => OneActiveRun
  BY DEF Init, OneActiveRun, Active
<1> QED
  BY TypeInit, TypeStep, OneActiveStep, <1>1, PTL DEF Spec

-----------------------------------------------------------------------------
(* Archived workspaces *)

LEMMA QuietStep == TypeInv /\ ArchivedIsQuiet /\ [Next]_vars => ArchivedIsQuiet'
<1> SUFFICES ASSUME TypeInv, ArchivedIsQuiet, [Next]_vars PROVE ArchivedIsQuiet'
  OBVIOUS
<1> USE DEF runVars, profileVars, execVars, schedVars
<1>0. ASSUME UNCHANGED <<status, enabled, archived>> PROVE ArchivedIsQuiet'
  BY <1>0 DEF ArchivedIsQuiet
<1>1. ASSUME ApiNext PROVE ArchivedIsQuiet'
  <2>1. ASSUME NEW p \in Profiles, NEW d \in BOOLEAN, StartRun(p, d) PROVE ArchivedIsQuiet'
    BY <2>1 DEF StartRun, ArchivedIsQuiet
  <2>2. ASSUME NEW r \in Runs, CancelRun(r) PROVE ArchivedIsQuiet'
    BY <2>2 DEF CancelRun, ArchivedIsQuiet, TypeInv, TypeOK, Active
  <2>3. ASSUME NEW p \in Profiles, NEW en \in BOOLEAN, NEW c \in Connections,
               CreateProfile(p, en, c)
        PROVE  ArchivedIsQuiet'
    BY <2>3 DEF CreateProfile, ArchivedIsQuiet, TypeInv, TypeOK
  <2>4. ASSUME NEW p \in Profiles, NEW en \in BOOLEAN, NEW c \in Connections,
               NEW s \in BOOLEAN, UpdateProfile(p, en, c, s)
        PROVE  ArchivedIsQuiet'
    BY <2>4 DEF UpdateProfile, ArchivedIsQuiet, TypeInv, TypeOK
  <2>5. ASSUME NEW p \in Profiles, DeleteProfile(p) PROVE ArchivedIsQuiet'
    BY <2>5 DEF DeleteProfile, ArchivedIsQuiet, TypeInv, TypeOK
  <2>6. ASSUME ArchiveWorkspace PROVE ArchivedIsQuiet'
    BY <2>6 DEF ArchiveWorkspace, NoRunningSync, ArchivedIsQuiet, TypeInv, TypeOK, Active
  <2>7. ASSUME UnarchiveWorkspace PROVE ArchivedIsQuiet'
    BY <2>7 DEF UnarchiveWorkspace, ArchivedIsQuiet
  <2> QED
    BY <1>1, <2>1, <2>2, <2>3, <2>4, <2>5, <2>6, <2>7, Zenon DEF ApiNext
<1>2. ASSUME CreateDueRuns PROVE ArchivedIsQuiet'
  <2>1. PICK recovered \in SUBSET Runs, n \in Nat : \E who \in NewRows(n) :
           recovered \subseteq Recoverable /\ Batch(recovered, n, who)
    BY <1>2, TickEffect
  <2>2. PICK who \in NewRows(n) : recovered \subseteq Recoverable /\ Batch(recovered, n, who)
    BY <2>1
  <2>3. archived' = archived /\ enabled' = enabled
    BY <1>2 DEF CreateDueRuns
  <2> SUFFICES ASSUME archived PROVE status' = status
    BY <2>3 DEF ArchivedIsQuiet
  <2>4. recovered = {}
    BY <2>2 DEF Recoverable
  <2>5. created + 1 .. created + n = {}
    BY DEF NewRows, DueProfiles
  <2>6. status' = [r \in Runs |-> status[r]]
    BY <2>2, <2>4, <2>5 DEF Batch
  <2> QED
    BY <2>6 DEF TypeInv, TypeOK
<1>3. ASSUME WorkerNext PROVE ArchivedIsQuiet'
  <2>1. ASSUME NEW r \in Runs, ClaimRefused(r) PROVE ArchivedIsQuiet'
    BY <2>1 DEF ClaimRefused, ArchivedIsQuiet, TypeInv, TypeOK
  <2>2. ASSUME NEW e \in Executions, NEW r \in Runs, ClaimGranted(e, r) PROVE ArchivedIsQuiet'
    BY <2>2 DEF ClaimGranted, ClaimVerdict, ArchivedIsQuiet
  <2>3. ASSUME NEW e \in Executions, Finish(e) PROVE ArchivedIsQuiet'
    BY <2>3 DEF Finish, Outcomes, ArchivedIsQuiet, TypeInv, TypeOK, Active
  <2>4. ASSUME ~(\E r \in Runs : ClaimRefused(r)),
               ~(\E e \in Executions, r \in Runs : ClaimGranted(e, r)),
               ~(\E e \in Executions : Finish(e))
        PROVE  UNCHANGED <<status, enabled, archived>>
    BY <1>3, <2>4 DEF WorkerNext, ExecutionStep, LoadPlan, PersistPlan, ExecutionError,
                      RenewLease, ChangeBindings
  <2> QED
    BY <1>0, <2>1, <2>2, <2>3, <2>4
<1>4. ASSUME SchedulerSelect \/ TickRolledBack \/ FaultNext \/ Tick \/ UNCHANGED vars
      PROVE  ArchivedIsQuiet'
  BY <1>0, <1>4 DEF SchedulerSelect, TickRolledBack, FaultNext, Crash, HeartbeatLost,
                    LoseMessage, Tick, vars
<1> QED
  BY <1>1, <1>2, <1>3, <1>4 DEF Next, SchedulerNext

\* Archiving a workspace leaves nothing active behind, and nothing starts in it
\* (workspaces.py, update_workspace; runtime.py, _claim and _create_due_runs).
THEOREM ArchivedIsQuietAlways == Spec => []ArchivedIsQuiet
<1>1. Init => ArchivedIsQuiet
  BY DEF Init, ArchivedIsQuiet
<1> QED
  BY TypeInit, TypeStep, QuietStep, <1>1, PTL DEF Spec

-----------------------------------------------------------------------------
(* The persisted plan *)

\* Strengthening: a plan that is held to be persisted or applied is a plan.
PlanInv ==
  /\ AppliesPersistedPlan
  /\ \A e \in Executions : pc[e] \in {"planned", "applying"} => xplan[e] \in Plans

LEMMA PlanStep == TypeInv /\ PlanInv /\ [Next]_vars => PlanInv'
<1> SUFFICES ASSUME TypeInv, PlanInv, [Next]_vars PROVE PlanInv'
  OBVIOUS
<1> USE DEF runVars, profileVars, execVars, schedVars
<1>0. ASSUME UNCHANGED <<plan, pc, xrun, xplan>> PROVE PlanInv'
  BY <1>0 DEF PlanInv, AppliesPersistedPlan
<1>1. ASSUME NEW e \in Executions, NEW r \in Runs, ClaimGranted(e, r) PROVE PlanInv'
  BY <1>1 DEF ClaimGranted, PlanInv, AppliesPersistedPlan, TypeInv, TypeOK
<1>2. ASSUME NEW e \in Executions, LoadPlan(e) PROVE PlanInv'
  <2>1. xrun[e] \in Runs /\ xrev[e] \in Nat /\ xconn[e] \in Connections
    BY <1>2, ConstantsAssumption DEF LoadPlan, TypeInv, TypeOK, Shape
  <2>2. CASE plan[xrun[e]] # NoPlan
    <3>1. /\ xplan' = [xplan EXCEPT ![e] = plan[xrun[e]]]
          /\ \E c \in {"applying", "failing"} : pc' = [pc EXCEPT ![e] = c]
          /\ UNCHANGED <<plan, xrun>>
      BY <1>2, <2>2 DEF LoadPlan
    <3> QED
      BY <2>1, <2>2, <3>1 DEF PlanInv, AppliesPersistedPlan, TypeInv, TypeOK
  <2>3. CASE plan[xrun[e]] = NoPlan
    <3>1. /\ \E b \in Bodies :
               xplan' = [xplan EXCEPT ![e] = [rev |-> xrev[e], body |-> b, conn |-> xconn[e]]]
          /\ pc' = [pc EXCEPT ![e] = "planned"]
          /\ UNCHANGED <<plan, xrun>>
      BY <1>2, <2>3 DEF LoadPlan
    <3> QED
      BY <2>1, <3>1 DEF PlanInv, AppliesPersistedPlan, TypeInv, TypeOK, Plans
  <2> QED
    BY <2>2, <2>3
<1>3. ASSUME NEW e \in Executions, PersistPlan(e) PROVE PlanInv'
  <2>1. xrun[e] \in Runs /\ pc[e] = "planned" /\ xplan[e] \in Plans
    BY <1>3 DEF PersistPlan, TypeInv, Shape, PlanInv
  <2>2. CASE MayPersist(e)
    <3>1. /\ plan' = [plan EXCEPT ![xrun[e]] = xplan[e]]
          /\ pc' = [pc EXCEPT ![e] = "applying"]
          /\ UNCHANGED <<xrun, xplan>>
      BY <1>3, <2>2 DEF PersistPlan
    <3>2. plan[xrun[e]] \in {NoPlan, xplan[e]}
      BY <2>2 DEF MayPersist
    <3>3. NoPlan \notin Plans
      BY ConstantsAssumption DEF Plans
    <3>4. ASSUME NEW d \in Executions, pc'[d] = "applying"
          PROVE  plan'[xrun'[d]] = xplan'[d]
      <4>1. CASE d = e
        BY <2>1, <3>1, <4>1 DEF TypeInv, TypeOK
      <4>2. CASE d # e
        <5>1. pc[d] = "applying" /\ plan[xrun[d]] = xplan[d] /\ xplan[d] \in Plans
          BY <3>1, <3>4, <4>2 DEF PlanInv, AppliesPersistedPlan, TypeInv, TypeOK
        <5>2. CASE xrun[d] = xrun[e]
          BY <2>1, <3>1, <3>2, <3>3, <5>1, <5>2 DEF TypeInv, TypeOK
        <5>3. CASE xrun[d] # xrun[e]
          BY <3>1, <5>1, <5>3 DEF TypeInv, TypeOK, Shape
        <5> QED
          BY <5>2, <5>3
      <4> QED
        BY <4>1, <4>2
    <3>5. ASSUME NEW d \in Executions, pc'[d] \in {"planned", "applying"}
          PROVE  xplan'[d] \in Plans
      BY <2>1, <3>1, <3>5 DEF PlanInv, TypeInv, TypeOK
    <3> QED
      BY <3>4, <3>5 DEF PlanInv, AppliesPersistedPlan
  <2>3. CASE ~MayPersist(e)
    <3>1. pc' = [pc EXCEPT ![e] = "failing"] /\ UNCHANGED <<plan, xrun, xplan>>
      BY <1>3, <2>3 DEF PersistPlan
    <3> QED
      BY <3>1 DEF PlanInv, AppliesPersistedPlan, TypeInv, TypeOK
  <2> QED
    BY <2>2, <2>3
<1>4. ASSUME NEW e \in Executions, ExecutionError(e) PROVE PlanInv'
  BY <1>4 DEF ExecutionError, PlanInv, AppliesPersistedPlan, TypeInv, TypeOK
<1>5. ASSUME NEW e \in Executions, Finish(e) \/ Crash(e) PROVE PlanInv'
  <2>1. plan' = plan /\ Forget(e)
    BY <1>5 DEF Finish, Crash
  <2>2. /\ pc' = [pc EXCEPT ![e] = "idle"] /\ xrun' = [xrun EXCEPT ![e] = 0]
        /\ xplan' = [xplan EXCEPT ![e] = NoPlan]
    BY <2>1 DEF Forget
  <2> QED
    BY <2>1, <2>2 DEF PlanInv, AppliesPersistedPlan, TypeInv, TypeOK
<1>6. ASSUME ~(\E e \in Executions, r \in Runs : ClaimGranted(e, r)),
             ~(\E e \in Executions : \/ LoadPlan(e) \/ PersistPlan(e)
                                     \/ ExecutionError(e) \/ Finish(e) \/ Crash(e))
      PROVE  UNCHANGED <<plan, pc, xrun, xplan>>
  <2>1. ASSUME ApiNext PROVE UNCHANGED <<plan, pc, xrun, xplan>>
    BY <2>1 DEF ApiNext, StartRun, CancelRun, CreateProfile, UpdateProfile, DeleteProfile,
                ArchiveWorkspace, UnarchiveWorkspace
  <2>2. ASSUME SchedulerNext PROVE UNCHANGED <<plan, pc, xrun, xplan>>
    BY <2>2 DEF SchedulerNext, SchedulerSelect, CreateDueRuns, TickRolledBack
  <2>3. ASSUME WorkerNext PROVE UNCHANGED <<plan, pc, xrun, xplan>>
    BY <1>6, <2>3 DEF WorkerNext, ExecutionStep, ClaimRefused, RenewLease, ChangeBindings
  <2>4. ASSUME FaultNext \/ Tick \/ UNCHANGED vars PROVE UNCHANGED <<plan, pc, xrun, xplan>>
    BY <1>6, <2>4 DEF FaultNext, HeartbeatLost, LoseMessage, Tick, vars
  <2> QED
    BY <2>1, <2>2, <2>3, <2>4 DEF Next
<1> QED
  BY <1>0, <1>1, <1>2, <1>3, <1>4, <1>5, <1>6

\* Whatever an execution applies, even one that has lost its lease to another,
\* is the plan its run was given first (runtime.py, _persist_plan, _load_plan).
THEOREM AppliesPersistedPlanAlways == Spec => []AppliesPersistedPlan
<1>1. Init => PlanInv
  BY DEF Init, PlanInv, AppliesPersistedPlan
<1>2. PlanInv => AppliesPersistedPlan
  BY DEF PlanInv
<1> QED
  BY TypeInit, TypeStep, PlanStep, <1>1, <1>2, PTL DEF Spec

-----------------------------------------------------------------------------
(* Action properties *)

\* A terminal run is never touched again, by a duplicate message, a stale
\* completion, a cancellation or an archival (runtime.py, _claim and _finish).
THEOREM TerminalIsFinalAlways == Spec => TerminalIsFinal
<1> DEFINE Kept == \A r \in Runs : status[r] \in Terminal =>
                     status'[r] = status[r] /\ plan'[r] = plan[r] /\ owner'[r] = NoExec
<1>1. TypeInv /\ LeaseMatchesStatus /\ LeaseMatchesStatus' /\ [Next]_vars => Kept
  <2> SUFFICES ASSUME TypeInv, LeaseMatchesStatus, LeaseMatchesStatus', [Next]_vars,
                      NEW r \in Runs, status[r] \in Terminal
               PROVE  status'[r] = status[r] /\ plan'[r] = plan[r] /\ owner'[r] = NoExec
    OBVIOUS
  <2>1. status'[r] = status[r]
    <3>1. ASSUME NEW p \in Profiles, NEW d \in BOOLEAN, StartRun(p, d)
          PROVE  status'[r] = status[r]
      <4>1. created + 1 \in Runs /\ created \in Nat
        BY <3>1, ConstantsAssumption DEF StartRun, TypeInv, TypeOK, Runs
      <4>2. status[created + 1] = "none"
        BY <4>1 DEF TypeInv, Shape
      <4> QED
        BY <3>1, <4>2 DEF StartRun, Terminal, TypeInv, TypeOK
    <3>2. ASSUME NEW q \in Runs, CancelRun(q) PROVE status'[r] = status[r]
      BY <3>2 DEF CancelRun, Terminal, TypeInv, TypeOK
    <3>3. ASSUME NEW q \in Runs, ClaimRefused(q) PROVE status'[r] = status[r]
      BY <3>3 DEF ClaimRefused, Active, Terminal, TypeInv, TypeOK
    <3>4. ASSUME NEW e \in Executions, NEW q \in Runs, ClaimGranted(e, q)
          PROVE  status'[r] = status[r]
      <4>1. Claimable(q)
        BY <3>4 DEF ClaimGranted, ClaimVerdict
      <4> QED
        BY <3>4, <4>1 DEF ClaimGranted, Claimable, Terminal, TypeInv, TypeOK
    <3>5. ASSUME NEW e \in Executions, Finish(e) PROVE status'[r] = status[r]
      BY <3>5 DEF Finish, Holds, Terminal, TypeInv, TypeOK
    <3>6. CASE ArchiveWorkspace
      BY <3>6 DEF ArchiveWorkspace, Terminal
    <3>7. CASE CreateDueRuns
      <4>1. PICK recovered \in SUBSET Runs, n \in Nat : \E who \in NewRows(n) :
               /\ recovered \subseteq Recoverable
               /\ \A q \in created + 1 .. created + n : q \in Runs /\ status[q] = "none"
               /\ Batch(recovered, n, who)
        BY <3>7, TickEffect
      <4> QED
        BY <4>1 DEF Batch, Recoverable, Active, Terminal
    <3>8. CASE UNCHANGED <<status, owner, lease, runProfile>>
      BY <3>8
    <3>9. CASE Tick \/ \E e \in Executions : RenewLease(e)
      BY <3>9 DEF Tick, RenewLease
    <3> QED
      BY <3>1, <3>2, <3>3, <3>4, <3>5, <3>6, <3>7, <3>8, <3>9, OtherSteps DEF RowStep
  <2>2. plan'[r] = plan[r]
    <3>1. ASSUME NEW e \in Executions, PersistPlan(e) PROVE plan'[r] = plan[r]
      BY <3>1 DEF PersistPlan, MayPersist, Holds, Terminal, TypeInv, TypeOK
    <3>2. ASSUME ~(\E e \in Executions : PersistPlan(e)) PROVE plan' = plan
      <4> USE DEF runVars
      <4>1. ASSUME ApiNext PROVE plan' = plan
        BY <4>1 DEF ApiNext, StartRun, CancelRun, CreateProfile, UpdateProfile,
                    DeleteProfile, ArchiveWorkspace, UnarchiveWorkspace
      <4>2. ASSUME SchedulerNext PROVE plan' = plan
        BY <4>2 DEF SchedulerNext, SchedulerSelect, CreateDueRuns, TickRolledBack
      <4>3. ASSUME WorkerNext PROVE plan' = plan
        BY <3>2, <4>3 DEF WorkerNext, ExecutionStep, ClaimRefused, ClaimGranted, LoadPlan,
                          Finish, ExecutionError, RenewLease, ChangeBindings
      <4>4. ASSUME FaultNext \/ Tick \/ UNCHANGED vars PROVE plan' = plan
        BY <4>4 DEF FaultNext, Crash, HeartbeatLost, LoseMessage, Tick, vars
      <4> QED
        BY <4>1, <4>2, <4>3, <4>4 DEF Next
    <3> QED
      BY <3>1, <3>2
  <2>3. owner'[r] = NoExec
    BY <2>1 DEF LeaseMatchesStatus, Terminal
  <2> QED
    BY <2>1, <2>2, <2>3
<1>2. Init => LeaseMatchesStatus
  BY DEF Init, LeaseMatchesStatus
<1> QED
  BY TypeInit, TypeStep, LeaseStep, <1>1, <1>2, PTL DEF Spec, TerminalIsFinal

\* Nobody but its owner, by finishing the run, ends an unexpired lease: no
\* second claim, no recovery by the scheduler, no archival (runtime.py).
THEOREM LeaseRespectedAlways == Spec => LeaseRespected
<1> DEFINE Kept == \A r \in Runs :
                     status[r] = "running" /\ lease[r] > Expired /\ owner'[r] # owner[r] =>
                       /\ status'[r] \in Terminal
                       /\ pc[owner[r]] \in {"applying", "failing"} /\ xrun[owner[r]] = r
<1>1. TypeInv /\ LeaseMatchesStatus /\ ArchivedIsQuiet /\ [Next]_vars => Kept
  <2> SUFFICES ASSUME TypeInv, LeaseMatchesStatus, ArchivedIsQuiet, [Next]_vars,
                      NEW r \in Runs,
                      status[r] = "running", lease[r] > Expired, owner'[r] # owner[r]
               PROVE  /\ status'[r] \in Terminal
                      /\ pc[owner[r]] \in {"applying", "failing"} /\ xrun[owner[r]] = r
    OBVIOUS
  <2>1. ~archived
    BY DEF ArchivedIsQuiet, Active
  <2>2. ~Claimable(r) /\ r \notin Recoverable
    BY DEF Claimable, Recoverable, Expired
  <2>3. ASSUME NEW e \in Executions, Finish(e)
        PROVE  /\ status'[r] \in Terminal
               /\ pc[owner[r]] \in {"applying", "failing"} /\ xrun[owner[r]] = r
    <3>1. Holds(e) /\ xrun[e] = r
      BY <2>3 DEF Finish, ReleaseLease, TypeInv, TypeOK
    <3> QED
      BY <2>3, <3>1 DEF Finish, Holds, Outcomes, Terminal, TypeInv, TypeOK
  <2>4. ASSUME NEW q \in Runs, ClaimRefused(q) PROVE owner'[r] = owner[r]
    <3>1. CASE q = r
      BY <2>1, <2>2, <2>4, <3>1 DEF ClaimRefused, ClaimVerdict
    <3>2. CASE q # r
      BY <2>4, <3>2 DEF ClaimRefused, ReleaseLease, TypeInv, TypeOK
    <3> QED
      BY <3>1, <3>2
  <2>5. ASSUME NEW e \in Executions, NEW q \in Runs, ClaimGranted(e, q)
        PROVE  owner'[r] = owner[r]
    <3>1. Claimable(q)
      BY <2>5 DEF ClaimGranted, ClaimVerdict
    <3> QED
      BY <2>2, <2>5, <3>1 DEF ClaimGranted, TypeInv, TypeOK
  <2>6. ASSUME CreateDueRuns PROVE owner'[r] = owner[r]
    <3>1. PICK recovered \in SUBSET Runs, n \in Nat : \E who \in NewRows(n) :
             recovered \subseteq Recoverable /\ Batch(recovered, n, who)
      BY <2>6, TickEffect
    <3> QED
      BY <2>2, <3>1 DEF Batch
  <2>7. ASSUME NEW p \in Profiles, NEW d \in BOOLEAN, StartRun(p, d) PROVE owner' = owner
    BY <2>7 DEF StartRun
  <2>8. ASSUME \/ \E q \in Runs : CancelRun(q)
               \/ \E e \in Executions : RenewLease(e)
               \/ ArchiveWorkspace \/ Tick
        PROVE  owner' = owner
    BY <2>8 DEF CancelRun, RenewLease, ArchiveWorkspace, Tick
  <2> QED
    BY <2>3, <2>4, <2>5, <2>6, <2>7, <2>8, OtherSteps DEF RowStep
<1>2. Init => LeaseMatchesStatus /\ ArchivedIsQuiet
  BY DEF Init, LeaseMatchesStatus, ArchivedIsQuiet
<1> QED
  BY TypeInit, TypeStep, LeaseStep, QuietStep, <1>1, <1>2, PTL DEF Spec, LeaseRespected

=============================================================================
