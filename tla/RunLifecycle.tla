----------------------------- MODULE RunLifecycle -----------------------------
(***************************************************************************)
(* The life of a sync run in the database, from its creation by the API or *)
(* the scheduler to its terminal status, with everything that competes for *)
(* it: the broker's at-least-once messages, worker executions that claim   *)
(* the run under a fencing token, lease expiry and redelivery, profile     *)
(* edits, cancellation and workspace archival.                             *)
(*                                                                         *)
(* Rows of one workspace are modelled (workspaces share only the           *)
(* scheduler's batch).  Every action is one database transaction, so the   *)
(* row locks of the code are the atomicity of the actions; where a         *)
(* transaction reads a snapshot before it locks (the scheduler's           *)
(* anti-join), the read is an action of its own.  Instants are kept as the *)
(* distance from the current time: lease[r] is lease_expires_at - now,     *)
(* age[r] is now - dispatch_attempted_at, due[p] is next_scheduled_at -    *)
(* now, cool[p] what is left of the manual cooldown; Tick is the passing   *)
(* of time.                                                                *)
(***************************************************************************)
EXTENDS Integers, FiniteSets

CONSTANTS
  Profiles,         \* sync profiles of the workspace
  Executions,       \* fencing tokens, one per actor invocation
  NoExec,           \* lease_owner NULL
  Bodies,           \* what a plan may contain (the providers decide)
  Connections,      \* target connections a profile may name
  NoPlan,           \* plan_json NULL
  MaxRuns,          \* bound: runs that are ever created
  MaxRevision,      \* bound: profile revisions
  MaxFaults,        \* bound: crashes, late heartbeats, lost messages
  LeaseTicks,       \* lease_seconds
  RedeliveryTicks,  \* dispatch redelivery interval
  IntervalTicks,    \* distance to a profile's next schedule
  DayTicks,         \* retry horizon of an invalid schedule
  CooldownTicks,    \* manual_run_cooldown_seconds (0: none)
  BatchSize,        \* scheduler batch
  ProfileQuota,     \* workspace.profile_quota
  BadConfig,        \* profiles whose stored configuration does not parse
  BadSchedule       \* profiles whose stored schedule does not parse

ASSUME ConstantsAssumption ==
  /\ MaxRuns \in Nat /\ MaxRevision \in Nat \ {0} /\ MaxFaults \in Nat
  /\ LeaseTicks \in Nat \ {0, 1} /\ RedeliveryTicks \in Nat \ {0}
  /\ IntervalTicks \in Nat \ {0} /\ DayTicks \in Nat \ {0}
  /\ CooldownTicks \in Nat /\ BatchSize \in Nat \ {0}
  /\ ProfileQuota \in Nat
  /\ NoExec \notin Executions
  /\ NoPlan \notin [rev : Nat, body : Bodies, conn : Connections]
  /\ BadConfig \subseteq Profiles /\ BadSchedule \subseteq Profiles
  /\ Profiles # {} /\ IsFiniteSet(Profiles) /\ Connections # {}

Runs == 1 .. MaxRuns
Active == {"queued", "running"}
Terminal == {"succeeded", "partial", "failed", "skipped", "canceled"}
Plans == [rev : Nat, body : Bodies, conn : Connections]

AnyProfile == CHOOSE p \in Profiles : TRUE      \* of a row not yet inserted
AnyConn == CHOOSE c \in Connections : TRUE

NoLease == -2       \* lease_expires_at NULL
Expired == -1       \* lease_expires_at < now

VARIABLES
  status, owner, lease, age, plan, runProfile, runRev, dry,  \* sync_runs
  created,                                                   \* runs inserted
  present, enabled, revision, due, conn, bound, cool,        \* sync_profiles
  archived,                                                  \* workspaces
  msgs,                                                      \* broker queue
  ticking, snapshot,                                         \* scheduler
  pc, xrun, xrev, xconn, xplan, slow,                        \* executions
  faults

runVars     == <<status, owner, lease, age, plan, runProfile, runRev, dry, created>>
profileVars == <<present, enabled, revision, due, conn, bound, cool>>
schedVars   == <<ticking, snapshot>>
execVars    == <<pc, xrun, xrev, xconn, xplan, slow>>
vars == <<runVars, profileVars, archived, msgs, schedVars, execVars, faults>>

-----------------------------------------------------------------------------
(* State predicates shared by the transactions. *)

HasActive(p) == \E r \in Runs : runProfile[r] = p /\ status[r] \in Active

\* _active_leased_run: the fence in front of every worker-owned write.
Holds(e) ==
  /\ status[xrun[e]] = "running"
  /\ owner[xrun[e]] = e
  /\ lease[xrun[e]] > 0

\* A token is a fresh UUID: no execution uses it and no row remembers it.
Fresh(e) == pc[e] = "idle" /\ \A r \in Runs : owner[r] # e

\* Mutation: any run that is not running may be taken.
ClaimableUnlessRunning(r) == status[r] # "running" \/ lease[r] = Expired

Claimable(r) == status[r] = "queued" \/ (status[r] = "running" /\ lease[r] = Expired)

\* Mutation: the lease of a running run is not looked at.
RecoverableIgnoringLease ==
  {r \in Runs : ~archived /\ (status[r] = "running" \/ age[r] = RedeliveryTicks)
                /\ status[r] \in Active}

\* Mutation: only runs that were never claimed are redelivered.
RecoverableQueuedOnly ==
  {r \in Runs : ~archived /\ status[r] = "queued" /\ age[r] = RedeliveryTicks}

Recoverable ==
  {r \in Runs : /\ ~archived
                /\ \/ status[r] = "queued" /\ age[r] = RedeliveryTicks
                   \/ status[r] = "running" /\ lease[r] = Expired}

\* order_by(created_at).limit(batch_limit)
Oldest(S, k) == {r \in S : Cardinality({q \in S : q < r}) < k}

\* Mutation: the expiry instant survives the owner.
ReleaseOwnerOnly(r) == owner' = [owner EXCEPT ![r] = NoExec] /\ UNCHANGED lease

ReleaseLease(r) ==
  /\ owner' = [owner EXCEPT ![r] = NoExec]
  /\ lease' = [lease EXCEPT ![r] = NoLease]

Spend == faults < MaxFaults /\ faults' = faults + 1

\* A broker send that may fail: the message is in the queue, or a fault is spent.
Send(rs) ==
  \/ msgs' = msgs \cup rs /\ faults' = faults
  \/ \E sent \in SUBSET rs : sent # rs /\ msgs' = msgs \cup sent /\ Spend

-----------------------------------------------------------------------------
Init ==
  /\ status = [r \in Runs |-> "none"] /\ owner = [r \in Runs |-> NoExec]
  /\ lease = [r \in Runs |-> NoLease] /\ age = [r \in Runs |-> 0]
  /\ plan = [r \in Runs |-> NoPlan] /\ dry = [r \in Runs |-> FALSE]
  /\ runProfile = [r \in Runs |-> AnyProfile]
  /\ runRev = [r \in Runs |-> 0] /\ created = 0
  /\ present = [p \in Profiles |-> p \in BadConfig \cup BadSchedule]
  /\ enabled = present
  /\ revision = [p \in Profiles |-> 1] /\ due = [p \in Profiles |-> 0]
  /\ conn = [p \in Profiles |-> AnyConn]
  /\ bound = [p \in Profiles |-> FALSE] /\ cool = [p \in Profiles |-> 0]
  /\ archived = FALSE /\ msgs = {}
  /\ ticking = FALSE /\ snapshot = {}
  /\ pc = [e \in Executions |-> "idle"] /\ xrun = [e \in Executions |-> 0]
  /\ xrev = [e \in Executions |-> 0]
  /\ xconn = [e \in Executions |-> AnyConn]
  /\ xplan = [e \in Executions |-> NoPlan] /\ slow = [e \in Executions |-> FALSE]
  /\ faults = 0
-----------------------------------------------------------------------------
(* The API: routers/runs.py, routers/profiles.py, routers/workspaces.py. *)

\* start_run and preview_run: commit the row, then send its id.
StartRun(p, dryRun) ==
  LET r == created + 1 IN
  /\ ~archived /\ present[p] /\ ~HasActive(p)
  /\ dryRun \/ cool[p] = 0
  /\ created < MaxRuns
  /\ created' = r
  /\ status' = [status EXCEPT ![r] = "queued"]
  /\ runProfile' = [runProfile EXCEPT ![r] = p]
  /\ runRev' = [runRev EXCEPT ![r] = revision[p]]
  /\ dry' = [dry EXCEPT ![r] = dryRun]
  /\ age' = [age EXCEPT ![r] = 0]
  /\ cool' = IF dryRun THEN cool ELSE [cool EXCEPT ![p] = CooldownTicks]
  /\ Send({r})
  /\ UNCHANGED <<owner, lease, plan, present, enabled, revision, due, conn,
                 bound, archived, schedVars, execVars>>

CancelRun(r) ==
  /\ status[r] = "queued"
  /\ status' = [status EXCEPT ![r] = "canceled"]
  /\ UNCHANGED <<owner, lease, age, plan, runProfile, runRev, dry, created,
                 profileVars, archived, msgs, schedVars, execVars, faults>>

CreateProfile(p, en, c) ==
  /\ ~present[p]
  /\ archived => ~en
  /\ Cardinality({q \in Profiles : present[q]}) < ProfileQuota
  /\ present' = [present EXCEPT ![p] = TRUE]
  /\ enabled' = [enabled EXCEPT ![p] = en]
  /\ revision' = [revision EXCEPT ![p] = 1]
  /\ due' = [due EXCEPT ![p] = IF en THEN IntervalTicks ELSE 0]
  /\ conn' = [conn EXCEPT ![p] = c]
  /\ UNCHANGED <<runVars, bound, cool, archived, msgs, schedVars, execVars, faults>>

\* Mutation: an active run does not pin the connections.
MayMoveUnbound(p, c) == c # conn[p] => ~bound[p]

\* May the profile move to connection c?
MayMove(p, c) == c # conn[p] => ~HasActive(p) /\ ~bound[p]

UpdateProfile(p, en, c, reschedule) ==
  /\ present[p] /\ p \notin BadSchedule
  /\ archived => ~en
  /\ MayMove(p, c)
  /\ revision[p] < MaxRevision
  /\ enabled' = [enabled EXCEPT ![p] = en]
  /\ conn' = [conn EXCEPT ![p] = c]
  /\ due' = [due EXCEPT ![p] = IF ~en THEN 0
                               ELSE IF ~enabled[p] \/ reschedule THEN IntervalTicks
                               ELSE @]
  /\ revision' = [revision EXCEPT ![p] = @ + 1]
  /\ UNCHANGED <<runVars, present, bound, cool, archived, msgs, schedVars, execVars, faults>>

DeleteProfile(p) ==
  /\ present[p] /\ ~bound[p]
  /\ \A r \in Runs : status[r] # "none" => runProfile[r] # p
  /\ present' = [present EXCEPT ![p] = FALSE]
  /\ enabled' = [enabled EXCEPT ![p] = FALSE]
  /\ due' = [due EXCEPT ![p] = 0]
  /\ UNCHANGED <<runVars, revision, conn, bound, cool, archived, msgs, schedVars,
                 execVars, faults>>

\* Mutation: a running sync does not stop the archival.
NoRunningSyncIgnored == TRUE

NoRunningSync == \A r \in Runs : status[r] # "running"

\* update_workspace with archived = True
ArchiveWorkspace ==
  /\ ~archived
  /\ NoRunningSync
  /\ archived' = TRUE
  /\ enabled' = [p \in Profiles |-> FALSE]
  /\ status' = [r \in Runs |-> IF status[r] = "queued" THEN "canceled" ELSE status[r]]
  /\ UNCHANGED <<owner, lease, age, plan, runProfile, runRev, dry, created, present,
                 revision, due, conn, bound, cool, msgs, schedVars, execVars, faults>>

UnarchiveWorkspace ==
  /\ archived
  /\ archived' = FALSE
  /\ UNCHANGED <<runVars, profileVars, msgs, schedVars, execVars, faults>>

-----------------------------------------------------------------------------
(* The scheduler: one transaction per tick, then the sends. *)

\* The snapshot of the anti-join "no active run of this profile": under READ
\* COMMITTED it is older than the row locks that the same statement takes.
SchedulerSelect ==
  /\ ~ticking
  /\ ticking' = TRUE
  /\ snapshot' = {p \in Profiles : ~HasActive(p)}
  /\ UNCHANGED <<runVars, profileVars, archived, msgs, execVars, faults>>

\* The profiles the locking read returns; only the anti-join is stale.
DueProfiles ==
  {p \in snapshot : ~archived /\ present[p] /\ enabled[p] /\ due[p] = 0}

\* New rows created + 1 .. created + n, each for another due profile.
NewRows(n) ==
  {who \in [created + 1 .. created + n -> DueProfiles] :
     \A r, s \in created + 1 .. created + n : who[r] = who[s] => r = s}

RowsWanted(recovered) ==
  LET room == BatchSize - Cardinality(recovered)
      wanted == Cardinality(DueProfiles)
      free == MaxRuns - created
      least(a, b) == IF a < b THEN a ELSE b
  IN IF room <= 0 THEN 0 ELSE least(room, least(wanted, free))

\* Mutation: no unique index.
IndexMissing(who) == TRUE

\* uq_sync_runs_active_profile: the partial unique index on active runs.
IndexAllows(who) ==
  \A r \in DOMAIN who : who[r] \in BadSchedule \/ ~HasActive(who[r])

\* Recovered runs are queued again, each new row takes the next schedule of its
\* profile, and what can be delivered is sent.
Batch(recovered, n, who) ==
  LET fresh == created + 1 .. created + n
      invalid == {r \in fresh : who[r] \in BadSchedule}
      scheduled == {p \in Profiles : \E r \in fresh : who[r] = p}
  IN
  /\ created' = created + n
  /\ status' = [r \in Runs |-> IF r \in invalid THEN "failed"
                               ELSE IF r \in recovered \cup fresh THEN "queued"
                               ELSE status[r]]
  /\ owner' = [r \in Runs |-> IF r \in recovered THEN NoExec ELSE owner[r]]
  /\ lease' = [r \in Runs |-> IF r \in recovered THEN NoLease ELSE lease[r]]
  /\ age' = [r \in Runs |-> IF r \in recovered \cup fresh THEN 0 ELSE age[r]]
  /\ runProfile' = [r \in Runs |-> IF r \in fresh THEN who[r] ELSE runProfile[r]]
  /\ runRev' = [r \in Runs |-> IF r \in fresh THEN revision[who[r]] ELSE runRev[r]]
  /\ due' = [p \in Profiles |-> IF p \notin scheduled THEN due[p]
                                ELSE IF p \in BadSchedule THEN DayTicks
                                ELSE IntervalTicks]
  /\ Send(recovered \cup (fresh \ invalid))

CreateDueRuns ==
  LET recovered == Oldest(Recoverable, BatchSize)
      n == RowsWanted(recovered)
  IN
  /\ ticking
  /\ \E who \in NewRows(n) : IndexAllows(who) /\ Batch(recovered, n, who)
  /\ ticking' = FALSE /\ snapshot' = {}
  /\ UNCHANGED <<plan, dry, present, enabled, revision, conn, bound, cool,
                 archived, execVars>>

\* An insert that meets the index rolls the whole tick back.
TickRolledBack ==
  /\ ticking
  /\ \E who \in NewRows(RowsWanted(Oldest(Recoverable, BatchSize))) : ~IndexAllows(who)
  /\ ticking' = FALSE /\ snapshot' = {}
  /\ UNCHANGED <<runVars, profileVars, archived, msgs, execVars, faults>>

-----------------------------------------------------------------------------
(* The worker: sync_run_actor and SyncOrchestrator.execute. *)

\* At-least-once: the broker may deliver the same message again.
Delivered(r) == msgs' \in {msgs, msgs \ {r}}

\* Mutation: the profile's revision is not compared with the queued one.
ClaimVerdictAnyRevision(r) ==
  IF archived THEN "archived"
  ELSE IF ~Claimable(r) THEN "busy"
  ELSE IF ~present[runProfile[r]] \/ runProfile[r] \in BadConfig THEN "failed"
  ELSE "granted"

ClaimVerdict(r) ==
  IF archived THEN "archived"
  ELSE IF ~Claimable(r) THEN "busy"
  ELSE IF ~present[runProfile[r]] THEN "failed"
  ELSE IF plan[r] = NoPlan /\ revision[runProfile[r]] # runRev[r] THEN "skipped"
  ELSE IF runProfile[r] \in BadConfig THEN "failed"
  ELSE "granted"

\* _claim returns None: an archived workspace cancels the run, a verdict ends it.
ClaimRefused(r) ==
  LET verdict == ClaimVerdict(r)
      final == IF verdict = "archived" THEN "canceled" ELSE verdict
  IN
  /\ r \in msgs /\ Delivered(r)
  /\ verdict # "granted"
  /\ IF verdict = "busy" \/ status[r] \notin Active
     THEN UNCHANGED <<status, owner, lease>>
     ELSE /\ status' = [status EXCEPT ![r] = final]
          /\ ReleaseLease(r)
  /\ UNCHANGED <<age, plan, runProfile, runRev, dry, created, profileVars,
                 archived, schedVars, execVars, faults>>

ClaimGranted(e, r) ==
  LET p == runProfile[r] IN
  /\ r \in msgs /\ Delivered(r)
  /\ Fresh(e)
  /\ ClaimVerdict(r) = "granted"
  /\ status' = [status EXCEPT ![r] = "running"]
  /\ owner' = [owner EXCEPT ![r] = e]
  /\ lease' = [lease EXCEPT ![r] = LeaseTicks]
  /\ pc' = [pc EXCEPT ![e] = "claimed"]
  /\ xrun' = [xrun EXCEPT ![e] = r]
  /\ xrev' = [xrev EXCEPT ![e] = IF plan[r] # NoPlan THEN runRev[r] ELSE revision[p]]
  /\ xconn' = [xconn EXCEPT ![e] = conn[p]]
  /\ UNCHANGED <<age, plan, runProfile, runRev, dry, created, profileVars,
                 archived, schedVars, xplan, slow, faults>>

\* load_plan; without a persisted plan the providers are read and one is built.
LoadPlan(e) ==
  LET r == xrun[e] IN
  /\ pc[e] = "claimed"
  /\ \/ /\ plan[r] # NoPlan
        /\ xplan' = [xplan EXCEPT ![e] = plan[r]]
        /\ pc' = [pc EXCEPT ![e] = IF plan[r].rev = xrev[e] THEN "applying" ELSE "failing"]
     \/ /\ plan[r] = NoPlan
        /\ \E b \in Bodies :
             xplan' = [xplan EXCEPT ![e] = [rev |-> xrev[e], body |-> b, conn |-> xconn[e]]]
        /\ pc' = [pc EXCEPT ![e] = "planned"]
  /\ UNCHANGED <<runVars, profileVars, archived, msgs, schedVars, xrun, xrev,
                 xconn, slow, faults>>

\* Mutation: the plan is written unconditionally.
MayPersistAlways(e) == TRUE

\* Mutation: whoever has no other plan in front of it persists its own, holder or not.
MayPersistUnfenced(e) == plan[xrun[e]] \in {NoPlan, xplan[e]}

MayPersist(e) == Holds(e) /\ plan[xrun[e]] \in {NoPlan, xplan[e]}

\* persist_plan: fenced, and never over a different plan.
PersistPlan(e) ==
  LET r == xrun[e] IN
  /\ pc[e] = "planned"
  /\ IF MayPersist(e)
     THEN /\ plan' = [plan EXCEPT ![r] = xplan[e]]
          /\ pc' = [pc EXCEPT ![e] = "applying"]
     ELSE /\ pc' = [pc EXCEPT ![e] = "failing"]
          /\ UNCHANGED plan
  /\ UNCHANGED <<status, owner, lease, age, runProfile, runRev, dry, created,
                 profileVars, archived, msgs, schedVars, xrun, xrev, xconn,
                 xplan, slow, faults>>

\* bind_ownership and unbind_ownership while the plan is applied.
ChangeBindings(e, b) ==
  LET r == xrun[e] IN
  /\ pc[e] = "applying" /\ ~dry[r] /\ Holds(e)
  /\ bound' = [bound EXCEPT ![runProfile[r]] = b]
  /\ UNCHANGED <<runVars, present, enabled, revision, due, conn, cool, archived,
                 msgs, schedVars, execVars, faults>>

\* A SyncError or any other exception inside execute.
ExecutionError(e) ==
  /\ pc[e] \in {"claimed", "planned", "applying"}
  /\ pc' = [pc EXCEPT ![e] = "failing"]
  /\ UNCHANGED <<runVars, profileVars, archived, msgs, schedVars, xrun, xrev,
                 xconn, xplan, slow, faults>>

\* Mutation: the lease is extended from its old expiry instead of from now.
RenewLeaseAccumulating(e) ==
  /\ pc[e] # "idle" /\ Holds(e)
  /\ lease' = [lease EXCEPT ![xrun[e]] = @ + LeaseTicks]
  /\ UNCHANGED <<status, owner, age, plan, runProfile, runRev, dry, created,
                 profileVars, archived, msgs, schedVars, execVars, faults>>

\* renew_lease, by a heartbeat task or in front of a remote write.
RenewLease(e) ==
  /\ pc[e] # "idle" /\ Holds(e)
  /\ lease' = [lease EXCEPT ![xrun[e]] = LeaseTicks]
  /\ UNCHANGED <<status, owner, age, plan, runProfile, runRev, dry, created,
                 profileVars, archived, msgs, schedVars, execVars, faults>>

Forget(e) ==
  /\ pc' = [pc EXCEPT ![e] = "idle"] /\ xrun' = [xrun EXCEPT ![e] = 0]
  /\ xrev' = [xrev EXCEPT ![e] = 0] /\ xconn' = [xconn EXCEPT ![e] = AnyConn]
  /\ xplan' = [xplan EXCEPT ![e] = NoPlan] /\ slow' = [slow EXCEPT ![e] = FALSE]

Outcomes(e) == IF pc[e] = "failing" THEN {"failed"}
               ELSE {"succeeded", "partial", "failed", "skipped"}

\* finish: the run takes the outcome, or a stale completion is ignored.
Finish(e) ==
  LET r == xrun[e] IN
  /\ pc[e] \in {"applying", "failing"}
  /\ IF Holds(e)
     THEN /\ \E s \in Outcomes(e) : status' = [status EXCEPT ![r] = s]
          /\ ReleaseLease(r)
     ELSE UNCHANGED <<status, owner, lease>>
  /\ Forget(e)
  /\ UNCHANGED <<age, plan, runProfile, runRev, dry, created, profileVars,
                 archived, msgs, schedVars, faults>>

-----------------------------------------------------------------------------
(* Faults and time. *)

Crash(e) ==
  /\ pc[e] # "idle" /\ Spend /\ Forget(e)
  /\ UNCHANGED <<runVars, profileVars, archived, msgs, schedVars>>

\* The heartbeat task died of an exception, or the process stalls.
HeartbeatLost(e) ==
  /\ pc[e] # "idle" /\ ~slow[e] /\ Spend
  /\ slow' = [slow EXCEPT ![e] = TRUE]
  /\ UNCHANGED <<runVars, profileVars, archived, msgs, schedVars, pc, xrun,
                 xrev, xconn, xplan>>

LoseMessage(r) ==
  /\ r \in msgs /\ Spend
  /\ msgs' = msgs \ {r}
  /\ UNCHANGED <<runVars, profileVars, archived, schedVars, execVars>>

\* A live heartbeat renews well before expiry (every third of the lease).
HeartbeatsOnTime ==
  \A e \in Executions :
    pc[e] # "idle" /\ ~slow[e] => ~Holds(e) \/ lease[xrun[e]] > 1

Tick ==
  /\ HeartbeatsOnTime
  /\ lease' = [r \in Runs |-> IF lease[r] > Expired THEN lease[r] - 1 ELSE lease[r]]
  /\ age' = [r \in Runs |-> IF status[r] = "queued" /\ age[r] < RedeliveryTicks
                            THEN age[r] + 1 ELSE age[r]]
  /\ due' = [p \in Profiles |-> IF due[p] > 0 THEN due[p] - 1 ELSE 0]
  /\ cool' = [p \in Profiles |-> IF cool[p] > 0 THEN cool[p] - 1 ELSE 0]
  /\ UNCHANGED <<status, owner, plan, runProfile, runRev, dry, created, present,
                 enabled, revision, conn, bound, archived, msgs, schedVars,
                 execVars, faults>>

-----------------------------------------------------------------------------
ApiNext ==
  \/ \E p \in Profiles, d \in BOOLEAN : StartRun(p, d)
  \/ \E r \in Runs : CancelRun(r)
  \/ \E p \in Profiles, en \in BOOLEAN, c \in Connections : CreateProfile(p, en, c)
  \/ \E p \in Profiles, en \in BOOLEAN, c \in Connections, s \in BOOLEAN :
       UpdateProfile(p, en, c, s)
  \/ \E p \in Profiles : DeleteProfile(p)
  \/ ArchiveWorkspace
  \/ UnarchiveWorkspace

SchedulerNext == SchedulerSelect \/ CreateDueRuns \/ TickRolledBack

ExecutionStep(e) == LoadPlan(e) \/ PersistPlan(e) \/ Finish(e)

WorkerNext ==
  \/ \E r \in Runs : ClaimRefused(r)
  \/ \E e \in Executions, r \in Runs : ClaimGranted(e, r)
  \/ \E e \in Executions : ExecutionStep(e)
  \/ \E e \in Executions : ExecutionError(e)
  \/ \E e \in Executions : RenewLease(e)
  \/ \E e \in Executions, b \in BOOLEAN : ChangeBindings(e, b)

FaultNext ==
  \/ \E e \in Executions : Crash(e) \/ HeartbeatLost(e)
  \/ \E r \in Runs : LoseMessage(r)

Next == ApiNext \/ SchedulerNext \/ WorkerNext \/ FaultNext \/ Tick

Spec == Init /\ [][Next]_vars
\* The scheduler loops, time passes, the broker delivers what it holds, and an
\* execution that is alive takes its next step.  Faults are finite (MaxFaults).
Fairness ==
  /\ WF_vars(Tick)
  /\ WF_vars(SchedulerSelect) /\ WF_vars(CreateDueRuns) /\ WF_vars(TickRolledBack)
  /\ \A r \in Runs :
       WF_vars(ClaimRefused(r) \/ \E e \in Executions : ClaimGranted(e, r))
  /\ \A e \in Executions : WF_vars(ExecutionStep(e)) /\ WF_vars(RenewLease(e))

FairSpec == Spec /\ Fairness

-----------------------------------------------------------------------------
(* Properties. *)

\* Every row, message and execution has a value of its type; in particular a
\* lease never reaches further than lease_seconds into the future.
TypeOK ==
  /\ status \in [Runs -> Active \cup Terminal \cup {"none"}]
  /\ owner \in [Runs -> Executions \cup {NoExec}]
  /\ lease \in [Runs -> NoLease .. LeaseTicks]
  /\ age \in [Runs -> 0 .. RedeliveryTicks]
  /\ plan \in [Runs -> Plans \cup {NoPlan}]
  /\ runProfile \in [Runs -> Profiles]
  /\ runRev \in [Runs -> 0 .. MaxRevision]
  /\ dry \in [Runs -> BOOLEAN]
  /\ created \in 0 .. MaxRuns
  /\ present \in [Profiles -> BOOLEAN] /\ enabled \in [Profiles -> BOOLEAN]
  /\ revision \in [Profiles -> 1 .. MaxRevision]
  /\ due \in [Profiles -> Nat] /\ cool \in [Profiles -> 0 .. CooldownTicks]
  /\ conn \in [Profiles -> Connections] /\ bound \in [Profiles -> BOOLEAN]
  /\ archived \in BOOLEAN /\ msgs \subseteq Runs
  /\ ticking \in BOOLEAN /\ snapshot \subseteq Profiles
  /\ pc \in [Executions -> {"idle", "claimed", "planned", "applying", "failing"}]
  /\ xrun \in [Executions -> 0 .. MaxRuns]
  /\ xrev \in [Executions -> 0 .. MaxRevision]
  /\ xconn \in [Executions -> Connections]
  /\ xplan \in [Executions -> Plans \cup {NoPlan}]
  /\ slow \in [Executions -> BOOLEAN]
  /\ faults \in 0 .. MaxFaults

\* At most one queued or running run per profile, although the scheduler's
\* anti-join may be stale when it inserts (runtime.py, _create_due_runs).
OneActiveRun ==
  \A r, s \in Runs :
    status[r] \in Active /\ status[s] \in Active /\ runProfile[r] = runProfile[s] => r = s

\* A row carries an owner and an expiry exactly while it is running.  A running
\* row without an expiry could be neither claimed nor recovered: it would block
\* its profile for ever.
LeaseMatchesStatus ==
  \A r \in Runs : /\ status[r] = "running" <=> owner[r] # NoExec
                  /\ status[r] = "running" <=> lease[r] # NoLease

\* An archived workspace has no queued or running run and no enabled profile,
\* whatever the scheduler, the API and the workers were doing when it was archived.
ArchivedIsQuiet ==
  archived => /\ \A r \in Runs : status[r] \notin Active
              /\ \A p \in Profiles : ~enabled[p]

\* An execution, even one that has lost its lease, applies exactly the plan
\* that is persisted for its run ("no provider write happens before the
\* complete plan is durable", engine.py).
AppliesPersistedPlan ==
  \A e \in Executions : pc[e] = "applying" => plan[xrun[e]] = xplan[e]

\* An execution, fresh, resumed or stale, applies a plan only to the connection
\* the plan was computed for (update_profile refuses to move a profile with an
\* active run).
AppliesToPlannedTarget ==
  \A e \in Executions : pc[e] = "applying" => xplan[e].conn = xconn[e]

\* A run is planned and executed at the profile revision it was queued with.
RunsAtQueuedRevision ==
  /\ \A e \in Executions : pc[e] # "idle" => xrev[e] = runRev[xrun[e]]
  /\ \A r \in Runs : plan[r] # NoPlan => plan[r].rev = runRev[r]

\* A terminal run never changes again: no duplicate message, stale completion,
\* cancellation or archival touches its status or its plan.
TerminalIsFinal ==
  [][\A r \in Runs : status[r] \in Terminal =>
       status'[r] = status[r] /\ plan'[r] = plan[r] /\ owner'[r] = NoExec]_vars

\* While a lease is unexpired only its owner can end it, by finishing the run.
LeaseRespected ==
  [][\A r \in Runs : status[r] = "running" /\ lease[r] > Expired /\ owner'[r] # owner[r] =>
       /\ status'[r] \in Terminal
       /\ pc[owner[r]] \in {"applying", "failing"} /\ xrun[owner[r]] = r]_vars

\* Every queued or running run reaches a terminal status, whichever messages
\* are lost and whichever executions crash or stall on the way.
EveryRunEnds ==
  \A r \in Runs : status[r] \in Active ~> status[r] \in Terminal

-----------------------------------------------------------------------------
(* The abstract run these rows, messages and leases implement. *)

\* What a row says of its run.
Phase(r) == CASE status[r] = "none" -> "absent" [] status[r] = "queued" -> "waiting"
              [] status[r] = "running" -> "held" [] OTHER -> "ended"

Working(e) == IF pc[e] = "applying" THEN {[run |-> xrun[e], plan |-> xplan[e]]} ELSE {}

Fenced == INSTANCE FencedRun WITH
  phase <- [r \in Runs |-> Phase(r)],
  holder <- owner,
  agreed <- plan,
  work <- [e \in Executions |-> Working(e)]

\* Rows, messages, leases and executions together keep the promise of
\* FencedRun: whatever is lost, late, repeated or crashed, a run is held by one
\* execution at a time, planned at most once by its holder and ended once, and
\* nobody applies anything but that plan (docs/architecture.md, "Run lifecycle").
ImplementsFencedRun == Fenced!Spec

=============================================================================
