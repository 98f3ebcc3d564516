# Verification of the WorshipTools → ChurchTools synchronisation

The program copies the songs of WorshipTools services into the agendas of
ChurchTools events. A person configures *profiles*; a scheduler and the API queue
*runs*; workers execute them against two remote systems that offer no
transactions and no fencing; people edit the same agendas at the same time;
ended runs are announced by push and mail. This directory holds TLA+ models of
that program, TLC configurations that check them and TLAPS proofs about them.
All paths below are relative to the repository.

## The system

| Part | State | Operations | Talks to |
|---|---|---|---|
| API (`backend/app/routers/runs.py`, `profiles.py`, `workspaces.py`) | profile, run and workspace rows | start, preview, cancel; create, update, delete a profile; archive, unarchive | PostgreSQL; sends run ids to the broker after the commit |
| Scheduler (`scheduler.py`, `runtime.py` `SqlDueRunRepository`) | none of its own | a tick: recover expired executions, queue due profiles, send the ids, start deliveries | PostgreSQL row locks, broker |
| Run actor (`worker.py`) | none | run a queued id, then ask for its fan-out | broker (at least once), engine |
| Run repository (`runtime.py` `SqlRunRepository`) | `sync_runs`, `sync_actions`, `remote_bindings`, `event_sync_states` | claim, renew, persist plan, action started/finished, bind, checkpoint, finish; all but claim are fenced by the execution token | PostgreSQL |
| Engine (`sync/engine.py`) | one execution in memory | load or compute the plan, prepare the catalogue, then per event: lock, check, write, verify, bind | repository, event leases, ChurchTools |
| Planner and matching (`sync/planner.py`, `sync/matching.py`) | none | source and agenda to a plan of inserts, replacements, deletions, no-ops | read-only snapshots |
| Event leases (`sync/leases.py`) | Redis keys with a lifetime | acquire, renew, release | Redis |
| ChurchTools client (`providers/churchtools.py`) | remote agendas and songs | insert, replace, delete, create; read back after a lost response | HTTP |
| Notifications (`outbox.py`, `notification_worker.py`) | `notification_outbox`, `notifications`, `push_subscriptions`, the Redis dispatch token | fan-out, claim, deliver, retry, renew, chain drains, retention | PostgreSQL, Redis, broker, SMTP, push services |
| Connections (`routers/connections.py`) | `provider_connections` | create, update, delete, test, read metadata | PostgreSQL under the workspace's lock; a test takes none |
| Probes (`probes.py`, `worker.py`) | Redis flight and response keys | acquire or join a flight, enqueue, poll; the actor loads the credentials, asks the provider, publishes if the flight is still its own | Redis, broker (at most once), providers |
| Accounts (`routers/auth.py`, `security.py`, `dependencies.py`, `bootstrap_admin.py`) | `users`, `auth_sessions`, `one_time_tokens` | register, verify, resend, log in and out, recover, set up, confirm and disable the second factor; a command that creates or resets the platform administrator | PostgreSQL row locks |
| Members (`routers/workspaces.py`, `routers/admin.py`, migrations 0005, 0008, 0010, 0011) | `workspaces`, `memberships`, `workspace_invitations` | create a workspace, change a role, remove, invite, revoke, accept, set quotas | PostgreSQL row locks and row-level policies |
| Rate limits (`rate_limit.py`) | Redis counters | refuse a request | Redis |

What is hard about it:

* **Several writers per run.** Messages are delivered at least once, executions
  stall and come back, a successor is started when a lease expires. Only the
  fencing token in the row separates them, and ChurchTools does not know it.
* **Two leases with two clocks.** The run lease is in PostgreSQL, the event lease
  in Redis; each may lapse while the other is held.
* **Writes without a transaction.** A write, its row, its verification and its
  binding are separate steps, with a crash possible between any two, and a lost
  response leaves the effect unknown.
* **People.** Agendas change between reading and writing; profiles are edited,
  re-pointed or deleted between queueing, claiming and resuming a run.
* **Stale snapshots.** The scheduler's anti-join reads an older snapshot than
  the row locks it takes.
* **Waiting.** A handler reads a session or a role, waits for a row lock, and writes
  when the lock is granted; what it read may have been revoked meanwhile. Handlers
  that lock several rows may wait for each other.
* **Limits.** Batches, attempt counts, one dispatch token per hour, retention, seats
  and ownership quotas, links and cached answers with lifetimes.

`PROJECT.json` lists each hazard at its line with the properties that watch it.

## The modules

### RunLifecycle

The rows of `sync_runs`, `sync_profiles` and the workspace, and everybody who
writes them. A run is `[profile, status, owner, lease, plan, ...]`; each
transaction is one action, with the decision it takes on a value it has read
before as a separate, earlier action where the code has a gap: `SchedulerSelect`
takes the snapshot of the anti-join, `CreateDueRuns` acts on it later; `LoadPlan`
computes, `PersistPlan` makes durable.

| Action | Code |
|---|---|
| `StartRun`, `CancelRun` | `start_run`, `preview_run`, `cancel_run` |
| `CreateProfile`, `UpdateProfile`, `DeleteProfile` | `routers/profiles.py`; `MayMove` is the refusal to move a profile that still owns bindings or runs to other connections |
| `ArchiveWorkspace`, `UnarchiveWorkspace` | `update_workspace` |
| `SchedulerSelect`, `CreateDueRuns`, `TickRolledBack` | `_create_due_runs`: recovery of expired executions first, then due profiles, the partial unique index decides |
| `ClaimGranted`, `ClaimRefused` | `_claim`; `ClaimVerdict` says what the claim makes of profile, revision, connection and workspace |
| `RenewLease`, `Finish`, `ExecutionError`, `Forget` | heartbeat, `_finish`, the except and finally clauses of `execute` |
| `Crash`, `HeartbeatLost`, `LoseMessage` | faults, at most `MaxFaults` together |
| `Tick` | one unit of time; a healthy execution renews before its lease ends (`HeartbeatsOnTime`) |

### FencedRun

What the fencing promises, without leases, messages and clocks: a run is queued
once, held by at most one execution, gets at most one plan from its holder, ends
once, and no execution, not even one that has lost its run, works on anything but
the plan agreed on. `RunLifecycle` implements it: `Fenced` maps the status to a
phase, the lease owner to the holder, the persisted plan to the agreed one and an
execution that applies to the job it works on; `ImplementsFencedRun` is checked as a
property of `RunFencing`. Recovery by the scheduler is `GiveUp`, a refused claim of a
run without profile or revision is `End`, and one transaction of the scheduler may
move several runs.

### SyncEngine

One run of a persisted plan, applied by one execution or by several that follow
or overlap each other. An agenda is a sequence of `[id, song]` and is its own
fingerprint. Every place where the code awaits a provider or commits is a step
of its own, so `Check` (fetch and compare), `Start` (last fence), `Write` (the
effect), `RecordApplied`, `Verify` and `Bind` can all be separated by a crash, by
a lapse of either lease, by another execution and by a person's edit.
`WriteIndeterminate` loses the response, with or without the effect, and `Reread`
adopts what the provider's read-back allows; `Reconciled` is the engine's own
recognition of an earlier write. A fetch that raises in `Check` is recorded on no action
and ends the run (`CheckError`). Leases have no clock here: that of a dead
execution may lapse at any time, that of a live one costs a stall. The heartbeat of the
leases stops an execution when one is gone, and also when asking for it fails
(`HeartbeatNotices`). What each action has put on an agenda (`made`) and what people have
written there (`byHand`) is history that no action reads.

### Outbox

Ended runs become outbox items (`FanOut`), which drain workers claim, load, send
and complete under a claim token; the dispatch token in Redis limits drain
signals; `Maintenance` is the scheduler's share; `Cleanup` is retention with the
cascade from notifications to their items. The outcomes of a sender are
accepted, refused for now, refused for good, and (push) endpoint gone.

### Planner

One agenda and the runs of several profiles on it. `PlanOf` is `_plan_placements`: slices
of the service by placement, the cursor behind the anchor, what becomes a no-op, a
replacement, an insert or a delete, and who may delete what (`binding` with its song and
source key). `Plan` reads and plans, `Start` takes the event (`Locked` if another profile has it), `ApplyNext`
does one action with its verification and binding, `Checkpoint` records what makes a later
run skip an unchanged service. Plans are applied without the faults of `SyncEngine`; a run may
stop anywhere, the service and the placements may change, and people may add, move or
remove items in between.

### Connections

One connection: its row with version (address and credentials) and identity (the
ChurchTools host or the WorshipTools account), the profile, run and binding that
refer to it, and the tests clients make of it. A test reads the row, sets the flight
key unless it exists (`AcquireOrJoin`), sends the actor's message (`Enqueue`) and
polls; one that finds a flight takes its cached answer or is refused. The actor reads
the row when it starts and publishes by the Lua script only if the flight key still
holds its request (`Publish`), which also shortens the flight to the cooldown. `Record`
writes the columns that differ from the row as the session loaded it. Keys, messages
and waiting clients carry the ticks they have left; a call to the provider may take any
time.

### Accounts

One account and the handlers that work on it at the same time. A handler is a
transaction: it looks up its session or link, locks the user row (`LockUser`), perhaps a
link (`LockRecoveryToken`, `FollowVerificationLink`), and commits; other transactions
run in between. `Refused` is every problem a handler may raise, at any step. Passwords
and TOTP secrets are numbered; with which ones a session was opened, and in which era
between two resets a link was issued, is history that no action reads.
`Deadlocked` says which two transactions wait for rows of each other.

### Members

Workspaces with the roles of their members, invitations by address, seat quotas, and
the requests under way. A request is authorised by the role read without a lock
(`Authorise`), asks for the workspace row, and works on what it reads once it has it
(`LockWorkspace` takes `view`). The policies of migration 0010 are guards of the
statements they apply to: `Manageable`, `NewRoleAllowed`, `Unclaimed`, and that of the
locking read in `AskForWorkspace`, which is evaluated when the statement starts. Of an
account's other workspaces only the number it owns is kept (`elsewhere`).

### Modules without a component

`MC*` give the constants of their module values for TLC: model values, symmetry sets and,
for `SyncEngine` and `Planner`, the plans, services, placements and agendas to start from.
`RunLifecycleProofs`, `FencedRunProofs`, `SyncEngineProofs`, `OutboxProofs`,
`ConnectionsProofs`, `AccountsProofs`, `MembersProofs` and `PlannerProofs` hold the theorems (see "What is proved").

## The runs

| Run | Question | Answer |
|---|---|---|
| `RunScheduling` | Can a stale snapshot, a start by hand, a cancellation or an archive queue a run twice, or behind an archive? | No: `OneActiveRun`, `ArchivedIsQuiet`, with a corrupt profile in the same batch |
| `RunFencing` | Can an execution that lost its run, or a profile that changed meanwhile, make a run do what it was not queued for? | No: `AppliesPersistedPlan`, `AppliesToPlannedTarget`, `RunsAtQueuedRevision`, `TerminalIsFinal`, `LeaseRespected` and `LeaseMatchesStatus` hold, and `ImplementsFencedRun`: rows, leases and messages keep the promise of `FencedRun` |
| `RunLiveness` | Does every run end although messages are lost and workers die? | Yes (`EveryRunEnds`) |
| `EngineFaults` | What is left of ownership and checkpoints when an execution stops, stalls or is answered late anywhere? | `FirstInsertOnce`, `CheckpointIsOwned`, `BindsOwnItems` hold |
| `OutboxClaims` | Can two workers decide about one item? | The latest attempt decides (`LatestAttemptDecides`), attempts are bounded (`RetriesAreBounded`), what was accepted is acknowledged (`AcceptedIsAcknowledged`) |
| `OutboxLiveness` | Is every ended run announced, and every item settled? | Yes (`EveryRunIsAnnounced`, `EveryItemSettles`), but for items that retention removes |
| `PlannerSlots` | Do repeated runs converge without touching what belongs to others? | `RunsSettle` (`Converges` and `OneItemPerPlacement`) holds for placements after an anchor; `OwnsOnlyWanted` and `RunsTouchOnlyTheirOwn` hold |
| `Accounts` | Does anything outlive what ended it, when handlers overlap? | No: sessions belong to the password and factor of today (`SessionsAreCurrent`), spent codes stay spent (`SpentCodesStaySpent`), links work once (`LinksWorkOnce`); only verification and resend can deadlock (`OnlyVerificationDeadlocks`) |
| `Members` | Can concurrent managers break a workspace? | `AlwaysAnOwner`, `OwnershipQuota`, `SeatsAreLimited`, `OnlyManagersManage` hold; only an invite that finds its row late can deadlock (`OnlyLateRowsDeadlock`) |
| `Connections` | Does the recorded test tell of this connection, and can items lose theirs? | `RecordsAreRecent`, `OutcomeMatchesTime` and `BoundWhereWritten` hold |
| `DocIdempotent` | Is an execution idempotent, as `docs/architecture.md:59` says? | **Violated** (`InsertedOnce`): see findings |
| `DocEnforce` | Does enforcing converge, as the profile editor says? | **Violated** (`Converges` with a placement in front of a headline): see findings |

Each module with a state also has its type invariant `TypeOK` in its main run. The two
violated runs state what a document of the repository says, and TLC shows a behaviour
of the code that contradicts it.

### Bounds, and why they are enough

* `RunFencing`: one run of one profile, two executions, two connections, two revisions,
  two plan contents, two faults. Every property is about one run and the executions that
  have claimed it; two executions are the stale one and its successor, the two faults are
  what is needed to make the first one stale and lose the successor's message. Two
  revisions and connections are the queued and the later one.
* `RunScheduling`: two profiles (one with a configuration that cannot be read), two rows,
  a batch of two: what a stale anti-join and the partial unique index need to disagree.
  Fencing is not the question here, so there are no faults.
* `RunLiveness`: one run, two faults anywhere. The leases are two ticks, redelivery one,
  in the order of the code's settings.
* `EngineFaults`: seven plans, chosen for the cases of the planner's output (both kinds of
  anchor, an insert anchored on another insert, the same song twice, a song that already
  stands beside the slot, a replacement, an owned no-op, deletions, a clean-up, a song to create, events that
  are ready, ambiguous and skipped); one crash, one stall, one provider error and one
  edit, together, at any place; two executions. What people add, or make of an item, is a
  header or the very song that most of the plans are about to insert. One stall is one lease of a live
  execution that lapses; with two, in the middle of a write, nothing fences the writer
  (`FirstInsertOnce` says so in its comment).
* `OutboxClaims`: one push item, two workers, two signals, two attempts, two faults: a
  claim, its takeover and the late report of the first worker. `OutboxLiveness`: an item
  of a run and a mail, one worker, one attempt, one fault, two signals.
* `PlannerSlots`: two profiles, two songs and one that cannot be matched, four services,
  two configurations of one profile, an agenda with three headlines and two foreign songs,
  one that a run keeps or replaces and one that it always replaces;
  three runs, one change, one edit, one stop. Two runs are needed to see convergence, a
  third to see it after a change or a stop.
* `Accounts`: two requests, two sessions, two links, two codes, two passwords, two
  secrets. Every property is about one handler that waits while another commits; two
  sessions are the revoked and the surviving one, two links a used one and its sibling.
* `Members`: one workspace, three users, two requests, an ownership quota of one, seat
  quotas of one and two. Two owners and a third person are the least for a mutual
  demotion and an invitation; the number of workspaces owned elsewhere stands for a
  second workspace. A quota of one makes every hand-over critical.
* `Connections`: two clients, two identities, two versions, two flights; lifetimes of
  four, three, two and one tick in the order of the code's 60, 30, 20 and 5 seconds, and
  a message that is dropped after four. Two flights are the least for an answer to a
  flight that is over.

Time is counted as the distance to a deadline (ticks left), so that no clock grows.
Symmetry is used for execution tokens, plan contents, workers, signals, users and the
like, which no action orders or compares, and only in runs without liveness.

Deadlock is not checked in `EngineFaults`, `PlannerSlots`, `Accounts` and the violated
runs of their modules: a run that has ended, a budget that is spent and leases that are
free are the intended end; in `Accounts` the passwords, secrets and links that the bounds
allow are used up. Waiting for row locks in a circle is a state of its own there and in
`Members` (`Deadlocked`), which PostgreSQL resolves by ending one transaction. Everywhere
else TLC checks that something can always go on.

### Fairness, and why the code justifies it

* `RunLifecycle`, `FairSpec`: time passes; the scheduler loops for ever and every tick
  ends by commit or by roll-back (`SchedulerSelect`, `CreateDueRuns`, `TickRolledBack`);
  the broker delivers what it holds (a claim is granted or refused); an execution that is
  alive takes its next step and renews. Nothing is fair about the API, cancellation,
  crashes, errors or losses. `Tick` waits for a healthy execution to renew
  (`HeartbeatsOnTime`: the heartbeat runs at a third of the lease); one that has lost its
  heartbeat is bound by nothing.
* `Outbox`, `FairSpec`: time passes, the scheduler's `Maintenance` runs, the dispatch token
  expires, a busy worker goes on, an idle one takes a message that waits.
  `WorkersOnTime` is the same condition for claims, which a healthy worker renews.
* `Connections` assumes of time that a client between two waits takes less than a tick
  (`ClientsOnTime`: calls to Redis time out after a second, polling waits 50 milliseconds,
  the shortest lifetime is five seconds). A client that stalls for longer could record an
  answer as old as its stall; nothing is assumed of actors, messages and providers.
* `SyncEngine`, `Planner`, `Accounts`, `Members` and `Connections` state safety only. That
  an execution of the engine comes to its end is part of `EveryRunEnds` of
  `RunLifecycle`, which abstracts the engine to a step that is taken.

## What is proved

TLAPS proves the following for every value of the constants. A proof module rests on the
assumption its component states about its constants and, one hypothesis of `SyncEngineProofs`
aside (`MaxStalls <= 1`, below), on nothing else: `ConstantsAssumption` in `RunLifecycle` and `Outbox`,
`EngineAssumption`, `ConnectionsAssumption`, `AccountsAssumption`, `MembersAssumption`,
`PlannerAssumption`. They say that bounds and lifetimes are numbers of
the right sign and order, that null values are not members of what they are null of, and
that the sets the program counts (profiles; users and workspaces) are finite;
`EngineAssumption` also says what the planner guarantees of a plan (`WellFormed`: the actions
of an event concern it and are listed once, an item that was there is given to one action),
and `PlannerAssumption` that services are sequences of songs, that the items of an agenda
have different numbers below the first new one, and that placements have integer bounds.
TLC evaluates them in every run. Each invariant below was checked by TLC before it was proved.

### Runs (`RunLifecycleProofs`, `FencedRunProofs`)

Everything rests on `TypeInv` (`TypeOK` and the shape of executions and unused rows).
Then, one invariant each:

* `OneActiveRun` is inductive with the types: the partial unique index of a tick decides on
  the rows, whatever the snapshot said (`TickEffect` sums up a tick). So are `ArchivedIsQuiet`
  and `LeaseMatchesStatus`, which carries `LeaseRespected` and `TerminalIsFinal`.
* `AppliesPersistedPlan` needs `PlanInv`: what an execution computes or applies is a plan.
* `RunsAtQueuedRevision` needs `RevisionInv`: a row nobody has used has no execution and no
  plan, and the plan in an execution's hands is of the revision the execution has read.
* `AppliesToPlannedTarget` needs `TargetInv`: as long as a run is active, its profile, its
  plan and its executions agree on the connection, because a profile with an active run
  cannot be moved; when the run has ended, plan and executions still agree.
* `ImplementsFencedRun`: every step of `RunLifecycle` makes of each run one of the moves of
  `FencedRun` or nothing (`FencedMove`, by `RowMoves` and one case per action), under
  `FencedInv`, the conjunction of the invariants above.

### Engine (`SyncEngineProofs`)

For any set of plans, any number of executions, and any bounds on edits, stalls, crashes and
errors.

* `TypeOK` needs `TypeInv`: the place of an execution in its block (`Shape`), ids of agenda
  items below the next one, and the events counted so far against those already passed.
* `BindsOwnItems` and `CheckpointIsOwned` need `OwnInv`. An item that came after planning and
  carries the song of an insert was made by that insert or by one of the same song, or a
  person has written that song into it (`OwnItem`, `AgendaInv`); what the engine reconciles
  and the provider's read-back adopts is therefore such an item (`AdoptedOwn`), and rows,
  results and bindings name only these or the one the action is about (`RowInv`,
  `BindingInv`, `KnowsItems`). The songs an execution has passed in its event are bound, and
  stay so: a later action replaces a binding only when it has taken the item over, and then
  its own binding stands for the replaced one (`TakenOver`, `StandsFor`). No song need be
  different from another, and people may add any of them (see "Divergences" for what the
  two properties leave open).
* `FirstInsertOnce` needs `FirstInv`: an execution in an event holds its lease or is alone
  (`HoldsBlock`), up to its first check it expects the planned agenda (`Expects`), and one
  that is about to write a first insert has seen that agenda, in which the insert has no copy
  (`Clear`). It assumes `MaxStalls <= 1`, the lapse of one lease of a live execution, which is
  what the property says; after two, two executions may be in the same write.

### Deliveries (`OutboxProofs`)

`TypeInv` adds to `TypeOK` that a worker that is busy has taken a signal. `AttemptInv` is the
argument of the claim token: the claim of an item is its latest attempt, no worker knows of a
later one, and a worker that reports "sent" was accepted in that attempt (`ClaimedIsLatest`).
From it follow `LatestAttemptDecides`, `RetriesAreBounded` (attempts and reports are counted
in the same step) and `AcceptedIsAcknowledged` (`ReportsUntilSettled`: only the report, the
loss of the claim or a crash ends the obligation).

### Connections (`ConnectionsProofs`)

* `BoundWhereWritten` needs `BoundInv`: a run and a binding exist only while a profile refers
  to the connection, which can then neither be deleted nor get another identity.
* `OutcomeMatchesTime` needs `LoadedInv`: what a client's session has read is still in the
  row, or was replaced by the answer of the flight that is under way, which is the only one
  the client can still write.
* `RecordsAreRecent` needs `FlightInv` and `ProbeInv` (a client that has a request is on the
  flight of that request, and its wait ends before the flight does) and `AgeInv`: the age of
  a replaced version and the rest of the flight that may still report it add up to at most
  the lifetime of a flight.

### Accounts (`AccountsProofs`)

The core is `SeesTruth`: what a handler has read under the row lock is what the row holds,
because nobody else writes the row meanwhile. With it `SessionInv` (an open session is of
today's password and of today's second factor or none) and `LinkInv` (links are issued one
after the other, and one that was never used is fresh or locked by the verification that will
use it) are inductive and give `SessionsAreCurrent` and `LinksWorkOnce`;
`SpentCodesStaySpent` follows from `SeesTruth` alone. `OnlyVerificationDeadlocks` follows from
the order in which handlers take their locks (`Holds`).

### Members (`MembersProofs`)

* `AlwaysAnOwner` needs `OwnerInv`: what a request has read under the workspace's lock is
  still true, invitations that have run out excepted, and requests and invitations only exist
  for workspaces with an owner.
* `OwnershipQuota` needs `QuotaInv`: an account somebody has locked in order to make it an
  owner may own one more. The users and workspaces must be finite, since the quota counts.
* `OnlyLateRowsDeadlock` needs `HoldInv`: who holds which lock at which step.
* `SeatsAreLimited` and `OnlyManagersManage` are action properties of the same invariants.

### Planner (`PlannerProofs`)

For any number of profiles, services, placements (also overlapping ones and those in front
of an anchor), agendas, runs, changes, edits and stops.

* The plan is two nested loops over sequences. They are recursive functions, and what they
  compute is proved by induction over a *set* of numbers (`NaturalsUpFrom`, from the
  well-foundedness of `<`) once for all loops: `LoopHasValues`, `LoopStaysWithin`. With it
  `PlaceSongIsRight`, `PlaceSongsIsRight`, `PlacePlacementIsRight` and
  `PlacePlacementsIsRight` say what a plan may contain, `PlanFacts` what that means for
  the actions of a run.
* `TypeOK` needs `Typed`, that a bound item was written by its owner
  (`BindingsAreExclusive`) and that one run writes at a time (`OneApplies`).
* `OwnsOnlyWanted` needs `PlansAreThorough`: what a profile owns while its run is under
  way is wanted by the plan, or the rest of the plan binds it to another place or lets it
  go; `CompleteIsWanted` is what is left of it at the checkpoint.
* `RunsTouchOnlyTheirOwn` needs `PlansArePermitted`: what a plan is still going to do is
  within the profile's rights now, as it was when the plan was made. For a replacement of a
  song that is nobody's this is only true of a plan that nothing has overtaken, which is why
  the property has that condition (see "Divergences"). `AppliedAgenda` says what each
  kind of action does to the order of headlines and texts.

What stays with TLC:

* **Liveness** (`EveryRunEnds`, `EveryItemSettles`, `EveryRunIsAnnounced`): it needs fairness
  and `ENABLED`, which this prover does not reason about.
* **`RunsSettle`** (`Converges` and `OneItemPerPlacement`): they are not true of every placement. In front
  of an anchor both fail (`DocEnforce`), and slots that meet can push each other apart, so a
  theorem would be about the services and placements of `PlannerSlots`, which TLC covers.

## Findings

* **A resumed execution may write twice** (`DocIdempotent`). `docs/architecture.md:59`
  calls actor execution idempotent. A worker that dies between the write of the second
  insert of an event and its `APPLIED` row leaves an agenda with both items. The resumed
  execution verifies the first insert again and takes the agenda it reads
  (`engine.py:482-485`) as the expected one, so the second insert passes the fingerprint
  check (`engine.py:490`), is never reconciled and is written again. `FirstInsertOnce` is
  what does hold: the insert that opens an event is recognised.
* **Enforcing duplicates songs in front of a headline** (`DocEnforce`).
  `frontend/src/views/ProfileEditorView.vue:177` promises that enforcing aligns ChurchTools
  with every run. With a placement *before* a headline the cursor starts at the headline,
  which is no song (`planner.py:452`): the songs of the previous run are not looked at, all
  of them are inserted again, and the old ones stay because their source key is among the
  desired ones (`planner.py:551`).

### Divergences met while modelling

Behaviour a reader of the code may not expect; the models contain it, no run is spent on it.

* If a service has the same song twice (keys carry the index, so the planner allows it), both
  inserts name the same anchor. An edit between the two, without any crash, makes the second
  fail the fingerprint comparison (`engine.py:490`); reconciliation (`engine.py:1016`) then
  takes the first one's item for its own. The second action is recorded as verified, the
  song stands once, the binding of the first action is replaced, and the event counts as
  synchronised. `engine.py:977-980`, "deliberately strict about item identity/position", is
  true of different songs only. In the same way a copy of the song that a person has put
  beside the anchor since the plan was made is reconciled and bound, and later runs may
  delete or overwrite it. `BindsOwnItems` and `CheckpointIsOwned` say exactly what is left:
  an insert binds an item of its song that came after planning, from an insert of that song
  or from somebody who wrote it, and a placed song has a binding, if only that of a twin.
* An action whose row is `FAILED` when a run is resumed is still looked for on the agenda
  (`engine.py:488`); if it is found there, the action is verified, bound and counts for the
  checkpoint, while its row keeps saying that it failed (`runtime.py:472`).
* A song a person puts into an owned item during a run is deleted by that run when a
  no-op or a re-verification in front of the delete takes the agenda it reads as the
  expected one without comparing it (`engine.py:557`), while `planner.py:589` grants delete
  authority only for the song last verified.
* `docs/architecture.md:52` says that before each event is applied the agenda is fetched again
  and its fingerprint checked. Only a mutating action compares (`engine.py:488`), while what
  any verified action has read, a no-op too, is expected from then on (`engine.py:557`). A
  plan that begins with a no-op therefore accepts an agenda that people or another profile
  have changed since, and its later replacement may overwrite an item that the other profile
  has bound meanwhile: on the agenda *headline, A, C, headline* one run plans to keep A and to
  replace C by B; a person moves the second headline in front of C; a run of the other
  profile replaces C and binds it; the first run then starts, accepts A, and overwrites
  the song of the other. No run deletes an item of another profile, and a plan that nothing
  has overtaken does not overwrite one: `RunsTouchOnlyTheirOwn` says this, with `disturbed`
  for the plans that were overtaken.
* Retention deletes an old notification and, by the cascade of `models.py:636`, its open
  outbox item; `tests/test_outbox.py:728` keeps a pending item that has no notification.
* A run that stops after it has written leaves the checkpoint of the last complete run.
  When the service changes back to what that checkpoint describes, later runs skip it as
  unchanged (`engine.py:148`) although the agenda shows the songs of the stopped run.
* A push endpoint reported gone revokes the subscription by id even if the member has
  registered it again meanwhile (`outbox.py:799`); the next registration repairs it.
* `fanout_pending_runs` handles its batch in one transaction in front of every drain
  (`notification_worker.py:95`): a run whose fan-out always raises would hold back every
  delivery. The fan-out of the model cannot fail.
* The comment of `workspaces.py:393` names one lock order, invitation first; the second
  look of line 407 locks an invitation while the workspace is held. `Members` shows that
  this is the only way to deadlock.
* An invite whose author loses the manager's role while it waits still succeeds: the
  tenant policy on invitations asks for a membership of any role. `OnlyManagersManage`
  is therefore about memberships alone.
* Revoking an invitation that was accepted while the request was under way answers as
  if it had revoked it.
* `update_connection` keeps `last_test_*`: the recorded test may tell of credentials that
  were replaced, immediately after any update, and through a joined flight for a flight
  and a cooldown longer (`RecordsAreRecent` states that bound).

## What is not modelled

Rendering, wording, translation and the web client; parsing and paging of provider
responses; SMTP, VAPID and HTTP below "accepted, refused, unknown"; the policies and
column privileges that keep workers, API and administration apart; migration steps;
cron arithmetic; hashing, encryption and CSRF; the deactivation of a user, which no
handler does; share locks of foreign keys, which could close a circle outside `Accounts`
and `Members` (`request_recovery`, `auth.py:575` and `605`, against `update_member_role`,
`workspaces.py:268` and `287`). Rate limits are a refusal at any step.
Smaller differences, none of which a property depends on: `Members.Revoke` deletes the
invitation of an address, the code that of an id (`workspaces.py:524`), so the model can also
delete one that was opened again in between; `Outbox.Complete` takes a push that was accepted
as completed although `_touch_push_subscription` may fail after it; `Connections.Record`
leaves out the exception nobody expects (`connections.py:532`) and the tester inside the
process (`connections.py:520`), which production does not use; `Accounts.CommitDisable`
resets the time of the second factor also where the code had read none and writes nothing
(`auth.py:837`).
Matching (`sync/matching.py`) and key rotation (`rotate_encryption.py`) are left out: the
first is a pure function of two snapshots whose result `Planner` takes as its input, the
second one transaction under a maintenance lock. `PROJECT.json` lists every part with its
status.

## Plan

Modelled, checked and proved so far: see above. Next:

1. **`Planner`**: a condition on placements and services under which `Converges` and
   `OneItemPerPlacement` hold for every agenda, and a run that shows the overwritten item of
   another profile (see "Divergences") on two profiles and one edit.
2. **Refinement**: `SyncEngine` as an implementation of an abstract event that is opened,
   worked on and closed by one owner at a time.
3. **`Matching`**: event rules and time windows against a reference definition over
   bounded inputs; **`Rotation`**: the transaction over all secrets.
4. **Composition**: `SyncEngine` with the row and fencing of `RunLifecycle` as instance, so that
   its run lease is the one proved about; `Planner` supplies the plans that `SyncEngine` is
   checked with, as a set of reachable plans instead of seven chosen ones.
