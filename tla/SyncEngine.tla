------------------------------ MODULE SyncEngine ------------------------------
(***************************************************************************)
(* How SyncOrchestrator applies a persisted plan: catalogue preparation,   *)
(* then event by event and action by action check, write, verify and bind, *)
(* with the run lease (PostgreSQL), the event leases (Redis), the action   *)
(* rows, the ownership bindings and the remote agendas as shared state.    *)
(* Executions of the same run follow each other after a crash, or overlap  *)
(* when the leases of a stalled one expire; people edit the agendas at any *)
(* time.                                                                   *)
(*                                                                         *)
(* An agenda is the sequence of its items and its own fingerprint.  A song *)
(* stands for a (song, arrangement) pair.  Leases have no clock here: a    *)
(* dead execution's lease may lapse at any time, a live one's only by      *)
(* spending a stall (RunLifecycle has the timers).  A step ends where the  *)
(* code awaits the provider, or commits, and another actor can get in.     *)
(***************************************************************************)
EXTENDS Integers, Sequences, FiniteSets, SequencesExt

CONSTANTS
  Executions,     \* fencing tokens
  NoExec,
  Plans,          \* persisted plans to start from (see PlanOf... in MCSyncEngine)
  EditSongs,      \* songs people add by hand
  MaxEdits, MaxStalls, MaxCrashes, MaxErrors    \* bounds

Header == "header"        \* the song of an item that is no song
NoItem == 0
NewItem == 10             \* ids from here on are given after planning

Kinds == {"create", "insert", "replace", "delete", "noop", "cleanup"}
Items == [id : Nat, song : STRING]
PlannedActions ==
  [kind : Kinds, ev : Nat, item : 0 .. NewItem - 1, song : STRING, before : Nat, after : Nat,
   afterAct : Nat, deps : SUBSET Nat, owned : BOOLEAN]

\* What SyncPlanner guarantees: the preparation only creates songs, the actions of an
\* event plan concern its target event and are listed once, and of the items that were
\* there (agenda ids are unique) or were bound, each is given to one action
\* (reserved_item_ids).
WellFormed(p) ==
  /\ p.status \in Seq(STRING) /\ p.act \in Seq(PlannedActions)
  /\ p.block \in [0 .. Len(p.status) -> Seq(DOMAIN p.act)]
  /\ p.agenda \in [DOMAIN p.status -> Seq(Items)]
  /\ p.owned \subseteq [ev : DOMAIN p.status, item : 0 .. NewItem - 1, by : {0}]
  /\ \A k \in DOMAIN p.block : \A i \in DOMAIN p.block[k] :
       LET act == p.act[p.block[k][i]] IN
       /\ IF k = 0 THEN act.kind = "create" ELSE act.kind # "create" /\ act.ev = k
       /\ \A j \in DOMAIN p.block[k] : p.block[k][i] = p.block[k][j] => i = j
  /\ \A k \in DOMAIN p.agenda : \A i, j \in DOMAIN p.agenda[k] :
       /\ p.agenda[k][i].id < NewItem
       /\ p.agenda[k][i].id = p.agenda[k][j].id => i = j
  /\ \A a, b \in DOMAIN p.act :
       /\ p.act[a].kind = "create" => p.act[a].item = NoItem
       /\ /\ {p.act[a].kind, p.act[b].kind} \subseteq Kinds \ {"create", "insert"}
          /\ p.act[a].ev = p.act[b].ev /\ p.act[a].item = p.act[b].item
          => a = b

ASSUME EngineAssumption ==
  /\ NoExec \notin Executions /\ EditSongs \subseteq STRING
  /\ {MaxEdits, MaxStalls, MaxCrashes, MaxErrors} \subseteq Nat
  /\ \A p \in Plans : WellFormed(p)

VARIABLES
  plan,           \* SyncPlan, immutable
  agenda,         \* remote: event -> sequence of [id, song]
  catalog,        \* remote: create actions whose song exists
  nextId,         \* remote: next agenda item id
  row,            \* sync_actions: action -> [st, item]
  binding,        \* remote_bindings: set of [ev, item, by]
  synced,         \* event_sync_states: events with a checkpoint
  run, holder,    \* sync_runs: status and lease_owner
  evLease,        \* Redis: block -> owner
  x,              \* executions
  made, byHand,  \* history: action -> items it has created remotely; items as
                  \* people have written them since the plan was made
  budget          \* what is left of the bounds

vars == <<plan, agenda, catalog, nextId, row, binding, synced, run, holder,
          evLease, x, made, byHand, budget>>

Actions == DOMAIN plan.act
Events == DOMAIN plan.status                  \* 1 .. n
Blocks == {0} \cup Events                     \* 0: preparation
Act(e) == plan.block[x[e].blk][x[e].idx]      \* the action at hand
Kind(a) == plan.act[a].kind
Mutating == {"insert", "replace", "delete"}
Done == {"verified", "failed", "skipped"}

Idle == [pc |-> "idle", blk |-> 0, idx |-> 1, prior |-> <<>>, expect |-> <<>>,
         res |-> {}, item |-> NoItem, lost |-> FALSE, pre |-> {},
         good |-> 0, bad |-> 0, prepared |-> 0]

At(ag, id) == SelectInSeq(ag, LAMBDA it : it.id = id)
Ids(ag) == {ag[i].id : i \in DOMAIN ag}
Has(ag, id, song) == \E i \in DOMAIN ag : ag[i] = [id |-> id, song |-> song]

\* resources: what a verified action produced, [act, item].
Produced(e, a) == \E q \in x[e].res : q.act = a
ItemOf(e, a) == (CHOOSE q \in x[e].res : q.act = a).item

Fence(e) == run = "running" /\ holder = e
Leased(e) == evLease[x[e].blk] = e
Alive(e) == x[e].pc \notin {"idle", "dead"}

Spend(what) == budget[what] > 0 /\ budget' = [budget EXCEPT ![what] = @ - 1]

-----------------------------------------------------------------------------
Init ==
  /\ plan \in Plans
  /\ agenda = plan.agenda /\ catalog = {} /\ nextId = NewItem
  /\ row = [a \in Actions |-> [st |-> "planned", item |-> NoItem]]
  /\ binding = plan.owned /\ synced = {}
  /\ run = "queued" /\ holder = NoExec
  /\ evLease = [k \in Blocks |-> NoExec]
  /\ x = [e \in Executions |-> Idle]
  /\ made = [a \in Actions |-> {}] /\ byHand = {}
  /\ budget = [edit |-> MaxEdits, stall |-> MaxStalls, crash |-> MaxCrashes,
               error |-> MaxErrors]

-----------------------------------------------------------------------------
(* action_finished: a terminal row never changes, an applied one is never skipped. *)

Settled(r, st) == r.st \in Done \/ (r.st = "applied" /\ st = "skipped")

WithRow(rows, a, st, item) ==
  IF Settled(rows[a], st) THEN rows ELSE [rows EXCEPT ![a] = [st |-> st, item |-> item]]

\* _skip_remaining from position i of the block
SkipFrom(rows, k, i) ==
  [a \in Actions |->
     IF /\ \E j \in i .. Len(plan.block[k]) : plan.block[k][j] = a
        /\ ~Settled(rows[a], "skipped")
     THEN [st |-> "skipped", item |-> NoItem] ELSE rows[a]]

-----------------------------------------------------------------------------
(* Control: how a block or an execution ends. *)

Remote == <<agenda, catalog, nextId, made, byHand>>

Release(e) == evLease' = [k \in Blocks |-> IF evLease[k] = e THEN NoExec ELSE evLease[k]]

\* A fenced write that fails raises out of _apply_plan; execute's own finish is
\* then a stale completion too.  The same end has a run found canceled.
Stop(e) ==
  /\ x' = [x EXCEPT ![e] = [Idle EXCEPT !.pc = "dead"]]
  /\ Release(e)
  /\ UNCHANGED <<plan, Remote, row, binding, synced, run, holder>>

\* Mutation: the preparation counts like an event.
NextBlockCountsPreparation(e, good) ==
  x' = [x EXCEPT ![e] = [@ EXCEPT
          !.pc = "block", !.blk = x[e].blk + 1, !.idx = 1, !.lost = FALSE, !.item = NoItem,
          !.good = IF good THEN x[e].good + 1 ELSE x[e].good,
          !.bad = IF good THEN x[e].bad ELSE x[e].bad + 1]]

\* Leave the block; the event counts as a success or a failure.
NextBlock(e, good) ==
  x' = [x EXCEPT ![e] = [@ EXCEPT
          !.pc = "block", !.blk = x[e].blk + 1, !.idx = 1, !.lost = FALSE, !.item = NoItem,
          !.good = IF x[e].blk > 0 /\ good THEN x[e].good + 1 ELSE x[e].good,
          !.bad = IF x[e].blk > 0 /\ ~good THEN x[e].bad + 1 ELSE x[e].bad]]

\* The action at hand ended as st: the rest of the event is skipped, a
\* preparation goes on with its next action.
Failed(e, st) ==
  LET a == Act(e)  k == x[e].blk
      settled == WithRow(row, a, st, NoItem)
  IN
  IF ~Fence(e) THEN Stop(e)
  ELSE IF k = 0
  THEN /\ row' = settled
       /\ x' = [x EXCEPT ![e] = [@ EXCEPT !.pc = "gate", !.idx = x[e].idx + 1]]
       /\ UNCHANGED <<plan, Remote, binding, synced, run, holder, evLease>>
  ELSE /\ row' = SkipFrom(settled, k, x[e].idx + 1)
       /\ NextBlock(e, FALSE)
       /\ Release(e)
       /\ UNCHANGED <<plan, Remote, binding, synced, run, holder>>

Goto(e, pc) == x' = [x EXCEPT ![e].pc = pc]

-----------------------------------------------------------------------------
(* execute and _apply_plan *)

\* claim, load_plan, prior_executions
Begin(e) ==
  /\ x[e].pc = "idle" /\ run = "queued"
  /\ run' = "running" /\ holder' = e
  /\ x' = [x EXCEPT ![e] = [Idle EXCEPT !.pc = "block", !.prior = row]]
  /\ UNCHANGED <<plan, Remote, row, binding, synced, evLease, budget>>

OpenBlock(e) ==
  LET k == x[e].blk
      passive == (k = 0 /\ plan.block[0] = <<>>) \/ (k > 0 /\ plan.status[k] = "skipped")
  IN
  /\ x[e].pc = "block" /\ k \in Blocks
  /\ UNCHANGED budget
  /\ IF passive
     THEN /\ x' = [x EXCEPT ![e].blk = @ + 1]
          /\ UNCHANGED <<plan, Remote, row, binding, synced, run, holder, evLease>>
     ELSE IF k > 0 /\ plan.status[k] # "ready"
     THEN /\ NextBlock(e, FALSE)
          /\ UNCHANGED <<plan, Remote, row, binding, synced, run, holder, evLease>>
     ELSE IF run = "canceled" THEN Stop(e)
     ELSE IF evLease[k] = NoExec
     THEN /\ evLease' = [evLease EXCEPT ![k] = e]
          /\ x' = [x EXCEPT ![e] = [@ EXCEPT !.pc = "gate",
                     !.expect = IF k = 0 THEN <<>> ELSE plan.agenda[k]]]
          /\ UNCHANGED <<plan, Remote, row, binding, synced, run, holder>>
     ELSE IF ~Fence(e) THEN Stop(e)            \* catalog_locked, event_locked
     ELSE /\ row' = SkipFrom(row, k, 1)
          /\ NextBlock(e, FALSE)
          /\ UNCHANGED <<plan, Remote, binding, synced, run, holder, evLease>>

\* The last action of a block is done: checkpoint, release, count.
CloseBlock(e) ==
  LET k == x[e].blk IN
  /\ x[e].pc = "gate" /\ x[e].idx > Len(plan.block[k])
  /\ UNCHANGED budget
  /\ IF k > 0 /\ ~Fence(e) THEN Stop(e)
     ELSE /\ synced' = IF k > 0 THEN synced \cup {k} ELSE synced
          /\ NextBlock(e, TRUE)
          /\ Release(e)
          /\ UNCHANGED <<plan, Remote, row, binding, run, holder>>

Ready == {k \in Events : plan.status[k] = "ready"}

Outcome(e) ==
  IF Ready = {} THEN IF x[e].bad > 0 THEN "failed" ELSE "skipped"
  ELSE IF x[e].bad = 0 /\ x[e].good = Cardinality(Ready) THEN "succeeded"
  ELSE IF x[e].good > 0 \/ x[e].prepared > 0 THEN "partial"
  ELSE "failed"

Finish(e) ==
  /\ x[e].pc = "block" /\ x[e].blk \notin Blocks
  /\ IF Fence(e) THEN run' = Outcome(e) /\ holder' = NoExec
     ELSE UNCHANGED <<run, holder>>
  /\ x' = [x EXCEPT ![e] = [Idle EXCEPT !.pc = "dead"]]
  /\ UNCHANGED <<plan, Remote, row, binding, synced, evLease, budget>>
-----------------------------------------------------------------------------
(* _apply_event and _execute_or_resume, one action at a time *)

Missing(e, a) == \E d \in plan.act[a].deps : ~Produced(e, d)

\* cancel check, lease renewal, dependencies, and where a prior outcome leads
Gate(e) ==
  LET a == Act(e)  k == x[e].blk  prior == x[e].prior[a] IN
  /\ x[e].pc = "gate" /\ x[e].idx <= Len(plan.block[k])
  /\ UNCHANGED budget
  /\ IF run = "canceled" \/ ~Fence(e) THEN Stop(e)
     ELSE IF x[e].lost \/ ~Leased(e)
     THEN IF k = 0
          THEN /\ row' = SkipFrom(row, 0, x[e].idx)
               /\ NextBlock(e, FALSE) /\ Release(e)
               /\ UNCHANGED <<plan, Remote, binding, synced, run, holder>>
          ELSE Failed(e, "failed")
     ELSE IF Missing(e, a) THEN Failed(e, "skipped")
     ELSE IF k > 0 /\ Kind(a) \in Mutating /\ prior.st \notin {"verified", "applied"}
     THEN Goto(e, "check") /\ UNCHANGED <<plan, Remote, row, binding, synced, run, holder, evLease>>
     ELSE IF prior.st \in {"failed", "skipped"} THEN Failed(e, prior.st)
     ELSE /\ x' = [x EXCEPT ![e] = [@ EXCEPT
                     !.pc = IF prior.st = "planned" THEN "start" ELSE "verify",
                     !.item = prior.item]]
          /\ UNCHANGED <<plan, Remote, row, binding, synced, run, holder, evLease>>

\* Where an insert goes: the index its item takes in the agenda, 0 if the
\* anchor is gone.
AfterItem(e, a) == IF plan.act[a].afterAct # 0 THEN ItemOf(e, plan.act[a].afterAct)
                   ELSE plan.act[a].after
Slot(e, a, ag) ==
  IF plan.act[a].before # NoItem THEN At(ag, plan.act[a].before)
  ELSE IF At(ag, AfterItem(e, a)) = 0 THEN 0 ELSE At(ag, AfterItem(e, a)) + 1

\* The position, next to the anchor, where a committed insert would be seen.
Neighbour(e, a, ag) ==
  IF plan.act[a].before # NoItem THEN At(ag, plan.act[a].before) - 1 ELSE Slot(e, a, ag)

\* Mutation: any copy of the song in the slot is taken for our own.
ReconciledByPlace(e, a, ag) ==
  LET act == plan.act[a]  i == Neighbour(e, a, ag) IN
  CASE act.kind = "delete"  -> IF At(ag, act.item) = 0 THEN {act.item} ELSE {}
    [] act.kind = "replace" -> IF Has(ag, act.item, act.song) THEN {act.item} ELSE {}
    [] act.kind = "insert"  ->
         IF i \in DOMAIN ag /\ ag[i].song = act.song THEN {ag[i].id} ELSE {}

\* _reconcile_agenda_effect: the item an earlier, unrecorded write left behind.
Reconciled(e, a, ag) ==
  LET act == plan.act[a]  i == Neighbour(e, a, ag) IN
  CASE act.kind = "delete"  -> IF At(ag, act.item) = 0 THEN {act.item} ELSE {}
    [] act.kind = "replace" -> IF Has(ag, act.item, act.song) THEN {act.item} ELSE {}
    [] act.kind = "insert"  ->
         IF /\ i \in DOMAIN ag /\ ag[i].song = act.song
            /\ ag[i].id \notin Ids(plan.agenda[act.ev])
         THEN {ag[i].id} ELSE {}

\* Mutation: the agenda is not compared again before a write.
AsExpectedAssumed(e, ag) == TRUE

\* Nobody has changed the agenda since the fingerprint was taken.
AsExpected(e, ag) == ag = x[e].expect

\* The agenda is fetched again and compared with the expected fingerprint.
Check(e) ==
  LET a == Act(e)  ag == agenda[plan.act[a].ev]  found == Reconciled(e, a, ag) IN
  /\ x[e].pc = "check"
  /\ UNCHANGED budget
  /\ IF AsExpected(e, ag)
     THEN IF x[e].prior[a].st = "planned"
          THEN /\ Goto(e, "start")
               /\ UNCHANGED <<plan, Remote, row, binding, synced, run, holder, evLease>>
          ELSE Failed(e, x[e].prior[a].st)
     ELSE IF ~Fence(e) THEN Stop(e)
     ELSE IF found = {} THEN Failed(e, "failed")
     ELSE LET item == CHOOSE i \in found : TRUE IN
          /\ row' = WithRow(row, a, "applied", item)
          /\ x' = [x EXCEPT ![e] = [@ EXCEPT !.pc = "verify", !.item = item]]
          /\ UNCHANGED <<plan, Remote, binding, synced, run, holder, evLease>>

\* get_agenda raises: nothing records it on the action, execute ends the run.
CheckError(e) ==
  /\ x[e].pc = "check" /\ Spend("error")
  /\ IF Fence(e) THEN run' = "failed" /\ holder' = NoExec ELSE UNCHANGED <<run, holder>>
  /\ x' = [x EXCEPT ![e] = [Idle EXCEPT !.pc = "dead"]]
  /\ Release(e)
  /\ UNCHANGED <<plan, Remote, row, binding, synced>>

\* action_started: the last fence in front of the remote write
Start(e) ==
  /\ x[e].pc = "start"
  /\ UNCHANGED budget
  /\ IF Fence(e) /\ row[Act(e)].st = "planned"
     THEN Goto(e, "write") /\ UNCHANGED <<plan, Remote, row, binding, synced, run, holder, evLease>>
     ELSE Failed(e, "failed")

\* What the action names is still there, and its resources are resolved.
Possible(e, a) ==
  LET act == plan.act[a] IN
  CASE act.kind = "insert" -> ~Missing(e, a) /\ Slot(e, a, agenda[act.ev]) # 0
    [] act.kind \in {"replace", "delete"} -> ~Missing(e, a) /\ At(agenda[act.ev], act.item) # 0
    [] OTHER -> TRUE

\* The remote effect of action a; the result is the item concerned.
Effect(e, a, item) ==
  LET act == plan.act[a]  k == act.ev IN
  /\ Possible(e, a)
  /\ CASE act.kind = "insert" ->
           /\ item = nextId
           /\ agenda' = [agenda EXCEPT ![k] =
                InsertAt(agenda[k], Slot(e, a, agenda[k]), [id |-> item, song |-> act.song])]
           /\ nextId' = nextId + 1
           /\ made' = [made EXCEPT ![a] = made[a] \cup {item}]
           /\ UNCHANGED <<catalog, byHand>>
      [] act.kind = "replace" ->
           /\ item = act.item
           /\ agenda' = [agenda EXCEPT ![k] =
                ReplaceAt(agenda[k], At(agenda[k], item), [id |-> item, song |-> act.song])]
           /\ UNCHANGED <<nextId, catalog, made, byHand>>
      [] act.kind = "delete" ->
           /\ item = act.item
           /\ agenda' = [agenda EXCEPT ![k] = RemoveAt(agenda[k], At(agenda[k], item))]
           /\ UNCHANGED <<nextId, catalog, made, byHand>>
      [] act.kind = "create" ->
           /\ item = NoItem /\ catalog' = catalog \cup {a}
           /\ UNCHANGED <<agenda, nextId, made, byHand>>
      [] OTHER -> item = act.item /\ UNCHANGED Remote

WriteTargets(a) == {nextId, plan.act[a].item}

\* _apply_action, the response arrives
Write(e) ==
  /\ x[e].pc = "write"
  /\ \E item \in WriteTargets(Act(e)) :
       /\ Effect(e, Act(e), item)
       /\ x' = [x EXCEPT ![e] = [@ EXCEPT !.pc = "applied", !.item = item]]
  /\ UNCHANGED <<plan, row, binding, synced, run, holder, evLease, budget>>

\* The response is lost, with or without the effect (IndeterminateWriteError).
WriteIndeterminate(e) ==
  LET a == Act(e) IN
  /\ x[e].pc = "write" /\ Kind(a) \in Mutating /\ Spend("error")
  /\ \/ \E item \in WriteTargets(a) : Effect(e, a, item)
     \/ UNCHANGED Remote
  /\ x' = [x EXCEPT ![e] = [@ EXCEPT !.pc = "reread", !.pre = Ids(agenda[plan.act[a].ev])]]
  /\ UNCHANGED <<plan, row, binding, synced, run, holder, evLease>>

\* The provider refuses the write, for a reason of its own or because what the
\* action names is gone.
WriteRefused(e) ==
  LET a == Act(e) IN
  /\ x[e].pc = "write" /\ Kind(a) \in Mutating \cup {"create"}
  /\ IF Possible(e, a) THEN Spend("error") ELSE UNCHANGED budget
  /\ Failed(e, "failed")

\* The provider's read-back after a lost response: adopt the one new item in
\* the requested position, the replaced item, or the absence of a deleted one.
Adoptable(e, a, ag) ==
  LET act == plan.act[a]  i == Neighbour(e, a, ag)
      new == {j \in DOMAIN ag : ag[j].id \notin x[e].pre /\ ag[j].song = act.song}
  IN CASE act.kind = "insert" ->
            IF i \in DOMAIN ag /\ new = {i} THEN {ag[i].id} ELSE {}
       [] act.kind = "replace" -> IF Has(ag, act.item, act.song) THEN {act.item} ELSE {}
       [] act.kind = "delete" -> IF At(ag, act.item) = 0 THEN {act.item} ELSE {}

Reread(e) ==
  LET a == Act(e)  found == Adoptable(e, a, agenda[plan.act[a].ev]) IN
  /\ x[e].pc = "reread"
  /\ UNCHANGED budget
  /\ IF found = {} THEN Failed(e, "failed")
     ELSE /\ x' = [x EXCEPT ![e] = [@ EXCEPT !.pc = "applied", !.pre = {},
                                             !.item = CHOOSE i \in found : TRUE]]
          /\ UNCHANGED <<plan, Remote, row, binding, synced, run, holder, evLease>>

RecordApplied(e) ==
  /\ x[e].pc = "applied"
  /\ UNCHANGED budget
  /\ IF ~Fence(e) THEN Stop(e)
     ELSE IF x[e].lost THEN Failed(e, "failed")
     ELSE /\ row' = WithRow(row, Act(e), "applied", x[e].item)
          /\ Goto(e, "verify")
          /\ UNCHANGED <<plan, Remote, binding, synced, run, holder, evLease>>

\* What _verify_action must find in the target
Confirmed(e, a) ==
  LET act == plan.act[a] IN
  CASE act.kind = "create"  -> a \in catalog
    [] act.kind = "cleanup" -> TRUE
    [] act.kind = "delete"  -> At(agenda[act.ev], act.item) = 0
    [] OTHER -> Has(agenda[act.ev], x[e].item, act.song)

ReadsAgenda(a) == Kind(a) \notin {"create", "cleanup"}

\* Read back, record the row unless it is only verified again, take the agenda
\* that was read as the next expected one.
Verify(e) ==
  LET a == Act(e) IN
  /\ x[e].pc = "verify"
  /\ UNCHANGED budget
  /\ IF ~Confirmed(e, a) \/ x[e].lost THEN Failed(e, "failed")
     ELSE IF x[e].prior[a].st # "verified" /\ ~Fence(e) THEN Stop(e)
     ELSE /\ row' = IF x[e].prior[a].st = "verified" THEN row
                    ELSE WithRow(row, a, "verified", x[e].item)
          /\ x' = [x EXCEPT ![e] = [@ EXCEPT !.pc = "bind",
                     !.expect = IF ReadsAgenda(a) THEN agenda[plan.act[a].ev] ELSE x[e].expect]]
          /\ UNCHANGED <<plan, Remote, binding, synced, run, holder, evLease>>

VerifyError(e) ==
  /\ x[e].pc = "verify" /\ Spend("error") /\ Failed(e, "failed")

\* Mutation: a replaced item keeps the binding of an earlier run.
BoundInsertsOnly(a, item) ==
  LET act == plan.act[a]
      others == {b \in binding : ~(b.ev = act.ev /\ b.item = item)}
      mine == [ev |-> act.ev, item |-> item, by |-> a]
  IN CASE act.kind \in {"delete", "cleanup"} -> others
       [] act.kind = "insert" -> others \cup {mine}
       [] OTHER -> binding

\* _update_ownership: one binding per (event, item), the newest action owns it
Bound(a, item) ==
  LET act == plan.act[a]
      others == {b \in binding : ~(b.ev = act.ev /\ b.item = item)}
      mine == [ev |-> act.ev, item |-> item, by |-> a]
  IN CASE act.kind \in {"delete", "cleanup"} -> others
       [] act.kind \in {"insert", "replace"} -> others \cup {mine}
       [] act.kind = "noop" -> IF act.owned THEN others \cup {mine} ELSE binding
       [] OTHER -> binding

Bind(e) ==
  LET a == Act(e) IN
  /\ x[e].pc = "bind"
  /\ UNCHANGED budget
  /\ IF ~Fence(e) THEN Stop(e)
     ELSE IF x[e].lost THEN Failed(e, "failed")
     ELSE /\ binding' = Bound(a, x[e].item)
          /\ x' = [x EXCEPT ![e] = [@ EXCEPT !.pc = "gate", !.idx = x[e].idx + 1, !.item = NoItem,
                     !.res = x[e].res \cup {[act |-> a, item |-> x[e].item]},
                     !.prepared = IF x[e].blk = 0 THEN x[e].prepared + 1 ELSE x[e].prepared]]
          /\ UNCHANGED <<plan, Remote, row, synced, run, holder, evLease>>

-----------------------------------------------------------------------------
(* The environment *)

Crash(e) ==
  /\ Alive(e) /\ Spend("crash")
  /\ x' = [x EXCEPT ![e] = [Idle EXCEPT !.pc = "dead"]]
  /\ UNCHANGED <<plan, Remote, row, binding, synced, run, holder, evLease>>

\* The run's lease expires and the scheduler queues the run again.
RunLeaseExpires ==
  /\ run = "running"
  /\ IF Alive(holder) THEN Spend("stall") ELSE UNCHANGED budget
  /\ run' = "queued" /\ holder' = NoExec
  /\ UNCHANGED <<plan, Remote, row, binding, synced, evLease, x>>

EventLeaseExpires(k) ==
  /\ evLease[k] # NoExec
  /\ IF Alive(evLease[k]) THEN Spend("stall") ELSE UNCHANGED budget
  /\ evLease' = [evLease EXCEPT ![k] = NoExec]
  /\ UNCHANGED <<plan, Remote, row, binding, synced, run, holder, x>>

\* _heartbeat_remote_lease finds one of the leases gone, or fails to renew them.
HeartbeatNotices(e) ==
  /\ Alive(e) /\ x[e].pc # "block" /\ ~x[e].lost
  /\ IF Fence(e) /\ Leased(e) THEN Spend("error") ELSE UNCHANGED budget
  /\ x' = [x EXCEPT ![e].lost = TRUE]
  /\ UNCHANGED <<plan, Remote, row, binding, synced, run, holder, evLease>>

CancelQueued ==
  /\ run = "queued" /\ run' = "canceled"
  /\ UNCHANGED <<plan, Remote, row, binding, synced, holder, evLease, x, budget>>

PersonAdds(k, i, song) ==
  /\ Spend("edit")
  /\ agenda' = [agenda EXCEPT ![k] = InsertAt(agenda[k], i, [id |-> nextId, song |-> song])]
  /\ nextId' = nextId + 1 /\ byHand' = byHand \cup {[id |-> nextId, song |-> song]}
  /\ UNCHANGED <<plan, catalog, made, row, binding, synced, run, holder, evLease, x>>

PersonRemoves(k, i) ==
  /\ Spend("edit")
  /\ agenda' = [agenda EXCEPT ![k] = RemoveAt(agenda[k], i)]
  /\ UNCHANGED <<plan, catalog, nextId, made, byHand, row, binding, synced, run, holder,
                 evLease, x>>

PersonChanges(k, i, song) ==
  /\ Spend("edit") /\ agenda[k][i].song \notin {Header, song}
  /\ agenda' = [agenda EXCEPT ![k] =
                  ReplaceAt(agenda[k], i, [id |-> agenda[k][i].id, song |-> song])]
  /\ byHand' = byHand \cup {[id |-> agenda[k][i].id, song |-> song]}
  /\ UNCHANGED <<plan, catalog, nextId, made, row, binding, synced, run, holder, evLease, x>>

PersonEdits ==
  \E k \in Events :
    \/ \E i \in 1 .. Len(agenda[k]), s \in EditSongs \ {Header} : PersonChanges(k, i, s)
    \/ \E i \in 1 .. Len(agenda[k]) + 1, s \in EditSongs : PersonAdds(k, i, s)
    \/ \E i \in 1 .. Len(agenda[k]) : PersonRemoves(k, i)

-----------------------------------------------------------------------------
Step(e) ==
  \/ OpenBlock(e) \/ CloseBlock(e) \/ Finish(e)
  \/ Gate(e) \/ Check(e) \/ Start(e) \/ Write(e) \/ Reread(e)
  \/ RecordApplied(e) \/ Verify(e) \/ Bind(e)

Provider(e) == CheckError(e) \/ WriteIndeterminate(e) \/ WriteRefused(e) \/ VerifyError(e)

Next ==
  \/ \E e \in Executions :
       Begin(e) \/ Step(e) \/ Provider(e) \/ Crash(e) \/ HeartbeatNotices(e)
  \/ RunLeaseExpires
  \/ \E k \in Blocks : EventLeaseExpires(k)
  \/ CancelQueued
  \/ PersonEdits

Spec == Init /\ [][Next]_vars

-----------------------------------------------------------------------------
(* Properties *)

Ended == {"succeeded", "partial", "failed", "skipped", "canceled"}

TypeOK ==
  /\ agenda \in [Events -> Seq(Items)]
  /\ catalog \subseteq Actions /\ nextId \in Nat
  /\ row \in [Actions -> [st : Done \cup {"planned", "applied"}, item : Nat]]
  /\ binding \subseteq [ev : Events, item : Nat, by : Actions \cup {0}]
  /\ synced \subseteq Events
  /\ run \in Ended \cup {"queued", "running"}
  /\ holder \in Executions \cup {NoExec}
  /\ run = "running" <=> holder # NoExec
  /\ evLease \in [Blocks -> Executions \cup {NoExec}]
  /\ \A k \in Events : \A i, j \in DOMAIN agenda[k] : agenda[k][i].id = agenda[k][j].id => i = j
  /\ \A e \in Executions : Alive(e) =>
       x[e].good + x[e].bad <= Cardinality({k \in Events : plan.status[k] # "skipped"})

Copies(a) == UNION {made[a] \cap Ids(agenda[k]) : k \in Events}

\* The insert that opens an event is on the agenda at most once: an execution
\* that resumes after a crash anywhere between the remote write and the
\* recorded row finds the item instead of adding it again, whatever people do
\* to the agenda in between, and although one lease of a live execution lapses.
\* (When both do, in the middle of a write, ChurchTools cannot fence the writer.)
FirstInsertOnce ==
  \A k \in Events : plan.block[k] # <<>> => Cardinality(Copies(plan.block[k][1])) <= 1

\* The inserts of the same song into the same event: nothing on an agenda tells the
\* items of one from those of another.
Twins(a) ==
  {t \in Actions : Kind(t) = "insert" /\ plan.act[t].ev = plan.act[a].ev
                   /\ plan.act[t].song = plan.act[a].song}

\* A binding by which the next run can still manage what action a has placed: a's own;
\* for an insert, also that of another insert which has taken its item over, one of the
\* same song, or of another song when a person has had a hand in the item.
StandsFor(b, a) ==
  IF Kind(a) = "insert"
  THEN b.by # 0 /\ Kind(b.by) = "insert" /\ (b.by \in Twins(a) \/ \E it \in byHand : it.id = b.item)
  ELSE b.by = a

\* A checkpoint, after which an unchanged source event is not looked at again,
\* is only recorded when every song placed in the event is bound.
CheckpointIsOwned ==
  \A k \in synced : \A i \in DOMAIN plan.block[k] :
    LET a == plan.block[k][i] IN
    Kind(a) \in {"insert", "replace"} => \E b \in binding : b.ev = k /\ StandsFor(b, a)

\* What an insert binds, and a later run may delete or overwrite, is never an item
\* that was on an agenda when the plan was made: it came later, and either the sync
\* put it there for this song of this event, or a person wrote this very song (only then
\* can it be taken for the sync's own).
BindsOwnItems ==
  \A b \in binding : b.by # 0 /\ Kind(b.by) = "insert" =>
    /\ b.item >= NewItem
    /\ \/ \E t \in Twins(b.by) : b.item \in made[t]
       \/ [id |-> b.item, song |-> plan.act[b.by].song] \in byHand

-----------------------------------------------------------------------------
(* What the documentation says, and the model does not confirm. *)

\* docs/architecture.md: "per-execution fencing tokens, remote bindings and
\* post-write reconciliation make actor execution idempotent": no insert is on
\* the agenda twice.
InsertedOnce == \A a \in Actions : Cardinality(Copies(a)) <= 1

=============================================================================
