-------------------------------- MODULE Outbox --------------------------------
(***************************************************************************)
(* Notifications: the fan-out of ended runs into the transactional outbox, *)
(* the delivery of outbox items by competing drain workers under a claim   *)
(* token, the Redis token that limits the drain signals, and retention.    *)
(*                                                                         *)
(* A run stands for one notification of one of its members, with one item  *)
(* in the outbox; a mail is an item without a notification (registration,  *)
(* recovery).  The claim token of an item is unique per claim, and so is   *)
(* the number of the attempt, which therefore stands for it.  wait[i] is   *)
(* next_attempt_at - now, 0 when it has passed.                            *)
(***************************************************************************)
EXTENDS Integers, FiniteSets

CONSTANTS
  Runs, Mails,
  PushItems,      \* items whose channel is push
  Workers,        \* processes of the notification queue
  Signals,        \* dispatch tokens
  NoSignal,
  NoItem,
  LeaseTicks,     \* outbox_lease_seconds
  BackoffTicks,   \* delay in front of a retry
  MaxAttempts,    \* outbox_max_attempts
  BatchSize,      \* outbox_batch_size
  MaxFaults       \* bound: crashes, stalls, lost messages and outages

ASSUME ConstantsAssumption ==
  /\ LeaseTicks \in Nat \ {0, 1} /\ BackoffTicks \in Nat \ {0}
  /\ MaxAttempts \in Nat \ {0} /\ BatchSize \in Nat \ {0} /\ MaxFaults \in Nat
  /\ NoSignal \notin Signals /\ NoItem \notin Runs \cup Mails
  /\ PushItems \subseteq Runs /\ Runs \cap Mails = {}

Items == Runs \cup Mails
Waiting == {"pending", "failed"}
Settled == {"delivered", "dead"}

VARIABLES
  st, attempts, claim, wait,     \* notification_outbox
  ended, fanned, deleted,        \* sync_runs: terminal, fanned out, deleted
  subscribed,                    \* push_subscriptions: revoked_at is NULL
  aged,                          \* rows created before the retention cutoff
  fanMsgs, drainMsgs,            \* broker: run ids, dispatch tokens
  dispatch,                      \* Redis: the token of the pending drain signal
  w,                             \* drain workers
  accepted, refused, abandoned, orphans,    \* history of the attempts of each item
  faults

itemVars == <<st, attempts, claim, wait>>
runVars  == <<ended, fanned, deleted>>
histVars == <<accepted, refused, abandoned, orphans>>
vars == <<itemVars, runVars, subscribed, aged, fanMsgs, drainMsgs, dispatch, w,
          histVars, faults>>

Idle == [pc |-> "idle", item |-> NoItem, claim |-> 0, tok |-> NoSignal, left |-> 0,
         slow |-> FALSE]

Spend == faults < MaxFaults /\ faults' = faults + 1

\* The compare-and-set in front of every write of a worker to its item.
Claimed(p) ==
  /\ st[w[p].item] = "processing"
  /\ claim[w[p].item] = w[p].claim

-----------------------------------------------------------------------------
Init ==
  /\ st = [i \in Items |-> "none"] /\ attempts = [i \in Items |-> 0]
  /\ claim = [i \in Items |-> 0] /\ wait = [i \in Items |-> 0]
  /\ ended = {} /\ fanned = {} /\ deleted = {}
  /\ subscribed = TRUE /\ aged = {}
  /\ fanMsgs = {} /\ drainMsgs = {} /\ dispatch = NoSignal
  /\ w = [p \in Workers |-> Idle]
  /\ accepted = [i \in Items |-> {}] /\ refused = [i \in Items |-> {}]
  /\ abandoned = [i \in Items |-> 0] /\ orphans = [i \in Items |-> {}]
  /\ faults = 0

-----------------------------------------------------------------------------
(* Producers *)

\* A run ends; the worker that ended it sends its id for the fan-out, other
\* endings (cancellation, archival, an invalid schedule) send nothing.
RunEnds(r) ==
  /\ r \notin ended \cup deleted
  /\ ended' = ended \cup {r}
  /\ fanMsgs' \in {fanMsgs, fanMsgs \cup {r}}
  /\ UNCHANGED <<itemVars, fanned, deleted, subscribed, aged, drainMsgs, dispatch, w,
                 histVars, faults>>

\* enqueue_email in the transaction of the request that needs it
EnqueueMail(m) ==
  /\ st[m] = "none"
  /\ st' = [st EXCEPT ![m] = "pending"]
  /\ UNCHANGED <<attempts, claim, wait, runVars, subscribed, aged, fanMsgs, drainMsgs,
                 dispatch, w, histVars, faults>>

Revoke == subscribed' = FALSE
UserUnsubscribes ==
  /\ subscribed /\ Revoke
  /\ UNCHANGED <<itemVars, runVars, aged, fanMsgs, drainMsgs, dispatch, w, histVars, faults>>
UserSubscribes ==
  /\ ~subscribed /\ subscribed' = TRUE
  /\ UNCHANGED <<itemVars, runVars, aged, fanMsgs, drainMsgs, dispatch, w, histVars, faults>>

-----------------------------------------------------------------------------
(* Fan-out: fanout_run for every run of rs, in one transaction. *)

\* The member's preferences decide which of the runs get an item; a push item
\* needs a subscription, and an item that exists (deduplication_key,
\* idempotency_key) is kept.  From here on the age of a run is the age of its
\* notification: a fanned-out run is of no further consequence.
Announced(rs, wanted) ==
  /\ fanned' = fanned \cup rs /\ aged' = aged \ rs
  /\ st' = [i \in Items |-> IF i \in wanted /\ st[i] = "none" THEN "pending" ELSE st[i]]

FanOut(rs) ==
  \E wanted \in SUBSET {r \in rs : r \in PushItems => subscribed} : Announced(rs, wanted)

\* Mutation: only due items count as work.
WorkDueItemsOnly == \E i \in Items : st[i] \in Waiting \cup {"processing"} /\ wait[i] = 0

\* _notification_work_due
WorkDue ==
  \/ ended \ (fanned \cup deleted) # {}
  \/ \E i \in Items : st[i] \in Waiting \cup {"processing"} /\ wait[i] = 0

\* A token that nobody remembers.
FreshSignal(t) ==
  /\ t # dispatch /\ t \notin drainMsgs
  /\ \A p \in Workers : w[p].tok # t

\* enqueue_delivery_once: SET NX, then send; a failed send gives the token back,
\* a crash in between leaves it without a message.
EnqueueOnce ==
  \/ /\ dispatch = NoSignal
     /\ \E t \in Signals :
          /\ FreshSignal(t)
          /\ dispatch' = t
          /\ \/ drainMsgs' = drainMsgs \cup {t} /\ UNCHANGED faults
             \/ UNCHANGED drainMsgs /\ Spend
  \/ dispatch # NoSignal /\ UNCHANGED <<dispatch, drainMsgs, faults>>
  \/ UNCHANGED <<dispatch, drainMsgs>> /\ Spend

\* fanout_run_notifications_actor
FanOutDirect(r) ==
  /\ r \in fanMsgs /\ fanMsgs' \in {fanMsgs, fanMsgs \ {r}}
  /\ IF r \in deleted THEN UNCHANGED <<st, fanned, aged, dispatch, drainMsgs, faults>>
     ELSE /\ FanOut({r} \cap (ended \ fanned))
          /\ EnqueueOnce
  /\ UNCHANGED <<attempts, claim, wait, ended, deleted, subscribed, w, histVars>>

\* _dispatch_maintenance of a scheduler tick
Maintenance ==
  /\ WorkDue /\ EnqueueOnce
  /\ UNCHANGED <<itemVars, runVars, subscribed, aged, fanMsgs, w, histVars>>

\* The hour of the dispatch token is over.
DispatchExpires ==
  /\ dispatch # NoSignal /\ dispatch' = NoSignal
  /\ UNCHANGED <<itemVars, runVars, subscribed, aged, fanMsgs, drainMsgs, w, histVars, faults>>

-----------------------------------------------------------------------------
(* deliver_outbox_actor and OutboxConsumer *)

Goto(p, pc) == w' = [w EXCEPT ![p].pc = pc]

\* A signal arrives; pending runs are fanned out first.
StartDrain(p, t) ==
  /\ w[p].pc = "idle" /\ t \in drainMsgs
  /\ drainMsgs' = drainMsgs \ {t}
  /\ FanOut(ended \ (fanned \cup deleted))
  /\ w' = [w EXCEPT ![p] = [Idle EXCEPT !.pc = "drain", !.tok = t, !.left = BatchSize]]
  /\ UNCHANGED <<attempts, claim, wait, ended, deleted, subscribed, fanMsgs, dispatch,
                 histVars, faults>>

\* Mutation: items whose worker died are not taken over.
DueWaitingOnly == {i \in Items : st[i] \in Waiting /\ wait[i] = 0}

Due == {i \in Items : st[i] \in Waiting \cup {"processing"} /\ wait[i] = 0}

\* _claim_one, committed before anything is sent
ClaimOne(p, i) ==
  /\ w[p].pc = "drain" /\ w[p].left > 0 /\ i \in Due
  /\ st' = [st EXCEPT ![i] = "processing"]
  /\ attempts' = [attempts EXCEPT ![i] = @ + 1]
  /\ claim' = [claim EXCEPT ![i] = attempts[i] + 1]
  /\ wait' = [wait EXCEPT ![i] = LeaseTicks]
  /\ abandoned' = [abandoned EXCEPT ![i] = IF st[i] = "processing" THEN @ + 1 ELSE @]
  /\ w' = [w EXCEPT ![p] = [@ EXCEPT !.pc = "load", !.item = i,
                                     !.claim = attempts[i] + 1, !.left = w[p].left - 1]]
  /\ UNCHANGED <<runVars, subscribed, aged, fanMsgs, drainMsgs, dispatch, accepted,
                 refused, orphans, faults>>

\* The batch is over: release the own token, chain a successor after a full batch.
EndDrain(p) ==
  /\ w[p].pc = "drain" /\ (w[p].left = 0 \/ Due = {})
  /\ LET full == w[p].left = 0
         free == dispatch \in {NoSignal, w[p].tok}
     IN IF full /\ free
        THEN \E t \in Signals :
               /\ t \notin drainMsgs /\ (\A q \in Workers \ {p} : w[q].tok # t)
               /\ dispatch' = t /\ drainMsgs' = drainMsgs \cup {t}
        ELSE /\ dispatch' = IF free THEN NoSignal ELSE dispatch
             /\ UNCHANGED drainMsgs
  /\ w' = [w EXCEPT ![p] = Idle]
  /\ UNCHANGED <<itemVars, runVars, subscribed, aged, fanMsgs, histVars, faults>>

\* The worker's item is no longer its own: on to the next item.
NextItem(p) == w' = [w EXCEPT ![p] = [@ EXCEPT !.pc = "drain", !.item = NoItem, !.claim = 0,
                                               !.slow = FALSE]]

\* _load_delivery
Load(p) ==
  /\ w[p].pc = "load"
  /\ IF ~Claimed(p) THEN NextItem(p)
     ELSE IF w[p].item \in PushItems /\ ~subscribed THEN Goto(p, "permanent")
     ELSE Goto(p, "send")
  /\ UNCHANGED <<itemVars, runVars, subscribed, aged, fanMsgs, drainMsgs, dispatch,
                 histVars, faults>>

\* The sender returns or raises.  A push endpoint that is gone revokes the
\* subscription before the item fails.
Send(p) ==
  LET i == w[p].item IN
  /\ w[p].pc = "send"
  /\ \/ Goto(p, "sent") /\ UNCHANGED subscribed
     \/ Goto(p, "temporary") /\ UNCHANGED subscribed
     \/ Goto(p, "permanent") /\ UNCHANGED subscribed
     \/ i \in PushItems /\ Goto(p, "permanent") /\ Revoke
  /\ accepted' = IF w'[p].pc = "sent" THEN [accepted EXCEPT ![i] = @ \cup {w[p].claim}]
                 ELSE accepted
  /\ UNCHANGED <<itemVars, runVars, aged, fanMsgs, drainMsgs, dispatch, refused,
                 abandoned, orphans, faults>>

\* Mutation: a worker whose heartbeat was lost does not report.
OwnsUnlessHeartbeatLost(p) == Claimed(p) /\ ~w[p].slow

\* Mutation: the status is compared, the token is not.
OwnsByStatus(p) == st[w[p].item] = "processing"

Owns(p) == Claimed(p)

\* Mutation: the token survives the claim.
SettleKeepsToken(i, status) == st' = [st EXCEPT ![i] = status] /\ UNCHANGED claim

Settle(i, status) ==
  /\ st' = [st EXCEPT ![i] = status]
  /\ claim' = [claim EXCEPT ![i] = 0]

\* The final, fenced update after a delivery; the lease is not looked at.
Complete(p) ==
  LET i == w[p].item IN
  /\ w[p].pc = "sent"
  /\ IF Owns(p) THEN Settle(i, "delivered") ELSE UNCHANGED <<st, claim>>
  /\ NextItem(p)
  /\ UNCHANGED <<attempts, wait, runVars, subscribed, aged, fanMsgs, drainMsgs, dispatch,
                 histVars, faults>>

\* Mutation: one attempt too many.
ExhaustedLate(i) == attempts[i] > MaxAttempts

Exhausted(i) == attempts[i] >= MaxAttempts

\* _fail; the backoff counts from the start of the delivery, so that part of it
\* may have passed.
Fail(p) ==
  LET i == w[p].item  dead == w[p].pc = "permanent" \/ Exhausted(i) IN
  /\ w[p].pc \in {"temporary", "permanent"}
  /\ IF Owns(p)
     THEN /\ Settle(i, IF dead THEN "dead" ELSE "failed")
          /\ IF dead THEN UNCHANGED wait
             ELSE \E d \in 0 .. BackoffTicks : wait' = [wait EXCEPT ![i] = d]
     ELSE UNCHANGED <<st, claim, wait>>
  /\ refused' = [refused EXCEPT ![i] = @ \cup {w[p].claim}]
  /\ NextItem(p)
  /\ UNCHANGED <<attempts, runVars, subscribed, aged, fanMsgs, drainMsgs, dispatch,
                 accepted, abandoned, orphans, faults>>

\* The heartbeat thread, which runs while the sender does
RenewClaim(p) ==
  /\ w[p].pc = "send" /\ ~w[p].slow /\ Claimed(p)
  /\ wait' = [wait EXCEPT ![w[p].item] = LeaseTicks]
  /\ UNCHANGED <<st, attempts, claim, runVars, subscribed, aged, fanMsgs, drainMsgs,
                 dispatch, w, histVars, faults>>

-----------------------------------------------------------------------------
(* Faults, time and retention *)

\* The broker delivers the signal of a dead worker, or of an actor that raised, again.
Crash(p) ==
  /\ w[p].pc # "idle" /\ Spend
  /\ drainMsgs' \in {drainMsgs, drainMsgs \cup {w[p].tok}}
  /\ w' = [w EXCEPT ![p] = Idle]
  /\ orphans' = [i \in Items |-> IF i = w[p].item THEN orphans[i] \cup {w[p].claim}
                                 ELSE orphans[i]]
  /\ UNCHANGED <<itemVars, runVars, subscribed, aged, fanMsgs, dispatch, accepted, refused,
                 abandoned>>

\* The heartbeat thread ends after an error, or the whole process stalls.
HeartbeatLost(p) ==
  /\ w[p].pc \notin {"idle", "drain"} /\ ~w[p].slow /\ Spend
  /\ w' = [w EXCEPT ![p].slow = TRUE]
  /\ UNCHANGED <<itemVars, runVars, subscribed, aged, fanMsgs, drainMsgs, dispatch, histVars>>

LoseMessage ==
  /\ \/ \E r \in fanMsgs : fanMsgs' = fanMsgs \ {r} /\ UNCHANGED drainMsgs
     \/ \E t \in drainMsgs : drainMsgs' = drainMsgs \ {t} /\ UNCHANGED fanMsgs
  /\ Spend
  /\ UNCHANGED <<itemVars, runVars, subscribed, aged, dispatch, w, histVars>>

\* A worker that is not stalled comes back well within its lease.
WorkersOnTime ==
  \A p \in Workers : w[p].pc \notin {"idle", "drain"} /\ ~w[p].slow =>
    ~Claimed(p) \/ wait[w[p].item] > 1

Tick ==
  /\ WorkersOnTime
  /\ wait' = [i \in Items |-> IF wait[i] > 0 THEN wait[i] - 1 ELSE 0]
  /\ UNCHANGED <<st, attempts, claim, runVars, subscribed, aged, fanMsgs, drainMsgs,
                 dispatch, w, histVars, faults>>

\* retention_days go by.  Deliveries take hours at most, so that work which is
\* still open after the cutoff has met an outage.
Age(i) ==
  /\ i \notin aged /\ (i \in Runs => i \in ended) /\ (i \in Mails => st[i] # "none")
  /\ IF st[i] \in Settled \/ (i \in fanned /\ st[i] = "none") THEN UNCHANGED faults ELSE Spend
  /\ aged' = aged \cup {i}
  /\ UNCHANGED <<itemVars, runVars, subscribed, fanMsgs, drainMsgs, dispatch, w, histVars>>

\* RetentionService.cleanup.  The outbox statement spares open items, but the
\* notifications that go in the next one take their items with them
\* (notification_outbox.notification_id, ON DELETE CASCADE).
Cleanup ==
  /\ aged # {}
  /\ st' = [i \in Items |->
       IF i \in aged /\ st[i] # "none" /\ (i \in Runs \/ st[i] \in Settled)
       THEN "gone" ELSE st[i]]
  /\ deleted' = deleted \cup (aged \cap ended)
  /\ aged' = aged \ (deleted' \cup {i \in Mails : st[i] \in Settled})
  /\ UNCHANGED <<attempts, claim, wait, ended, fanned, subscribed, fanMsgs, drainMsgs,
                 dispatch, w, histVars, faults>>

-----------------------------------------------------------------------------
Producers ==
  \/ \E r \in Runs : RunEnds(r)
  \/ \E m \in Mails : EnqueueMail(m)
  \/ PushItems # {} /\ (UserUnsubscribes \/ UserSubscribes)

WorkerStep(p) ==
  \/ \E i \in Items : ClaimOne(p, i)
  \/ EndDrain(p) \/ Load(p) \/ Send(p) \/ Complete(p) \/ Fail(p)

Next ==
  \/ Producers
  \/ \E r \in Runs : FanOutDirect(r)
  \/ Maintenance \/ DispatchExpires
  \/ \E p \in Workers, t \in Signals : StartDrain(p, t)
  \/ \E p \in Workers : WorkerStep(p) \/ RenewClaim(p) \/ Crash(p) \/ HeartbeatLost(p)
  \/ LoseMessage
  \/ Tick
  \/ \E i \in Items : Age(i)
  \/ Cleanup

Spec == Init /\ [][Next]_vars

\* Scheduler and workers run, time passes, the token has its hour, and a
\* consumer that is free takes a message that waits.
Fairness ==
  /\ WF_vars(Tick) /\ WF_vars(Maintenance) /\ WF_vars(DispatchExpires)
  /\ \A p \in Workers :
       /\ WF_vars(WorkerStep(p)) /\ WF_vars(\E t \in Signals : StartDrain(p, t))

FairSpec == Spec /\ Fairness

-----------------------------------------------------------------------------
(* Properties *)

TypeOK ==
  /\ st \in [Items -> Waiting \cup Settled \cup {"none", "processing", "gone"}]
  /\ attempts \in [Items -> Nat] /\ claim \in [Items -> Nat]
  /\ \A i \in Items : st[i] = "processing" <=> claim[i] # 0 /\ st[i] # "gone"
  /\ wait \in [Items -> 0 .. LeaseTicks + BackoffTicks]
  /\ ended \subseteq Runs /\ fanned \subseteq ended /\ deleted \subseteq ended
  /\ aged \subseteq Items /\ fanMsgs \subseteq Runs /\ drainMsgs \subseteq Signals
  /\ dispatch \in Signals \cup {NoSignal} /\ subscribed \in BOOLEAN
  /\ \A p \in Workers : w[p].left \in 0 .. BatchSize
  /\ faults \in 0 .. MaxFaults

\* docs/architecture.md: "stale workers cannot acknowledge or fail a newer
\* attempt": what an item's row says is what became of its latest attempt.
LatestAttemptDecides ==
  \A i \in Items :
    /\ st[i] = "delivered" => attempts[i] \in accepted[i]
    /\ st[i] \in {"failed", "dead"} => attempts[i] \in refused[i]

\* An item is tried outbox_max_attempts times, and beyond that only once for
\* every attempt whose worker died or stalled before it could report.
RetriesAreBounded ==
  \A i \in Items : attempts[i] <= MaxAttempts + abandoned[i]

\* outbox.py, _deliver: an item that upstream has accepted is not left behind in
\* PROCESSING, to be sent again after its lease, unless the worker that sent it
\* died: a lost heartbeat alone does not keep it from acknowledging.
AcceptedIsAcknowledged ==
  \A i \in Items : st[i] = "processing" /\ attempts[i] \in accepted[i] =>
    \/ attempts[i] \in orphans[i]
    \/ \E p \in Workers : w[p].pc = "sent" /\ w[p].item = i /\ w[p].claim = attempts[i]

\* Every item that was committed to the outbox is delivered, given up or removed
\* by retention, although workers crash, messages and tokens get lost and
\* claims are taken over.
EveryItemSettles == \A i \in Items : st[i] = "pending" ~> st[i] \in Settled \cup {"gone"}

\* Every ended run is fanned out, whether or not the message of its worker came
\* through, unless retention deletes it.
EveryRunIsAnnounced == \A r \in Runs : r \in ended ~> r \in fanned \cup deleted

=============================================================================
