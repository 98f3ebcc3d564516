------------------------------ MODULE OutboxProofs ------------------------------
(* Proofs about Outbox, for every value of its constants. *)
EXTENDS Outbox, TLAPS

-----------------------------------------------------------------------------
(* Invariants. *)

States == Waiting \cup Settled \cup {"none", "processing", "gone"}
Busy == {"load", "send", "sent", "temporary", "permanent"}
WorkerRows ==
  {r \in [pc : {"idle", "drain"} \cup Busy, item : Items \cup {NoItem}, claim : Nat,
          tok : Signals \cup {NoSignal}, left : 0 .. BatchSize, slow : BOOLEAN] :
     r.pc # "idle" => r.tok \in Signals}

\* Type correctness, part by part, and the types TypeOK does not speak of.
ItemsTyped ==
  /\ st \in [Items -> States]
  /\ attempts \in [Items -> Nat] /\ claim \in [Items -> Nat]
  /\ wait \in [Items -> 0 .. LeaseTicks + BackoffTicks]
ClaimsTyped == \A i \in Items : st[i] = "processing" <=> claim[i] # 0 /\ st[i] # "gone"
RunsTyped ==
  /\ ended \subseteq Runs /\ fanned \subseteq ended /\ deleted \subseteq ended
  /\ aged \subseteq Items /\ fanMsgs \subseteq Runs /\ subscribed \in BOOLEAN
SignalsTyped ==
  /\ drainMsgs \subseteq Signals /\ dispatch \in Signals \cup {NoSignal}
  /\ faults \in 0 .. MaxFaults
WorkersTyped == w \in [Workers -> WorkerRows]
HistoryTyped ==
  /\ accepted \in [Items -> SUBSET Nat] /\ refused \in [Items -> SUBSET Nat]
  /\ abandoned \in [Items -> Nat] /\ orphans \in [Items -> SUBSET Nat]

TypeInv ==
  /\ ItemsTyped /\ ClaimsTyped /\ RunsTyped /\ SignalsTyped /\ WorkersTyped /\ HistoryTyped

\* An item's claim is its latest attempt; nobody has heard of a later one; an item that
\* waits was not tried yet, or has tries left.
ItemInv(i) ==
  /\ claim[i] \in {0, attempts[i]}
  /\ \A n \in accepted[i] : n <= attempts[i]
  /\ st[i] \in {"none", "pending"} => attempts[i] = 0
  /\ st[i] = "failed" => attempts[i] < MaxAttempts

\* A worker that is busy with an item has claimed it once, and reports what was accepted.
WorkerInv(p) ==
  /\ w[p].pc \in Busy => w[p].item \in Items /\ w[p].claim <= attempts[w[p].item]
  /\ w[p].pc = "sent" => w[p].claim \in accepted[w[p].item]

AttemptInv == (\A i \in Items : ItemInv(i)) /\ \A p \in Workers : WorkerInv(p)

-----------------------------------------------------------------------------
(* Types *)

LEMMA TypeInvIsTypeOK == TypeInv => TypeOK
<1> SUFFICES ASSUME TypeInv PROVE TypeOK
  OBVIOUS
<1>1. \A p \in Workers : w[p].left \in 0 .. BatchSize
  BY DEF TypeInv, WorkersTyped, WorkerRows
<1> QED
  BY <1>1 DEF TypeInv, TypeOK, ItemsTyped, ClaimsTyped, RunsTyped, SignalsTyped, States

LEMMA Bounds ==
  /\ LeaseTicks \in Nat \ {0, 1} /\ BackoffTicks \in Nat \ {0} /\ MaxAttempts \in Nat \ {0}
  /\ BatchSize \in Nat \ {0} /\ MaxFaults \in Nat
  /\ 0 \in 0 .. BatchSize /\ BatchSize \in 0 .. BatchSize
  /\ LeaseTicks \in 0 .. LeaseTicks + BackoffTicks /\ 0 \in 0 .. LeaseTicks + BackoffTicks
  /\ NoItem \notin Items
  BY ConstantsAssumption DEF Items

LEMMA IdleType ==
  /\ Idle \in WorkerRows /\ Idle.pc = "idle"
  /\ \A t \in Signals : LET x == [Idle EXCEPT !.pc = "drain", !.tok = t, !.left = BatchSize]
                        IN  x \in WorkerRows /\ x.pc = "drain"
<1>1. Idle \in WorkerRows /\ Idle.pc = "idle"
  BY Bounds DEF Idle, WorkerRows
<1> QED
  BY <1>1, Bounds DEF WorkerRows

\* What the steps of a worker make of it.
Becomes(p, pcs) ==
  /\ w' = [w EXCEPT ![p] = w'[p]] /\ w'[p] \in WorkerRows /\ w'[p].pc \in pcs
Keeps(p) == w'[p].item = w[p].item /\ w'[p].claim = w[p].claim

LEMMA NextItemEffect ==
  ASSUME WorkersTyped, NEW p \in Workers, w[p].pc # "idle", NextItem(p)
  PROVE  Becomes(p, {"drain"})
<1>1. w[p] \in WorkerRows
  BY DEF WorkersTyped
<1> DEFINE x == [w[p] EXCEPT !.pc = "drain", !.item = NoItem, !.claim = 0, !.slow = FALSE]
<1>2. w' = [w EXCEPT ![p] = x]
  BY DEF NextItem
<1>3. x \in WorkerRows /\ x.pc = "drain"
  BY <1>1 DEF WorkerRows
<1> QED
  BY <1>2, <1>3 DEF Becomes, WorkersTyped

LEMMA GotoEffect ==
  ASSUME WorkersTyped, NEW p \in Workers, NEW pc \in Busy, w[p].pc # "idle", Goto(p, pc)
  PROVE  Becomes(p, {pc}) /\ Keeps(p)
<1>1. w[p] \in WorkerRows
  BY DEF WorkersTyped
<1> DEFINE x == [w[p] EXCEPT !.pc = pc]
<1>2. w' = [w EXCEPT ![p] = x]
  BY <1>1 DEF Goto, WorkersTyped
<1>3. x \in WorkerRows /\ x.pc = pc /\ x.item = w[p].item /\ x.claim = w[p].claim
  BY <1>1 DEF WorkerRows
<1> QED
  BY <1>2, <1>3 DEF Becomes, Keeps, WorkersTyped

LEMMA StartDrainEffect ==
  ASSUME WorkersTyped, NEW p \in Workers, NEW t \in Signals, StartDrain(p, t)
  PROVE  Becomes(p, {"drain"})
  BY IdleType DEF StartDrain, Becomes, WorkersTyped

LEMMA ClaimOneEffect ==
  ASSUME TypeInv, NEW p \in Workers, NEW i \in Items, ClaimOne(p, i)
  PROVE  /\ Becomes(p, {"load"}) /\ w'[p].item = i /\ w'[p].claim = attempts[i] + 1
         /\ st[i] \in Waiting \cup {"processing"}
         /\ st' = [st EXCEPT ![i] = "processing"]
         /\ attempts' = [attempts EXCEPT ![i] = attempts[i] + 1]
         /\ claim' = [claim EXCEPT ![i] = attempts[i] + 1]
         /\ abandoned' = [abandoned EXCEPT ![i] = IF st[i] = "processing" THEN abandoned[i] + 1
                                                  ELSE abandoned[i]]
<1>1. w[p] \in WorkerRows /\ attempts[i] + 1 \in Nat
  BY DEF TypeInv, WorkersTyped, ItemsTyped
<1> DEFINE row == w[p]
           n == attempts[i] + 1
           left == w[p].left - 1
           x == [row EXCEPT !.pc = "load", !.item = i, !.claim = n, !.left = left]
<1>2. w' = [w EXCEPT ![p] = x] /\ w[p].left > 0 /\ row.pc = "drain"
  BY DEF ClaimOne
<1>3. row \in WorkerRows /\ n \in Nat /\ left \in 0 .. BatchSize /\ row.tok \in Signals
  BY <1>1, <1>2, Bounds DEF WorkerRows
<1>4. x \in WorkerRows /\ x.pc = "load" /\ x.item = i /\ x.claim = n
  <2> HIDE DEF row, n, left
  <2> QED
    BY <1>3 DEF WorkerRows, Busy
<1>5. Becomes(p, {"load"}) /\ w'[p].item = i /\ w'[p].claim = attempts[i] + 1
  BY <1>2, <1>4 DEF Becomes, TypeInv, WorkersTyped
<1>6. i \in Due
  BY DEF ClaimOne
<1> QED
  BY <1>5, <1>6 DEF ClaimOne, Due

LEMMA EndDrainEffect ==
  ASSUME WorkersTyped, NEW p \in Workers, EndDrain(p) \/ Crash(p)
  PROVE  Becomes(p, {"idle"})
  BY IdleType DEF EndDrain, Crash, Becomes, WorkersTyped

LEMMA LoadEffect ==
  ASSUME WorkersTyped, NEW p \in Workers, Load(p)
  PROVE  Becomes(p, {"drain"}) \/ (Becomes(p, {"send", "permanent"}) /\ Keeps(p) /\ w[p].pc = "load")
<1>0. w[p].pc # "idle"
  BY DEF Load
<1>1. CASE NextItem(p)
  BY <1>0, <1>1, NextItemEffect
<1>2. ASSUME NEW pc \in {"send", "permanent"}, Goto(p, pc)
      PROVE  Becomes(p, {"send", "permanent"}) /\ Keeps(p)
  BY <1>0, <1>2, GotoEffect DEF Becomes, Busy
<1> QED
  BY <1>1, <1>2 DEF Load

LEMMA SendEffect ==
  ASSUME WorkersTyped, NEW p \in Workers, Send(p)
  PROVE  /\ Becomes(p, {"sent", "temporary", "permanent"}) /\ Keeps(p) /\ w[p].pc = "send"
         /\ accepted' = IF w'[p].pc = "sent"
                        THEN [accepted EXCEPT ![w[p].item] = accepted[w[p].item] \cup {w[p].claim}]
                        ELSE accepted
<1>0. w[p].pc # "idle"
  BY DEF Send
<1>1. ASSUME NEW pc \in {"sent", "temporary", "permanent"}, Goto(p, pc)
      PROVE  Becomes(p, {"sent", "temporary", "permanent"}) /\ Keeps(p)
  BY <1>0, <1>1, GotoEffect DEF Becomes, Busy
<1> QED
  BY <1>1 DEF Send

LEMMA HeartbeatLostEffect ==
  ASSUME WorkersTyped, NEW p \in Workers, HeartbeatLost(p)
  PROVE  Becomes(p, {w[p].pc}) /\ Keeps(p)
<1>1. w[p] \in WorkerRows
  BY DEF WorkersTyped
<1> DEFINE x == [w[p] EXCEPT !.slow = TRUE]
<1>2. w' = [w EXCEPT ![p] = x]
  BY <1>1 DEF HeartbeatLost, WorkersTyped
<1>3. x \in WorkerRows /\ x.pc = w[p].pc /\ x.item = w[p].item /\ x.claim = w[p].claim
  BY <1>1 DEF WorkerRows
<1> QED
  BY <1>2, <1>3 DEF Becomes, Keeps, WorkersTyped

\* Every step of a worker.
LEMMA WorkerSteps ==
  ASSUME TypeInv, [Next]_vars
  PROVE  \/ UNCHANGED w
         \/ \E p \in Workers, t \in Signals : StartDrain(p, t)
         \/ \E p \in Workers : WorkerStep(p) \/ Crash(p) \/ HeartbeatLost(p)
  BY DEF Next, Producers, RunEnds, EnqueueMail, UserUnsubscribes, UserSubscribes, FanOutDirect,
     Maintenance, DispatchExpires, RenewClaim, LoseMessage, Tick, Age, Cleanup, vars

LEMMA WorkersStep == TypeInv /\ [Next]_vars => WorkersTyped'
<1> SUFFICES ASSUME TypeInv, [Next]_vars PROVE WorkersTyped'
  OBVIOUS
<1>1. WorkersTyped
  BY DEF TypeInv
<1>2. ASSUME NEW p \in Workers, NEW pcs, Becomes(p, pcs) PROVE WorkersTyped'
  BY <1>1, <1>2 DEF Becomes, WorkersTyped
<1>3. ASSUME NEW p \in Workers, WorkerStep(p) PROVE WorkersTyped'
  BY <1>1, <1>2, <1>3, ClaimOneEffect, EndDrainEffect, LoadEffect, SendEffect, NextItemEffect
  DEF WorkerStep, Complete, Fail
<1>4. CASE UNCHANGED w
  BY <1>1, <1>4 DEF WorkersTyped
<1> QED
  BY <1>1, <1>2, <1>3, <1>4, WorkerSteps, StartDrainEffect, EndDrainEffect, HeartbeatLostEffect

-----------------------------------------------------------------------------
(* What a step makes of the rows of the outbox and of the history. *)

\* Rows appear and go, nothing is claimed or settled.
RowsMove ==
  /\ UNCHANGED <<attempts, claim>> /\ st' \in [Items -> States]
  /\ \A i \in Items : \/ st'[i] = st[i]
                      \/ st[i] = "none" /\ st'[i] = "pending"
                      \/ st[i] # "none" /\ st'[i] = "gone"

LEMMA AnnouncedMoves ==
  ASSUME TypeInv, NEW rs, FanOut(rs), UNCHANGED <<attempts, claim>>
  PROVE  RowsMove
<1>1. PICK wanted : Announced(rs, wanted)
  BY DEF FanOut
<1>2. st' = [i \in Items |-> IF i \in wanted /\ st[i] = "none" THEN "pending" ELSE st[i]]
  BY <1>1 DEF Announced
<1>3. \A i \in Items : st[i] \in States /\ "pending" \in States
  BY DEF TypeInv, ItemsTyped, States, Waiting
<1>4. st' \in [Items -> States]
  BY <1>2, <1>3
<1> QED
  BY <1>2, <1>4 DEF RowsMove

LEMMA CleanupMoves ==
  ASSUME TypeInv, Cleanup
  PROVE  RowsMove
<1> DEFINE goes(i) == i \in aged /\ st[i] # "none" /\ (i \in Runs \/ st[i] \in Settled)
<1>1. st' = [i \in Items |-> IF goes(i) THEN "gone" ELSE st[i]]
  BY DEF Cleanup
<1>2. \A i \in Items : st[i] \in States /\ "gone" \in States
  BY DEF TypeInv, ItemsTyped, States
<1>3. \A i \in Items : goes(i) => st[i] # "none"
  OBVIOUS
<1>4. UNCHANGED <<attempts, claim>>
  BY DEF Cleanup
<1> QED
  <2> HIDE DEF goes
  <2> QED
    BY <1>1, <1>2, <1>3, <1>4 DEF RowsMove

LEMMA StillMoves ==
  ASSUME TypeInv, UNCHANGED <<st, attempts, claim>>
  PROVE  RowsMove
  BY DEF RowsMove, TypeInv, ItemsTyped

LEMMA EnqueueMailMoves ==
  ASSUME TypeInv, NEW m \in Mails, EnqueueMail(m)
  PROVE  RowsMove
<1>1. st \in [Items -> States] /\ "pending" \in States
  BY DEF TypeInv, ItemsTyped, States, Waiting
<1> QED
  BY <1>1 DEF EnqueueMail, RowsMove

LEMMA RowSteps ==
  ASSUME TypeInv, [Next]_vars
  PROVE  \/ RowsMove
         \/ \E p \in Workers, i \in Items : ClaimOne(p, i)
         \/ \E p \in Workers : Complete(p) \/ Fail(p)
<1>1. ASSUME NEW r \in Runs, FanOutDirect(r) PROVE RowsMove
  BY <1>1, AnnouncedMoves, StillMoves DEF FanOutDirect
<1>2. ASSUME NEW p \in Workers, NEW t \in Signals, StartDrain(p, t) PROVE RowsMove
  BY <1>2, AnnouncedMoves DEF StartDrain
<1>3. ASSUME NEW p \in Workers, EndDrain(p) \/ Load(p) \/ Send(p) \/ RenewClaim(p) \/ Crash(p)
                                 \/ HeartbeatLost(p)
      PROVE  RowsMove
  BY <1>3, StillMoves DEF EndDrain, Load, Send, RenewClaim, Crash, HeartbeatLost, itemVars
<1>4. ASSUME Producers PROVE RowsMove
  BY <1>4, StillMoves, EnqueueMailMoves
  DEF Producers, RunEnds, UserUnsubscribes, UserSubscribes, itemVars
<1>5. ASSUME Maintenance \/ DispatchExpires \/ LoseMessage \/ Tick \/ (\E i \in Items : Age(i))
             \/ UNCHANGED vars
      PROVE  RowsMove
  BY <1>5, StillMoves DEF Maintenance, DispatchExpires, LoseMessage, Tick, Age, vars, itemVars
<1> QED
  BY <1>1, <1>2, <1>3, <1>4, <1>5, CleanupMoves DEF Next, WorkerStep

\* A worker that reports settles its item if the claim is still its own.
SettledAs(p, status) ==
  /\ st' = [st EXCEPT ![w[p].item] = status] /\ claim' = [claim EXCEPT ![w[p].item] = 0]

LEMMA ReportEffect ==
  ASSUME NEW p \in Workers, Complete(p) \/ Fail(p)
  PROVE  /\ UNCHANGED attempts
         /\ \/ Claimed(p) /\ \E s \in {"delivered", "failed", "dead"} : SettledAs(p, s)
            \/ ~Claimed(p) /\ UNCHANGED <<st, claim>>
  BY DEF Complete, Fail, Owns, Settle, SettledAs

\* The histories of accepted, refused, abandoned and orphaned attempts.
LEMMA HistorySteps ==
  ASSUME [Next]_vars
  PROVE  /\ UNCHANGED accepted \/ \E p \in Workers : Send(p)
         /\ UNCHANGED refused \/ \E p \in Workers : Fail(p)
         /\ UNCHANGED abandoned \/ \E p \in Workers, i \in Items : ClaimOne(p, i)
         /\ UNCHANGED orphans \/ \E p \in Workers : Crash(p)
  BY DEF Next, WorkerStep, Producers, RunEnds, EnqueueMail, UserUnsubscribes, UserSubscribes,
     FanOutDirect, Maintenance, DispatchExpires, StartDrain, ClaimOne, EndDrain, Load, Send,
     Complete, Fail, RenewClaim, Crash, HeartbeatLost, LoseMessage, Tick, Age, Cleanup, vars,
     histVars

LEMMA WaitStep == TypeInv /\ [Next]_vars => wait' \in [Items -> 0 .. LeaseTicks + BackoffTicks]
<1> SUFFICES ASSUME TypeInv, [Next]_vars PROVE wait' \in [Items -> 0 .. LeaseTicks + BackoffTicks]
  OBVIOUS
<1>1. wait \in [Items -> 0 .. LeaseTicks + BackoffTicks]
  BY DEF TypeInv, ItemsTyped
<1>2. ASSUME NEW x, NEW d \in 0 .. LeaseTicks + BackoffTicks, wait' = [wait EXCEPT ![x] = d]
      PROVE  wait' \in [Items -> 0 .. LeaseTicks + BackoffTicks]
  BY <1>1, <1>2
<1>3. ASSUME Tick PROVE wait' \in [Items -> 0 .. LeaseTicks + BackoffTicks]
  <2>1. \A i \in Items : (IF wait[i] > 0 THEN wait[i] - 1 ELSE 0) \in 0 .. LeaseTicks + BackoffTicks
    BY <1>1, Bounds
  <2> QED
    BY <1>3, <2>1 DEF Tick
<1>4. ASSUME NEW p \in Workers, Fail(p) PROVE wait' \in [Items -> 0 .. LeaseTicks + BackoffTicks]
  <2>1. \A d \in 0 .. BackoffTicks : d \in 0 .. LeaseTicks + BackoffTicks
    BY Bounds
  <2>2. UNCHANGED wait \/ \E d \in 0 .. BackoffTicks : wait' = [wait EXCEPT ![w[p].item] = d]
    BY <1>4 DEF Fail
  <2> QED
    BY <1>1, <1>2, <2>1, <2>2
<1>5. ASSUME NEW p \in Workers, NEW i \in Items, ClaimOne(p, i)
      PROVE  wait' \in [Items -> 0 .. LeaseTicks + BackoffTicks]
  BY <1>2, <1>5, Bounds DEF ClaimOne
<1>6. ASSUME NEW p \in Workers, RenewClaim(p)
      PROVE  wait' \in [Items -> 0 .. LeaseTicks + BackoffTicks]
  BY <1>2, <1>6, Bounds DEF RenewClaim
<1>7. \/ UNCHANGED wait \/ Tick \/ \E p \in Workers : Fail(p) \/ RenewClaim(p)
      \/ \E p \in Workers, i \in Items : ClaimOne(p, i)
  BY DEF Next, WorkerStep, Producers, RunEnds, EnqueueMail, UserUnsubscribes, UserSubscribes,
     FanOutDirect, Maintenance, DispatchExpires, StartDrain, EndDrain, Load, Send,
     Complete, Crash, HeartbeatLost, LoseMessage, Age, Cleanup, vars, itemVars
<1> QED
  BY <1>1, <1>3, <1>4, <1>5, <1>6, <1>7

LEMMA ItemsStep == TypeInv /\ [Next]_vars => ItemsTyped' /\ ClaimsTyped'
<1> SUFFICES ASSUME TypeInv, [Next]_vars PROVE ItemsTyped' /\ ClaimsTyped'
  OBVIOUS
<1>0. /\ st \in [Items -> States] /\ attempts \in [Items -> Nat] /\ claim \in [Items -> Nat]
      /\ ClaimsTyped
  BY DEF TypeInv, ItemsTyped
<1> DEFINE Rows == /\ st \in [Items -> States] /\ attempts \in [Items -> Nat]
                   /\ claim \in [Items -> Nat] /\ ClaimsTyped
<1>1. ASSUME RowsMove PROVE Rows'
  BY <1>0, <1>1 DEF RowsMove, ClaimsTyped
<1>2. ASSUME NEW p \in Workers, NEW i \in Items, ClaimOne(p, i) PROVE Rows'
  <2>1. attempts[i] + 1 \in Nat \ {0} /\ "processing" \in States
    BY <1>0 DEF States
  <2> DEFINE n == attempts[i] + 1
  <2>2. /\ st' = [st EXCEPT ![i] = "processing"] /\ attempts' = [attempts EXCEPT ![i] = n]
        /\ claim' = [claim EXCEPT ![i] = n]
    BY <1>2, ClaimOneEffect
  <2> QED
    <3> HIDE DEF n
    <3>1. n \in Nat \ {0}
      BY <2>1 DEF n
    <3> QED
      BY <1>0, <2>1, <2>2, <3>1 DEF ClaimsTyped
<1>3. ASSUME NEW p \in Workers, Complete(p) \/ Fail(p) PROVE Rows'
  <2>1. ASSUME NEW s \in {"delivered", "failed", "dead"}, SettledAs(p, s), UNCHANGED attempts
        PROVE  Rows'
    BY <1>0, <2>1 DEF SettledAs, ClaimsTyped, States, Waiting, Settled
  <2>2. ASSUME UNCHANGED <<st, claim, attempts>> PROVE Rows'
    BY <1>0, <2>2 DEF ClaimsTyped
  <2> QED
    BY <1>3, <2>1, <2>2, ReportEffect
<1>4. Rows'
  BY <1>1, <1>2, <1>3, RowSteps
<1> QED
  BY <1>4, WaitStep DEF ItemsTyped

LEMMA RunsStep == TypeInv /\ [Next]_vars => RunsTyped'
<1> SUFFICES ASSUME TypeInv, [Next]_vars PROVE RunsTyped'
  OBVIOUS
<1>0. RunsTyped
  BY DEF TypeInv
<1>1. ASSUME NEW rs, rs \subseteq ended, FanOut(rs), UNCHANGED <<ended, deleted, subscribed>>,
             fanMsgs' \subseteq fanMsgs
      PROVE  RunsTyped'
  BY <1>0, <1>1 DEF FanOut, Announced, RunsTyped
<1>2. ASSUME NEW r \in Runs, FanOutDirect(r) PROVE RunsTyped'
  <2>1. fanMsgs' \subseteq fanMsgs /\ UNCHANGED <<ended, deleted, subscribed>>
    BY <1>2 DEF FanOutDirect
  <2>2. (UNCHANGED <<fanned, aged>>) \/ FanOut({r} \cap (ended \ fanned))
    BY <1>2 DEF FanOutDirect
  <2> QED
    BY <1>0, <1>1, <2>1, <2>2 DEF RunsTyped
<1>3. ASSUME NEW p \in Workers, NEW t \in Signals, StartDrain(p, t) PROVE RunsTyped'
  BY <1>1, <1>3 DEF StartDrain
<1>4. ASSUME Cleanup PROVE RunsTyped'
  BY <1>0, <1>4 DEF Cleanup, RunsTyped
<1>5. ASSUME NEW i \in Items, Age(i) PROVE RunsTyped'
  BY <1>0, <1>5 DEF Age, RunsTyped, runVars
<1>6. ASSUME Producers PROVE RunsTyped'
  BY <1>0, <1>6 DEF Producers, RunEnds, EnqueueMail, UserUnsubscribes, UserSubscribes, Revoke,
     RunsTyped, runVars
<1>7. ASSUME NEW p \in Workers, Send(p) PROVE RunsTyped'
  BY <1>0, <1>7 DEF Send, Revoke, RunsTyped, runVars
<1>8. ASSUME LoseMessage PROVE RunsTyped'
  BY <1>0, <1>8 DEF LoseMessage, RunsTyped, runVars
<1>9. ASSUME UNCHANGED <<runVars, subscribed, aged, fanMsgs>> PROVE RunsTyped'
  BY <1>0, <1>9 DEF RunsTyped, runVars
<1>10. \/ UNCHANGED <<runVars, subscribed, aged, fanMsgs>>
       \/ LoseMessage \/ Producers \/ Cleanup \/ \E r \in Runs : FanOutDirect(r)
       \/ \E p \in Workers, t \in Signals : StartDrain(p, t)
       \/ \E i \in Items : Age(i)
       \/ \E p \in Workers : Send(p)
  BY DEF Next, WorkerStep, Maintenance, DispatchExpires, ClaimOne, EndDrain, Load, Complete, Fail,
     RenewClaim, Crash, HeartbeatLost, Tick, vars
<1> QED
  BY <1>2, <1>3, <1>4, <1>5, <1>6, <1>7, <1>8, <1>9, <1>10

LEMMA SpendType == faults \in 0 .. MaxFaults /\ Spend => faults' \in 0 .. MaxFaults
  BY Bounds DEF Spend

LEMMA SignalsStep == TypeInv /\ [Next]_vars => SignalsTyped'
<1> SUFFICES ASSUME TypeInv, [Next]_vars PROVE SignalsTyped'
  OBVIOUS
<1>0. SignalsTyped /\ WorkersTyped
  BY DEF TypeInv
<1>1. ASSUME drainMsgs' \subseteq Signals, dispatch' \in Signals \cup {NoSignal},
             UNCHANGED faults \/ Spend
      PROVE  SignalsTyped'
  BY <1>0, <1>1, SpendType DEF SignalsTyped
<1>2. ASSUME EnqueueOnce PROVE SignalsTyped'
  BY <1>0, <1>1, <1>2 DEF EnqueueOnce, SignalsTyped
<1>3. ASSUME NEW r \in Runs, FanOutDirect(r) PROVE SignalsTyped'
  BY <1>0, <1>1, <1>2, <1>3 DEF FanOutDirect, SignalsTyped
<1>4. ASSUME NEW p \in Workers, EndDrain(p) PROVE SignalsTyped'
  <2>1. drainMsgs' \subseteq Signals /\ dispatch' \in Signals \cup {NoSignal} /\ UNCHANGED faults
    BY <1>0, <1>4 DEF EndDrain, SignalsTyped
  <2> QED
    BY <1>1, <2>1
<1>5. ASSUME NEW p \in Workers, Crash(p) PROVE SignalsTyped'
  <2>1. w[p].tok \in Signals
    BY <1>0, <1>5 DEF Crash, WorkersTyped, WorkerRows
  <2>2. drainMsgs' \subseteq Signals
    BY <1>0, <1>5, <2>1 DEF Crash, SignalsTyped
  <2> QED
    BY <1>0, <1>1, <1>5, <2>2 DEF Crash, SignalsTyped
<1>6. ASSUME Maintenance \/ DispatchExpires \/ LoseMessage PROVE SignalsTyped'
  BY <1>0, <1>1, <1>2, <1>6 DEF Maintenance, DispatchExpires, LoseMessage, SignalsTyped
<1>7. ASSUME NEW p \in Workers, NEW t \in Signals, StartDrain(p, t) PROVE SignalsTyped'
  BY <1>0, <1>1, <1>7 DEF StartDrain, SignalsTyped
<1>8. ASSUME UNCHANGED <<drainMsgs, dispatch>>, UNCHANGED faults \/ Spend PROVE SignalsTyped'
  BY <1>0, <1>1, <1>8 DEF SignalsTyped
<1>9. \/ UNCHANGED <<drainMsgs, dispatch>> /\ (UNCHANGED faults \/ Spend)
      \/ LoseMessage \/ Maintenance \/ DispatchExpires \/ \E r \in Runs : FanOutDirect(r)
      \/ \E p \in Workers, t \in Signals : StartDrain(p, t)
      \/ \E p \in Workers : EndDrain(p) \/ Crash(p)
  BY DEF Next, WorkerStep, Producers, RunEnds, EnqueueMail, UserUnsubscribes, UserSubscribes,
     ClaimOne, Load, Send, Complete, Fail, RenewClaim, HeartbeatLost, Tick, Age, Cleanup, vars
<1> QED
  BY <1>2, <1>3, <1>4, <1>5, <1>6, <1>7, <1>8, <1>9

LEMMA HistoryStep == TypeInv /\ [Next]_vars => HistoryTyped'
<1> SUFFICES ASSUME TypeInv, [Next]_vars PROVE HistoryTyped'
  OBVIOUS
<1>0. HistoryTyped
  BY DEF TypeInv
<1>c. \A p \in Workers : w[p].claim \in Nat
  BY DEF TypeInv, WorkersTyped, WorkerRows
<1>1. ASSUME NEW p \in Workers, Send(p) PROVE accepted' \in [Items -> SUBSET Nat]
  <2> DEFINE acc == accepted[w[p].item] \cup {w[p].claim}
  <2>1. accepted' = [accepted EXCEPT ![w[p].item] = acc] \/ UNCHANGED accepted
    BY <1>1, SendEffect DEF TypeInv
  <2>2. w[p].item \in Items => acc \in SUBSET Nat
    BY <1>0, <1>c DEF HistoryTyped
  <2> QED
    <3> HIDE DEF acc
    <3> QED
      BY <1>0, <2>1, <2>2 DEF HistoryTyped
<1>2. ASSUME NEW p \in Workers, Fail(p) PROVE refused' \in [Items -> SUBSET Nat]
  <2> DEFINE ref == refused[w[p].item] \cup {w[p].claim}
  <2>1. refused' = [refused EXCEPT ![w[p].item] = ref]
    BY <1>2 DEF Fail
  <2>2. w[p].item \in Items => ref \in SUBSET Nat
    BY <1>0, <1>c DEF HistoryTyped
  <2> QED
    <3> HIDE DEF ref
    <3> QED
      BY <1>0, <2>1, <2>2 DEF HistoryTyped
<1>3. ASSUME NEW p \in Workers, NEW i \in Items, ClaimOne(p, i)
      PROVE  abandoned' \in [Items -> Nat]
  <2> DEFINE n == IF st[i] = "processing" THEN abandoned[i] + 1 ELSE abandoned[i]
  <2>1. abandoned' = [abandoned EXCEPT ![i] = n]
    BY <1>3, ClaimOneEffect
  <2>2. n \in Nat
    BY <1>0 DEF HistoryTyped
  <2> QED
    <3> HIDE DEF n
    <3> QED
      BY <1>0, <2>1, <2>2 DEF HistoryTyped
<1>4. ASSUME NEW p \in Workers, Crash(p) PROVE orphans' \in [Items -> SUBSET Nat]
  <2>1. orphans' = [i \in Items |-> IF i = w[p].item THEN orphans[i] \cup {w[p].claim}
                                    ELSE orphans[i]]
    BY <1>4 DEF Crash
  <2> QED
    BY <1>0, <1>c, <2>1 DEF HistoryTyped
<1> QED
  BY <1>0, <1>1, <1>2, <1>3, <1>4, HistorySteps DEF HistoryTyped

LEMMA TypeInit == Init => TypeInv
<1> SUFFICES ASSUME Init PROVE TypeInv
  OBVIOUS
<1>1. ItemsTyped /\ ClaimsTyped
  BY Bounds DEF Init, ItemsTyped, ClaimsTyped, States
<1>2. RunsTyped /\ SignalsTyped
  BY Bounds DEF Init, RunsTyped, SignalsTyped
<1>3. WorkersTyped
  BY IdleType DEF Init, WorkersTyped
<1>4. HistoryTyped
  BY DEF Init, HistoryTyped
<1> QED
  BY <1>1, <1>2, <1>3, <1>4 DEF TypeInv

LEMMA TypeStep == TypeInv /\ [Next]_vars => TypeInv'
  BY ItemsStep, RunsStep, SignalsStep, WorkersStep, HistoryStep DEF TypeInv

LEMMA TypeInvAlways == Spec => []TypeInv
  BY TypeInit, TypeStep, PTL DEF Spec

\* Every variable keeps its type, and an item has a claim exactly while it is processed.
THEOREM TypeCorrect == Spec => []TypeOK
  BY TypeInvAlways, TypeInvIsTypeOK, PTL

-----------------------------------------------------------------------------
(* Claims and attempts *)

LEMMA AttemptInit == Init => AttemptInv
  BY DEF Init, AttemptInv, ItemInv, WorkerInv, Idle, Busy

LEMMA AttemptsGrow ==
  ASSUME TypeInv, [Next]_vars
  PROVE  \A i \in Items : attempts[i] \in Nat /\ attempts'[i] \in Nat /\ attempts[i] <= attempts'[i]
<1>1. attempts \in [Items -> Nat]
  BY DEF TypeInv, ItemsTyped
<1>2. ASSUME NEW p \in Workers, NEW j \in Items, ClaimOne(p, j)
      PROVE  attempts' = [attempts EXCEPT ![j] = attempts[j] + 1]
  BY <1>2, ClaimOneEffect
<1> QED
  BY <1>1, <1>2, RowSteps, ReportEffect DEF RowsMove

\* Nobody but a sender whose item was claimed hears of an accepted attempt.
LEMMA AcceptedGrow ==
  ASSUME TypeInv, AttemptInv, [Next]_vars, NEW i \in Items
  PROVE  /\ accepted[i] \subseteq accepted'[i]
         /\ \A n \in accepted'[i] \ accepted[i] : n <= attempts[i] /\ UNCHANGED <<st, attempts, claim>>
              /\ \E p \in Workers : /\ w[p].item = i /\ w[p].claim = n
                                    /\ Becomes(p, {"sent"}) /\ Keeps(p)
<1>1. accepted \in [Items -> SUBSET Nat]
  BY DEF TypeInv, HistoryTyped
<1>2. ASSUME NEW p \in Workers, Send(p)
      PROVE  /\ accepted[i] \subseteq accepted'[i]
             /\ \A n \in accepted'[i] \ accepted[i] : n <= attempts[i] /\ UNCHANGED <<st, attempts, claim>>
                  /\ \E q \in Workers : /\ w[q].item = i /\ w[q].claim = n
                                        /\ Becomes(q, {"sent"}) /\ Keeps(q)
  <2>1. /\ Becomes(p, {"sent", "temporary", "permanent"}) /\ Keeps(p) /\ w[p].pc = "send"
        /\ accepted' = IF w'[p].pc = "sent"
                       THEN [accepted EXCEPT ![w[p].item] = accepted[w[p].item] \cup {w[p].claim}]
                       ELSE accepted
    BY <1>2, SendEffect DEF TypeInv
  <2>2. w[p].item \in Items /\ w[p].claim <= attempts[w[p].item]
    BY <2>1 DEF AttemptInv, WorkerInv, Busy
  <2>3. UNCHANGED <<st, attempts, claim>>
    BY <1>2 DEF Send, itemVars
  <2>4. CASE UNCHANGED accepted
    BY <2>4
  <2>5. ASSUME w'[p].pc = "sent",
               accepted' = [accepted EXCEPT ![w[p].item] = accepted[w[p].item] \cup {w[p].claim}]
        PROVE  Becomes(p, {"sent"}) /\ accepted[i] \subseteq accepted'[i]
               /\ \A n \in accepted'[i] \ accepted[i] : i = w[p].item /\ n = w[p].claim
    BY <1>1, <2>1, <2>2, <2>5 DEF Becomes
  <2> QED
    BY <2>1, <2>2, <2>3, <2>4, <2>5
<1> QED
  BY <1>2, HistorySteps

LEMMA ItemInvStep ==
  ASSUME TypeInv, AttemptInv, [Next]_vars, NEW i \in Items
  PROVE  ItemInv(i)'
<1>0. ItemInv(i) /\ attempts[i] \in Nat /\ attempts \in [Items -> Nat] /\ st \in [Items -> States]
      /\ claim \in [Items -> Nat]
  BY DEF TypeInv, ItemsTyped, AttemptInv
<1>1. \A n \in accepted'[i] : n \in Nat /\ n <= attempts'[i]
  <2>1. \A n \in accepted'[i] : n \in Nat
    BY HistoryStep DEF HistoryTyped
  <2>2. \A n \in accepted'[i] : n <= attempts[i]
    BY <1>0, AcceptedGrow DEF ItemInv
  <2> QED
    BY <2>1, <2>2, AttemptsGrow
<1> DEFINE Rest == /\ claim[i] \in {0, attempts[i]}
                   /\ st[i] \in {"none", "pending"} => attempts[i] = 0
                   /\ st[i] = "failed" => attempts[i] < MaxAttempts
<1>2. ASSUME RowsMove PROVE Rest'
  BY <1>0, <1>2 DEF RowsMove, ItemInv
<1>3. ASSUME NEW p \in Workers, NEW j \in Items, ClaimOne(p, j) PROVE Rest'
  <2>1. /\ st' = [st EXCEPT ![j] = "processing"]
        /\ attempts' = [attempts EXCEPT ![j] = attempts[j] + 1]
        /\ claim' = [claim EXCEPT ![j] = attempts[j] + 1]
    BY <1>3, ClaimOneEffect
  <2> QED
    BY <1>0, <2>1 DEF ItemInv
<1>4. ASSUME NEW p \in Workers, Complete(p) \/ Fail(p) PROVE Rest'
  <2>1. UNCHANGED attempts
    BY <1>4, ReportEffect
  <2>2. CASE UNCHANGED <<st, claim>>
    BY <1>0, <2>1, <2>2 DEF ItemInv
  <2>3. ASSUME NEW s \in {"delivered", "failed", "dead"}, SettledAs(p, s),
               s = "failed" => ~Exhausted(w[p].item)
        PROVE  Rest'
    BY <1>0, <2>1, <2>3, Bounds DEF ItemInv, SettledAs, Exhausted
  <2> QED
    BY <1>4, <2>2, <2>3 DEF Complete, Fail, Owns, Settle, SettledAs
<1>5. Rest'
  BY <1>2, <1>3, <1>4, RowSteps
<1> QED
  BY <1>1, <1>5 DEF ItemInv

LEMMA WorkerInvStep ==
  ASSUME TypeInv, AttemptInv, [Next]_vars, NEW p \in Workers
  PROVE  WorkerInv(p)'
<1>0. WorkerInv(p) /\ WorkersTyped /\ w \in [Workers -> WorkerRows]
  BY DEF TypeInv, WorkersTyped, AttemptInv
<1>1. ASSUME w'[p] = w[p] PROVE WorkerInv(p)'
  <2>1. CASE w[p].pc \in Busy
    <3>1. w[p].item \in Items /\ w[p].claim <= attempts[w[p].item] /\ w[p].claim \in Nat
      BY <1>0, <2>1 DEF WorkerInv, WorkerRows
    <3> QED
      BY <1>0, <1>1, <3>1, AttemptsGrow, AcceptedGrow DEF WorkerInv
  <2>2. CASE w[p].pc \notin Busy
    BY <1>1, <2>2 DEF WorkerInv, Busy
  <2> QED
    BY <2>1, <2>2
<1>2. ASSUME w'[p].pc \in {"idle", "drain"} PROVE WorkerInv(p)'
  BY <1>2 DEF WorkerInv, Busy
<1>3. ASSUME Keeps(p), w'[p].pc \in Busy, w[p].pc \in Busy,
             w'[p].pc = "sent" => w[p].claim \in accepted'[w[p].item]
      PROVE  WorkerInv(p)'
  <2>1. w[p].item \in Items /\ w[p].claim <= attempts[w[p].item] /\ w[p].claim \in Nat
    BY <1>0, <1>3 DEF WorkerInv, WorkerRows
  <2> QED
    BY <1>3, <2>1, AttemptsGrow DEF WorkerInv, Keeps
<1>4. ASSUME NEW q \in Workers, NEW pcs, Becomes(q, pcs), q # p PROVE w'[p] = w[p]
  BY <1>0, <1>4 DEF Becomes
<1>5. ASSUME NEW q \in Workers, Becomes(q, {"idle"}) \/ Becomes(q, {"drain"}) PROVE WorkerInv(p)'
  BY <1>1, <1>2, <1>4, <1>5 DEF Becomes
<1>6. ASSUME NEW q \in Workers, NEW i \in Items, ClaimOne(q, i) PROVE WorkerInv(p)'
  <2>1. /\ Becomes(q, {"load"}) /\ w'[q].item = i /\ w'[q].claim = attempts[i] + 1
        /\ attempts' = [attempts EXCEPT ![i] = attempts[i] + 1]
    BY <1>6, ClaimOneEffect
  <2>2. attempts \in [Items -> Nat]
    BY DEF TypeInv, ItemsTyped
  <2>3. ASSUME q = p PROVE WorkerInv(p)'
    BY <2>1, <2>2, <2>3 DEF Becomes, WorkerInv
  <2> QED
    BY <1>1, <1>4, <2>1, <2>3
<1>7. ASSUME NEW q \in Workers, Load(q) PROVE WorkerInv(p)'
  <2>1. ASSUME Becomes(q, {"send", "permanent"}), Keeps(q), w[q].pc = "load", q = p
        PROVE  WorkerInv(p)'
    BY <1>3, <2>1 DEF Becomes, Busy
  <2> QED
    BY <1>0, <1>1, <1>4, <1>5, <1>7, <2>1, LoadEffect
<1>8. ASSUME NEW q \in Workers, Send(q) PROVE WorkerInv(p)'
  <2>1. /\ Becomes(q, {"sent", "temporary", "permanent"}) /\ Keeps(q) /\ w[q].pc = "send"
        /\ accepted' = IF w'[q].pc = "sent"
                       THEN [accepted EXCEPT ![w[q].item] = accepted[w[q].item] \cup {w[q].claim}]
                       ELSE accepted
    BY <1>0, <1>8, SendEffect
  <2>2. ASSUME q = p PROVE WorkerInv(p)'
    <3>1. w[p].item \in Items /\ w[p].pc \in Busy
      BY <1>0, <2>1, <2>2 DEF WorkerInv, Busy
    <3>2. w'[p].pc = "sent" => w[p].claim \in accepted'[w[p].item]
      BY <2>1, <2>2, <3>1 DEF TypeInv, HistoryTyped
    <3>3. w'[p].pc \in Busy
      BY <2>1, <2>2 DEF Becomes, Busy
    <3> QED
      BY <1>3, <2>1, <2>2, <3>1, <3>2, <3>3
  <2> QED
    BY <1>1, <1>4, <2>1, <2>2
<1>9. ASSUME NEW q \in Workers, HeartbeatLost(q) PROVE WorkerInv(p)'
  <2>1. Becomes(q, {w[q].pc}) /\ Keeps(q) /\ w[q].pc \in Busy /\ UNCHANGED accepted
    BY <1>0, <1>9, HeartbeatLostEffect DEF HeartbeatLost, histVars, WorkerRows
  <2>2. ASSUME q = p PROVE WorkerInv(p)'
    BY <1>0, <1>3, <2>1, <2>2 DEF Becomes, WorkerInv
  <2> QED
    BY <1>1, <1>4, <2>1, <2>2
<1>10. ASSUME NEW q \in Workers, Complete(q) \/ Fail(q) PROVE WorkerInv(p)'
  BY <1>0, <1>5, <1>10, NextItemEffect DEF Complete, Fail
<1>11. ASSUME NEW q \in Workers, (\E t \in Signals : StartDrain(q, t)) \/ EndDrain(q) \/ Crash(q)
       PROVE  WorkerInv(p)'
  BY <1>0, <1>5, <1>11, StartDrainEffect, EndDrainEffect
<1> QED
  BY <1>1, <1>6, <1>7, <1>8, <1>9, <1>10, <1>11, WorkerSteps DEF WorkerStep

LEMMA AttemptStep == TypeInv /\ AttemptInv /\ [Next]_vars => AttemptInv'
  BY ItemInvStep, WorkerInvStep DEF AttemptInv

LEMMA AttemptInvAlways == Spec => [](TypeInv /\ AttemptInv)
  BY TypeInit, TypeStep, AttemptInit, AttemptStep, PTL DEF Spec

LEMMA HistoryGrows ==
  ASSUME TypeInv, AttemptInv, [Next]_vars, NEW i \in Items
  PROVE  /\ accepted[i] \subseteq accepted'[i] /\ refused[i] \subseteq refused'[i]
         /\ orphans[i] \subseteq orphans'[i]
<1>1. HistoryTyped
  BY DEF TypeInv
<1>2. refused[i] \subseteq refused'[i]
  BY <1>1, HistorySteps DEF Fail, HistoryTyped
<1>3. orphans[i] \subseteq orphans'[i]
  BY <1>1, HistorySteps DEF Crash, HistoryTyped
<1> QED
  BY <1>2, <1>3, AcceptedGrow

\* A worker that settles its item settles the item's latest attempt.
LEMMA ClaimedIsLatest ==
  ASSUME TypeInv, AttemptInv, NEW p \in Workers, w[p].pc \in Busy, Claimed(p)
  PROVE  w[p].item \in Items /\ w[p].claim = attempts[w[p].item]
<1>1. w[p].item \in Items
  BY DEF AttemptInv, WorkerInv
<1>2. claim[w[p].item] # 0 /\ claim[w[p].item] \in {0, attempts[w[p].item]}
  BY <1>1 DEF TypeInv, ClaimsTyped, Claimed, AttemptInv, ItemInv
<1> QED
  BY <1>1, <1>2 DEF Claimed

-----------------------------------------------------------------------------
(* The properties of the outbox *)

LEMMA LatestAttemptStep ==
  TypeInv /\ AttemptInv /\ LatestAttemptDecides /\ [Next]_vars => LatestAttemptDecides'
<1> SUFFICES ASSUME TypeInv, AttemptInv, LatestAttemptDecides, [Next]_vars, NEW i \in Items
             PROVE  /\ st'[i] = "delivered" => attempts'[i] \in accepted'[i]
                    /\ st'[i] \in {"failed", "dead"} => attempts'[i] \in refused'[i]
  BY DEF LatestAttemptDecides
<1> DEFINE Decided == /\ st[i] = "delivered" => attempts[i] \in accepted[i]
                      /\ st[i] \in {"failed", "dead"} => attempts[i] \in refused[i]
<1>0. Decided /\ accepted[i] \subseteq accepted'[i] /\ refused[i] \subseteq refused'[i]
  BY HistoryGrows DEF LatestAttemptDecides
<1>1. ASSUME RowsMove PROVE Decided'
  BY <1>0, <1>1 DEF RowsMove
<1>2. ASSUME NEW p \in Workers, NEW j \in Items, ClaimOne(p, j) PROVE Decided'
  BY <1>0, <1>2, ClaimOneEffect DEF TypeInv, ItemsTyped
<1>3. ASSUME NEW p \in Workers, Complete(p) \/ Fail(p) PROVE Decided'
  <2>1. UNCHANGED attempts /\ w[p].pc \in Busy
    BY <1>3, ReportEffect DEF Complete, Fail, Busy
  <2>2. CASE ~Claimed(p)
    BY <1>0, <1>3, <2>1, <2>2, ReportEffect
  <2>3. CASE Claimed(p)
    <3>1. w[p].item \in Items /\ w[p].claim = attempts[w[p].item]
      BY <2>1, <2>3, ClaimedIsLatest
    <3>2. st \in [Items -> States] /\ refused \in [Items -> SUBSET Nat]
      BY DEF TypeInv, ItemsTyped, HistoryTyped
    <3>3. ASSUME Complete(p) PROVE Decided'
      <4>1. st' = [st EXCEPT ![w[p].item] = "delivered"] /\ w[p].claim \in accepted[w[p].item]
        BY <2>3, <3>3 DEF Complete, Owns, Settle, AttemptInv, WorkerInv
      <4> QED
        BY <1>0, <2>1, <3>1, <3>2, <4>1
    <3>4. ASSUME Fail(p) PROVE Decided'
      <4>1. /\ \E s \in {"failed", "dead"} : st' = [st EXCEPT ![w[p].item] = s]
            /\ refused' = [refused EXCEPT ![w[p].item] = refused[w[p].item] \cup {w[p].claim}]
        BY <2>3, <3>4 DEF Fail, Owns, Settle
      <4> QED
        BY <1>0, <2>1, <3>1, <3>2, <4>1
    <3> QED
      BY <1>3, <3>3, <3>4
  <2> QED
    BY <2>2, <2>3
<1> QED
  BY <1>1, <1>2, <1>3, RowSteps

\* A worker whose claim was taken over neither acknowledges nor fails the newer attempt:
\* a delivered item was accepted, and a failed one refused, in its latest attempt.
THEOREM LatestAttemptDecidesAlways == Spec => []LatestAttemptDecides
<1>1. Init => LatestAttemptDecides
  BY DEF Init, LatestAttemptDecides
<1> QED
  BY <1>1, AttemptInvAlways, LatestAttemptStep, PTL DEF Spec

LEMMA RetriesStep ==
  TypeInv /\ AttemptInv /\ RetriesAreBounded /\ [Next]_vars => RetriesAreBounded'
<1> SUFFICES ASSUME TypeInv, AttemptInv, RetriesAreBounded, [Next]_vars, NEW i \in Items
             PROVE  attempts'[i] <= MaxAttempts + abandoned'[i]
  BY DEF RetriesAreBounded
<1>0. /\ attempts \in [Items -> Nat] /\ abandoned \in [Items -> Nat]
      /\ attempts[i] <= MaxAttempts + abandoned[i]
  BY DEF TypeInv, ItemsTyped, HistoryTyped, RetriesAreBounded
<1>1. ASSUME NEW p \in Workers, NEW j \in Items, ClaimOne(p, j)
      PROVE  attempts'[i] <= MaxAttempts + abandoned'[i]
  <2>1. /\ attempts' = [attempts EXCEPT ![j] = attempts[j] + 1]
        /\ st[j] \in Waiting \cup {"processing"}
        /\ abandoned' = [abandoned EXCEPT ![j] = IF st[j] = "processing" THEN abandoned[j] + 1
                                                 ELSE abandoned[j]]
    BY <1>1, ClaimOneEffect
  <2>2. CASE i # j
    BY <1>0, <2>1, <2>2
  <2>3. CASE i = j
    <3>1. st[i] \in Waiting => attempts[i] < MaxAttempts
      BY Bounds DEF AttemptInv, ItemInv, Waiting
    <3>2. attempts'[i] = attempts[i] + 1
      BY <1>0, <2>1, <2>3
    <3>3. abandoned'[i] = IF st[i] = "processing" THEN abandoned[i] + 1 ELSE abandoned[i]
      BY <1>0, <2>1, <2>3
    <3>4. attempts[i] \in Nat /\ abandoned[i] \in Nat /\ MaxAttempts \in Nat
      BY <1>0, Bounds
    <3> QED
      BY <1>0, <2>1, <2>3, <3>1, <3>2, <3>3, <3>4
  <2> QED
    BY <2>2, <2>3
<1>2. ASSUME RowsMove \/ \E p \in Workers : Complete(p) \/ Fail(p)
      PROVE  UNCHANGED attempts
  BY <1>2, ReportEffect DEF RowsMove
<1> QED
  BY <1>0, <1>1, <1>2, RowSteps, HistorySteps

\* An item is tried MaxAttempts times, and once more for every attempt that nobody reported.
THEOREM RetriesAreBoundedAlways == Spec => []RetriesAreBounded
<1>1. Init => RetriesAreBounded
  BY Bounds DEF Init, RetriesAreBounded
<1> QED
  BY <1>1, AttemptInvAlways, RetriesStep, PTL DEF Spec

\* Worker p holds the acknowledgement of the latest attempt at item i.
Reports(p, i) == w[p].pc = "sent" /\ w[p].item = i /\ w[p].claim = attempts[i]

\* Such a worker reports it or dies.
LEMMA ReportsUntilSettled ==
  ASSUME TypeInv, AttemptInv, [Next]_vars, NEW i \in Items, NEW p \in Workers, Reports(p, i),
         st[i] = "processing", st'[i] = "processing", UNCHANGED attempts
  PROVE  Reports(p, i)' \/ attempts[i] \in orphans'[i]
<1>0. w \in [Workers -> WorkerRows] /\ w[p].pc = "sent"
  BY DEF TypeInv, WorkersTyped, Reports
<1>1. ASSUME w'[p] = w[p] PROVE Reports(p, i)'
  BY <1>1 DEF Reports
<1>2. ASSUME NEW q \in Workers, NEW pcs, Becomes(q, pcs), q # p PROVE Reports(p, i)'
  BY <1>0, <1>1, <1>2 DEF Becomes
<1>3. ASSUME Crash(p) PROVE attempts[i] \in orphans'[i]
  BY <1>3 DEF Crash, Reports, TypeInv, HistoryTyped
<1>4. ASSUME NEW q \in Workers, Crash(q) PROVE Reports(p, i)' \/ attempts[i] \in orphans'[i]
  BY <1>0, <1>2, <1>3, <1>4, EndDrainEffect DEF TypeInv
<1>5. ASSUME Complete(p) PROVE FALSE
  <2>1. claim[i] # 0 /\ claim[i] \in {0, attempts[i]}
    BY DEF TypeInv, ClaimsTyped, AttemptInv, ItemInv
  <2>2. Claimed(p)
    BY <2>1 DEF Claimed, Reports
  <2> QED
    BY <1>5, <2>2 DEF Complete, Owns, Settle, Reports, TypeInv, ItemsTyped
<1>6. ASSUME NEW q \in Workers, HeartbeatLost(q) PROVE Reports(p, i)'
  <2>1. Becomes(q, {w[q].pc}) /\ Keeps(q)
    BY <1>6, HeartbeatLostEffect DEF TypeInv
  <2> QED
    BY <1>2, <2>1 DEF Becomes, Keeps, Reports
<1>7. ASSUME NEW q \in Workers, (\E t \in Signals : StartDrain(q, t)) \/ WorkerStep(q)
      PROVE  Reports(p, i)'
  <2>1. q # p
    BY <1>0, <1>5, <1>7 DEF WorkerStep, StartDrain, ClaimOne, EndDrain, Load, Send, Fail
  <2>2. \E pcs : Becomes(q, pcs)
    BY <1>7, StartDrainEffect, ClaimOneEffect, EndDrainEffect, LoadEffect, SendEffect,
       NextItemEffect
    DEF TypeInv, WorkerStep, Complete, Fail
  <2> QED
    BY <1>2, <2>1, <2>2
<1> QED
  BY <1>1, <1>4, <1>6, <1>7, WorkerSteps

LEMMA AcknowledgedStep ==
  TypeInv /\ AttemptInv /\ AcceptedIsAcknowledged /\ [Next]_vars => AcceptedIsAcknowledged'
<1> DEFINE Known(i) == attempts[i] \in orphans[i] \/ \E p \in Workers : Reports(p, i)
<1> SUFFICES ASSUME TypeInv, AttemptInv, AcceptedIsAcknowledged, [Next]_vars, NEW i \in Items,
                    st'[i] = "processing", attempts'[i] \in accepted'[i]
             PROVE  Known(i)'
  BY DEF AcceptedIsAcknowledged, Reports
<1>0. /\ attempts \in [Items -> Nat] /\ st \in [Items -> States] /\ orphans[i] \subseteq orphans'[i]
      /\ \A n \in accepted[i] : n <= attempts[i]
  BY HistoryGrows DEF TypeInv, ItemsTyped, AttemptInv, ItemInv
<1>1. ASSUME st[i] = "processing", UNCHANGED attempts PROVE Known(i)'
  <2>1. CASE attempts[i] \in accepted[i]
    <3>1. Known(i)
      BY <1>1, <2>1 DEF AcceptedIsAcknowledged, Reports
    <3> QED
      BY <1>0, <1>1, <3>1, ReportsUntilSettled
  <2>2. CASE attempts[i] \notin accepted[i]
    <3>1. PICK p \in Workers : w[p].item = i /\ w[p].claim = attempts[i]
                               /\ Becomes(p, {"sent"}) /\ Keeps(p)
      BY <1>1, <2>2, AcceptedGrow
    <3> QED
      BY <1>1, <3>1 DEF Becomes, Keeps, Reports
  <2> QED
    BY <2>1, <2>2
<1>2. ASSUME RowsMove PROVE Known(i)'
  BY <1>1, <1>2 DEF RowsMove
<1>3. ASSUME NEW p \in Workers, Complete(p) \/ Fail(p) PROVE Known(i)'
  <2>1. UNCHANGED attempts
    BY <1>3, ReportEffect
  <2>2. st[i] = "processing"
    BY <1>0, <1>3, ReportEffect DEF SettledAs
  <2> QED
    BY <1>1, <2>1, <2>2
<1>4. ASSUME NEW p \in Workers, NEW j \in Items, ClaimOne(p, j) PROVE Known(i)'
  <2>1. /\ st' = [st EXCEPT ![j] = "processing"]
        /\ attempts' = [attempts EXCEPT ![j] = attempts[j] + 1]
    BY <1>4, ClaimOneEffect
  <2>2. UNCHANGED <<accepted, orphans>>
    BY <1>4 DEF ClaimOne
  <2>3. i # j
    BY <1>0, <2>1, <2>2
  <2>4. st[i] = "processing" /\ attempts'[i] = attempts[i]
    BY <1>0, <2>1, <2>3
  <2>5. Known(i)
    BY <2>2, <2>4 DEF AcceptedIsAcknowledged, Reports
  <2>6. ASSUME NEW q \in Workers, Reports(q, i) PROVE Reports(q, i)'
    <3>1. w \in [Workers -> WorkerRows] /\ Becomes(p, {"load"}) /\ w[p].pc = "drain"
      BY <1>4, ClaimOneEffect DEF TypeInv, WorkersTyped, ClaimOne
    <3> QED
      BY <2>4, <2>6, <3>1 DEF Becomes, Reports
  <2> QED
    BY <2>2, <2>4, <2>5, <2>6
<1> QED
  BY <1>2, <1>3, <1>4, RowSteps

\* An item whose latest attempt was accepted is left in processing only by a worker that
\* still holds the acknowledgement, or that died with it.
THEOREM AcceptedIsAcknowledgedAlways == Spec => []AcceptedIsAcknowledged
<1>1. Init => AcceptedIsAcknowledged
  BY DEF Init, AcceptedIsAcknowledged
<1> QED
  BY <1>1, AttemptInvAlways, AcknowledgedStep, PTL DEF Spec

=============================================================================
