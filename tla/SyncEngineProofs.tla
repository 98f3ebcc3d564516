---------------------------- MODULE SyncEngineProofs ----------------------------
(* Proofs about SyncEngine, for every value of its constants. *)
EXTENDS SyncEngine, SequenceTheorems, FiniteSetTheorems, TLAPS

-----------------------------------------------------------------------------
(* Invariants. *)

Sts == Done \cup {"planned", "applied"}
Rows == [st : Sts, item : Nat]
InAction == {"check", "start", "write", "reread", "applied", "verify", "bind"}

Places == {"idle", "dead", "block", "gate"} \cup InAction
Positions == Nat \ {0}
Priors(acts) == {<<>>} \cup [acts -> Rows]
Resources(acts) == SUBSET [act : acts, item : Nat]
ExecRecords(acts) ==
  [pc : Places, blk : Nat, idx : Positions, prior : Priors(acts), expect : Seq(Items),
   res : Resources(acts), item : Nat, lost : BOOLEAN, pre : SUBSET Nat,
   good : Nat, bad : Nat, prepared : Nat]

\* Type correctness, part by part.
PlanTyped == plan \in Plans
RemoteTyped ==
  /\ agenda \in [Events -> Seq(Items)]
  /\ catalog \subseteq Actions /\ nextId \in Nat /\ nextId >= NewItem
  /\ made \in [Actions -> SUBSET (NewItem .. nextId - 1)]
  /\ \A k \in Events : \A i \in DOMAIN agenda[k] : agenda[k][i].id < nextId
  /\ \A k \in Events : \A i, j \in DOMAIN agenda[k] : agenda[k][i].id = agenda[k][j].id => i = j
RowsTyped ==
  /\ row \in [Actions -> Rows]
  /\ binding \subseteq [ev : Events, item : Nat, by : Actions \cup {0}]
  /\ synced \subseteq Events
RunTyped ==
  /\ run \in Ended \cup {"queued", "running"}
  /\ holder \in Executions \cup {NoExec}
  /\ run = "running" <=> holder # NoExec
  /\ evLease \in [Blocks -> Executions \cup {NoExec}]
ExecsTyped == x \in [Executions -> ExecRecords(Actions)]

\* Where an execution is: in a block of the plan that is not skipped, at an action of it;
\* and how many events it has counted.
InBlock(e) == x[e].pc = "gate" \/ x[e].pc \in InAction
Counted(n) == {k \in Events : k < n /\ plan.status[k] # "skipped"}
Shape(e) ==
  /\ Alive(e) => x[e].prior \in [Actions -> Rows]
  /\ InBlock(e) => x[e].blk \in Blocks /\ (x[e].blk > 0 => plan.status[x[e].blk] # "skipped")
  /\ x[e].pc \in InAction => x[e].idx <= Len(plan.block[x[e].blk])
  /\ x[e].pc \in {"check", "reread"} => Kind(Act(e)) \in Mutating
  /\ Alive(e) => x[e].good + x[e].bad <= Cardinality(Counted(x[e].blk))

TypeInv ==
  /\ PlanTyped /\ RemoteTyped /\ RowsTyped /\ RunTyped /\ ExecsTyped
  /\ \A e \in Executions : Shape(e)

\* An item that can be taken for the one of insert a: made by it or a twin, or written with
\* its song by a person.
OwnItem(a, item) ==
  \/ \E t \in Twins(a) : item \in made[t]
  \/ [id |-> item, song |-> plan.act[a].song] \in byHand

\* The item an action is said to have left: a new one of its own, or the one it names.
ItemFor(a, item) ==
  IF Kind(a) = "insert" THEN item >= NewItem /\ OwnItem(a, item) ELSE item = plan.act[a].item
Recorded(r) == r.st \in {"applied", "verified"}

\* Items that came after planning and carry the song of an insert can be taken for its own.
AgendaInv ==
  \A k \in Events : \A i \in DOMAIN agenda[k] :
    LET it == agenda[k][i] IN
    /\ it.id < NewItem => it.id \in Ids(plan.agenda[k])
    /\ it.id >= NewItem =>
         \A a \in Actions : Kind(a) = "insert" /\ plan.act[a].ev = k /\ plan.act[a].song = it.song
           => OwnItem(a, it.id)
MadeInv == \A a, b \in Actions : a # b => made[a] \cap made[b] = {}
RowInv == \A a \in Actions : Recorded(row[a]) => ItemFor(a, row[a].item)
BindingInv ==
  \A b \in binding : b.by # 0 => b.ev = plan.act[b.by].ev /\ ItemFor(b.by, b.item)

IsBound(a) == \E b \in binding : b.ev = plan.act[a].ev /\ StandsFor(b, a)
Binds(a) == Kind(a) \in {"insert", "replace"}

\* What an execution knows of earlier ones, of the item at hand and of the actions it
\* has done in the event.
KnowsItems(e) ==
  /\ Alive(e) => \A a \in Actions : Recorded(x[e].prior[a]) => ItemFor(a, x[e].prior[a].item)
  /\ x[e].pc \in {"applied", "verify", "bind"} => ItemFor(Act(e), x[e].item)
  /\ x[e].pc = "block" => x[e].idx = 1
  /\ x[e].pc = "check" => ~Recorded(x[e].prior[Act(e)])
  /\ x[e].pc = "reread" => \A i \in DOMAIN agenda[plan.act[Act(e)].ev] :
       agenda[plan.act[Act(e)].ev][i].id < NewItem =>
         agenda[plan.act[Act(e)].ev][i].id \in x[e].pre
  /\ InBlock(e) /\ x[e].blk > 0 => \A i \in DOMAIN plan.block[x[e].blk] :
       i < x[e].idx /\ Binds(plan.block[x[e].blk][i]) => IsBound(plan.block[x[e].blk][i])

OwnInv ==
  /\ AgendaInv /\ MadeInv /\ RowInv /\ BindingInv /\ CheckpointIsOwned
  /\ \A e \in Executions : KnowsItems(e)

-----------------------------------------------------------------------------
(* Sequences. *)

LEMMA InsertAtProperties ==
  ASSUME NEW S, NEW s \in Seq(S), NEW i \in 1 .. Len(s) + 1, NEW v \in S
  PROVE  /\ InsertAt(s, i, v) \in Seq(S)
         /\ Len(InsertAt(s, i, v)) = Len(s) + 1
         /\ \A j \in 1 .. Len(s) + 1 :
              InsertAt(s, i, v)[j] = IF j < i THEN s[j] ELSE IF j = i THEN v ELSE s[j - 1]
<1> DEFINE front == SubSeq(s, 1, i - 1)
           back == SubSeq(s, i, Len(s))
           head == front \o <<v>>
<1>1. Len(s) \in Nat /\ \A j \in 1 .. Len(s) : s[j] \in S
  BY LenProperties, ElementOfSeq
<1>2. /\ front \in Seq(S) /\ Len(front) = i - 1
      /\ \A j \in 1 .. i - 1 : front[j] = s[j]
  <2>1. \A j \in 1 .. i - 1 : s[j] \in S
    BY <1>1
  <2>2. /\ front \in Seq(S) /\ Len(front) = IF 1 <= i - 1 THEN (i - 1) - 1 + 1 ELSE 0
        /\ \A j \in 1 .. (i - 1) - 1 + 1 : front[j] = s[1 + j - 1]
    BY <2>1, <1>1, SubSeqProperties
  <2> HIDE DEF front
  <2> QED
    BY <2>2, <1>1
<1>3. /\ back \in Seq(S) /\ Len(back) = Len(s) - i + 1
      /\ \A j \in 1 .. Len(s) - i + 1 : back[j] = s[i + j - 1]
  <2>1. \A j \in i .. Len(s) : s[j] \in S
    BY <1>1
  <2>2. /\ back \in Seq(S) /\ Len(back) = IF i <= Len(s) THEN Len(s) - i + 1 ELSE 0
        /\ \A j \in 1 .. Len(s) - i + 1 : back[j] = s[i + j - 1]
    BY <2>1, <1>1, SubSeqProperties
  <2> HIDE DEF back
  <2> QED
    BY <2>2, <1>1
<1>4. <<v>> \in Seq(S) /\ Len(<<v>>) = 1 /\ <<v>>[1] = v
  <2>1. <<v>> = Append(<<>>, v)
    OBVIOUS
  <2>2. Append(<<>>, v) \in Seq(S)
    BY EmptySeq, AppendProperties
  <2>3. Len(<<v>>) = 1
    OBVIOUS
  <2> QED
    BY <2>1, <2>2, <2>3
<1>5. /\ head \in Seq(S) /\ Len(head) = i
      /\ \A j \in 1 .. i : head[j] = IF j < i THEN s[j] ELSE v
  <2>1. /\ head \in Seq(S) /\ Len(head) = Len(front) + Len(<<v>>)
        /\ \A j \in 1 .. Len(front) + Len(<<v>>) : head[j] =
             IF j <= Len(front) THEN front[j] ELSE <<v>>[j - Len(front)]
    BY <1>2, <1>4, ConcatProperties
  <2> HIDE DEF head, front
  <2> QED
    BY <2>1, <1>1, <1>2, <1>4
<1>6. InsertAt(s, i, v) = head \o back
  BY DEF InsertAt
<1>7. /\ head \o back \in Seq(S) /\ Len(head \o back) = Len(head) + Len(back)
      /\ \A j \in 1 .. Len(head) + Len(back) : (head \o back)[j] =
           IF j <= Len(head) THEN head[j] ELSE back[j - Len(head)]
  BY ZenonT(40), <1>3, <1>5, ConcatProperties
<1> HIDE DEF front, back, head
<1>8. Len(InsertAt(s, i, v)) = Len(s) + 1
  BY <1>1, <1>3, <1>5, <1>6, <1>7
<1>9. ASSUME NEW j \in 1 .. Len(s) + 1
      PROVE  InsertAt(s, i, v)[j] = IF j < i THEN s[j] ELSE IF j = i THEN v ELSE s[j - 1]
  <2>1. CASE j <= i
    BY <2>1, <1>1, <1>3, <1>5, <1>6, <1>7
  <2>2. CASE j > i
    <3>1. j - i \in 1 .. Len(s) - i + 1 /\ i + (j - i) - 1 = j - 1
      BY <2>2, <1>1
    <3> QED
      BY <2>2, <3>1, <1>1, <1>3, <1>5, <1>6, <1>7
  <2> QED
    BY <2>1, <2>2, <1>1
<1> QED
  BY <1>6, <1>7, <1>8, <1>9

LEMMA RemoveAtProperties ==
  ASSUME NEW S, NEW s \in Seq(S), NEW i \in 1 .. Len(s)
  PROVE  /\ RemoveAt(s, i) \in Seq(S)
         /\ Len(RemoveAt(s, i)) = Len(s) - 1
         /\ \A j \in 1 .. Len(s) - 1 :
              RemoveAt(s, i)[j] = IF j < i THEN s[j] ELSE s[j + 1]
<1> DEFINE front == SubSeq(s, 1, i - 1)
           back == SubSeq(s, i + 1, Len(s))
<1>1. Len(s) \in Nat /\ \A j \in 1 .. Len(s) : s[j] \in S
  BY LenProperties, ElementOfSeq
<1>2. /\ front \in Seq(S) /\ Len(front) = i - 1
      /\ \A j \in 1 .. i - 1 : front[j] = s[j]
  <2>1. \A j \in 1 .. i - 1 : s[j] \in S
    BY <1>1
  <2>2. /\ front \in Seq(S) /\ Len(front) = IF 1 <= i - 1 THEN (i - 1) - 1 + 1 ELSE 0
        /\ \A j \in 1 .. (i - 1) - 1 + 1 : front[j] = s[1 + j - 1]
    BY <2>1, <1>1, SubSeqProperties
  <2> HIDE DEF front
  <2> QED
    BY <2>2, <1>1
<1>3. /\ back \in Seq(S) /\ Len(back) = Len(s) - i
      /\ \A j \in 1 .. Len(s) - i : back[j] = s[i + j]
  <2>1. \A j \in i + 1 .. Len(s) : s[j] \in S
    BY <1>1
  <2>2. /\ back \in Seq(S) /\ Len(back) = IF i + 1 <= Len(s) THEN Len(s) - (i + 1) + 1 ELSE 0
        /\ \A j \in 1 .. Len(s) - (i + 1) + 1 : back[j] = s[(i + 1) + j - 1]
    BY <2>1, <1>1, SubSeqProperties
  <2> HIDE DEF back
  <2> QED
    BY <2>2, <1>1
<1>4. RemoveAt(s, i) = front \o back
  BY DEF RemoveAt
<1>5. /\ front \o back \in Seq(S) /\ Len(front \o back) = Len(front) + Len(back)
      /\ \A j \in 1 .. Len(front) + Len(back) : (front \o back)[j] =
           IF j <= Len(front) THEN front[j] ELSE back[j - Len(front)]
  BY <1>2, <1>3, ConcatProperties
<1> HIDE DEF front, back
<1>6. ASSUME NEW j \in 1 .. Len(s) - 1
      PROVE  RemoveAt(s, i)[j] = IF j < i THEN s[j] ELSE s[j + 1]
  <2>1. CASE j < i
    BY <2>1, <1>1, <1>2, <1>3, <1>4, <1>5
  <2>2. CASE j >= i
    <3> DEFINE d == j - (i - 1)
    <3>1. d \in 1 .. Len(s) - i /\ i + d = j + 1
      BY <2>2, <1>1
    <3>2. RemoveAt(s, i)[j] = back[d]
      BY <2>2, <1>1, <1>2, <1>3, <1>4, <1>5
    <3> HIDE DEF d
    <3>3. back[d] = s[j + 1]
      BY <3>1, <1>3
    <3> QED
      BY <2>2, <3>2, <3>3, <1>1
  <2> QED
    BY <2>1, <2>2, <1>1
<1> QED
  BY <1>1, <1>2, <1>3, <1>4, <1>5, <1>6

\* An agenda has each id once, so At finds the item, or tells that there is none.
Distinct(ag) == \A i, j \in DOMAIN ag : ag[i].id = ag[j].id => i = j

LEMMA AtProperties ==
  ASSUME NEW ag \in Seq(Items), Distinct(ag), NEW id
  PROVE  /\ At(ag, id) \in 0 .. Len(ag)
         /\ At(ag, id) # 0 => ag[At(ag, id)].id = id
         /\ At(ag, id) = 0 => id \notin Ids(ag)
<1> DEFINE I == {i \in 1 .. Len(ag) : ag[i].id = id}
<1>1. Len(ag) \in Nat /\ DOMAIN ag = 1 .. Len(ag)
  BY LenProperties
<1>2. At(ag, id) = IF I # {} THEN Min(I) ELSE 0
  BY DEF At, SelectInSeq
<1>3. CASE I = {}
  BY <1>1, <1>2, <1>3 DEF Ids
<1>4. ASSUME NEW i \in I PROVE Min(I) = i
  <2>1. I = {i}
    BY <1>1, <1>4 DEF Distinct
  <2>2. i \in Int /\ i <= i
    BY <1>1
  <2> QED
    BY <2>1, <2>2 DEF Min
<1> QED
  BY <1>1, <1>2, <1>3, <1>4

-----------------------------------------------------------------------------
(* The plan and the executions. *)

LEMMA PlanFacts ==
  ASSUME PlanTyped
  PROVE  /\ plan.status \in Seq(STRING) /\ Len(plan.status) \in Nat
         /\ Events = 1 .. Len(plan.status) /\ Blocks = 0 .. Len(plan.status)
         /\ Actions = 1 .. Len(plan.act) /\ \A a \in Actions : plan.act[a] \in PlannedActions
         /\ \A k \in Blocks :
              /\ plan.block[k] \in Seq(Actions)
              /\ DOMAIN plan.block[k] = 1 .. Len(plan.block[k]) /\ Len(plan.block[k]) \in Nat
              /\ \A i \in 1 .. Len(plan.block[k]) :
                   /\ plan.block[k][i] \in Actions
                   /\ k = 0 => Kind(plan.block[k][i]) = "create"
                   /\ k > 0 => /\ Kind(plan.block[k][i]) # "create"
                               /\ plan.act[plan.block[k][i]].ev = k
         /\ \A k \in Events : plan.agenda[k] \in Seq(Items)
         /\ plan.owned \subseteq [ev : Events, item : 0 .. NewItem - 1, by : {0}]
<1>1. WellFormed(plan)
  BY EngineAssumption DEF PlanTyped
<1>2. plan.status \in Seq(STRING) /\ Len(plan.status) \in Nat /\ Events = 1 .. Len(plan.status)
  BY <1>1, LenProperties DEF WellFormed, Events
<1>3. Blocks = 0 .. Len(plan.status)
  BY <1>2 DEF Blocks
<1>4. Actions = 1 .. Len(plan.act) /\ \A a \in Actions : plan.act[a] \in PlannedActions
  BY <1>1, LenProperties, ElementOfSeq DEF WellFormed, Actions
<1>5. plan.block \in [Blocks -> Seq(Actions)]
  BY <1>1, <1>3 DEF WellFormed, Actions
<1>6. ASSUME NEW k \in Blocks
      PROVE  /\ plan.block[k] \in Seq(Actions)
             /\ DOMAIN plan.block[k] = 1 .. Len(plan.block[k]) /\ Len(plan.block[k]) \in Nat
             /\ \A i \in 1 .. Len(plan.block[k]) :
                  /\ plan.block[k][i] \in Actions
                  /\ k = 0 => Kind(plan.block[k][i]) = "create"
                  /\ k > 0 => /\ Kind(plan.block[k][i]) # "create"
                              /\ plan.act[plan.block[k][i]].ev = k
  <2>1. plan.block[k] \in Seq(Actions) /\ k \in DOMAIN plan.block
    BY <1>5
  <2>2. DOMAIN plan.block[k] = 1 .. Len(plan.block[k]) /\ Len(plan.block[k]) \in Nat
    BY <2>1, LenProperties
  <2>3. \A i \in 1 .. Len(plan.block[k]) : plan.block[k][i] \in Actions
    BY <2>1, ElementOfSeq
  <2>4. \A i \in DOMAIN plan.block[k] :
          IF k = 0 THEN Kind(plan.block[k][i]) = "create"
          ELSE Kind(plan.block[k][i]) # "create" /\ plan.act[plan.block[k][i]].ev = k
    BY <1>1, <2>1 DEF WellFormed, Kind
  <2> QED
    BY <2>1, <2>2, <2>3, <2>4
<1>7. \A k \in Events : plan.agenda[k] \in Seq(Items)
  BY <1>1 DEF WellFormed, Events
<1>8. plan.owned \subseteq [ev : Events, item : 0 .. NewItem - 1, by : {0}]
  BY <1>1 DEF WellFormed, Events
<1> QED
  BY <1>2, <1>3, <1>4, <1>6, <1>7, <1>8

LEMMA IdleTyped ==
  /\ Idle \in ExecRecords(Actions) /\ Idle.pc = "idle"
  /\ [Idle EXCEPT !.pc = "dead"] \in ExecRecords(Actions)
  /\ [Idle EXCEPT !.pc = "dead"].pc = "dead"
<1>1. <<>> \in Seq(Items)
  BY EmptySeq
<1>2. <<>> \in Priors(Actions) /\ {} \in Resources(Actions)
  BY DEF Priors, Resources
<1>3. {} \in SUBSET Nat /\ 1 \in Positions /\ {"idle", "dead"} \subseteq Places
  BY DEF Positions, Places
<1>4. Idle \in ExecRecords(Actions)
  BY <1>1, <1>2, <1>3 DEF Idle, ExecRecords, NoItem
<1>5. [Idle EXCEPT !.pc = "dead"] \in ExecRecords(Actions)
  BY <1>3, <1>4 DEF ExecRecords
<1> QED
  BY <1>4, <1>5 DEF Idle

LEMMA PlannedFacts ==
  ASSUME TypeInv, NEW a \in Actions
  PROVE  /\ plan.act[a] \in PlannedActions /\ Kind(a) \in Kinds
         /\ plan.act[a].item \in Nat /\ plan.act[a].item < NewItem
         /\ plan.act[a].song \in STRING
         /\ Kind(a) = "create" => plan.act[a].item = NoItem
<1>1. plan.act[a] \in PlannedActions
  BY PlanFacts DEF TypeInv
<1>2. plan.act[a].kind \in Kinds /\ plan.act[a].item \in 0 .. NewItem - 1
      /\ plan.act[a].song \in STRING
  BY <1>1 DEF PlannedActions
<1>3. plan.act[a].item \in Nat /\ plan.act[a].item < NewItem
  BY <1>2 DEF NewItem
<1>4. Kind(a) = "create" => plan.act[a].item = NoItem
  BY EngineAssumption DEF TypeInv, PlanTyped, WellFormed, Actions, Kind
<1> QED
  BY <1>1, <1>2, <1>3, <1>4 DEF Kind

\* The action at hand is one of the plan's, and of the event that is open.
LEMMA ActFacts ==
  ASSUME TypeInv, NEW e \in Executions, InBlock(e),
         x[e].idx <= Len(plan.block[x[e].blk])
  PROVE  /\ x[e] \in ExecRecords(Actions) /\ x[e].blk \in Blocks
         /\ x[e].idx \in 1 .. Len(plan.block[x[e].blk])
         /\ Act(e) \in Actions /\ plan.act[Act(e)] \in PlannedActions
         /\ x[e].blk = 0 => Kind(Act(e)) = "create"
         /\ x[e].blk > 0 => Kind(Act(e)) # "create" /\ plan.act[Act(e)].ev = x[e].blk
<1>1. x[e] \in ExecRecords(Actions) /\ x[e].blk \in Blocks
  BY DEF TypeInv, ExecsTyped, Shape
<1>2. x[e].idx \in Nat \ {0}
  BY <1>1 DEF ExecRecords, Positions
<1>3. PlanTyped
  BY DEF TypeInv
<1>4. x[e].idx \in 1 .. Len(plan.block[x[e].blk])
  BY <1>1, <1>2, <1>3, PlanFacts
<1> QED
  BY <1>1, <1>3, <1>4, PlanFacts DEF Act

\* A step that only concerns execution e.
LEMMA OneExec ==
  ASSUME TypeInv, NEW e \in Executions, NEW r, x' = [x EXCEPT ![e] = r],
         plan' = plan, r \in ExecRecords(Actions), Shape(e)'
  PROVE  PlanTyped' /\ ExecsTyped' /\ \A f \in Executions : Shape(f)'
<1>1. x \in [Executions -> ExecRecords(Actions)] /\ Actions' = Actions
  BY DEF TypeInv, ExecsTyped, Actions
<1>2. ExecsTyped'
  BY <1>1 DEF ExecsTyped
<1>3. ASSUME NEW f \in Executions, f # e PROVE Shape(f)'
  <2>1. x'[f] = x[f] /\ Shape(f)
    BY <1>1, <1>3 DEF TypeInv
  <2> QED
    BY <2>1, <1>1 DEF Shape, Alive, InBlock, Act, Kind, Blocks, Events, Counted, Actions
<1> QED
  BY <1>2, <1>3 DEF TypeInv, PlanTyped

\* An execution that stops has no shape to keep.
LEMMA StopType ==
  ASSUME TypeInv, NEW e \in Executions, UNCHANGED <<plan, Remote, row, binding, synced>>,
         x' = [x EXCEPT ![e] = [Idle EXCEPT !.pc = "dead"]], RunTyped'
  PROVE  TypeInv'
<1>1. x'[e] = [Idle EXCEPT !.pc = "dead"]
  BY DEF TypeInv, ExecsTyped
<1>2. Shape(e)'
  BY <1>1, IdleTyped DEF Shape, Alive, InBlock, InAction
<1>3. RemoteTyped'
  BY DEF TypeInv, RemoteTyped, Remote, Events, Actions
<1>4. RowsTyped'
  BY DEF TypeInv, RowsTyped, Events, Actions
<1> QED
  BY <1>2, <1>3, <1>4, IdleTyped, OneExec DEF TypeInv

LEMMA ReleaseType ==
  ASSUME TypeInv, NEW e \in Executions, UNCHANGED <<plan, run, holder>>, Release(e)
  PROVE  RunTyped'
  BY DEF TypeInv, RunTyped, Release, Blocks, Events

-----------------------------------------------------------------------------
(* How a block ends. *)

LEMMA CountedGrows ==
  ASSUME PlanTyped, NEW n \in Nat
  PROVE  /\ Cardinality(Counted(n)) \in Nat
         /\ Cardinality(Counted(n)) <= Cardinality(Counted(n + 1))
         /\ n \in Events /\ plan.status[n] # "skipped" =>
              Cardinality(Counted(n + 1)) = Cardinality(Counted(n)) + 1
<1>1. \A m \in Nat : IsFiniteSet(Counted(m))
  <2>1. 1 \in Int /\ Len(plan.status) \in Int /\ Events = 1 .. Len(plan.status)
    BY PlanFacts
  <2>2. IsFiniteSet(Events)
    BY <2>1, FS_Interval
  <2> QED
    BY <2>2, FS_Subset DEF Counted
<1>2. IsFiniteSet(Counted(n)) /\ IsFiniteSet(Counted(n + 1))
  BY <1>1
<1>3. \A k \in Events : k \in Nat
  BY PlanFacts
<1>4. Counted(n) \subseteq Counted(n + 1) /\ n \notin Counted(n)
  BY <1>3 DEF Counted
<1>5. ASSUME n \in Events, plan.status[n] # "skipped"
      PROVE  Cardinality(Counted(n + 1)) = Cardinality(Counted(n)) + 1
  <2>1. Counted(n + 1) = Counted(n) \cup {n}
    <3>1. \A k \in Events : k < n + 1 <=> k < n \/ k = n
      BY <1>3
    <3> QED
      BY <1>5, <3>1 DEF Counted
  <2> QED
    BY <1>2, <1>4, <2>1, FS_AddElement
<1> QED
  BY <1>2, <1>4, <1>5, FS_CardinalityType, FS_Subset

LEMMA CountedRecord ==
  ASSUME NEW s \in ExecRecords(Actions), NEW blk \in Nat, NEW good \in Nat, NEW bad \in Nat
  PROVE  [s EXCEPT !.pc = "block", !.blk = blk, !.idx = 1, !.lost = FALSE, !.item = NoItem,
                   !.good = good, !.bad = bad] \in ExecRecords(Actions)
<1>1. [s EXCEPT !.pc = "block", !.blk = blk, !.idx = 1, !.lost = FALSE] \in ExecRecords(Actions)
  <2>1. 1 \in Positions /\ "block" \in Places
    BY DEF Positions, Places
  <2> QED
    BY <2>1 DEF ExecRecords
<1>2. ASSUME NEW t \in ExecRecords(Actions)
      PROVE  [t EXCEPT !.item = NoItem, !.good = good, !.bad = bad] \in ExecRecords(Actions)
  BY DEF ExecRecords, NoItem
<1> QED
  BY <1>1, <1>2

LEMMA NextBlockType ==
  ASSUME TypeInv, NEW e \in Executions, NEW good \in BOOLEAN, NextBlock(e, good),
         plan' = plan, Alive(e), x[e].blk \in Blocks,
         x[e].blk > 0 => plan.status[x[e].blk] # "skipped"
  PROVE  PlanTyped' /\ ExecsTyped' /\ \A f \in Executions : Shape(f)'
<1>1. x \in [Executions -> ExecRecords(Actions)] /\ x[e] \in ExecRecords(Actions)
  BY DEF TypeInv, ExecsTyped
<1> DEFINE r == [x[e] EXCEPT
          !.pc = "block", !.blk = x[e].blk + 1, !.idx = 1, !.lost = FALSE, !.item = NoItem,
          !.good = IF x[e].blk > 0 /\ good THEN x[e].good + 1 ELSE x[e].good,
          !.bad = IF x[e].blk > 0 /\ ~good THEN x[e].bad + 1 ELSE x[e].bad]
<1>2. x' = [x EXCEPT ![e] = r]
  BY <1>1 DEF NextBlock
<1>3. r \in ExecRecords(Actions)
  <2> DEFINE g == IF x[e].blk > 0 /\ good THEN x[e].good + 1 ELSE x[e].good
             b == IF x[e].blk > 0 /\ ~good THEN x[e].bad + 1 ELSE x[e].bad
  <2>1. x[e].blk + 1 \in Nat
    BY <1>1 DEF ExecRecords
  <2>2. g \in Nat /\ b \in Nat
    BY <1>1 DEF ExecRecords
  <2>3. r = [x[e] EXCEPT !.pc = "block", !.blk = x[e].blk + 1, !.idx = 1, !.lost = FALSE,
                         !.item = NoItem, !.good = g, !.bad = b]
    OBVIOUS
  <2> HIDE DEF g, b, r
  <2> QED
    BY <1>1, <2>1, <2>2, <2>3, CountedRecord
<1>4. /\ r.pc = "block" /\ r.blk = x[e].blk + 1 /\ r.prior = x[e].prior
      /\ r.good = IF x[e].blk > 0 /\ good THEN x[e].good + 1 ELSE x[e].good
      /\ r.bad = IF x[e].blk > 0 /\ ~good THEN x[e].bad + 1 ELSE x[e].bad
  BY <1>1 DEF ExecRecords
<1>5. x[e].blk \in Nat /\ x[e].good \in Nat /\ x[e].bad \in Nat
  BY <1>1 DEF ExecRecords
<1> HIDE DEF r
<1>6. x'[e] = r
  BY <1>1, <1>2
<1>7. r.good + r.bad <= Cardinality(Counted(r.blk))
  <2>1. /\ Cardinality(Counted(x[e].blk)) \in Nat
        /\ Cardinality(Counted(x[e].blk + 1)) \in Nat
        /\ Cardinality(Counted(x[e].blk)) <= Cardinality(Counted(x[e].blk + 1))
        /\ x[e].blk \in Events /\ plan.status[x[e].blk] # "skipped" =>
             Cardinality(Counted(x[e].blk + 1)) = Cardinality(Counted(x[e].blk)) + 1
    BY <1>5, CountedGrows DEF TypeInv
  <2>2. x[e].good + x[e].bad <= Cardinality(Counted(x[e].blk))
    BY DEF TypeInv, Shape
  <2>3. x[e].blk > 0 => x[e].blk \in Events
    BY PlanFacts DEF TypeInv
  <2>4. CASE x[e].blk = 0
    BY <1>4, <1>5, <2>1, <2>2, <2>4
  <2>5. CASE x[e].blk > 0
    BY <1>4, <1>5, <2>1, <2>2, <2>3, <2>5
  <2> QED
    BY <1>5, <2>4, <2>5
<1>8. x[e].prior \in [Actions -> Rows]
  BY DEF TypeInv, Shape
<1>9. Shape(e)'
  BY <1>4, <1>6, <1>7, <1>8
  DEF Shape, InBlock, InAction, Alive, Counted, Events, Actions
<1> QED
  BY <1>2, <1>3, <1>9, OneExec

\* The execution stays in its block and goes to the next or another step of it.
LEMMA StayType ==
  ASSUME TypeInv, NEW e \in Executions, NEW r \in ExecRecords(Actions),
         x' = [x EXCEPT ![e] = r], plan' = plan, Alive(e), x[e].blk \in Blocks,
         x[e].blk > 0 => plan.status[x[e].blk] # "skipped",
         r.pc = "gate" \/ r.pc \in InAction, r.blk = x[e].blk, r.prior = x[e].prior,
         r.good = x[e].good, r.bad = x[e].bad,
         r.pc \in InAction => r.idx <= Len(plan.block[r.blk]),
         r.pc \in {"check", "reread"} => Kind(plan.block[r.blk][r.idx]) \in Mutating
  PROVE  PlanTyped' /\ ExecsTyped' /\ \A f \in Executions : Shape(f)'
<1>1. x'[e] = r
  BY DEF TypeInv, ExecsTyped
<1>2. /\ x[e].prior \in [Actions -> Rows]
      /\ x[e].good + x[e].bad <= Cardinality(Counted(x[e].blk))
  BY DEF TypeInv, Shape
<1>3. Shape(e)'
  BY <1>1, <1>2 DEF Shape, InBlock, Alive, InAction, Counted, Events, Blocks, Actions, Act, Kind
<1> QED
  BY <1>3, OneExec

LEMMA RowTypes ==
  ASSUME NEW rows \in [Actions -> Rows]
  PROVE  /\ \A a \in Actions, st \in Sts, item \in Nat : WithRow(rows, a, st, item) \in [Actions -> Rows]
         /\ \A k, i : SkipFrom(rows, k, i) \in [Actions -> Rows]
  BY DEF WithRow, SkipFrom, Rows, Sts, Done, NoItem

LEMMA FailedType ==
  ASSUME TypeInv, NEW e \in Executions, InBlock(e),
         x[e].idx <= Len(plan.block[x[e].blk]), NEW st \in Sts, Failed(e, st)
  PROVE  TypeInv'
<1>1. /\ Act(e) \in Actions /\ x[e] \in ExecRecords(Actions) /\ x[e].blk \in Blocks
      /\ x[e].idx \in Nat \ {0} /\ x[e].blk \in Nat
  BY ActFacts DEF ExecRecords, Positions
<1>2. Alive(e) /\ (x[e].blk > 0 => plan.status[x[e].blk] # "skipped")
  BY DEF TypeInv, Shape, Alive, InBlock, InAction
<1>3. WithRow(row, Act(e), st, NoItem) \in [Actions -> Rows]
  BY <1>1, RowTypes DEF TypeInv, RowsTyped, NoItem
<1> DEFINE settled == WithRow(row, Act(e), st, NoItem)
<1>4. CASE ~Fence(e)
  <2>1. Stop(e)
    BY <1>4 DEF Failed
  <2> QED
    BY <2>1, ReleaseType, StopType DEF Stop
<1>5. CASE Fence(e) /\ x[e].blk = 0
  <2> DEFINE r == [x[e] EXCEPT !.pc = "gate", !.idx = x[e].idx + 1]
  <2>1. /\ row' = settled /\ x' = [x EXCEPT ![e] = r]
        /\ UNCHANGED <<plan, Remote, binding, synced, run, holder, evLease>>
    BY <1>5 DEF Failed, TypeInv, ExecsTyped
  <2>2. x[e].idx + 1 \in Nat \ {0}
    BY <1>1
  <2>3. /\ r \in ExecRecords(Actions) /\ r.pc = "gate" /\ r.blk = x[e].blk
        /\ r.prior = x[e].prior /\ r.good = x[e].good /\ r.bad = x[e].bad
    BY <1>1, <2>2 DEF ExecRecords, Positions, Places
  <2> HIDE DEF r
  <2>4. PlanTyped' /\ ExecsTyped' /\ \A f \in Executions : Shape(f)'
    BY <1>1, <1>2, <2>1, <2>3, StayType DEF InAction
  <2>5. RowsTyped'
    BY <1>3, <2>1 DEF TypeInv, RowsTyped, Actions, Events
  <2>6. RemoteTyped' /\ RunTyped'
    BY <2>1 DEF TypeInv, RemoteTyped, RunTyped, Remote, Actions, Events, Blocks
  <2> QED
    BY <2>4, <2>5, <2>6 DEF TypeInv
<1>6. CASE Fence(e) /\ x[e].blk # 0
  <2>1. /\ row' = SkipFrom(settled, x[e].blk, x[e].idx + 1) /\ NextBlock(e, FALSE)
        /\ Release(e) /\ UNCHANGED <<plan, Remote, binding, synced, run, holder>>
    BY <1>6 DEF Failed
  <2>2. PlanTyped' /\ ExecsTyped' /\ \A f \in Executions : Shape(f)'
    BY <1>1, <1>2, <2>1, NextBlockType
  <2>3. SkipFrom(settled, x[e].blk, x[e].idx + 1) \in [Actions -> Rows]
    BY <1>3, RowTypes
  <2>4. RowsTyped'
    BY <2>1, <2>3 DEF TypeInv, RowsTyped, Actions, Events
  <2>5. RemoteTyped'
    BY <2>1 DEF TypeInv, RemoteTyped, Remote, Actions, Events
  <2> QED
    BY <2>1, <2>2, <2>4, <2>5, ReleaseType DEF TypeInv
<1> QED
  BY <1>4, <1>5, <1>6

-----------------------------------------------------------------------------
(* What happens to the agendas. *)

Shows(k, it) == \E m \in DOMAIN agenda[k] : agenda[k][m] = it

\* An agenda has distinct ids, all of them given out.
AgendaTyped(ag, next) ==
  /\ ag \in Seq(Items) /\ Distinct(ag)
  /\ \A i \in DOMAIN ag : ag[i].id < next

LEMMA AgendasTyped ==
  ASSUME TypeInv, NEW k \in Events
  PROVE  /\ AgendaTyped(agenda[k], nextId) /\ Len(agenda[k]) \in Nat
         /\ DOMAIN agenda[k] = 1 .. Len(agenda[k])
         /\ \A i \in 1 .. Len(agenda[k]) : agenda[k][i] \in Items
<1>1. agenda[k] \in Seq(Items)
  BY DEF TypeInv, RemoteTyped
<1>2. /\ Len(agenda[k]) \in Nat /\ DOMAIN agenda[k] = 1 .. Len(agenda[k])
      /\ \A i \in 1 .. Len(agenda[k]) : agenda[k][i] \in Items
  BY <1>1, LenProperties, ElementOfSeq
<1> QED
  BY <1>1, <1>2 DEF TypeInv, RemoteTyped, AgendaTyped, Distinct

\* One agenda is written.
Writes(k, ag) == agenda' = [agenda EXCEPT ![k] = ag]

LEMMA OneAgenda ==
  ASSUME TypeInv, NEW k \in Events, NEW ag, agenda' = [agenda EXCEPT ![k] = ag],
         nextId' \in Nat, nextId' >= nextId, AgendaTyped(ag, nextId'), plan' = plan,
         catalog' \subseteq Actions, made' \in [Actions -> SUBSET (NewItem .. nextId' - 1)]
  PROVE  RemoteTyped'
<1>1. agenda \in [Events -> Seq(Items)] /\ nextId \in Nat /\ nextId >= NewItem
  BY DEF TypeInv, RemoteTyped
<1>2. agenda' \in [Events -> Seq(Items)] /\ nextId' >= NewItem
  BY <1>1 DEF AgendaTyped, NewItem
<1>3. ASSUME NEW m \in Events PROVE AgendaTyped(agenda'[m], nextId')
  <2>1. CASE m = k
    BY <1>1, <2>1
  <2>2. CASE m # k
    <3>1. agenda'[m] = agenda[m]
      BY <1>1, <2>2
    <3>2. AgendaTyped(agenda[m], nextId) /\ DOMAIN agenda[m] = 1 .. Len(agenda[m])
      BY AgendasTyped
    <3>3. \A i \in DOMAIN agenda[m] : agenda[m][i].id \in Nat
      BY AgendasTyped DEF Items
    <3> QED
      BY <1>1, <3>1, <3>2, <3>3 DEF AgendaTyped
  <2> QED
    BY <2>1, <2>2
<1> QED
  BY <1>2, <1>3 DEF RemoteTyped, AgendaTyped, Distinct, Events, Actions

LEMMA AgendaInsert ==
  ASSUME TypeInv, NEW k \in Events, NEW i \in 1 .. Len(agenda[k]) + 1,
         NEW v \in Items, v.id = nextId, Writes(k, InsertAt(agenda[k], i, v)),
         nextId' = nextId + 1, plan' = plan, catalog' \subseteq Actions,
         made' \in [Actions -> SUBSET (NewItem .. nextId)]
  PROVE  /\ RemoteTyped'
         /\ \A m \in Events : \A j \in DOMAIN agenda'[m] :
              \/ Shows(m, agenda'[m][j])
              \/ m = k /\ agenda'[m][j] = v
<1> DEFINE ag == agenda[k]
           new == InsertAt(ag, i, v)
<1>1. /\ AgendaTyped(ag, nextId) /\ Len(ag) \in Nat /\ DOMAIN ag = 1 .. Len(ag)
      /\ \A j \in 1 .. Len(ag) : ag[j] \in Items
  BY AgendasTyped
<1>2. nextId \in Nat /\ agenda \in [Events -> Seq(Items)]
  BY DEF TypeInv, RemoteTyped
<1>3. /\ new \in Seq(Items) /\ Len(new) = Len(ag) + 1
      /\ \A j \in 1 .. Len(ag) + 1 : new[j] = IF j < i THEN ag[j] ELSE IF j = i THEN v ELSE ag[j - 1]
  <2>1. ag \in Seq(Items)
    BY <1>1 DEF AgendaTyped
  <2>2. i \in 1 .. Len(ag) + 1 /\ v \in Items
    OBVIOUS
  <2> HIDE DEF ag
  <2> QED
    BY <2>1, <2>2, InsertAtProperties
<1>4. DOMAIN new = 1 .. Len(ag) + 1
  BY <1>3, LenProperties
<1>5. agenda'[k] = new /\ \A m \in Events \ {k} : agenda'[m] = agenda[m]
  BY <1>2 DEF Writes
<1> HIDE DEF new
<1>6. \A j \in DOMAIN new :
        \/ j = i /\ new[j] = v
        \/ j < i /\ j \in DOMAIN ag /\ new[j] = ag[j]
        \/ j > i /\ j - 1 \in DOMAIN ag /\ new[j] = ag[j - 1]
  BY <1>1, <1>3, <1>4
<1> HIDE DEF ag
<1>7. \A j \in DOMAIN ag : ag[j].id \in Nat /\ ag[j].id < nextId
  BY <1>1 DEF AgendaTyped, Items
<1>8. AgendaTyped(new, nextId')
  <2>1. \A j \in DOMAIN new : new[j].id < nextId + 1
    BY <1>2, <1>6, <1>7
  <2>2. ASSUME NEW j \in DOMAIN new, NEW m \in DOMAIN new, new[j].id = new[m].id PROVE j = m
    <3>1. \A p, q \in DOMAIN ag : ag[p].id = ag[q].id => p = q
      BY <1>1 DEF AgendaTyped, Distinct
    <3>2. i \in Nat /\ j \in Nat /\ m \in Nat
      BY <1>1, <1>4 DEF ag
    <3>3. CASE j = i \/ m = i
      BY <1>2, <1>6, <1>7, <2>2, <3>2, <3>3
    <3>4. CASE j # i /\ m # i
      <4>1. PICK p \in DOMAIN ag : new[j] = ag[p] /\ p = IF j < i THEN j ELSE j - 1
        BY <1>6, <3>2, <3>4
      <4>2. PICK q \in DOMAIN ag : new[m] = ag[q] /\ q = IF m < i THEN m ELSE m - 1
        BY <1>6, <3>2, <3>4
      <4>3. p = q
        BY <2>2, <3>1, <4>1, <4>2
      <4> QED
        BY <3>2, <3>4, <4>1, <4>2, <4>3
    <3> QED
      BY <3>3, <3>4
  <2> QED
    BY <1>3, <2>1, <2>2 DEF AgendaTyped, Distinct
<1>9. RemoteTyped'
  <2>1. agenda' = [agenda EXCEPT ![k] = new]
    BY DEF new, ag, Writes
  <2>2. made' \in [Actions -> SUBSET (NewItem .. nextId' - 1)] /\ nextId' \in Nat /\ nextId' >= nextId
    BY <1>2
  <2> QED
    BY <1>8, <2>1, <2>2, OneAgenda
<1>10. ASSUME NEW m \in Events, NEW j \in DOMAIN agenda'[m]
       PROVE  Shows(m, agenda'[m][j]) \/ (m = k /\ agenda'[m][j] = v)
  <2>1. CASE m = k
    <3>1. j \in DOMAIN new /\ agenda'[m][j] = new[j]
      BY <1>5, <1>10, <2>1
    <3> QED
      BY <1>6, <2>1, <3>1 DEF Shows, ag
  <2>2. CASE m # k
    BY <1>5, <1>10, <2>2 DEF Shows
  <2> QED
    BY <2>1, <2>2
<1> QED
  BY <1>9, <1>10

LEMMA AgendaRemove ==
  ASSUME TypeInv, NEW k \in Events, NEW i \in 1 .. Len(agenda[k]),
         Writes(k, RemoveAt(agenda[k], i)),
         UNCHANGED <<nextId, plan, catalog, made>>
  PROVE  /\ RemoteTyped'
         /\ \A m \in Events : \A j \in DOMAIN agenda'[m] : Shows(m, agenda'[m][j])
<1> DEFINE ag == agenda[k]
           new == RemoveAt(ag, i)
<1>1. /\ AgendaTyped(ag, nextId) /\ Len(ag) \in Nat /\ DOMAIN ag = 1 .. Len(ag)
  BY AgendasTyped
<1>2. agenda \in [Events -> Seq(Items)] /\ nextId \in Nat
  BY DEF TypeInv, RemoteTyped
<1>3. /\ new \in Seq(Items) /\ Len(new) = Len(ag) - 1
      /\ \A j \in 1 .. Len(ag) - 1 : new[j] = IF j < i THEN ag[j] ELSE ag[j + 1]
  <2>1. ag \in Seq(Items)
    BY <1>1 DEF AgendaTyped
  <2> QED
    BY <2>1, RemoveAtProperties
<1>4. DOMAIN new = 1 .. Len(ag) - 1
  BY <1>3, LenProperties
<1>5. agenda'[k] = new /\ \A m \in Events \ {k} : agenda'[m] = agenda[m]
  BY <1>2 DEF Writes
<1> HIDE DEF new
<1>6. \A j \in DOMAIN new : LET p == IF j < i THEN j ELSE j + 1 IN p \in DOMAIN ag /\ new[j] = ag[p]
  BY <1>1, <1>3, <1>4
<1>7. i \in Nat /\ \A j \in DOMAIN new : j \in Nat
  BY <1>1, <1>4
<1> HIDE DEF ag
<1>8. AgendaTyped(new, nextId)
  <2>1. \A j \in DOMAIN new : new[j].id < nextId
    BY <1>1, <1>6 DEF AgendaTyped
  <2>2. ASSUME NEW j \in DOMAIN new, NEW m \in DOMAIN new, new[j].id = new[m].id PROVE j = m
    <3>1. (IF j < i THEN j ELSE j + 1) = (IF m < i THEN m ELSE m + 1)
      BY <1>1, <1>6, <2>2 DEF AgendaTyped, Distinct
    <3> QED
      BY <1>7, <3>1
  <2> QED
    BY <1>3, <2>1, <2>2 DEF AgendaTyped, Distinct
<1>9. RemoteTyped'
  <2>1. agenda' = [agenda EXCEPT ![k] = new]
    BY DEF new, ag, Writes
  <2>2. made' \in [Actions -> SUBSET (NewItem .. nextId' - 1)] /\ catalog' \subseteq Actions
    BY DEF TypeInv, RemoteTyped
  <2>3. nextId' \in Nat /\ nextId' >= nextId /\ AgendaTyped(new, nextId')
    BY <1>2, <1>8
  <2> QED
    BY <2>1, <2>2, <2>3, OneAgenda
<1>10. ASSUME NEW m \in Events, NEW j \in DOMAIN agenda'[m]
       PROVE  Shows(m, agenda'[m][j])
  <2>1. CASE m = k
    <3>1. j \in DOMAIN new /\ agenda'[m][j] = new[j]
      BY <1>5, <1>10, <2>1
    <3> QED
      BY <1>6, <2>1, <3>1 DEF Shows, ag
  <2>2. CASE m # k
    BY <1>5, <1>10, <2>2 DEF Shows
  <2> QED
    BY <2>1, <2>2
<1> QED
  BY <1>9, <1>10

LEMMA AgendaReplace ==
  ASSUME TypeInv, NEW k \in Events, NEW i \in 1 .. Len(agenda[k]),
         NEW v \in Items, v.id = agenda[k][i].id, Writes(k, ReplaceAt(agenda[k], i, v)),
         UNCHANGED <<nextId, plan, catalog, made>>
  PROVE  /\ RemoteTyped'
         /\ \A m \in Events : \A j \in DOMAIN agenda'[m] :
              \/ Shows(m, agenda'[m][j])
              \/ /\ m = k /\ agenda'[m][j] = v
                 /\ \E it \in Items : it.id = v.id /\ Shows(m, it)
<1> DEFINE ag == agenda[k]
           new == ReplaceAt(ag, i, v)
<1>1. /\ AgendaTyped(ag, nextId) /\ Len(ag) \in Nat /\ DOMAIN ag = 1 .. Len(ag)
      /\ ag[i] \in Items
  BY AgendasTyped
<1>2. agenda \in [Events -> Seq(Items)] /\ nextId \in Nat
  BY DEF TypeInv, RemoteTyped
<1>3. v \in Items /\ v.id = ag[i].id
  OBVIOUS
<1>4. /\ new \in Seq(Items) /\ Len(new) = Len(ag)
      /\ \A j \in 1 .. Len(ag) : new[j] = IF j = i THEN v ELSE ag[j]
  <2>1. ag \in Seq(Items)
    BY <1>1 DEF AgendaTyped
  <2> QED
    BY <1>3, <2>1, ExceptSeq DEF ReplaceAt
<1>5. DOMAIN new = DOMAIN ag
  BY <1>1, <1>4, LenProperties
<1>6. agenda'[k] = new /\ \A m \in Events \ {k} : agenda'[m] = agenda[m]
  BY <1>2 DEF Writes
<1> HIDE DEF new
<1>7. \A j \in DOMAIN new : new[j].id = ag[j].id
  BY <1>1, <1>3, <1>4, <1>5
<1>8. AgendaTyped(new, nextId)
  BY <1>1, <1>4, <1>5, <1>7 DEF AgendaTyped, Distinct
<1>9. RemoteTyped'
  <2>1. agenda' = [agenda EXCEPT ![k] = new]
    BY DEF new, Writes
  <2>2. made' \in [Actions -> SUBSET (NewItem .. nextId' - 1)] /\ catalog' \subseteq Actions
    BY DEF TypeInv, RemoteTyped
  <2>3. nextId' \in Nat /\ nextId' >= nextId /\ AgendaTyped(new, nextId')
    BY <1>2, <1>8
  <2> QED
    BY <2>1, <2>2, <2>3, OneAgenda
<1>10. \E it \in Items : it.id = v.id /\ Shows(k, it)
  BY <1>1 DEF Shows
<1>11. ASSUME NEW m \in Events, NEW j \in DOMAIN agenda'[m]
       PROVE  \/ Shows(m, agenda'[m][j])
              \/ m = k /\ agenda'[m][j] = v /\ \E it \in Items : it.id = v.id /\ Shows(m, it)
  <2>1. CASE m = k
    <3>1. j \in DOMAIN ag /\ agenda'[m][j] = new[j]
      BY <1>5, <1>6, <1>11, <2>1
    <3>2. CASE j = i
      BY <1>1, <1>4, <1>10, <2>1, <3>1, <3>2
    <3>3. CASE j # i
      <4>1. agenda'[m][j] = agenda[m][j]
        BY <1>1, <1>4, <2>1, <3>1, <3>3
      <4> QED
        BY <2>1, <3>1, <4>1 DEF Shows
    <3> QED
      BY <3>2, <3>3
  <2>2. CASE m # k
    BY <1>6, <1>11, <2>2 DEF Shows
  <2> QED
    BY <2>1, <2>2
<1> QED
  BY <1>9, <1>11

\* What a write of the program makes of the agendas.
LEMMA EffectFacts ==
  ASSUME TypeInv, NEW e \in Executions, NEW a \in Actions,
         Kind(a) \in Mutating => plan.act[a].ev \in Events,
         NEW item, Effect(e, a, item), plan' = plan
  PROVE  /\ RemoteTyped' /\ item \in Nat /\ byHand' = byHand
         /\ Kind(a) # "insert" => item = plan.act[a].item /\ UNCHANGED <<made, nextId>>
         /\ Kind(a) = "insert" => /\ item = nextId /\ nextId' = nextId + 1
                                  /\ made' = [made EXCEPT ![a] = made[a] \cup {nextId}]
         /\ \A m \in Events : \A j \in DOMAIN agenda'[m] :
              \/ Shows(m, agenda'[m][j])
              \/ /\ Kind(a) = "insert" /\ m = plan.act[a].ev
                 /\ agenda'[m][j].id = nextId /\ agenda'[m][j].song = plan.act[a].song
              \/ /\ m = plan.act[a].ev /\ agenda'[m][j].id = plan.act[a].item
                 /\ \E it \in Items : it.id = plan.act[a].item /\ Shows(m, it)
<1> DEFINE k == plan.act[a].ev
<1>1. /\ plan.act[a].item \in Nat /\ plan.act[a].song \in STRING /\ Kind(a) \in Kinds
      /\ plan.act[a].item < NewItem
  BY PlannedFacts
<1>2. /\ nextId \in Nat /\ nextId >= NewItem /\ catalog \subseteq Actions
      /\ made \in [Actions -> SUBSET (NewItem .. nextId - 1)] /\ agenda \in [Events -> Seq(Items)]
  BY DEF TypeInv, RemoteTyped
<1>3. \A m \in Events : /\ AgendaTyped(agenda[m], nextId) /\ Len(agenda[m]) \in Nat
                       /\ DOMAIN agenda[m] = 1 .. Len(agenda[m])
  BY AgendasTyped
<1>4. \A m \in Events : \A id :
        /\ At(agenda[m], id) \in 0 .. Len(agenda[m])
        /\ At(agenda[m], id) # 0 => agenda[m][At(agenda[m], id)].id = id
  BY <1>3, AtProperties DEF AgendaTyped
<1>5. CASE Kind(a) = "insert"
  <2> DEFINE i == Slot(e, a, agenda[k])
             v == [id |-> nextId, song |-> plan.act[a].song]
  <2>1. /\ item = nextId /\ nextId' = nextId + 1 /\ catalog' = catalog /\ byHand' = byHand
        /\ made' = [made EXCEPT ![a] = made[a] \cup {nextId}] /\ i # 0
        /\ Writes(k, InsertAt(agenda[k], i, v))
    BY <1>5 DEF Effect, Possible, Kind, Writes
  <2>2. k \in Events
    BY <1>5 DEF Mutating
  <2>3. i \in 1 .. Len(agenda[k]) + 1
    <3>1. \A id : At(agenda[k], id) \in 0 .. Len(agenda[k])
      BY <1>4, <2>2
    <3>2. Len(agenda[k]) \in Nat
      BY <1>3, <2>2
    <3>3. CASE plan.act[a].before # NoItem
      BY <2>1, <3>1, <3>2, <3>3 DEF Slot
    <3>4. CASE plan.act[a].before = NoItem
      <4>1. i = IF At(agenda[k], AfterItem(e, a)) = 0 THEN 0 ELSE At(agenda[k], AfterItem(e, a)) + 1
        BY <3>4 DEF Slot
      <4>2. At(agenda[k], AfterItem(e, a)) \in 0 .. Len(agenda[k])
        BY <3>1
      <4> QED
        BY <2>1, <3>2, <4>1, <4>2
    <3> QED
      BY <3>3, <3>4
  <2>4. made' \in [Actions -> SUBSET (NewItem .. nextId)]
    <3>1. \A b \in Actions : made[b] \subseteq NewItem .. nextId
      BY <1>2
    <3>2. nextId \in NewItem .. nextId
      BY <1>2 DEF NewItem
    <3> QED
      BY <1>2, <2>1, <3>1, <3>2
  <2>5. v \in Items /\ v.id = nextId /\ v.song = plan.act[a].song
    BY <1>1, <1>2 DEF Items
  <2> HIDE DEF i, v
  <2>6. /\ RemoteTyped'
        /\ \A m \in Events : \A j \in DOMAIN agenda'[m] :
             Shows(m, agenda'[m][j]) \/ (m = k /\ agenda'[m][j] = v)
    <3>1. catalog' \subseteq Actions /\ nextId' = nextId + 1 /\ Writes(k, InsertAt(agenda[k], i, v))
      BY <1>2, <2>1
    <3> HIDE DEF k
    <3> QED
      BY <2>2, <2>3, <2>4, <2>5, <3>1, AgendaInsert
  <2>7. item \in Nat
    BY <1>2, <2>1
  <2>8. \A m \in Events : \A j \in DOMAIN agenda'[m] :
          \/ Shows(m, agenda'[m][j])
          \/ m = k /\ agenda'[m][j].id = nextId /\ agenda'[m][j].song = plan.act[a].song
    BY <2>5, <2>6
  <2> QED
    BY <1>5, <2>1, <2>6, <2>7, <2>8
<1>6. CASE Kind(a) = "replace"
  <2> DEFINE i == At(agenda[k], item)
             v == [id |-> item, song |-> plan.act[a].song]
  <2>1. /\ item = plan.act[a].item /\ UNCHANGED <<nextId, catalog, made, byHand>> /\ i # 0
        /\ Writes(k, ReplaceAt(agenda[k], i, v))
    BY <1>6 DEF Effect, Possible, Kind, Writes
  <2>2. k \in Events
    BY <1>6 DEF Mutating
  <2>3. i \in 1 .. Len(agenda[k]) /\ item = agenda[k][i].id
    BY <1>3, <1>4, <2>1, <2>2
  <2>4. v \in Items /\ v.id = item
    BY <1>1, <2>1 DEF Items
  <2> HIDE DEF i, v
  <2>5. /\ RemoteTyped'
        /\ \A m \in Events : \A j \in DOMAIN agenda'[m] :
             \/ Shows(m, agenda'[m][j])
             \/ /\ m = k /\ agenda'[m][j] = v
                /\ \E it \in Items : it.id = v.id /\ Shows(m, it)
    BY SMTT(40), <2>1, <2>2, <2>3, <2>4, AgendaReplace
  <2>6. ASSUME NEW m \in Events, NEW j \in DOMAIN agenda'[m], ~Shows(m, agenda'[m][j])
        PROVE  /\ m = k /\ agenda'[m][j].id = item
               /\ \E it \in Items : it.id = item /\ Shows(m, it)
    BY <2>4, <2>5, <2>6
  <2> QED
    BY <1>1, <1>6, <2>1, <2>5, <2>6
<1>7. CASE Kind(a) = "delete"
  <2> DEFINE i == At(agenda[k], item)
  <2>1. /\ item = plan.act[a].item /\ UNCHANGED <<nextId, catalog, made, byHand>> /\ i # 0
        /\ Writes(k, RemoveAt(agenda[k], i))
    BY <1>7 DEF Effect, Possible, Kind, Writes
  <2>2. k \in Events
    BY <1>7 DEF Mutating
  <2>3. i \in 1 .. Len(agenda[k])
    BY <1>3, <1>4, <2>1, <2>2
  <2> HIDE DEF i
  <2>4. /\ RemoteTyped'
        /\ \A m \in Events : \A j \in DOMAIN agenda'[m] : Shows(m, agenda'[m][j])
    BY <2>1, <2>2, <2>3, AgendaRemove
  <2> QED
    BY <1>1, <1>7, <2>1, <2>4
<1>8. CASE Kind(a) \notin Mutating
  <2>1. /\ UNCHANGED <<agenda, nextId, made, byHand>> /\ catalog' \subseteq Actions
        /\ item = IF Kind(a) = "create" THEN NoItem ELSE plan.act[a].item
    BY <1>2, <1>8 DEF Effect, Kind, Mutating, Remote
  <2>2. Kind(a) = "create" => plan.act[a].item = NoItem
    BY EngineAssumption DEF TypeInv, PlanTyped, WellFormed, Actions, Kind
  <2>3. RemoteTyped'
    BY <2>1 DEF TypeInv, RemoteTyped, Events, Actions
  <2> QED
    BY <1>1, <1>8, <2>1, <2>2, <2>3 DEF Shows, Mutating
<1> QED
  BY <1>5, <1>6, <1>7, <1>8 DEF Mutating

\* What people make of them.
LEMMA EditFacts ==
  ASSUME TypeInv, PersonEdits
  PROVE  /\ RemoteTyped' /\ made' = made /\ byHand \subseteq byHand' /\ nextId' \in {nextId, nextId + 1}
         /\ UNCHANGED <<plan, row, binding, synced, run, holder, evLease, x>>
         /\ \A m \in Events : \A j \in DOMAIN agenda'[m] :
              \/ Shows(m, agenda'[m][j])
              \/ /\ agenda'[m][j] \in byHand'
                 /\ \/ agenda'[m][j].id = nextId
                    \/ \E it \in Items : it.id = agenda'[m][j].id /\ Shows(m, it)
<1>1. /\ nextId \in Nat /\ nextId >= NewItem /\ catalog \subseteq Actions
      /\ made \in [Actions -> SUBSET (NewItem .. nextId - 1)]
  BY DEF TypeInv, RemoteTyped
<1>2. EditSongs \subseteq STRING
  BY EngineAssumption
<1>3. ASSUME NEW k \in Events, NEW i \in 1 .. Len(agenda[k]), NEW s \in EditSongs,
             PersonChanges(k, i, s)
      PROVE  /\ RemoteTyped' /\ made' = made /\ byHand \subseteq byHand' /\ nextId' \in {nextId, nextId + 1}
             /\ UNCHANGED <<plan, row, binding, synced, run, holder, evLease, x>>
             /\ \A m \in Events : \A j \in DOMAIN agenda'[m] :
                  \/ Shows(m, agenda'[m][j])
                  \/ /\ agenda'[m][j] \in byHand'
                     /\ \/ agenda'[m][j].id = nextId
                        \/ \E it \in Items : it.id = agenda'[m][j].id /\ Shows(m, it)
  <2> DEFINE v == [id |-> agenda[k][i].id, song |-> s]
  <2>1. /\ Writes(k, ReplaceAt(agenda[k], i, v)) /\ byHand' = byHand \cup {v}
        /\ UNCHANGED <<plan, catalog, nextId, made, row, binding, synced, run, holder, evLease, x>>
    BY <1>3 DEF PersonChanges, Writes
  <2>2. v \in Items /\ v.id = agenda[k][i].id
    BY <1>2, AgendasTyped DEF Items
  <2> HIDE DEF v
  <2>3. /\ RemoteTyped'
        /\ \A m \in Events : \A j \in DOMAIN agenda'[m] :
             \/ Shows(m, agenda'[m][j])
             \/ /\ m = k /\ agenda'[m][j] = v
                /\ \E it \in Items : it.id = v.id /\ Shows(m, it)
    BY <2>1, <2>2, AgendaReplace
  <2>4. ASSUME NEW m \in Events, NEW j \in DOMAIN agenda'[m], ~Shows(m, agenda'[m][j])
        PROVE  /\ agenda'[m][j] \in byHand'
               /\ \E it \in Items : it.id = agenda'[m][j].id /\ Shows(m, it)
    <3>1. agenda'[m][j] = v /\ \E it \in Items : it.id = v.id /\ Shows(m, it)
      BY <2>3, <2>4
    <3> QED
      BY <2>1, <3>1
  <2> QED
    BY <2>1, <2>3, <2>4
<1>4. ASSUME NEW k \in Events, NEW i \in 1 .. Len(agenda[k]) + 1, NEW s \in EditSongs,
             PersonAdds(k, i, s)
      PROVE  /\ RemoteTyped' /\ made' = made /\ byHand \subseteq byHand' /\ nextId' \in {nextId, nextId + 1}
             /\ UNCHANGED <<plan, row, binding, synced, run, holder, evLease, x>>
             /\ \A m \in Events : \A j \in DOMAIN agenda'[m] :
                  \/ Shows(m, agenda'[m][j])
                  \/ agenda'[m][j] \in byHand' /\ agenda'[m][j].id = nextId
  <2> DEFINE v == [id |-> nextId, song |-> s]
  <2>1. /\ Writes(k, InsertAt(agenda[k], i, v)) /\ nextId' = nextId + 1 /\ byHand' = byHand \cup {v}
        /\ UNCHANGED <<plan, catalog, made, row, binding, synced, run, holder, evLease, x>>
    BY <1>4 DEF PersonAdds, Writes
  <2>2. v \in Items /\ v.id = nextId
    BY <1>1, <1>2 DEF Items
  <2>3. made' \in [Actions -> SUBSET (NewItem .. nextId)] /\ catalog' \subseteq Actions
    <3>1. \A b \in Actions : made[b] \subseteq NewItem .. nextId
      BY <1>1
    <3> QED
      BY <1>1, <2>1, <3>1
  <2> HIDE DEF v
  <2>4. /\ RemoteTyped'
        /\ \A m \in Events : \A j \in DOMAIN agenda'[m] :
             Shows(m, agenda'[m][j]) \/ (m = k /\ agenda'[m][j] = v)
    BY <2>1, <2>2, <2>3, AgendaInsert
  <2>5. ASSUME NEW m \in Events, NEW j \in DOMAIN agenda'[m], ~Shows(m, agenda'[m][j])
        PROVE  agenda'[m][j] \in byHand' /\ agenda'[m][j].id = nextId
    BY <2>1, <2>2, <2>4, <2>5
  <2> QED
    BY <2>1, <2>4, <2>5
<1>5. ASSUME NEW k \in Events, NEW i \in 1 .. Len(agenda[k]), PersonRemoves(k, i)
      PROVE  /\ RemoteTyped' /\ made' = made /\ byHand' = byHand /\ nextId' = nextId
             /\ UNCHANGED <<plan, row, binding, synced, run, holder, evLease, x>>
             /\ \A m \in Events : \A j \in DOMAIN agenda'[m] : Shows(m, agenda'[m][j])
  <2>1. Writes(k, RemoveAt(agenda[k], i))
    BY <1>5 DEF PersonRemoves, Writes
  <2>2. UNCHANGED <<plan, catalog, nextId, made, byHand, row, binding, synced, run, holder, evLease, x>>
    BY <1>5 DEF PersonRemoves
  <2> QED
    BY <2>1, <2>2, AgendaRemove
<1> QED
  BY <1>3, <1>4, <1>5 DEF PersonEdits

-----------------------------------------------------------------------------
(* Every step keeps the types. *)

Inside(e) ==
  /\ Alive(e) /\ x[e].blk \in Blocks
  /\ x[e].blk > 0 => plan.status[x[e].blk] # "skipped"

\* r goes on where e is in its block, or with the next action of it.
Stays(e, r) ==
  /\ r \in ExecRecords(Actions) /\ x' = [x EXCEPT ![e] = r]
  /\ r.pc = "gate" \/ r.pc \in InAction
  /\ r.blk = x[e].blk /\ r.prior = x[e].prior /\ r.good = x[e].good /\ r.bad = x[e].bad
  /\ r.pc \in InAction => r.idx <= Len(plan.block[r.blk])
  /\ r.pc \in {"check", "reread"} => Kind(plan.block[r.blk][r.idx]) \in Mutating

LEMMA InsideBlock ==
  ASSUME TypeInv, NEW e \in Executions, InBlock(e)
  PROVE  Inside(e)
  BY DEF TypeInv, Shape, Inside, InBlock, Alive, InAction

LEMMA StaysTyped ==
  ASSUME TypeInv, NEW e \in Executions, NEW r, Inside(e), Stays(e, r),
         UNCHANGED <<plan, synced, run, holder>>, RemoteTyped',
         evLease' \in [Blocks -> Executions \cup {NoExec}], row' \in [Actions -> Rows],
         binding' \subseteq [ev : Events, item : Nat, by : Actions \cup {0}]
  PROVE  TypeInv'
<1>1. PlanTyped' /\ ExecsTyped' /\ \A f \in Executions : Shape(f)'
  BY StayType DEF Inside, Stays
<1>2. RowsTyped'
  BY DEF TypeInv, RowsTyped, Events, Actions
<1>3. RunTyped'
  BY DEF TypeInv, RunTyped, Events, Blocks
<1> QED
  BY <1>1, <1>2, <1>3 DEF TypeInv

\* Nothing changes but the execution, or the execution and the rows.
LEMMA StaysInPlace ==
  ASSUME TypeInv, NEW e \in Executions, NEW r, Inside(e), Stays(e, r),
         UNCHANGED <<plan, Remote, binding, synced, run, holder, evLease>>,
         row' \in [Actions -> Rows]
  PROVE  TypeInv'
<1>1. RemoteTyped'
  BY DEF TypeInv, RemoteTyped, Remote, Events, Actions
<1>2. /\ evLease' \in [Blocks -> Executions \cup {NoExec}]
      /\ binding' \subseteq [ev : Events, item : Nat, by : Actions \cup {0}]
      /\ UNCHANGED <<plan, synced, run, holder>>
  BY DEF TypeInv, RunTyped, RowsTyped
<1> QED
  BY <1>1, <1>2, StaysTyped

LEMMA StoppedType ==
  ASSUME TypeInv, NEW e \in Executions, Stop(e)
  PROVE  TypeInv'
  BY ReleaseType, StopType DEF Stop

\* At an action: the record that goes to another step of it.
LEMMA GoingOn ==
  ASSUME TypeInv, NEW e \in Executions, InBlock(e), x[e].idx <= Len(plan.block[x[e].blk]),
         NEW pc \in InAction, NEW item \in Nat,
         pc \in {"check", "reread"} => Kind(Act(e)) \in Mutating
  PROVE  LET r == [x[e] EXCEPT !.pc = pc, !.item = item] IN
         /\ r \in ExecRecords(Actions) /\ r.pc = pc /\ r.item = item /\ r.idx = x[e].idx
         /\ x' = [x EXCEPT ![e] = r] => Stays(e, r)
<1> DEFINE r == [x[e] EXCEPT !.pc = pc, !.item = item]
<1>1. x[e] \in ExecRecords(Actions)
  BY ActFacts
<1>2. r \in ExecRecords(Actions)
  BY <1>1 DEF ExecRecords, Places
<1>3. /\ r.pc = pc /\ r.item = item /\ r.blk = x[e].blk /\ r.idx = x[e].idx /\ r.prior = x[e].prior
      /\ r.good = x[e].good /\ r.bad = x[e].bad
  BY <1>1 DEF ExecRecords
<1> HIDE DEF r
<1>4. x' = [x EXCEPT ![e] = r] => Stays(e, r)
  BY <1>2, <1>3 DEF Stays, Act
<1> QED
  BY <1>2, <1>3, <1>4 DEF r

LEMMA GotoType ==
  ASSUME TypeInv, NEW e \in Executions, InBlock(e), x[e].idx <= Len(plan.block[x[e].blk]),
         NEW pc \in InAction, pc \in {"check", "reread"} => Kind(Act(e)) \in Mutating,
         Goto(e, pc), UNCHANGED <<plan, Remote, binding, synced, run, holder, evLease>>,
         row' \in [Actions -> Rows]
  PROVE  TypeInv'
<1> DEFINE r == [x[e] EXCEPT !.pc = pc, !.item = x[e].item]
<1>1. x[e] \in ExecRecords(Actions) /\ x[e].item \in Nat
  BY ActFacts DEF ExecRecords
<1>2. r = [x[e] EXCEPT !.pc = pc]
  BY <1>1 DEF ExecRecords
<1>3. x' = [x EXCEPT ![e] = r]
  BY <1>2 DEF Goto, TypeInv, ExecsTyped
<1>4. Stays(e, r)
  <2>1. x' = [x EXCEPT ![e] = r] => Stays(e, r)
    BY <1>1, GoingOn
  <2> QED
    BY <1>3, <2>1
<1> HIDE DEF r
<1> QED
  BY <1>4, InsideBlock, StaysInPlace

LEMMA BeginType ==
  ASSUME TypeInv, NEW e \in Executions, Begin(e)
  PROVE  TypeInv'
<1> DEFINE r == [Idle EXCEPT !.pc = "block", !.prior = row]
<1>1. /\ run' = "running" /\ holder' = e /\ x' = [x EXCEPT ![e] = r]
      /\ UNCHANGED <<plan, Remote, row, binding, synced, evLease>>
  BY DEF Begin
<1>2. row \in [Actions -> Rows] /\ row \in Priors(Actions)
  BY DEF TypeInv, RowsTyped, Priors
<1>3. r \in ExecRecords(Actions)
  BY <1>2, IdleTyped DEF ExecRecords, Places
<1>4. r.pc = "block" /\ r.blk = 0 /\ r.prior = row /\ r.good = 0 /\ r.bad = 0
  BY DEF Idle
<1> HIDE DEF r
<1>5. x'[e] = r
  BY <1>1 DEF TypeInv, ExecsTyped
<1>6. Counted(0)' = Counted(0)
  BY <1>1 DEF Counted, Events
<1>7. Cardinality(Counted(0)) \in Nat
  BY CountedGrows DEF TypeInv
<1>8. x'[e].good + x'[e].bad <= Cardinality(Counted(x[e].blk))'
  BY <1>4, <1>5, <1>6, <1>7
<1>9. Shape(e)'
  BY <1>1, <1>2, <1>4, <1>5, <1>8 DEF Shape, InBlock, InAction, Alive, Actions
<1>10. PlanTyped' /\ ExecsTyped' /\ \A f \in Executions : Shape(f)'
  BY <1>1, <1>3, <1>9, OneExec
<1>11. RemoteTyped' /\ RowsTyped'
  BY <1>1 DEF TypeInv, RemoteTyped, RowsTyped, Remote, Events, Actions
<1>12. RunTyped'
  BY <1>1, EngineAssumption DEF TypeInv, RunTyped, Events, Blocks
<1> QED
  BY <1>10, <1>11, <1>12 DEF TypeInv

\* A block is left, and its event counted.
LEMMA LeaveType ==
  ASSUME TypeInv, NEW e \in Executions, Inside(e), NEW good \in BOOLEAN, NextBlock(e, good),
         UNCHANGED <<plan, Remote, binding, run, holder>>, row' \in [Actions -> Rows],
         synced' \subseteq Events, Release(e) \/ UNCHANGED evLease
  PROVE  TypeInv'
<1>1. PlanTyped' /\ ExecsTyped' /\ \A f \in Executions : Shape(f)'
  BY NextBlockType DEF Inside
<1>2. RemoteTyped' /\ RowsTyped'
  BY DEF TypeInv, RemoteTyped, RowsTyped, Remote, Events, Actions
<1>3. RunTyped'
  BY ReleaseType DEF TypeInv, RunTyped, Events, Blocks
<1> QED
  BY <1>1, <1>2, <1>3 DEF TypeInv

LEMMA OpenBlockType ==
  ASSUME TypeInv, NEW e \in Executions, OpenBlock(e)
  PROVE  TypeInv'
<1> DEFINE k == x[e].blk
           passive == (k = 0 /\ plan.block[0] = <<>>) \/ (k > 0 /\ plan.status[k] = "skipped")
<1>1. /\ x[e].pc = "block" /\ k \in Blocks /\ Alive(e)
      /\ x \in [Executions -> ExecRecords(Actions)] /\ x[e] \in ExecRecords(Actions)
      /\ row \in [Actions -> Rows]
  BY DEF OpenBlock, Alive, TypeInv, ExecsTyped, RowsTyped
<1>2. k \in Nat
  BY <1>1 DEF ExecRecords
<1>3. CASE passive
  <2> DEFINE n == k + 1
             r == [x[e] EXCEPT !.blk = n]
  <2>1. /\ x' = [x EXCEPT ![e] = r]
        /\ UNCHANGED <<plan, Remote, row, binding, synced, run, holder, evLease>>
    BY <1>1, <1>3 DEF OpenBlock
  <2>n. n = k + 1 /\ n \in Nat
    BY <1>2
  <2> HIDE DEF n
  <2>2. r \in ExecRecords(Actions)
    BY <1>1, <2>n DEF ExecRecords
  <2>3. /\ r.pc = "block" /\ r.blk = n /\ r.prior = x[e].prior
        /\ r.good = x[e].good /\ r.bad = x[e].bad /\ r.good \in Nat /\ r.bad \in Nat
    BY <1>1 DEF ExecRecords
  <2> HIDE DEF r
  <2>4. x'[e] = r
    BY <1>1, <2>1
  <2>5. r.good + r.bad <= Cardinality(Counted(r.blk))
    <3>1. x[e].good + x[e].bad <= Cardinality(Counted(k))
      BY <1>1 DEF TypeInv, Shape
    <3>2. /\ Cardinality(Counted(k)) \in Nat /\ Cardinality(Counted(n)) \in Nat
          /\ Cardinality(Counted(k)) <= Cardinality(Counted(n))
      BY <1>2, <2>n, CountedGrows DEF TypeInv
    <3> HIDE DEF k
    <3> QED
      BY <2>3, <3>1, <3>2
  <2>8. x[e].prior \in [Actions -> Rows]
    BY <1>1 DEF TypeInv, Shape
  <2>9. Shape(e)'
    BY <2>1, <2>3, <2>4, <2>5, <2>8 DEF Shape, InBlock, InAction, Alive, Actions, Counted, Events
  <2>10. PlanTyped' /\ ExecsTyped' /\ \A f \in Executions : Shape(f)'
    BY <2>1, <2>2, <2>9, OneExec
  <2>11. RemoteTyped' /\ RowsTyped' /\ RunTyped'
    BY <2>1 DEF TypeInv, RemoteTyped, RowsTyped, RunTyped, Remote, Events, Actions, Blocks
  <2> QED
    BY <2>10, <2>11 DEF TypeInv
<1>4. CASE ~passive
  <2>1. Inside(e)
    BY <1>1, <1>4 DEF Inside
  <2>2. CASE k > 0 /\ plan.status[k] # "ready"
    <3>1. NextBlock(e, FALSE) /\ UNCHANGED <<plan, Remote, row, binding, synced, run, holder, evLease>>
      BY <1>4, <2>2 DEF OpenBlock
    <3>2. row' \in [Actions -> Rows] /\ synced' \subseteq Events
      BY <1>1, <3>1 DEF TypeInv, RowsTyped
    <3> QED
      BY <2>1, <3>1, <3>2, LeaveType
  <2>3. CASE ~(k > 0 /\ plan.status[k] # "ready") /\ (run = "canceled" \/ (evLease[k] # NoExec /\ ~Fence(e)))
    <3>1. Stop(e)
      BY <1>4, <2>3 DEF OpenBlock
    <3> QED
      BY <3>1, StoppedType
  <2>4. CASE ~(k > 0 /\ plan.status[k] # "ready") /\ run # "canceled" /\ evLease[k] = NoExec
    <3> DEFINE ex == IF k = 0 THEN <<>> ELSE plan.agenda[k]
               r == [x[e] EXCEPT !.pc = "gate", !.expect = ex]
    <3>1. /\ x' = [x EXCEPT ![e] = r] /\ evLease' = [evLease EXCEPT ![k] = e]
          /\ UNCHANGED <<plan, Remote, row, binding, synced, run, holder>>
      BY <1>1, <1>4, <2>4 DEF OpenBlock
    <3>2. ex \in Seq(Items)
      BY <1>1, PlanFacts, EmptySeq DEF TypeInv, Blocks
    <3> HIDE DEF ex
    <3>3. r \in ExecRecords(Actions)
      BY <1>1, <3>2 DEF ExecRecords, Places
    <3>4. /\ r.pc = "gate" /\ r.blk = x[e].blk /\ r.prior = x[e].prior
          /\ r.good = x[e].good /\ r.bad = x[e].bad
      BY <1>1 DEF ExecRecords
    <3> HIDE DEF r
    <3>5. Stays(e, r)
      BY <3>1, <3>3, <3>4 DEF Stays, InAction
    <3>6. evLease' \in [Blocks -> Executions \cup {NoExec}]
      BY <1>1, <3>1 DEF TypeInv, RunTyped
    <3>7. RemoteTyped' /\ row' \in [Actions -> Rows]
      BY <1>1, <3>1 DEF TypeInv, RemoteTyped, Remote, Events, Actions
    <3>8. binding' \subseteq [ev : Events, item : Nat, by : Actions \cup {0}]
      BY <3>1 DEF TypeInv, RowsTyped
    <3> QED
      BY <2>1, <3>1, <3>5, <3>6, <3>7, <3>8, StaysTyped
  <2>5. CASE ~(k > 0 /\ plan.status[k] # "ready") /\ run # "canceled" /\ evLease[k] # NoExec /\ Fence(e)
    <3>1. /\ row' = SkipFrom(row, k, 1) /\ NextBlock(e, FALSE)
          /\ UNCHANGED <<plan, Remote, binding, synced, run, holder, evLease>>
      BY <1>4, <2>5 DEF OpenBlock
    <3>2. row' \in [Actions -> Rows] /\ synced' \subseteq Events
      BY <1>1, <3>1, RowTypes DEF TypeInv, RowsTyped
    <3> QED
      BY <2>1, <3>1, <3>2, LeaveType
  <2> QED
    BY <2>2, <2>3, <2>4, <2>5
<1> QED
  BY <1>3, <1>4

LEMMA CloseBlockType ==
  ASSUME TypeInv, NEW e \in Executions, CloseBlock(e)
  PROVE  TypeInv'
<1>1. Inside(e)
  BY InsideBlock DEF CloseBlock, InBlock
<1>2. CASE x[e].blk > 0 /\ ~Fence(e)
  BY <1>2, StoppedType DEF CloseBlock
<1>3. CASE ~(x[e].blk > 0 /\ ~Fence(e))
  <2>1. /\ synced' = IF x[e].blk > 0 THEN synced \cup {x[e].blk} ELSE synced
        /\ NextBlock(e, TRUE) /\ Release(e) /\ UNCHANGED <<plan, Remote, row, binding, run, holder>>
    BY <1>3 DEF CloseBlock
  <2>2. x[e].blk > 0 => x[e].blk \in Events
    BY <1>1, PlanFacts DEF Inside, TypeInv, Blocks
  <2>3. synced' \subseteq Events /\ row' \in [Actions -> Rows]
    BY <2>1, <2>2 DEF TypeInv, RowsTyped
  <2> QED
    BY <1>1, <2>1, <2>3, LeaveType
<1> QED
  BY <1>2, <1>3

LEMMA FinishType ==
  ASSUME TypeInv, NEW e \in Executions, Finish(e)
  PROVE  TypeInv'
<1>1. Outcome(e) \in Ended
  BY DEF Outcome, Ended
<1>2. RunTyped'
  BY <1>1 DEF Finish, Fence, TypeInv, RunTyped, Ended, Events, Blocks
<1> QED
  BY <1>2, StopType DEF Finish

\* The steps at one action of a block.
LEMMA AtAction ==
  ASSUME TypeInv, NEW e \in Executions, x[e].pc \in InAction
  PROVE  /\ InBlock(e) /\ Inside(e) /\ x[e].idx <= Len(plan.block[x[e].blk])
         /\ Act(e) \in Actions /\ Kind(Act(e)) \in Kinds
         /\ Kind(Act(e)) # "create" => plan.act[Act(e)].ev \in Events /\ plan.act[Act(e)].ev = x[e].blk
         /\ x[e].prior \in [Actions -> Rows] /\ x[e].prior[Act(e)] \in Rows
         /\ row \in [Actions -> Rows]
<1>1. InBlock(e) /\ x[e].idx <= Len(plan.block[x[e].blk]) /\ Inside(e)
  BY InsideBlock DEF InBlock, TypeInv, Shape
<1>2. Act(e) \in Actions /\ Kind(Act(e)) \in Kinds
  BY <1>1, ActFacts, PlannedFacts
<1>3. Kind(Act(e)) # "create" => plan.act[Act(e)].ev \in Events /\ plan.act[Act(e)].ev = x[e].blk
  <2>1. x[e].blk # 0 => x[e].blk > 0 /\ x[e].blk \in Events
    BY <1>1, PlanFacts DEF Inside, TypeInv, Blocks
  <2> QED
    BY <1>1, <2>1, ActFacts
<1>4. x[e].prior \in [Actions -> Rows]
  BY <1>1 DEF TypeInv, Shape, Inside
<1> QED
  BY <1>1, <1>2, <1>3, <1>4 DEF TypeInv, RowsTyped

LEMMA GateType ==
  ASSUME TypeInv, NEW e \in Executions, Gate(e)
  PROVE  TypeInv'
<1> DEFINE a == Act(e)
           prior == x[e].prior[a]
<1>1. InBlock(e) /\ Inside(e) /\ x[e].idx <= Len(plan.block[x[e].blk])
  BY InsideBlock DEF Gate, InBlock
<1>2. /\ a \in Actions /\ x[e] \in ExecRecords(Actions) /\ x[e].blk \in Blocks
      /\ prior \in Rows /\ row \in [Actions -> Rows]
  BY <1>1, ActFacts DEF TypeInv, Shape, Inside, RowsTyped
<1>3. prior.st \in Sts /\ prior.item \in Nat
  BY <1>2 DEF Rows
<1>4. CASE Stop(e)
  BY <1>4, StoppedType
<1>5. CASE Failed(e, "failed") \/ Failed(e, "skipped")
  BY <1>1, <1>5, FailedType DEF Sts, Done
<1>6. CASE prior.st \in {"failed", "skipped"} /\ Failed(e, prior.st)
  BY <1>1, <1>3, <1>6, FailedType
<1>7. CASE /\ row' = SkipFrom(row, 0, x[e].idx) /\ NextBlock(e, FALSE) /\ Release(e)
           /\ UNCHANGED <<plan, Remote, binding, synced, run, holder>>
  <2>1. row' \in [Actions -> Rows] /\ synced' \subseteq Events
    BY <1>2, <1>7, RowTypes DEF TypeInv, RowsTyped
  <2> QED
    BY <1>1, <1>7, <2>1, LeaveType
<1>8. CASE /\ Kind(a) \in Mutating /\ Goto(e, "check")
           /\ UNCHANGED <<plan, Remote, row, binding, synced, run, holder, evLease>>
  BY <1>1, <1>2, <1>8, GotoType DEF InAction
<1>9. CASE /\ x' = [x EXCEPT ![e] = [@ EXCEPT
                     !.pc = IF prior.st = "planned" THEN "start" ELSE "verify",
                     !.item = prior.item]]
           /\ UNCHANGED <<plan, Remote, row, binding, synced, run, holder, evLease>>
  <2> DEFINE pc == IF prior.st = "planned" THEN "start" ELSE "verify"
             r == [x[e] EXCEPT !.pc = pc, !.item = prior.item]
  <2>1. x' = [x EXCEPT ![e] = r]
    BY <1>9 DEF TypeInv, ExecsTyped
  <2>2. pc \in InAction /\ pc \notin {"check", "reread"}
    BY DEF InAction
  <2> HIDE DEF pc, prior
  <2>3. Stays(e, r)
    <3>1. x' = [x EXCEPT ![e] = r] => Stays(e, r)
      BY <1>1, <1>3, <2>2, GoingOn
    <3> QED
      BY <2>1, <3>1
  <2> HIDE DEF r
  <2>4. row' \in [Actions -> Rows]
    BY <1>2, <1>9
  <2> QED
    BY <1>1, <1>9, <2>3, <2>4, StaysInPlace
<1> QED
  BY <1>4, <1>5, <1>6, <1>7, <1>8, <1>9 DEF Gate

LEMMA IdsTyped ==
  ASSUME TypeInv, NEW k \in Events
  PROVE  /\ Ids(agenda[k]) \subseteq Nat
         /\ \A i \in DOMAIN agenda[k] : agenda[k][i].id \in Nat
<1>1. \A i \in DOMAIN agenda[k] : agenda[k][i].id \in Nat
  BY AgendasTyped DEF Items
<1> QED
  BY <1>1 DEF Ids

\* An item that is adopted is the one the action names, or one of the agenda.
LEMMA AdoptedItems ==
  ASSUME TypeInv, NEW e \in Executions, x[e].pc \in {"check", "reread"}
  PROVE  LET a == Act(e)  ag == agenda[plan.act[a].ev] IN
         /\ Kind(a) \in Mutating /\ plan.act[a].ev \in Events
         /\ Reconciled(e, a, ag) \subseteq Nat /\ Adoptable(e, a, ag) \subseteq Nat
<1> DEFINE a == Act(e)
           ag == agenda[plan.act[a].ev]
<1>1. a \in Actions /\ Kind(a) \in Mutating /\ plan.act[a].ev \in Events
  BY AtAction DEF InAction, Mutating, TypeInv, Shape
<1>2. plan.act[a].item \in Nat
  BY <1>1, PlannedFacts
<1>3. \A i \in DOMAIN ag : ag[i].id \in Nat
  BY <1>1, IdsTyped
<1> HIDE DEF a, ag
<1>4. Reconciled(e, a, ag) \subseteq Nat
  BY <1>1, <1>2, <1>3 DEF Reconciled, Kind, Mutating
<1>5. Adoptable(e, a, ag) \subseteq Nat
  BY <1>1, <1>2, <1>3 DEF Adoptable, Kind, Mutating
<1> QED
  BY <1>1, <1>4, <1>5 DEF a, ag

LEMMA CheckType ==
  ASSUME TypeInv, NEW e \in Executions, Check(e)
  PROVE  TypeInv'
<1> DEFINE a == Act(e)
           ag == agenda[plan.act[a].ev]
           found == Reconciled(e, a, ag)
           prior == x[e].prior[a]
<1>1. x[e].pc = "check" /\ x[e].pc \in InAction
  BY DEF Check, InAction
<1>2. /\ InBlock(e) /\ Inside(e) /\ x[e].idx <= Len(plan.block[x[e].blk])
      /\ a \in Actions /\ prior \in Rows /\ row \in [Actions -> Rows] /\ found \subseteq Nat
  BY <1>1, AtAction, AdoptedItems
<1>3. prior.st \in Sts
  BY <1>2 DEF Rows
<1>4. CASE Stop(e)
  BY <1>4, StoppedType
<1>5. CASE Failed(e, "failed") \/ Failed(e, prior.st)
  BY <1>2, <1>3, <1>5, FailedType DEF Sts, Done
<1>6. CASE Goto(e, "start") /\ UNCHANGED <<plan, Remote, row, binding, synced, run, holder, evLease>>
  BY <1>2, <1>6, GotoType DEF InAction
<1>7. CASE /\ found # {}
           /\ LET item == CHOOSE i \in found : TRUE IN
              /\ row' = WithRow(row, a, "applied", item)
              /\ x' = [x EXCEPT ![e] = [@ EXCEPT !.pc = "verify", !.item = item]]
              /\ UNCHANGED <<plan, Remote, binding, synced, run, holder, evLease>>
  <2> DEFINE item == CHOOSE i \in found : TRUE
             r == [x[e] EXCEPT !.pc = "verify", !.item = item]
  <2>1. item \in Nat
    BY <1>2, <1>7
  <2>2. /\ row' = WithRow(row, a, "applied", item) /\ x' = [x EXCEPT ![e] = r]
        /\ UNCHANGED <<plan, Remote, binding, synced, run, holder, evLease>>
    BY <1>7 DEF TypeInv, ExecsTyped
  <2> HIDE DEF item
  <2>3. Stays(e, r)
    <3>1. "verify" \in InAction /\ "verify" \notin {"check", "reread"}
      BY DEF InAction
    <3>2. x' = [x EXCEPT ![e] = r] => Stays(e, r)
      BY <1>2, <2>1, <3>1, GoingOn
    <3> QED
      BY <2>2, <3>2
  <2> HIDE DEF r
  <2>4. row' \in [Actions -> Rows]
    BY <1>2, <2>1, <2>2, RowTypes DEF Sts
  <2> QED
    BY <1>2, <2>2, <2>3, <2>4, StaysInPlace
<1> QED
  BY <1>4, <1>5, <1>6, <1>7 DEF Check

LEMMA StartType ==
  ASSUME TypeInv, NEW e \in Executions, Start(e)
  PROVE  TypeInv'
<1>1. x[e].pc \in InAction
  BY DEF Start, InAction
<1>2. /\ InBlock(e) /\ Inside(e) /\ x[e].idx <= Len(plan.block[x[e].blk])
      /\ Act(e) \in Actions /\ row \in [Actions -> Rows]
  BY <1>1, AtAction
<1>3. CASE Failed(e, "failed")
  BY <1>2, <1>3, FailedType DEF Sts, Done
<1>4. CASE Goto(e, "write") /\ UNCHANGED <<plan, Remote, row, binding, synced, run, holder, evLease>>
  BY <1>2, <1>4, GotoType DEF InAction
<1> QED
  BY <1>3, <1>4 DEF Start

\* A write of the program, its answer received or lost.
LEMMA WriteType ==
  ASSUME TypeInv, NEW e \in Executions, Write(e)
  PROVE  TypeInv'
<1> DEFINE a == Act(e)
<1>1. x[e].pc \in InAction
  BY DEF Write, InAction
<1>2. /\ InBlock(e) /\ Inside(e) /\ x[e].idx <= Len(plan.block[x[e].blk])
      /\ a \in Actions /\ row \in [Actions -> Rows]
      /\ Kind(a) \in Mutating => plan.act[a].ev \in Events
  BY <1>1, AtAction DEF Mutating
<1>3. PICK item \in WriteTargets(a) :
        /\ Effect(e, a, item)
        /\ x' = [x EXCEPT ![e] = [@ EXCEPT !.pc = "applied", !.item = item]]
  BY DEF Write
<1>4. UNCHANGED <<plan, row, binding, synced, run, holder, evLease>>
  BY DEF Write
<1>5. RemoteTyped' /\ item \in Nat
  BY <1>2, <1>3, <1>4, EffectFacts
<1> DEFINE r == [x[e] EXCEPT !.pc = "applied", !.item = item]
<1>6. x' = [x EXCEPT ![e] = r]
  BY <1>3 DEF TypeInv, ExecsTyped
<1>7. Stays(e, r)
  <2>1. "applied" \in InAction /\ "applied" \notin {"check", "reread"}
    BY DEF InAction
  <2>2. x' = [x EXCEPT ![e] = r] => Stays(e, r)
    BY <1>2, <1>5, <2>1, GoingOn
  <2> QED
    BY <1>6, <2>2
<1> HIDE DEF r
<1>8. /\ evLease' \in [Blocks -> Executions \cup {NoExec}] /\ row' \in [Actions -> Rows]
      /\ binding' \subseteq [ev : Events, item : Nat, by : Actions \cup {0}]
  BY <1>2, <1>4 DEF TypeInv, RunTyped, RowsTyped
<1> QED
  BY <1>2, <1>4, <1>5, <1>7, <1>8, StaysTyped

LEMMA WriteIndeterminateType ==
  ASSUME TypeInv, NEW e \in Executions, WriteIndeterminate(e)
  PROVE  TypeInv'
<1> DEFINE a == Act(e)
           pre == Ids(agenda[plan.act[a].ev])
           r == [x[e] EXCEPT !.pc = "reread", !.pre = pre]
<1>1. x[e].pc \in InAction /\ Kind(a) \in Mutating
  BY DEF WriteIndeterminate, InAction
<1>2. /\ InBlock(e) /\ Inside(e) /\ x[e].idx <= Len(plan.block[x[e].blk])
      /\ a \in Actions /\ row \in [Actions -> Rows] /\ plan.act[a].ev \in Events
      /\ x[e] \in ExecRecords(Actions)
  BY <1>1, AtAction, ActFacts DEF Mutating
<1>3. /\ x' = [x EXCEPT ![e] = r]
      /\ UNCHANGED <<plan, row, binding, synced, run, holder, evLease>>
  BY DEF WriteIndeterminate, TypeInv, ExecsTyped
<1>4. RemoteTyped'
  <2>1. CASE \E item \in WriteTargets(a) : Effect(e, a, item)
    BY <1>2, <1>3, <2>1, EffectFacts
  <2>2. CASE UNCHANGED Remote
    BY <1>3, <2>2 DEF TypeInv, RemoteTyped, Remote, Events, Actions
  <2> QED
    BY <2>1, <2>2 DEF WriteIndeterminate
<1>5. pre \in SUBSET Nat
  BY <1>2, IdsTyped
<1> HIDE DEF pre
<1>6. r \in ExecRecords(Actions)
  BY <1>2, <1>5 DEF ExecRecords, Places, InAction
<1>7. /\ r.pc = "reread" /\ r.blk = x[e].blk /\ r.idx = x[e].idx /\ r.prior = x[e].prior
      /\ r.good = x[e].good /\ r.bad = x[e].bad
  BY <1>2 DEF ExecRecords
<1> HIDE DEF r
<1>8. Stays(e, r)
  BY <1>1, <1>2, <1>3, <1>6, <1>7 DEF Stays, InAction, Act
<1>9. /\ evLease' \in [Blocks -> Executions \cup {NoExec}] /\ row' \in [Actions -> Rows]
      /\ binding' \subseteq [ev : Events, item : Nat, by : Actions \cup {0}]
  BY <1>2, <1>3 DEF TypeInv, RunTyped, RowsTyped
<1> QED
  BY <1>2, <1>3, <1>4, <1>8, <1>9, StaysTyped

LEMMA WriteRefusedType ==
  ASSUME TypeInv, NEW e \in Executions, WriteRefused(e) \/ VerifyError(e)
  PROVE  TypeInv'
<1>1. x[e].pc \in InAction /\ Failed(e, "failed")
  BY DEF WriteRefused, VerifyError, InAction
<1> QED
  BY <1>1, AtAction, FailedType DEF Sts, Done

LEMMA RereadType ==
  ASSUME TypeInv, NEW e \in Executions, Reread(e)
  PROVE  TypeInv'
<1> DEFINE a == Act(e)
           found == Adoptable(e, a, agenda[plan.act[a].ev])
<1>1. x[e].pc = "reread" /\ x[e].pc \in InAction
  BY DEF Reread, InAction
<1>2. /\ InBlock(e) /\ Inside(e) /\ x[e].idx <= Len(plan.block[x[e].blk])
      /\ a \in Actions /\ row \in [Actions -> Rows] /\ x[e] \in ExecRecords(Actions)
      /\ found \subseteq Nat
  BY <1>1, AtAction, ActFacts, AdoptedItems
<1>3. CASE found = {}
  <2>1. Failed(e, "failed")
    BY <1>3 DEF Reread
  <2> QED
    BY <1>2, <2>1, FailedType DEF Sts, Done
<1>4. CASE found # {}
  <2> DEFINE item == CHOOSE i \in found : TRUE
             r == [x[e] EXCEPT !.pc = "applied", !.pre = {}, !.item = item]
  <2>1. /\ x' = [x EXCEPT ![e] = r]
        /\ UNCHANGED <<plan, Remote, row, binding, synced, run, holder, evLease>>
    BY <1>4 DEF Reread, TypeInv, ExecsTyped
  <2>2. item \in Nat
    BY <1>2, <1>4
  <2> HIDE DEF item
  <2>3. r \in ExecRecords(Actions)
    <3>1. "applied" \in Places /\ {} \in SUBSET Nat
      BY DEF Places, InAction
    <3> QED
      BY <1>2, <2>2, <3>1 DEF ExecRecords
  <2>4. /\ r.pc = "applied" /\ r.blk = x[e].blk /\ r.idx = x[e].idx /\ r.prior = x[e].prior
        /\ r.good = x[e].good /\ r.bad = x[e].bad
    BY <1>2 DEF ExecRecords
  <2> HIDE DEF r
  <2>5. Stays(e, r)
    BY <1>2, <2>1, <2>3, <2>4 DEF Stays, InAction
  <2>6. row' \in [Actions -> Rows]
    BY <1>2, <2>1
  <2> QED
    BY <1>2, <2>1, <2>5, <2>6, StaysInPlace
<1> QED
  BY <1>3, <1>4

LEMMA RecordAppliedType ==
  ASSUME TypeInv, NEW e \in Executions, RecordApplied(e)
  PROVE  TypeInv'
<1>1. x[e].pc \in InAction
  BY DEF RecordApplied, InAction
<1>2. /\ InBlock(e) /\ Inside(e) /\ x[e].idx <= Len(plan.block[x[e].blk])
      /\ Act(e) \in Actions /\ row \in [Actions -> Rows] /\ x[e].item \in Nat
  BY <1>1, AtAction, ActFacts DEF ExecRecords
<1>3. CASE ~Fence(e)
  BY <1>3, StoppedType DEF RecordApplied
<1>4. CASE Fence(e) /\ x[e].lost
  BY <1>2, <1>4, FailedType DEF RecordApplied, Sts, Done
<1>5. CASE Fence(e) /\ ~x[e].lost
  <2>1. /\ row' = WithRow(row, Act(e), "applied", x[e].item) /\ Goto(e, "verify")
        /\ UNCHANGED <<plan, Remote, binding, synced, run, holder, evLease>>
    BY <1>5 DEF RecordApplied
  <2>2. row' \in [Actions -> Rows]
    BY <1>2, <2>1, RowTypes DEF Sts
  <2> QED
    BY <1>2, <2>1, <2>2, GotoType DEF InAction
<1> QED
  BY <1>3, <1>4, <1>5

LEMMA VerifyType ==
  ASSUME TypeInv, NEW e \in Executions, Verify(e)
  PROVE  TypeInv'
<1> DEFINE a == Act(e)
<1>1. x[e].pc \in InAction
  BY DEF Verify, InAction
<1>2. /\ InBlock(e) /\ Inside(e) /\ x[e].idx <= Len(plan.block[x[e].blk])
      /\ a \in Actions /\ row \in [Actions -> Rows] /\ x[e].item \in Nat
      /\ x[e] \in ExecRecords(Actions) /\ (ReadsAgenda(a) => plan.act[a].ev \in Events)
  BY <1>1, AtAction, ActFacts DEF ExecRecords, ReadsAgenda
<1>3. CASE Failed(e, "failed")
  BY <1>2, <1>3, FailedType DEF Sts, Done
<1>4. CASE Stop(e)
  BY <1>4, StoppedType
<1>5. CASE /\ row' = IF x[e].prior[a].st = "verified" THEN row
                     ELSE WithRow(row, a, "verified", x[e].item)
           /\ x' = [x EXCEPT ![e] = [@ EXCEPT !.pc = "bind",
                      !.expect = IF ReadsAgenda(a) THEN agenda[plan.act[a].ev] ELSE x[e].expect]]
           /\ UNCHANGED <<plan, Remote, binding, synced, run, holder, evLease>>
  <2> DEFINE ex == IF ReadsAgenda(a) THEN agenda[plan.act[a].ev] ELSE x[e].expect
             r == [x[e] EXCEPT !.pc = "bind", !.expect = ex]
  <2>1. x' = [x EXCEPT ![e] = r]
    BY <1>5 DEF TypeInv, ExecsTyped
  <2>2. ex \in Seq(Items)
    BY <1>2 DEF TypeInv, RemoteTyped, ExecRecords
  <2> HIDE DEF ex
  <2>3. r \in ExecRecords(Actions)
    BY <1>2, <2>2 DEF ExecRecords, Places, InAction
  <2>4. /\ r.pc = "bind" /\ r.blk = x[e].blk /\ r.idx = x[e].idx /\ r.prior = x[e].prior
        /\ r.good = x[e].good /\ r.bad = x[e].bad
    BY <1>2 DEF ExecRecords
  <2> HIDE DEF r
  <2>5. Stays(e, r)
    BY <1>2, <2>1, <2>3, <2>4 DEF Stays, InAction
  <2>6. row' \in [Actions -> Rows]
    BY <1>2, <1>5, RowTypes DEF Sts, Done
  <2> QED
    BY <1>2, <1>5, <2>5, <2>6, StaysInPlace
<1> QED
  BY <1>3, <1>4, <1>5 DEF Verify

LEMMA BindType ==
  ASSUME TypeInv, NEW e \in Executions, Bind(e)
  PROVE  TypeInv'
<1> DEFINE a == Act(e)
<1>1. x[e].pc \in InAction
  BY DEF Bind, InAction
<1>2. /\ InBlock(e) /\ Inside(e) /\ x[e].idx <= Len(plan.block[x[e].blk])
      /\ a \in Actions /\ row \in [Actions -> Rows] /\ x[e].item \in Nat /\ x[e].idx \in Positions
      /\ x[e] \in ExecRecords(Actions) /\ (Kind(a) # "create" => plan.act[a].ev \in Events)
      /\ x[e].res \in Resources(Actions) /\ x[e].prepared \in Nat
  BY <1>1, AtAction, ActFacts DEF ExecRecords
<1>3. CASE Failed(e, "failed")
  BY <1>2, <1>3, FailedType DEF Sts, Done
<1>4. CASE Stop(e)
  BY <1>4, StoppedType
<1>5. CASE /\ binding' = Bound(a, x[e].item)
           /\ x' = [x EXCEPT ![e] = [@ EXCEPT !.pc = "gate", !.idx = x[e].idx + 1, !.item = NoItem,
                     !.res = x[e].res \cup {[act |-> a, item |-> x[e].item]},
                     !.prepared = IF x[e].blk = 0 THEN x[e].prepared + 1 ELSE x[e].prepared]]
           /\ UNCHANGED <<plan, Remote, row, synced, run, holder, evLease>>
  <2> DEFINE res == x[e].res \cup {[act |-> a, item |-> x[e].item]}
             prepared == IF x[e].blk = 0 THEN x[e].prepared + 1 ELSE x[e].prepared
             next == x[e].idx + 1
             r == [x[e] EXCEPT !.pc = "gate", !.idx = next, !.item = NoItem,
                     !.res = res, !.prepared = prepared]
  <2>1. x' = [x EXCEPT ![e] = r]
    BY <1>5 DEF TypeInv, ExecsTyped
  <2>2. res \in Resources(Actions) /\ prepared \in Nat /\ next \in Positions
    BY <1>2 DEF Resources, Positions
  <2> HIDE DEF res, prepared, next
  <2>3. r \in ExecRecords(Actions)
    <3>1. "gate" \in Places /\ NoItem \in Nat
      BY DEF Places, NoItem
    <3>2. [x[e] EXCEPT !.pc = "gate", !.idx = next, !.item = NoItem] \in ExecRecords(Actions)
      BY <1>2, <2>2, <3>1 DEF ExecRecords
    <3>3. ASSUME NEW t \in ExecRecords(Actions)
          PROVE  [t EXCEPT !.res = res, !.prepared = prepared] \in ExecRecords(Actions)
      BY <2>2 DEF ExecRecords
    <3> QED
      BY <3>2, <3>3
  <2>4. /\ r.pc = "gate" /\ r.blk = x[e].blk /\ r.prior = x[e].prior
        /\ r.good = x[e].good /\ r.bad = x[e].bad
    BY <1>2 DEF ExecRecords
  <2> HIDE DEF r
  <2>5. Stays(e, r)
    BY <1>2, <2>1, <2>3, <2>4 DEF Stays, InAction
  <2>6. binding \subseteq [ev : Events, item : Nat, by : Actions \cup {0}]
    BY DEF TypeInv, RowsTyped
  <2>7. binding' \subseteq [ev : Events, item : Nat, by : Actions \cup {0}]
    <3>1. CASE Kind(a) # "create"
      <4>1. [ev |-> plan.act[a].ev, item |-> x[e].item, by |-> a] \in
              [ev : Events, item : Nat, by : Actions \cup {0}]
        BY <1>2, <3>1
      <4> QED
        BY <1>2, <1>5, <2>6, <3>1, <4>1, AtAction, <1>1 DEF Bound, Kind, Kinds
    <3>2. CASE Kind(a) = "create"
      BY <1>5, <2>6, <3>2 DEF Bound, Kind
    <3> QED
      BY <3>1, <3>2
  <2>8. /\ evLease' \in [Blocks -> Executions \cup {NoExec}] /\ row' \in [Actions -> Rows]
        /\ RemoteTyped'
    BY <1>2, <1>5 DEF TypeInv, RunTyped, RemoteTyped, Remote, Events, Actions
  <2> QED
    BY <1>2, <1>5, <2>5, <2>7, <2>8, StaysTyped
<1> QED
  BY <1>3, <1>4, <1>5 DEF Bind

LEMMA HeartbeatType ==
  ASSUME TypeInv, NEW e \in Executions, HeartbeatNotices(e)
  PROVE  TypeInv'
<1> DEFINE r == [x[e] EXCEPT !.lost = TRUE]
<1>1. x \in [Executions -> ExecRecords(Actions)] /\ x[e] \in ExecRecords(Actions)
  BY DEF TypeInv, ExecsTyped
<1>2. InBlock(e)
  <2>1. x[e].pc \in Places
    BY <1>1 DEF ExecRecords
  <2> QED
    BY <2>1 DEF HeartbeatNotices, Alive, Places, InBlock
<1>3. /\ x' = [x EXCEPT ![e] = r]
      /\ UNCHANGED <<plan, Remote, row, binding, synced, run, holder, evLease>>
  BY <1>1 DEF HeartbeatNotices
<1>4. r \in ExecRecords(Actions)
  BY <1>1 DEF ExecRecords
<1>5. /\ r.pc = x[e].pc /\ r.blk = x[e].blk /\ r.idx = x[e].idx /\ r.prior = x[e].prior
      /\ r.good = x[e].good /\ r.bad = x[e].bad
  BY <1>1 DEF ExecRecords
<1> HIDE DEF r
<1>6. Stays(e, r)
  BY <1>2, <1>3, <1>4, <1>5 DEF Stays, TypeInv, Shape, InBlock, Act
<1>7. row' \in [Actions -> Rows]
  BY <1>3 DEF TypeInv, RowsTyped
<1> QED
  BY <1>2, <1>3, <1>6, <1>7, InsideBlock, StaysInPlace

\* The executions are where they were.
LEMMA SameExecs ==
  ASSUME TypeInv, UNCHANGED <<plan, x>>
  PROVE  PlanTyped' /\ ExecsTyped' /\ \A f \in Executions : Shape(f)'
<1>1. PlanTyped' /\ ExecsTyped'
  BY DEF TypeInv, PlanTyped, ExecsTyped, Actions
<1>2. ASSUME NEW f \in Executions PROVE Shape(f)'
  <2>1. Shape(f)
    BY DEF TypeInv
  <2> QED
    BY <2>1 DEF Shape, Alive, InBlock, Act, Kind, Blocks, Events, Counted, Actions
<1> QED
  BY <1>1, <1>2

LEMMA EnvironmentType ==
  ASSUME TypeInv,
         RunLeaseExpires \/ (\E k \in Blocks : EventLeaseExpires(k)) \/ CancelQueued \/ UNCHANGED vars
  PROVE  TypeInv'
<1>1. UNCHANGED <<plan, Remote, row, binding, synced, x>>
  BY DEF RunLeaseExpires, EventLeaseExpires, CancelQueued, vars, Remote
<1>2. PlanTyped' /\ ExecsTyped' /\ \A f \in Executions : Shape(f)'
  BY <1>1, SameExecs
<1>3. RemoteTyped' /\ RowsTyped'
  BY <1>1 DEF TypeInv, RemoteTyped, RowsTyped, Remote, Events, Actions
<1>4. RunTyped'
  <2>1. Events' = Events /\ Blocks' = Blocks
    BY <1>1 DEF Events, Blocks
  <2>2. CASE RunLeaseExpires
    BY <2>1, <2>2 DEF RunLeaseExpires, TypeInv, RunTyped, Ended
  <2>3. CASE \E k \in Blocks : EventLeaseExpires(k)
    BY <2>1, <2>3 DEF EventLeaseExpires, TypeInv, RunTyped
  <2>4. CASE CancelQueued
    BY <2>1, <2>4 DEF CancelQueued, TypeInv, RunTyped, Ended
  <2>5. CASE UNCHANGED vars
    BY <2>1, <2>5 DEF vars, TypeInv, RunTyped
  <2> QED
    BY <2>2, <2>3, <2>4, <2>5
<1> QED
  BY <1>2, <1>3, <1>4 DEF TypeInv

LEMMA EditsType ==
  ASSUME TypeInv, PersonEdits
  PROVE  TypeInv'
<1>1. RemoteTyped' /\ UNCHANGED <<plan, row, binding, synced, run, holder, evLease, x>>
  BY EditFacts
<1>2. PlanTyped' /\ ExecsTyped' /\ \A f \in Executions : Shape(f)'
  BY <1>1, SameExecs
<1>3. RowsTyped' /\ RunTyped'
  BY <1>1 DEF TypeInv, RowsTyped, RunTyped, Events, Actions, Blocks
<1> QED
  BY <1>1, <1>2, <1>3 DEF TypeInv

LEMMA CheckErrorType ==
  ASSUME TypeInv, NEW e \in Executions, CheckError(e)
  PROVE  TypeInv'
<1>1. RunTyped'
  BY EngineAssumption DEF CheckError, Release, Fence, TypeInv, RunTyped, Events, Blocks, Ended
<1> QED
  BY <1>1, StopType DEF CheckError

LEMMA CrashType ==
  ASSUME TypeInv, NEW e \in Executions, Crash(e)
  PROVE  TypeInv'
<1>1. RunTyped'
  BY DEF Crash, TypeInv, RunTyped, Events, Blocks
<1> QED
  BY <1>1, StopType DEF Crash

LEMMA TypeInit == Init => TypeInv
<1> SUFFICES ASSUME Init PROVE TypeInv
  OBVIOUS
<1>1. PlanTyped
  BY DEF Init, PlanTyped
<1>2. WellFormed(plan)
  BY <1>1, EngineAssumption DEF PlanTyped
<1>3. RemoteTyped
  <2>1. agenda \in [Events -> Seq(Items)] /\ agenda = plan.agenda /\ DOMAIN plan.agenda = Events
    BY <1>2 DEF Init, WellFormed, Events
  <2>2. catalog \subseteq Actions /\ nextId \in Nat /\ nextId >= NewItem
    BY DEF Init, NewItem
  <2>3. made \in [Actions -> SUBSET (NewItem .. nextId - 1)]
    BY DEF Init
  <2>4. \A k \in Events : \A i, j \in DOMAIN agenda[k] :
          /\ agenda[k][i].id < nextId
          /\ agenda[k][i].id = agenda[k][j].id => i = j
    BY <1>2, <2>1 DEF Init, WellFormed
  <2> QED
    BY <2>1, <2>2, <2>3, <2>4 DEF RemoteTyped
<1>4. RowsTyped
  <2>1. row \in [Actions -> Rows]
    BY DEF Init, Rows, Sts, NoItem
  <2>2. binding \subseteq [ev : Events, item : Nat, by : Actions \cup {0}]
    <3>1. \A i \in 0 .. NewItem - 1 : i \in Nat
      BY DEF NewItem
    <3>2. binding \subseteq [ev : Events, item : 0 .. NewItem - 1, by : {0}]
      BY <1>1, PlanFacts DEF Init
    <3> QED
      BY <3>1, <3>2
  <2> QED
    BY <2>1, <2>2 DEF Init, RowsTyped
<1>5. RunTyped
  BY EngineAssumption DEF Init, RunTyped, Ended
<1>6. ExecsTyped /\ \A e \in Executions : Shape(e)
  BY IdleTyped DEF Init, ExecsTyped, Shape, InBlock, InAction, Alive
<1> QED
  BY <1>1, <1>3, <1>4, <1>5, <1>6 DEF TypeInv

LEMMA TypeStep == TypeInv /\ [Next]_vars => TypeInv'
<1> SUFFICES ASSUME TypeInv, [Next]_vars PROVE TypeInv'
  OBVIOUS
<1>1. ASSUME NEW e \in Executions, Step(e) PROVE TypeInv'
  BY <1>1, OpenBlockType, CloseBlockType, FinishType, GateType, CheckType, StartType, WriteType,
     RereadType, RecordAppliedType, VerifyType, BindType DEF Step
<1>2. ASSUME NEW e \in Executions, Begin(e) \/ Provider(e) \/ Crash(e) \/ HeartbeatNotices(e)
      PROVE  TypeInv'
  BY <1>2, BeginType, CheckErrorType, WriteIndeterminateType, WriteRefusedType, CrashType, HeartbeatType DEF Provider
<1> QED
  BY <1>1, <1>2, EnvironmentType, EditsType DEF Next

LEMMA TypeInvariant == Spec => []TypeInv
  BY TypeInit, TypeStep, PTL DEF Spec

\* The engine keeps its types: agendas with distinct items, action rows in one of five
\* states, a lease owner exactly while the run is running, and no execution counts more
\* events than the plan has (the counters _apply_plan ends with).
THEOREM TypeCorrect == Spec => []TypeOK
<1>1. TypeInv => TypeOK
  <2> SUFFICES ASSUME TypeInv PROVE TypeOK
    OBVIOUS
  <2>1. ASSUME NEW e \in Executions, Alive(e)
        PROVE  x[e].good + x[e].bad <= Cardinality({k \in Events : plan.status[k] # "skipped"})
    <3> DEFINE all == {k \in Events : plan.status[k] # "skipped"}
               now == Counted(x[e].blk)
    <3>1. x[e].good + x[e].bad <= Cardinality(now) /\ x[e].good \in Nat /\ x[e].bad \in Nat
      BY <2>1 DEF TypeInv, Shape, ExecsTyped, ExecRecords
    <3>2. IsFiniteSet(Events)
      <4>1. 1 \in Int /\ Len(plan.status) \in Int /\ Events = 1 .. Len(plan.status)
        BY PlanFacts DEF TypeInv
      <4> QED
        BY <4>1, FS_Interval
    <3>3. now \subseteq all /\ IsFiniteSet(all)
      BY <3>2, FS_Subset DEF Counted
    <3>4. IsFiniteSet(now) /\ Cardinality(now) <= Cardinality(all)
      BY <3>3, FS_Subset
    <3>5. Cardinality(now) \in Nat /\ Cardinality(all) \in Nat
      BY <3>3, <3>4, FS_CardinalityType
    <3> HIDE DEF all, now
    <3>6. x[e].good + x[e].bad <= Cardinality(all)
      BY <3>1, <3>4, <3>5
    <3> QED
      BY <3>6 DEF all
  <2> QED
    BY <2>1 DEF TypeInv, RemoteTyped, RowsTyped, RunTyped, TypeOK, Rows, Sts
<1> QED
  BY <1>1, TypeInvariant, PTL

-----------------------------------------------------------------------------
(* Whose items they are. *)

\* What a step may do to the remote agendas: items that were there before planning only
\* leave, and an insert is found under its own song.
RemoteStep ==
  /\ plan' = plan /\ AgendaInv' /\ MadeInv'
  /\ byHand \subseteq byHand' /\ \A a \in Actions : made[a] \subseteq made'[a]
  /\ \A m \in Events : \A j \in DOMAIN agenda'[m] :
       agenda'[m][j].id < NewItem => agenda'[m][j].id \in Ids(agenda[m])

\* What is said of items and bindings after the step.
StillOwn(a, item) ==
  \/ \E t \in Twins(a) : item \in made'[t]
  \/ [id |-> item, song |-> plan.act[a].song] \in byHand'
StillFor(a, item) ==
  IF Kind(a) = "insert" THEN item >= NewItem /\ StillOwn(a, item) ELSE item = plan.act[a].item
StillStands(b, a) ==
  IF Kind(a) = "insert"
  THEN b.by # 0 /\ Kind(b.by) = "insert" /\ (b.by \in Twins(a) \/ \E it \in byHand' : it.id = b.item)
  ELSE b.by = a
StillBound(a) == \E b \in binding' : b.ev = plan.act[a].ev /\ StillStands(b, a)

\* A song that is bound stays bound.
BindingsStay == \A a \in Actions : Binds(a) /\ IsBound(a) => StillBound(a)

LEMMA QuietRemote ==
  ASSUME OwnInv, UNCHANGED <<plan, Remote>>
  PROVE  RemoteStep
<1>1. AgendaInv /\ MadeInv
  BY DEF OwnInv
<1>2. AgendaInv' /\ MadeInv'
  BY <1>1 DEF AgendaInv, MadeInv, OwnItem, Twins, Remote, Events, Actions, Kind
<1> QED
  BY <1>2 DEF RemoteStep, Remote, Ids

\* The same said before and after a step.
LEMMA SamePlan ==
  ASSUME plan' = plan
  PROVE  /\ Actions' = Actions /\ Events' = Events /\ \A a : Kind(a)' = Kind(a)
         /\ \A a : Twins(a)' = Twins(a)
         /\ \A a, item : OwnItem(a, item)' = StillOwn(a, item)
         /\ \A a, item : ItemFor(a, item)' = StillFor(a, item)
         /\ \A b, a : StandsFor(b, a)' = StillStands(b, a)
         /\ \A a : IsBound(a)' = StillBound(a)
<1>1. Actions' = Actions /\ Events' = Events /\ \A a : Kind(a)' = Kind(a)
  BY DEF Actions, Events, Kind
<1>2. \A a : Twins(a)' = Twins(a)
  BY <1>1 DEF Twins
<1>3. \A a, item : OwnItem(a, item)' = StillOwn(a, item)
  BY <1>2 DEF OwnItem, StillOwn
<1>4. \A a, item : ItemFor(a, item)' = StillFor(a, item)
  BY <1>1, <1>3 DEF ItemFor, StillFor, NewItem
<1>5. \A b, a : StandsFor(b, a)' = StillStands(b, a)
  BY <1>1, <1>2 DEF StandsFor, StillStands
<1>6. \A a : IsBound(a)' = StillBound(a)
  BY <1>5 DEF IsBound, StillBound
<1> QED
  BY <1>1, <1>2, <1>3, <1>4, <1>5, <1>6

LEMMA ShownItems ==
  ASSUME TypeInv, OwnInv, NEW m \in Events, NEW it, Shows(m, it)
  PROVE  /\ it.id \in Nat /\ it.id \in Ids(agenda[m]) /\ it.id < nextId
         /\ it.id < NewItem => it.id \in Ids(plan.agenda[m])
         /\ it.id >= NewItem =>
              \A a \in Actions : Kind(a) = "insert" /\ plan.act[a].ev = m /\ plan.act[a].song = it.song
                => OwnItem(a, it.id)
<1>1. PICK i \in DOMAIN agenda[m] : agenda[m][i] = it
  BY DEF Shows
<1>2. it.id \in Nat /\ it.id < nextId
  BY <1>1, IdsTyped, AgendasTyped DEF AgendaTyped
<1> QED
  BY <1>1, <1>2 DEF OwnInv, AgendaInv, Ids

LEMMA EffectRemote ==
  ASSUME TypeInv, OwnInv, NEW e \in Executions, NEW a \in Actions,
         Kind(a) \in Mutating => plan.act[a].ev \in Events,
         NEW item, Effect(e, a, item), plan' = plan
  PROVE  RemoteStep /\ StillFor(a, item)
<1>1. /\ RemoteTyped' /\ item \in Nat /\ byHand' = byHand
      /\ Kind(a) # "insert" => item = plan.act[a].item /\ UNCHANGED <<made, nextId>>
      /\ Kind(a) = "insert" => /\ item = nextId /\ nextId' = nextId + 1
                               /\ made' = [made EXCEPT ![a] = made[a] \cup {nextId}]
      /\ \A m \in Events : \A j \in DOMAIN agenda'[m] :
           \/ Shows(m, agenda'[m][j])
           \/ /\ Kind(a) = "insert" /\ m = plan.act[a].ev
              /\ agenda'[m][j].id = nextId /\ agenda'[m][j].song = plan.act[a].song
           \/ /\ m = plan.act[a].ev /\ agenda'[m][j].id = plan.act[a].item
              /\ \E it \in Items : it.id = plan.act[a].item /\ Shows(m, it)
  BY EffectFacts
<1>2. /\ nextId \in Nat /\ nextId >= NewItem /\ NewItem \in Nat
      /\ made \in [Actions -> SUBSET (NewItem .. nextId - 1)]
  BY DEF TypeInv, RemoteTyped, NewItem
<1>3. plan.act[a].item \in Nat /\ plan.act[a].item < NewItem
  BY PlannedFacts
<1>4. \A b \in Actions : made[b] \subseteq made'[b] /\ nextId \notin made[b]
  BY <1>1, <1>2
<1>9. Kind(a) = "insert" => nextId \in made'[a]
  BY <1>1, <1>2
<1>5. MadeInv'
  <2>1. MadeInv
    BY DEF OwnInv
  <2>2. CASE Kind(a) # "insert"
    BY <1>1, <2>1, <2>2 DEF MadeInv, Actions
  <2>3. CASE Kind(a) = "insert"
    <3>1. \A b \in Actions : made'[b] = IF b = a THEN made[b] \cup {nextId} ELSE made[b]
      BY <1>1, <1>2, <2>3
    <3>2. ASSUME NEW b \in Actions, NEW c \in Actions, b # c
          PROVE  made'[b] \cap made'[c] = {}
      <4>1. made[b] \cap made[c] = {} /\ nextId \notin made[b] /\ nextId \notin made[c]
        BY <1>4, <2>1, <3>2 DEF MadeInv
      <4> QED
        BY <3>1, <3>2, <4>1
    <3> QED
      BY <3>2 DEF MadeInv, Actions
  <2> QED
    BY <2>2, <2>3
<1>6. ASSUME NEW m \in Events, NEW j \in DOMAIN agenda'[m]
      PROVE  /\ agenda'[m][j].id < NewItem =>
                  agenda'[m][j].id \in Ids(agenda[m]) /\ agenda'[m][j].id \in Ids(plan.agenda[m])
             /\ agenda'[m][j].id >= NewItem =>
                  \A b \in Actions : Kind(b) = "insert" /\ plan.act[b].ev = m
                                     /\ plan.act[b].song = agenda'[m][j].song
                    => StillOwn(b, agenda'[m][j].id)
  <2>1. CASE Shows(m, agenda'[m][j])
    BY <1>1, <1>4, <2>1, ShownItems DEF OwnItem, StillOwn, Twins
  <2>2. CASE /\ Kind(a) = "insert" /\ m = plan.act[a].ev
             /\ agenda'[m][j].id = nextId /\ agenda'[m][j].song = plan.act[a].song
    <3>1. nextId \in made'[a]
      BY <1>9, <2>2
    <3>2. \A b \in Actions : Kind(b) = "insert" /\ plan.act[b].ev = m
                             /\ plan.act[b].song = agenda'[m][j].song => a \in Twins(b)
      BY <2>2 DEF Twins
    <3> QED
      BY <1>2, <2>2, <3>1, <3>2 DEF StillOwn
  <2>3. CASE /\ m = plan.act[a].ev /\ agenda'[m][j].id = plan.act[a].item
             /\ \E it \in Items : it.id = plan.act[a].item /\ Shows(m, it)
    BY <1>2, <1>3, <2>3, ShownItems
  <2> QED
    BY <1>1, <1>6, <2>1, <2>2, <2>3
<1>7. AgendaInv'
  BY <1>6, SamePlan DEF AgendaInv
<1>8. StillFor(a, item)
  <2>1. Kind(a) = "insert" => a \in Twins(a)
    BY DEF Twins
  <2> QED
    BY <1>1, <1>2, <1>9, <2>1 DEF StillFor, StillOwn
<1> QED
  BY <1>1, <1>4, <1>5, <1>6, <1>7, <1>8 DEF RemoteStep

LEMMA EditsRemote ==
  ASSUME TypeInv, OwnInv, PersonEdits
  PROVE  RemoteStep
<1>1. /\ made' = made /\ plan' = plan /\ byHand \subseteq byHand'
      /\ \A m \in Events : \A j \in DOMAIN agenda'[m] :
           \/ Shows(m, agenda'[m][j])
           \/ /\ agenda'[m][j] \in byHand'
              /\ \/ agenda'[m][j].id = nextId
                 \/ \E it \in Items : it.id = agenda'[m][j].id /\ Shows(m, it)
      /\ RemoteTyped'
  BY EditFacts
<1>2. nextId \in Nat /\ nextId >= NewItem /\ NewItem \in Nat
  BY DEF TypeInv, RemoteTyped, NewItem
<1>3. ASSUME NEW m \in Events, NEW j \in DOMAIN agenda'[m]
      PROVE  /\ agenda'[m][j].id < NewItem =>
                  agenda'[m][j].id \in Ids(agenda[m]) /\ agenda'[m][j].id \in Ids(plan.agenda[m])
             /\ agenda'[m][j].id >= NewItem =>
                  \A b \in Actions : Kind(b) = "insert" /\ plan.act[b].ev = m
                                     /\ plan.act[b].song = agenda'[m][j].song
                    => StillOwn(b, agenda'[m][j].id)
  <2>1. CASE Shows(m, agenda'[m][j])
    BY <1>1, <2>1, ShownItems DEF OwnItem, StillOwn
  <2>2. CASE agenda'[m][j] \in byHand' /\ ~Shows(m, agenda'[m][j])
    <3>1. agenda'[m][j].id < NewItem => \E it \in Items : it.id = agenda'[m][j].id /\ Shows(m, it)
      BY <1>1, <1>2, <2>2
    <3>2. agenda'[m][j] = [id |-> agenda'[m][j].id, song |-> agenda'[m][j].song]
      <4>1. Events' = Events /\ agenda'[m] \in Seq(Items)
        BY <1>1 DEF RemoteTyped, Events
      <4>2. agenda'[m][j] \in Items
        BY <4>1, LenProperties, ElementOfSeq
      <4> QED
        BY <4>2 DEF Items
    <3>3. \A b \in Actions : plan.act[b].song = agenda'[m][j].song => StillOwn(b, agenda'[m][j].id)
      BY <2>2, <3>2 DEF StillOwn
    <3> QED
      BY <3>1, <3>3, ShownItems
  <2> QED
    BY <1>1, <1>3, <2>1, <2>2
<1>4. AgendaInv'
  BY <1>1, <1>3, SamePlan DEF AgendaInv
<1>5. MadeInv'
  BY <1>1 DEF OwnInv, MadeInv, Actions
<1> QED
  BY <1>1, <1>3, <1>4, <1>5 DEF RemoteStep

LEMMA ItemStays ==
  ASSUME RemoteStep, NEW a \in Actions, NEW item, ItemFor(a, item)
  PROVE  StillFor(a, item)
  BY DEF RemoteStep, ItemFor, StillFor, OwnItem, StillOwn, Twins

LEMMA StandsStays ==
  ASSUME RemoteStep, NEW b, NEW a, StandsFor(b, a)
  PROVE  StillStands(b, a)
  BY DEF RemoteStep, StandsFor, StillStands

LEMMA KnowsIntro ==
  ASSUME plan' = plan, NEW f \in Executions, NEW r, x'[f] = r,
         r.pc \notin {"idle", "dead"} =>
           \A a \in Actions : Recorded(r.prior[a]) => StillFor(a, r.prior[a].item),
         r.pc \in {"applied", "verify", "bind"} => StillFor(plan.block[r.blk][r.idx], r.item),
         r.pc = "block" => r.idx = 1,
         r.pc = "check" => ~Recorded(r.prior[plan.block[r.blk][r.idx]]),
         r.pc = "reread" => LET k == plan.act[plan.block[r.blk][r.idx]].ev IN
           \A i \in DOMAIN agenda'[k] : agenda'[k][i].id < NewItem => agenda'[k][i].id \in r.pre,
         (r.pc = "gate" \/ r.pc \in InAction) /\ r.blk > 0 =>
           \A i \in DOMAIN plan.block[r.blk] :
             i < r.idx /\ Binds(plan.block[r.blk][i]) => StillBound(plan.block[r.blk][i])
  PROVE  KnowsItems(f)'
<1>1. Actions' = Actions /\ \A a : Kind(a)' = Kind(a) /\ Binds(a)' = Binds(a)
  BY DEF Actions, Kind, Binds
<1>2. /\ Alive(f)' = (r.pc \notin {"idle", "dead"}) /\ Act(f)' = plan.block[r.blk][r.idx]
      /\ InBlock(f)' = (r.pc = "gate" \/ r.pc \in InAction)
  BY DEF Alive, Act, InBlock
<1>5. Alive(f)' => \A a \in Actions' : Recorded(x'[f].prior[a]) => ItemFor(a, x[f].prior[a].item)'
  BY ZenonT(40), <1>1, <1>2, SamePlan
<1>6. x'[f].pc \in {"applied", "verify", "bind"} => ItemFor(Act(f), x[f].item)'
  BY <1>1, <1>2, SamePlan DEF StillFor, ItemFor, OwnItem, StillOwn, Twins, Act, Kind
<1>7. InBlock(f)' /\ x'[f].blk > 0 => \A i \in DOMAIN plan'.block[x'[f].blk] :
        i < x'[f].idx /\ Binds(plan.block[x[f].blk][i])' => IsBound(plan.block[x[f].blk][i])'
  BY ZenonT(40), <1>2 DEF StillBound, IsBound, StillStands, StandsFor, Twins, Binds, Kind, Actions
<1>8. /\ x'[f].pc = "block" => x'[f].idx = 1
      /\ x'[f].pc = "check" => ~Recorded(x[f].prior[Act(f)])'
      /\ x'[f].pc = "reread" => (\A i \in DOMAIN agenda[plan.act[Act(f)].ev] :
           agenda[plan.act[Act(f)].ev][i].id < NewItem =>
             agenda[plan.act[Act(f)].ev][i].id \in x[f].pre)'
  BY <1>2 DEF Recorded, NewItem
<1> QED
  BY <1>5, <1>6, <1>7, <1>8 DEF KnowsItems

\* An execution that a step does not move, or only tells that a lease is lost.
Unmoved(f) ==
  /\ x'[f].pc = x[f].pc /\ x'[f].blk = x[f].blk /\ x'[f].idx = x[f].idx
  /\ x'[f].prior = x[f].prior /\ x'[f].item = x[f].item /\ x'[f].pre = x[f].pre

LEMMA PriorKept ==
  ASSUME OwnInv, RemoteStep, NEW e \in Executions, Alive(e)
  PROVE  \A a \in Actions : Recorded(x[e].prior[a]) => StillFor(a, x[e].prior[a].item)
  BY ItemStays DEF OwnInv, KnowsItems

LEMMA BoundKept ==
  ASSUME TypeInv, OwnInv, BindingsStay, NEW e \in Executions, InBlock(e), x[e].blk > 0
  PROVE  \A i \in DOMAIN plan.block[x[e].blk] :
           i < x[e].idx /\ Binds(plan.block[x[e].blk][i]) => StillBound(plan.block[x[e].blk][i])
<1> SUFFICES ASSUME NEW i \in DOMAIN plan.block[x[e].blk], i < x[e].idx,
                    Binds(plan.block[x[e].blk][i])
             PROVE  StillBound(plan.block[x[e].blk][i])
  OBVIOUS
<1>1. plan.block[x[e].blk][i] \in Actions
  BY PlanFacts DEF TypeInv, Shape
<1>2. IsBound(plan.block[x[e].blk][i])
  BY DEF OwnInv, KnowsItems
<1> QED
  BY <1>1, <1>2 DEF BindingsStay

LEMMA KnowsKept ==
  ASSUME TypeInv, OwnInv, RemoteStep, BindingsStay, NEW f \in Executions, Unmoved(f)
  PROVE  KnowsItems(f)'
<1> DEFINE r == x'[f]
<1>1. KnowsItems(f) /\ plan' = plan
  BY DEF OwnInv, RemoteStep
<1>2. /\ r.pc = x[f].pc /\ r.blk = x[f].blk /\ r.idx = x[f].idx /\ r.prior = x[f].prior
      /\ r.item = x[f].item /\ r.pre = x[f].pre /\ x'[f] = r
  BY DEF Unmoved
<1> HIDE DEF r
<1>3. r.pc \notin {"idle", "dead"} =>
        \A a \in Actions : Recorded(r.prior[a]) => StillFor(a, r.prior[a].item)
  BY <1>2, PriorKept DEF Alive
<1>4. r.pc \in {"applied", "verify", "bind"} => StillFor(plan.block[r.blk][r.idx], r.item)
  <2> SUFFICES ASSUME x[f].pc \in {"applied", "verify", "bind"} PROVE StillFor(Act(f), x[f].item)
    BY <1>2 DEF Act
  <2>1. Act(f) \in Actions
    BY AtAction DEF InAction
  <2> QED
    BY <1>1, <2>1, ItemStays DEF KnowsItems
<1>5. /\ r.pc = "block" => r.idx = 1
      /\ r.pc = "check" => ~Recorded(r.prior[plan.block[r.blk][r.idx]])
  BY <1>1, <1>2 DEF KnowsItems, Act
<1>6. r.pc = "reread" => LET k == plan.act[plan.block[r.blk][r.idx]].ev IN
        \A i \in DOMAIN agenda'[k] : agenda'[k][i].id < NewItem => agenda'[k][i].id \in r.pre
  <2> SUFFICES ASSUME x[f].pc = "reread"
               PROVE  \A i \in DOMAIN agenda'[plan.act[Act(f)].ev] :
                        agenda'[plan.act[Act(f)].ev][i].id < NewItem =>
                          agenda'[plan.act[Act(f)].ev][i].id \in x[f].pre
    BY <1>2 DEF Act
  <2>1. plan.act[Act(f)].ev \in Events
    BY AdoptedItems
  <2> QED
    BY <1>1, <2>1 DEF KnowsItems, RemoteStep, Ids
<1>7. (r.pc = "gate" \/ r.pc \in InAction) /\ r.blk > 0 =>
        \A i \in DOMAIN plan.block[r.blk] :
          i < r.idx /\ Binds(plan.block[r.blk][i]) => StillBound(plan.block[r.blk][i])
  BY <1>2, BoundKept DEF InBlock
<1> QED
  BY <1>1, <1>2, <1>3, <1>4, <1>5, <1>6, <1>7, KnowsIntro

\* An execution that has ended knows nothing, one between blocks its earlier outcomes.
LEMMA KnowsEnded ==
  ASSUME plan' = plan, NEW f \in Executions, x'[f] = [Idle EXCEPT !.pc = "dead"]
  PROVE  KnowsItems(f)'
<1> DEFINE r == [Idle EXCEPT !.pc = "dead"]
<1>1. r.pc = "dead" /\ r.pc \notin InAction
  BY IdleTyped DEF InAction
<1> HIDE DEF r
<1>2. x'[f] = r
  BY DEF r
<1> QED
  BY <1>1, <1>2, KnowsIntro

LEMMA KnowsNextBlock ==
  ASSUME TypeInv, OwnInv, RemoteStep, NEW e \in Executions, NEW r, x'[e] = r, Alive(e),
         r.pc = "block", r.idx = 1, r.prior = x[e].prior
  PROVE  KnowsItems(e)'
<1>1. r.pc \notin InAction \cup {"gate"} /\ plan' = plan
  BY DEF InAction, RemoteStep
<1>2. \A a \in Actions : Recorded(r.prior[a]) => StillFor(a, r.prior[a].item)
  BY PriorKept
<1> QED
  BY <1>1, <1>2, KnowsIntro

\* The execution stays in its block, at the same action or with the next one.
LEMMA KnowsStays ==
  ASSUME TypeInv, OwnInv, RemoteStep, BindingsStay, NEW e \in Executions, NEW r,
         Inside(e), Stays(e, r), r.pc # "reread",
         r.pc \in {"applied", "verify", "bind"} => StillFor(plan.block[r.blk][r.idx], r.item),
         r.pc = "check" => ~Recorded(r.prior[plan.block[r.blk][r.idx]]),
         r.blk > 0 => \A i \in DOMAIN plan.block[r.blk] :
           i < r.idx /\ Binds(plan.block[r.blk][i]) => StillBound(plan.block[r.blk][i])
  PROVE  KnowsItems(e)'
<1>1. x'[e] = r /\ plan' = plan /\ r.prior = x[e].prior
  BY DEF Stays, TypeInv, ExecsTyped, RemoteStep
<1>2. \A a \in Actions : Recorded(r.prior[a]) => StillFor(a, r.prior[a].item)
  BY <1>1, PriorKept DEF Inside
<1>3. r.pc # "block"
  BY DEF Stays, InAction
<1> QED
  BY <1>1, <1>2, <1>3, KnowsIntro

\* The rows: what is recorded of an action is an item it may have left.
RowsOwn(rows) == \A a \in Actions : Recorded(rows[a]) => ItemFor(a, rows[a].item)

LEMMA RowsOwned ==
  ASSUME NEW rows \in [Actions -> Rows], RowsOwn(rows)
  PROVE  /\ \A a \in Actions : \A st, item : (st \in {"applied", "verified"} => ItemFor(a, item))
              => RowsOwn(WithRow(rows, a, st, item))
         /\ \A k, i : RowsOwn(SkipFrom(rows, k, i))
<1>1. ASSUME NEW a \in Actions, NEW st, NEW item, st \in {"applied", "verified"} => ItemFor(a, item)
      PROVE  RowsOwn(WithRow(rows, a, st, item))
  <2> DEFINE v == [st |-> st, item |-> item]
  <2>1. v.st = st /\ v.item = item
    OBVIOUS
  <2> HIDE DEF v
  <2>2. CASE Settled(rows[a], st)
    BY <2>2 DEF WithRow
  <2>3. CASE ~Settled(rows[a], st)
    <3>1. WithRow(rows, a, st, item) = [rows EXCEPT ![a] = v]
      BY <2>3 DEF WithRow, v
    <3> QED
      BY <1>1, <2>1, <3>1 DEF RowsOwn, Recorded
  <2> QED
    BY <2>2, <2>3
<1>2. ASSUME NEW k, NEW i PROVE RowsOwn(SkipFrom(rows, k, i))
  <2> DEFINE v == [st |-> "skipped", item |-> NoItem]
  <2>1. ~Recorded(v)
    BY DEF Recorded
  <2> HIDE DEF v
  <2>2. \A a \in Actions : SkipFrom(rows, k, i)[a] \in {v, rows[a]}
    BY DEF SkipFrom, v
  <2> QED
    BY <2>1, <2>2 DEF RowsOwn
<1> QED
  BY <1>1, <1>2

LEMMA RowsKept ==
  ASSUME RemoteStep, NEW rows, RowsOwn(rows), row' = rows
  PROVE  RowInv'
<1>1. \A a \in Actions : Recorded(row'[a]) => StillFor(a, row'[a].item)
  BY ItemStays DEF RowsOwn
<1> QED
  BY <1>1, SamePlan DEF RowInv, RemoteStep

\* Bindings and checkpoints that stay.
LEMMA SameBindings ==
  ASSUME TypeInv, OwnInv, RemoteStep, binding' = binding
  PROVE  BindingsStay /\ BindingInv' /\ (synced' = synced => CheckpointIsOwned')
<1>1. BindingsStay
  BY StandsStays DEF BindingsStay, IsBound, StillBound
<1>2. BindingInv'
  <2>1. \A b \in binding : b.by # 0 => b.by \in Actions
    BY DEF TypeInv, RowsTyped
  <2>2. \A b \in binding : b.by # 0 => b.ev = plan.act[b.by].ev /\ StillFor(b.by, b.item)
    BY <2>1, ItemStays DEF OwnInv, BindingInv
  <2> QED
    BY <2>2, SamePlan DEF BindingInv, RemoteStep
<1>3. synced' = synced => CheckpointIsOwned'
  BY StandsStays, SamePlan DEF OwnInv, CheckpointIsOwned, RemoteStep
<1> QED
  BY <1>1, <1>2, <1>3

\* A step of one execution.
LEMMA OwnOneExec ==
  ASSUME TypeInv, OwnInv, RemoteStep, BindingsStay, BindingInv', CheckpointIsOwned', RowInv',
         NEW e \in Executions, NEW r, x' = [x EXCEPT ![e] = r], KnowsItems(e)'
  PROVE  OwnInv'
<1>1. ASSUME NEW f \in Executions PROVE KnowsItems(f)'
  <2>1. CASE f = e
    BY <2>1
  <2>2. CASE f # e
    <3>1. x'[f] = x[f]
      BY <2>2 DEF TypeInv, ExecsTyped
    <3> QED
      BY <3>1, KnowsKept DEF Unmoved
  <2> QED
    BY <2>1, <2>2
<1> QED
  BY <1>1 DEF OwnInv, RemoteStep

\* One that concerns neither the agendas nor the bindings.
LEMMA OwnLocal ==
  ASSUME TypeInv, OwnInv, UNCHANGED <<plan, Remote, binding, synced>>, NEW rows,
         row' = rows, RowsOwn(rows), NEW e \in Executions, NEW r, x' = [x EXCEPT ![e] = r],
         RemoteStep /\ BindingsStay => KnowsItems(e)'
  PROVE  OwnInv'
<1>1. RemoteStep
  BY QuietRemote
<1>2. BindingsStay /\ BindingInv' /\ CheckpointIsOwned'
  BY <1>1, SameBindings
<1>3. RowInv'
  BY <1>1, RowsKept
<1> QED
  BY <1>1, <1>2, <1>3, OwnOneExec

LEMMA OwnRows ==
  ASSUME TypeInv, OwnInv
  PROVE  RowsOwn(row) /\ row \in [Actions -> Rows]
  BY DEF OwnInv, RowInv, RowsOwn, TypeInv, RowsTyped

LEMMA OwnStop ==
  ASSUME TypeInv, OwnInv, NEW e \in Executions, UNCHANGED <<plan, Remote, row, binding, synced>>,
         x' = [x EXCEPT ![e] = [Idle EXCEPT !.pc = "dead"]]
  PROVE  OwnInv'
<1>1. x'[e] = [Idle EXCEPT !.pc = "dead"] /\ plan' = plan
  BY DEF TypeInv, ExecsTyped
<1>2. KnowsItems(e)'
  BY <1>1, KnowsEnded
<1>3. row' = row
  OBVIOUS
<1> DEFINE r == [Idle EXCEPT !.pc = "dead"]
<1>4. x' = [x EXCEPT ![e] = r]
  OBVIOUS
<1> HIDE DEF r
<1> QED
  BY <1>2, <1>3, <1>4, OwnRows, OwnLocal

\* What NextBlock makes of an execution.
LEMMA NextBlockRecord ==
  ASSUME TypeInv, NEW e \in Executions, NEW good \in BOOLEAN, NextBlock(e, good)
  PROVE  \E r : /\ x' = [x EXCEPT ![e] = r] /\ x'[e] = r
                /\ r.pc = "block" /\ r.idx = 1 /\ r.prior = x[e].prior
<1>1. x \in [Executions -> ExecRecords(Actions)] /\ x[e] \in ExecRecords(Actions)
  BY DEF TypeInv, ExecsTyped
<1> DEFINE good1 == IF x[e].blk > 0 /\ good THEN x[e].good + 1 ELSE x[e].good
           bad1 == IF x[e].blk > 0 /\ ~good THEN x[e].bad + 1 ELSE x[e].bad
           blk1 == x[e].blk + 1
           r == [x[e] EXCEPT !.pc = "block", !.blk = blk1, !.idx = 1, !.lost = FALSE,
                             !.item = NoItem, !.good = good1, !.bad = bad1]
<1>2. x' = [x EXCEPT ![e] = r]
  BY <1>1 DEF NextBlock
<1> HIDE DEF good1, bad1, blk1
<1>3. r.pc = "block" /\ r.idx = 1 /\ r.prior = x[e].prior
  BY <1>1 DEF ExecRecords
<1> HIDE DEF r
<1>4. x'[e] = r
  BY <1>1, <1>2
<1> QED
  BY <1>2, <1>3, <1>4

LEMMA OwnLeave ==
  ASSUME TypeInv, OwnInv, NEW e \in Executions, Alive(e), NEW good \in BOOLEAN, NextBlock(e, good),
         UNCHANGED <<plan, Remote, binding, synced>>, NEW rows, row' = rows, RowsOwn(rows)
  PROVE  OwnInv'
<1>1. PICK r : /\ x' = [x EXCEPT ![e] = r] /\ x'[e] = r
               /\ r.pc = "block" /\ r.idx = 1 /\ r.prior = x[e].prior
  BY NextBlockRecord
<1>2. RemoteStep => KnowsItems(e)'
  BY <1>1, KnowsNextBlock
<1> QED
  BY <1>1, <1>2, OwnLocal

LEMMA OwnFailed ==
  ASSUME TypeInv, OwnInv, NEW e \in Executions, InBlock(e), x[e].idx <= Len(plan.block[x[e].blk]),
         NEW st \in Sts, st \notin {"applied", "verified"}, Failed(e, st)
  PROVE  OwnInv'
<1>1. Act(e) \in Actions /\ x[e] \in ExecRecords(Actions) /\ x[e].idx \in Positions /\ Inside(e)
  BY ActFacts, InsideBlock DEF ExecRecords
<1> DEFINE settled == WithRow(row, Act(e), st, NoItem)
<1>2. RowsOwn(settled) /\ \A k, i : RowsOwn(SkipFrom(row, k, i))
  BY <1>1, OwnRows, RowsOwned
<1>3. CASE ~Fence(e)
  BY <1>3, OwnStop DEF Failed, Stop
<1>4. CASE Fence(e) /\ x[e].blk = 0
  <2> DEFINE next == x[e].idx + 1
             r == [x[e] EXCEPT !.pc = "gate", !.idx = next]
  <2>1. /\ row' = settled /\ x' = [x EXCEPT ![e] = r]
        /\ UNCHANGED <<plan, Remote, binding, synced, run, holder, evLease>>
    BY <1>4 DEF Failed, TypeInv, ExecsTyped
  <2>2. next \in Positions
    BY <1>1 DEF Positions
  <2> HIDE DEF next
  <2>3. /\ r \in ExecRecords(Actions) /\ r.pc = "gate" /\ r.blk = x[e].blk
        /\ r.prior = x[e].prior /\ r.good = x[e].good /\ r.bad = x[e].bad
    BY <1>1, <2>2 DEF ExecRecords, Places
  <2> HIDE DEF r, settled
  <2>4. Stays(e, r)
    BY <2>1, <2>3 DEF Stays, InAction
  <2>5. RemoteStep /\ BindingsStay => KnowsItems(e)'
    BY <1>1, <1>4, <2>3, <2>4, KnowsStays
  <2> QED
    BY <1>2, <2>1, <2>5, OwnLocal
<1>5. CASE Fence(e) /\ x[e].blk # 0
  <2>1. /\ row' = SkipFrom(settled, x[e].blk, x[e].idx + 1) /\ NextBlock(e, FALSE)
        /\ UNCHANGED <<plan, Remote, binding, synced>>
    BY <1>5 DEF Failed
  <2>2. settled \in [Actions -> Rows]
    BY <1>1, OwnRows, RowTypes DEF NoItem
  <2> HIDE DEF settled
  <2>3. RowsOwn(SkipFrom(settled, x[e].blk, x[e].idx + 1))
    BY <1>2, <2>2, RowsOwned
  <2> QED
    BY <1>1, <2>1, <2>3, OwnLeave DEF Inside
<1> QED
  BY <1>3, <1>4, <1>5

\* Still at the same action.
LEMMA KnowsSamePlace ==
  ASSUME TypeInv, OwnInv, RemoteStep, BindingsStay, NEW e \in Executions, NEW r,
         InBlock(e), Stays(e, r), r.idx = x[e].idx, r.pc # "reread",
         r.pc \in {"applied", "verify", "bind"} => StillFor(Act(e), r.item),
         r.pc = "check" => ~Recorded(x[e].prior[Act(e)])
  PROVE  KnowsItems(e)'
<1>1. r.blk = x[e].blk /\ r.prior = x[e].prior /\ plan.block[r.blk][r.idx] = Act(e)
  BY DEF Stays, Act
<1>2. r.blk > 0 => \A i \in DOMAIN plan.block[r.blk] :
        i < r.idx /\ Binds(plan.block[r.blk][i]) => StillBound(plan.block[r.blk][i])
  BY <1>1, BoundKept
<1> QED
  BY <1>1, <1>2, InsideBlock, KnowsStays

LEMMA BeginOwn ==
  ASSUME TypeInv, OwnInv, NEW e \in Executions, Begin(e)
  PROVE  OwnInv'
<1> DEFINE r == [Idle EXCEPT !.pc = "block", !.prior = row]
<1>1. x' = [x EXCEPT ![e] = r] /\ UNCHANGED <<plan, Remote, row, binding, synced>>
  BY DEF Begin
<1>2. r.pc = "block" /\ r.idx = 1 /\ r.prior = row
  BY DEF Idle
<1> HIDE DEF r
<1>3. x'[e] = r
  BY <1>1 DEF TypeInv, ExecsTyped
<1>4. RemoteStep => KnowsItems(e)'
  <2> SUFFICES ASSUME RemoteStep PROVE KnowsItems(e)'
    OBVIOUS
  <2>1. \A a \in Actions : Recorded(r.prior[a]) => StillFor(a, r.prior[a].item)
    BY <1>2, OwnRows, ItemStays DEF RowsOwn
  <2>2. r.pc \notin InAction \cup {"gate"} /\ plan' = plan
    BY <1>1, <1>2 DEF InAction
  <2> QED
    BY <1>2, <1>3, <2>1, <2>2, KnowsIntro
<1>5. row' = row
  BY <1>1
<1> QED
  BY <1>1, <1>4, <1>5, OwnRows, OwnLocal

LEMMA OpenBlockOwn ==
  ASSUME TypeInv, OwnInv, NEW e \in Executions, OpenBlock(e)
  PROVE  OwnInv'
<1> DEFINE k == x[e].blk
           passive == (k = 0 /\ plan.block[0] = <<>>) \/ (k > 0 /\ plan.status[k] = "skipped")
<1>1. /\ x[e].pc = "block" /\ k \in Blocks /\ Alive(e) /\ x[e].idx = 1
      /\ x \in [Executions -> ExecRecords(Actions)] /\ x[e] \in ExecRecords(Actions)
      /\ UNCHANGED <<plan, Remote, binding, synced>>
  <2>1. x[e].pc = "block" /\ k \in Blocks
    BY DEF OpenBlock
  <2>2. Alive(e) /\ x[e].idx = 1
    BY <2>1 DEF OwnInv, KnowsItems, Alive
  <2>3. UNCHANGED <<plan, Remote, binding, synced>>
    BY DEF OpenBlock, Stop
  <2> QED
    BY <2>1, <2>2, <2>3 DEF TypeInv, ExecsTyped
<1>2. k \in Nat
  BY <1>1 DEF ExecRecords
<1>3. CASE passive
  <2> DEFINE n == k + 1
             r == [x[e] EXCEPT !.blk = n]
  <2>1. x' = [x EXCEPT ![e] = r] /\ row' = row
    BY <1>1, <1>3 DEF OpenBlock
  <2> HIDE DEF n
  <2>2. r.pc = "block" /\ r.idx = 1 /\ r.prior = x[e].prior
    BY <1>1 DEF ExecRecords
  <2> HIDE DEF r
  <2>3. x'[e] = r
    BY <1>1, <2>1
  <2>4. RemoteStep => KnowsItems(e)'
    BY <1>1, <2>2, <2>3, KnowsNextBlock
  <2> QED
    BY <1>1, <2>1, <2>4, OwnRows, OwnLocal
<1>4. CASE ~passive
  <2>1. Inside(e)
    BY <1>1, <1>4 DEF Inside
  <2>2. CASE k > 0 /\ plan.status[k] # "ready"
    <3>1. NextBlock(e, FALSE) /\ row' = row
      BY <1>4, <2>2 DEF OpenBlock
    <3> QED
      BY <1>1, <3>1, OwnRows, OwnLeave
  <2>3. CASE ~(k > 0 /\ plan.status[k] # "ready") /\ (run = "canceled" \/ (evLease[k] # NoExec /\ ~Fence(e)))
    <3>1. Stop(e)
      BY <1>4, <2>3 DEF OpenBlock
    <3> QED
      BY <3>1, OwnStop DEF Stop
  <2>4. CASE ~(k > 0 /\ plan.status[k] # "ready") /\ run # "canceled" /\ evLease[k] = NoExec
    <3> DEFINE ex == IF k = 0 THEN <<>> ELSE plan.agenda[k]
               r == [x[e] EXCEPT !.pc = "gate", !.expect = ex]
    <3>1. x' = [x EXCEPT ![e] = r] /\ row' = row
      BY <1>1, <1>4, <2>4 DEF OpenBlock
    <3>2. ex \in Seq(Items)
      BY <1>1, PlanFacts, EmptySeq DEF TypeInv, Blocks
    <3> HIDE DEF ex
    <3>3. r \in ExecRecords(Actions)
      BY <1>1, <3>2 DEF ExecRecords, Places
    <3>4. /\ r.pc = "gate" /\ r.blk = x[e].blk /\ r.idx = 1 /\ r.prior = x[e].prior
          /\ r.good = x[e].good /\ r.bad = x[e].bad
      BY <1>1 DEF ExecRecords
    <3> HIDE DEF r
    <3>5. Stays(e, r)
      BY <3>1, <3>3, <3>4 DEF Stays, InAction
    <3>6. \A i \in DOMAIN plan.block[r.blk] : ~(i < r.idx)
      <4>1. DOMAIN plan.block[k] = 1 .. Len(plan.block[k]) /\ Len(plan.block[k]) \in Nat
        BY <1>1, PlanFacts DEF TypeInv
      <4> QED
        BY <3>4, <4>1
    <3>7. RemoteStep /\ BindingsStay => KnowsItems(e)'
      BY <2>1, <3>4, <3>5, <3>6, KnowsStays
    <3> QED
      BY <1>1, <3>1, <3>7, OwnRows, OwnLocal
  <2>5. CASE ~(k > 0 /\ plan.status[k] # "ready") /\ run # "canceled" /\ evLease[k] # NoExec /\ Fence(e)
    <3>1. row' = SkipFrom(row, k, 1) /\ NextBlock(e, FALSE)
      BY <1>4, <2>5 DEF OpenBlock
    <3>2. RowsOwn(SkipFrom(row, k, 1))
      BY OwnRows, RowsOwned
    <3> QED
      BY <1>1, <3>1, <3>2, OwnLeave
  <2> QED
    BY <2>2, <2>3, <2>4, <2>5
<1> QED
  BY <1>3, <1>4

LEMMA CloseBlockOwn ==
  ASSUME TypeInv, OwnInv, NEW e \in Executions, CloseBlock(e)
  PROVE  OwnInv'
<1> DEFINE k == x[e].blk
<1>1. x[e].pc = "gate" /\ x[e].idx > Len(plan.block[k]) /\ InBlock(e) /\ Inside(e) /\ k \in Blocks
  BY InsideBlock DEF CloseBlock, InBlock, Inside
<1>2. CASE k > 0 /\ ~Fence(e)
  BY <1>2, OwnStop DEF CloseBlock, Stop
<1>3. CASE ~(k > 0 /\ ~Fence(e))
  <2>1. /\ synced' = IF k > 0 THEN synced \cup {k} ELSE synced
        /\ NextBlock(e, TRUE) /\ UNCHANGED <<plan, Remote, row, binding>>
    BY <1>3 DEF CloseBlock
  <2>2. PICK r : /\ x' = [x EXCEPT ![e] = r] /\ x'[e] = r
                 /\ r.pc = "block" /\ r.idx = 1 /\ r.prior = x[e].prior
    BY <2>1, NextBlockRecord
  <2>3. RemoteStep
    BY <2>1, QuietRemote
  <2>4. BindingsStay /\ BindingInv'
    BY <2>1, <2>3, SameBindings
  <2>5. KnowsItems(e)'
    BY <1>1, <2>2, <2>3, KnowsNextBlock DEF Inside
  <2>6. row' = row
    BY <2>1
  <2>7. RowInv'
    BY <2>3, <2>6, OwnRows, RowsKept
  <2>8. ASSUME k > 0, NEW i \in DOMAIN plan.block[k], Binds(plan.block[k][i])
        PROVE  \E b \in binding : b.ev = k /\ StillStands(b, plan.block[k][i])
    <3>1. /\ i \in 1 .. Len(plan.block[k]) /\ Len(plan.block[k]) \in Nat
          /\ plan.act[plan.block[k][i]].ev = k
      BY <1>1, <2>8, PlanFacts DEF TypeInv
    <3>2. x[e].idx \in Nat
      BY DEF TypeInv, ExecsTyped, ExecRecords, Positions
    <3>3. i < x[e].idx
      BY <1>1, <3>1, <3>2
    <3>4. IsBound(plan.block[k][i])
      BY <1>1, <2>8, <3>3 DEF OwnInv, KnowsItems
    <3> QED
      BY <2>3, <3>1, <3>4, StandsStays DEF IsBound
  <2>9. CheckpointIsOwned'
    <3>1. \A m \in synced : \A i \in DOMAIN plan.block[m] : Binds(plan.block[m][i]) =>
            \E b \in binding : b.ev = m /\ StillStands(b, plan.block[m][i])
      BY <2>3, StandsStays DEF OwnInv, CheckpointIsOwned, Binds
    <3>2. plan' = plan /\ binding' = binding
      BY <2>1
    <3>3. \A m \in synced' : m \in synced \/ (m = k /\ k > 0)
      BY <2>1
    <3> HIDE DEF k
    <3> QED
      BY <2>8, <3>1, <3>2, <3>3, SamePlan DEF CheckpointIsOwned, Binds
  <2> QED
    BY <2>2, <2>3, <2>4, <2>5, <2>7, <2>9, OwnOneExec
<1> QED
  BY <1>2, <1>3

LEMMA GateOwn ==
  ASSUME TypeInv, OwnInv, NEW e \in Executions, Gate(e)
  PROVE  OwnInv'
<1> DEFINE a == Act(e)
           prior == x[e].prior[a]
<1>1. InBlock(e) /\ Inside(e) /\ x[e].idx <= Len(plan.block[x[e].blk]) /\ Alive(e)
  BY InsideBlock DEF Gate, InBlock, Inside
<1>2. a \in Actions /\ x[e] \in ExecRecords(Actions) /\ prior \in Rows
  BY <1>1, ActFacts DEF TypeInv, Shape
<1>3. prior.st \in Sts /\ prior.item \in Nat
  BY <1>2 DEF Rows
<1>4. CASE Stop(e)
  BY <1>4, OwnStop DEF Stop
<1>5. CASE Failed(e, "failed") \/ Failed(e, "skipped")
  BY <1>1, <1>5, OwnFailed DEF Sts, Done
<1>6. CASE prior.st \in {"failed", "skipped"} /\ Failed(e, prior.st)
  BY <1>1, <1>3, <1>6, OwnFailed
<1>7. CASE /\ row' = SkipFrom(row, 0, x[e].idx) /\ NextBlock(e, FALSE)
           /\ UNCHANGED <<plan, Remote, binding, synced>>
  <2>1. RowsOwn(SkipFrom(row, 0, x[e].idx))
    BY OwnRows, RowsOwned
  <2> QED
    BY <1>1, <1>7, <2>1, OwnLeave
<1>8. CASE /\ Kind(a) \in Mutating /\ prior.st \notin {"verified", "applied"} /\ Goto(e, "check")
           /\ UNCHANGED <<plan, Remote, row, binding, synced>>
  <2> DEFINE r == [x[e] EXCEPT !.pc = "check", !.item = x[e].item]
  <2>1. x[e].item \in Nat /\ "check" \in InAction
    BY <1>2 DEF ExecRecords, InAction
  <2>2. x' = [x EXCEPT ![e] = r]
    BY <1>2, <1>8 DEF Goto, TypeInv, ExecsTyped, ExecRecords
  <2>3. r.pc = "check" /\ r.idx = x[e].idx /\ Stays(e, r)
    <3>1. r.pc = "check" /\ r.idx = x[e].idx
      BY <1>2 DEF ExecRecords
    <3>2. x' = [x EXCEPT ![e] = r] => Stays(e, r)
      BY <1>1, <1>8, <2>1, GoingOn
    <3> QED
      BY <2>2, <3>1, <3>2
  <2>4. ~Recorded(prior) /\ row' = row
    BY <1>8 DEF Recorded
  <2> HIDE DEF r, prior
  <2>5. RemoteStep /\ BindingsStay => KnowsItems(e)'
    BY <1>1, <2>2, <2>3, <2>4, KnowsSamePlace DEF prior
  <2> QED
    BY <1>8, <2>2, <2>4, <2>5, OwnRows, OwnLocal
<1>9. CASE /\ ~(x[e].blk > 0 /\ Kind(a) \in Mutating /\ prior.st \notin {"verified", "applied"})
           /\ prior.st \notin {"failed", "skipped"}
           /\ x' = [x EXCEPT ![e] = [@ EXCEPT
                     !.pc = IF prior.st = "planned" THEN "start" ELSE "verify",
                     !.item = prior.item]]
           /\ UNCHANGED <<plan, Remote, row, binding, synced>>
  <2> DEFINE pc == IF prior.st = "planned" THEN "start" ELSE "verify"
             r == [x[e] EXCEPT !.pc = pc, !.item = prior.item]
  <2>1. x' = [x EXCEPT ![e] = r] /\ row' = row
    BY <1>9 DEF TypeInv, ExecsTyped
  <2>2. /\ pc \in InAction /\ pc \notin {"check", "reread", "applied", "bind"}
        /\ pc = "verify" => Recorded(prior)
    BY <1>3, <1>9 DEF InAction, Recorded, Sts, Done
  <2>3. Recorded(prior) => ItemFor(a, prior.item)
    BY <1>1, <1>2 DEF OwnInv, KnowsItems
  <2> HIDE DEF pc, prior
  <2>4. r.pc = pc /\ r.idx = x[e].idx /\ r.item = prior.item /\ Stays(e, r)
    <3>1. r.pc = pc /\ r.idx = x[e].idx /\ r.item = prior.item
      BY <1>2 DEF ExecRecords
    <3>2. x' = [x EXCEPT ![e] = r] => Stays(e, r)
      BY <1>1, <1>3, <2>2, GoingOn
    <3> QED
      BY <2>1, <3>1, <3>2
  <2> HIDE DEF r, a
  <2>5. RemoteStep => (pc = "verify" => StillFor(a, prior.item))
    BY <1>2, <2>2, <2>3, ItemStays
  <2>6. RemoteStep /\ BindingsStay => KnowsItems(e)'
    BY <1>1, <2>1, <2>2, <2>4, <2>5, KnowsSamePlace DEF a
  <2> QED
    BY <1>9, <2>1, <2>6, OwnRows, OwnLocal
<1> QED
  BY <1>4, <1>5, <1>6, <1>7, <1>8, <1>9 DEF Gate

\* An item that is adopted is one that can be the action's own, or the one it names.
LEMMA AdoptedOwn ==
  ASSUME TypeInv, OwnInv, NEW e \in Executions, x[e].pc \in {"check", "reread"}, NEW item,
         \/ x[e].pc = "check" /\ item \in Reconciled(e, Act(e), agenda[plan.act[Act(e)].ev])
         \/ x[e].pc = "reread" /\ item \in Adoptable(e, Act(e), agenda[plan.act[Act(e)].ev])
  PROVE  ItemFor(Act(e), item)
<1> DEFINE a == Act(e)
           k == plan.act[a].ev
           ag == agenda[k]
<1>1. a \in Actions /\ Kind(a) \in Mutating /\ k \in Events
  BY AtAction, AdoptedItems DEF InAction
<1>2. CASE Kind(a) # "insert"
  <2>1. item = plan.act[a].item
    BY <1>1, <1>2 DEF Reconciled, Adoptable, Kind, Mutating
  <2> QED
    BY <1>2, <2>1 DEF ItemFor
<1>3. CASE Kind(a) = "insert"
  <2>1. \A i \in DOMAIN ag : ag[i].id \in Nat
    BY <1>1, IdsTyped
  <2>2. \A i \in DOMAIN ag :
          /\ ag[i].id < NewItem => ag[i].id \in Ids(plan.agenda[k])
          /\ ag[i].id >= NewItem /\ ag[i].song = plan.act[a].song => OwnItem(a, ag[i].id)
    BY <1>1, <1>3 DEF OwnInv, AgendaInv
  <2>3. \E i \in DOMAIN ag : item = ag[i].id /\ ag[i].song = plan.act[a].song /\ ag[i].id >= NewItem
    <3>1. CASE x[e].pc = "check" /\ item \in Reconciled(e, a, ag)
      <4>1. PICK i \in DOMAIN ag : /\ item = ag[i].id /\ ag[i].song = plan.act[a].song
                                  /\ ag[i].id \notin Ids(plan.agenda[k])
        BY <1>3, <3>1 DEF Reconciled, Kind
      <4> HIDE DEF ag
      <4> QED
        BY <2>1, <2>2, <4>1 DEF NewItem
    <3>2. CASE x[e].pc = "reread" /\ item \in Adoptable(e, a, ag)
      <4>1. PICK i \in DOMAIN ag :
              item = ag[i].id /\ ag[i].id \notin x[e].pre /\ ag[i].song = plan.act[a].song
        <5> DEFINE new == {j \in DOMAIN ag : ag[j].id \notin x[e].pre /\ ag[j].song = plan.act[a].song}
                   at == Neighbour(e, a, ag)
        <5>1. new = {at} /\ item = ag[at].id
          BY <1>3, <3>2 DEF Adoptable, Kind
        <5> QED
          BY <5>1
      <4>2. \A j \in DOMAIN ag : ag[j].id < NewItem => ag[j].id \in x[e].pre
        BY <3>2 DEF OwnInv, KnowsItems
      <4> HIDE DEF ag
      <4> QED
        BY <2>1, <4>1, <4>2 DEF NewItem
    <3> QED
      BY <3>1, <3>2
  <2> QED
    BY <1>3, <2>2, <2>3 DEF ItemFor
<1> QED
  BY <1>2, <1>3

\* A step that only touches the execution, at the same action, and the rows.
LEMMA OwnSamePlace ==
  ASSUME TypeInv, OwnInv, NEW e \in Executions, NEW r, InBlock(e), Stays(e, r), r.idx = x[e].idx,
         r.pc \notin {"reread", "check"},
         r.pc \in {"applied", "verify", "bind"} => ItemFor(Act(e), r.item),
         Act(e) \in Actions, UNCHANGED <<plan, Remote, binding, synced>>,
         NEW rows, row' = rows, RowsOwn(rows)
  PROVE  OwnInv'
<1>1. x' = [x EXCEPT ![e] = r]
  BY DEF Stays
<1>2. ASSUME RemoteStep, BindingsStay PROVE KnowsItems(e)'
  <2>1. r.pc \in {"applied", "verify", "bind"} => StillFor(Act(e), r.item)
    BY <1>2, ItemStays
  <2> QED
    BY <1>2, <2>1, KnowsSamePlace
<1> QED
  BY <1>1, <1>2, OwnLocal

LEMMA CheckOwn ==
  ASSUME TypeInv, OwnInv, NEW e \in Executions, Check(e)
  PROVE  OwnInv'
<1> DEFINE a == Act(e)
           ag == agenda[plan.act[a].ev]
           found == Reconciled(e, a, ag)
           prior == x[e].prior[a]
<1>1. x[e].pc = "check" /\ x[e].pc \in InAction
  BY DEF Check, InAction
<1>2. /\ InBlock(e) /\ Inside(e) /\ x[e].idx <= Len(plan.block[x[e].blk])
      /\ a \in Actions /\ prior \in Rows /\ found \subseteq Nat /\ x[e] \in ExecRecords(Actions)
  BY <1>1, AtAction, AdoptedItems, ActFacts
<1>3. prior.st \in Sts /\ ~Recorded(prior)
  BY <1>1, <1>2 DEF Rows, OwnInv, KnowsItems
<1>4. CASE Stop(e)
  BY <1>4, OwnStop DEF Stop
<1>5. CASE Failed(e, "failed") \/ Failed(e, prior.st)
  BY <1>2, <1>3, <1>5, OwnFailed DEF Sts, Done, Recorded
<1>6. CASE Goto(e, "start") /\ UNCHANGED <<plan, Remote, row, binding, synced>>
  <2> DEFINE r == [x[e] EXCEPT !.pc = "start", !.item = x[e].item]
  <2>1. x[e].item \in Nat /\ "start" \in InAction /\ "start" \notin {"check", "reread"}
    BY <1>2 DEF ExecRecords, InAction
  <2>2. x' = [x EXCEPT ![e] = r] /\ row' = row
    BY <1>2, <1>6 DEF Goto, TypeInv, ExecsTyped, ExecRecords
  <2>3. r.pc = "start" /\ r.idx = x[e].idx
    BY <1>2 DEF ExecRecords
  <2>4. Stays(e, r)
    <3>1. x' = [x EXCEPT ![e] = r] => Stays(e, r)
      BY <1>2, <2>1, GoingOn
    <3> QED
      BY <2>2, <3>1
  <2> HIDE DEF r
  <2> QED
    BY <1>2, <1>6, <2>2, <2>3, <2>4, OwnRows, OwnSamePlace
<1>7. CASE /\ found # {}
           /\ LET item == CHOOSE i \in found : TRUE IN
              /\ row' = WithRow(row, a, "applied", item)
              /\ x' = [x EXCEPT ![e] = [@ EXCEPT !.pc = "verify", !.item = item]]
              /\ UNCHANGED <<plan, Remote, binding, synced, run, holder, evLease>>
  <2> DEFINE item == CHOOSE i \in found : TRUE
             r == [x[e] EXCEPT !.pc = "verify", !.item = item]
  <2>1. item \in found /\ item \in Nat
    BY <1>2, <1>7
  <2>2. /\ row' = WithRow(row, a, "applied", item) /\ x' = [x EXCEPT ![e] = r]
        /\ UNCHANGED <<plan, Remote, binding, synced>>
    BY <1>7 DEF TypeInv, ExecsTyped
  <2> HIDE DEF item
  <2>3. ItemFor(a, item)
    BY <1>1, <2>1, AdoptedOwn
  <2>4. r.pc = "verify" /\ r.idx = x[e].idx /\ r.item = item
    BY <1>2 DEF ExecRecords
  <2>5. Stays(e, r)
    <3>1. "verify" \in InAction /\ "verify" \notin {"check", "reread"}
      BY DEF InAction
    <3>2. x' = [x EXCEPT ![e] = r] => Stays(e, r)
      BY <1>2, <2>1, <3>1, GoingOn
    <3> QED
      BY <2>2, <3>2
  <2> HIDE DEF r
  <2>6. RowsOwn(WithRow(row, a, "applied", item))
    BY <1>2, <2>3, OwnRows, RowsOwned
  <2> QED
    BY <1>2, <2>2, <2>3, <2>4, <2>5, <2>6, OwnSamePlace
<1> QED
  BY <1>4, <1>5, <1>6, <1>7 DEF Check

LEMMA StartOwn ==
  ASSUME TypeInv, OwnInv, NEW e \in Executions, Start(e)
  PROVE  OwnInv'
<1>1. x[e].pc \in InAction
  BY DEF Start, InAction
<1>2. /\ InBlock(e) /\ Inside(e) /\ x[e].idx <= Len(plan.block[x[e].blk])
      /\ Act(e) \in Actions /\ x[e] \in ExecRecords(Actions)
  BY <1>1, AtAction, ActFacts
<1>3. CASE Failed(e, "failed")
  BY <1>2, <1>3, OwnFailed DEF Sts, Done
<1>4. CASE Goto(e, "write") /\ UNCHANGED <<plan, Remote, row, binding, synced>>
  <2> DEFINE r == [x[e] EXCEPT !.pc = "write", !.item = x[e].item]
  <2>1. x[e].item \in Nat /\ "write" \in InAction /\ "write" \notin {"check", "reread"}
    BY <1>2 DEF ExecRecords, InAction
  <2>2. x' = [x EXCEPT ![e] = r] /\ row' = row
    BY <1>2, <1>4 DEF Goto, TypeInv, ExecsTyped, ExecRecords
  <2>3. r.pc = "write" /\ r.idx = x[e].idx
    BY <1>2 DEF ExecRecords
  <2>4. Stays(e, r)
    <3>1. x' = [x EXCEPT ![e] = r] => Stays(e, r)
      BY <1>2, <2>1, GoingOn
    <3> QED
      BY <2>2, <3>1
  <2> HIDE DEF r
  <2> QED
    BY <1>2, <1>4, <2>2, <2>3, <2>4, OwnRows, OwnSamePlace
<1> QED
  BY <1>3, <1>4 DEF Start

LEMMA WriteRefusedOwn ==
  ASSUME TypeInv, OwnInv, NEW e \in Executions, WriteRefused(e) \/ VerifyError(e)
  PROVE  OwnInv'
<1>1. x[e].pc \in InAction /\ Failed(e, "failed")
  BY DEF WriteRefused, VerifyError, InAction
<1> QED
  BY <1>1, AtAction, OwnFailed DEF Sts, Done

LEMMA RereadOwn ==
  ASSUME TypeInv, OwnInv, NEW e \in Executions, Reread(e)
  PROVE  OwnInv'
<1> DEFINE a == Act(e)
           found == Adoptable(e, a, agenda[plan.act[a].ev])
<1>1. x[e].pc = "reread" /\ x[e].pc \in InAction
  BY DEF Reread, InAction
<1>2. /\ InBlock(e) /\ Inside(e) /\ x[e].idx <= Len(plan.block[x[e].blk])
      /\ a \in Actions /\ x[e] \in ExecRecords(Actions) /\ found \subseteq Nat
  BY <1>1, AtAction, ActFacts, AdoptedItems
<1>3. CASE found = {}
  <2>1. Failed(e, "failed")
    BY <1>3 DEF Reread
  <2> QED
    BY <1>2, <2>1, OwnFailed DEF Sts, Done
<1>4. CASE found # {}
  <2> DEFINE item == CHOOSE i \in found : TRUE
             r == [x[e] EXCEPT !.pc = "applied", !.pre = {}, !.item = item]
  <2>1. x' = [x EXCEPT ![e] = r] /\ UNCHANGED <<plan, Remote, row, binding, synced>> /\ row' = row
    BY <1>4 DEF Reread, TypeInv, ExecsTyped
  <2>2. item \in found /\ item \in Nat
    BY <1>2, <1>4
  <2> HIDE DEF item
  <2>3. ItemFor(a, item)
    BY <1>1, <2>2, AdoptedOwn
  <2>4. r \in ExecRecords(Actions)
    <3>1. "applied" \in Places /\ {} \in SUBSET Nat
      BY DEF Places, InAction
    <3> QED
      BY <1>2, <2>2, <3>1 DEF ExecRecords
  <2>5. /\ r.pc = "applied" /\ r.blk = x[e].blk /\ r.idx = x[e].idx /\ r.prior = x[e].prior
        /\ r.good = x[e].good /\ r.bad = x[e].bad /\ r.item = item
    BY <1>2 DEF ExecRecords
  <2> HIDE DEF r
  <2>6. Stays(e, r)
    BY <1>2, <2>1, <2>4, <2>5 DEF Stays, InAction
  <2> QED
    BY <1>2, <2>1, <2>3, <2>5, <2>6, OwnRows, OwnSamePlace
<1> QED
  BY <1>3, <1>4

LEMMA RecordAppliedOwn ==
  ASSUME TypeInv, OwnInv, NEW e \in Executions, RecordApplied(e)
  PROVE  OwnInv'
<1> DEFINE a == Act(e)
           item == x[e].item
           r == [x[e] EXCEPT !.pc = "verify", !.item = item]
<1>1. x[e].pc = "applied" /\ x[e].pc \in InAction
  BY DEF RecordApplied, InAction
<1>2. /\ InBlock(e) /\ Inside(e) /\ x[e].idx <= Len(plan.block[x[e].blk])
      /\ a \in Actions /\ x[e] \in ExecRecords(Actions) /\ item \in Nat
  BY <1>1, AtAction, ActFacts DEF ExecRecords
<1>3. CASE ~Fence(e)
  BY <1>3, OwnStop DEF RecordApplied, Stop
<1>4. CASE Fence(e) /\ x[e].lost
  BY <1>2, <1>4, OwnFailed DEF RecordApplied, Sts, Done
<1>5. CASE Fence(e) /\ ~x[e].lost
  <2>1. /\ row' = WithRow(row, a, "applied", item) /\ Goto(e, "verify")
        /\ UNCHANGED <<plan, Remote, binding, synced>>
    BY <1>5 DEF RecordApplied
  <2>2. x' = [x EXCEPT ![e] = r]
    BY <1>2, <2>1 DEF Goto, TypeInv, ExecsTyped, ExecRecords
  <2>3. r.pc = "verify" /\ r.idx = x[e].idx /\ r.item = item
    BY <1>2 DEF ExecRecords
  <2>4. ItemFor(a, item)
    BY <1>1 DEF OwnInv, KnowsItems
  <2> HIDE DEF item
  <2>5. Stays(e, r)
    <3>1. "verify" \in InAction /\ "verify" \notin {"check", "reread"}
      BY DEF InAction
    <3>2. x' = [x EXCEPT ![e] = r] => Stays(e, r)
      BY <1>2, <3>1, GoingOn
    <3> QED
      BY <2>2, <3>2
  <2> HIDE DEF r
  <2>6. RowsOwn(WithRow(row, a, "applied", item))
    BY <1>2, <2>4, OwnRows, RowsOwned
  <2> QED
    BY <1>2, <2>1, <2>3, <2>4, <2>5, <2>6, OwnSamePlace
<1> QED
  BY <1>3, <1>4, <1>5

LEMMA VerifyOwn ==
  ASSUME TypeInv, OwnInv, NEW e \in Executions, Verify(e)
  PROVE  OwnInv'
<1> DEFINE a == Act(e)
           item == x[e].item
<1>1. x[e].pc = "verify" /\ x[e].pc \in InAction
  BY DEF Verify, InAction
<1>2. /\ InBlock(e) /\ Inside(e) /\ x[e].idx <= Len(plan.block[x[e].blk])
      /\ a \in Actions /\ x[e] \in ExecRecords(Actions)
      /\ ReadsAgenda(a) => plan.act[a].ev \in Events
  BY <1>1, AtAction, ActFacts DEF ReadsAgenda
<1>3. CASE Failed(e, "failed")
  BY <1>2, <1>3, OwnFailed DEF Sts, Done
<1>4. CASE Stop(e)
  BY <1>4, OwnStop DEF Stop
<1>5. CASE /\ row' = IF x[e].prior[a].st = "verified" THEN row
                     ELSE WithRow(row, a, "verified", x[e].item)
           /\ x' = [x EXCEPT ![e] = [@ EXCEPT !.pc = "bind",
                      !.expect = IF ReadsAgenda(a) THEN agenda[plan.act[a].ev] ELSE x[e].expect]]
           /\ UNCHANGED <<plan, Remote, binding, synced, run, holder, evLease>>
  <2> DEFINE ex == IF ReadsAgenda(a) THEN agenda[plan.act[a].ev] ELSE x[e].expect
             r == [x[e] EXCEPT !.pc = "bind", !.expect = ex]
             rows == IF x[e].prior[a].st = "verified" THEN row ELSE WithRow(row, a, "verified", item)
  <2>1. x' = [x EXCEPT ![e] = r] /\ row' = rows
    BY <1>5 DEF TypeInv, ExecsTyped
  <2>2. ex \in Seq(Items)
    BY <1>2 DEF TypeInv, RemoteTyped, ExecRecords
  <2> HIDE DEF ex
  <2>3. r \in ExecRecords(Actions)
    BY <1>2, <2>2 DEF ExecRecords, Places, InAction
  <2>4. /\ r.pc = "bind" /\ r.blk = x[e].blk /\ r.idx = x[e].idx /\ r.prior = x[e].prior
        /\ r.good = x[e].good /\ r.bad = x[e].bad /\ r.item = item
    BY <1>2 DEF ExecRecords
  <2> HIDE DEF r
  <2>5. Stays(e, r)
    BY <1>2, <2>1, <2>3, <2>4 DEF Stays, InAction
  <2>6. ItemFor(a, item)
    BY <1>1 DEF OwnInv, KnowsItems
  <2>7. RowsOwn(rows)
    BY <1>2, <2>6, OwnRows, RowsOwned
  <2> HIDE DEF rows, item
  <2> QED
    BY <1>2, <1>5, <2>1, <2>4, <2>5, <2>6, <2>7, OwnSamePlace
<1> QED
  BY <1>3, <1>4, <1>5 DEF Verify

LEMMA WriteOwn ==
  ASSUME TypeInv, OwnInv, NEW e \in Executions, Write(e)
  PROVE  OwnInv'
<1> DEFINE a == Act(e)
<1>1. x[e].pc \in InAction
  BY DEF Write, InAction
<1>2. /\ InBlock(e) /\ Inside(e) /\ x[e].idx <= Len(plan.block[x[e].blk])
      /\ a \in Actions /\ x[e] \in ExecRecords(Actions)
      /\ Kind(a) \in Mutating => plan.act[a].ev \in Events
  BY <1>1, AtAction, ActFacts DEF Mutating
<1>3. PICK item \in WriteTargets(a) :
        /\ Effect(e, a, item)
        /\ x' = [x EXCEPT ![e] = [@ EXCEPT !.pc = "applied", !.item = item]]
  BY DEF Write
<1>4. UNCHANGED <<plan, row, binding, synced>>
  BY DEF Write
<1>5. RemoteStep /\ StillFor(a, item) /\ item \in Nat
  BY <1>2, <1>3, <1>4, EffectFacts, EffectRemote
<1> DEFINE r == [x[e] EXCEPT !.pc = "applied", !.item = item]
<1>6. x' = [x EXCEPT ![e] = r]
  BY <1>3 DEF TypeInv, ExecsTyped
<1>7. r.pc = "applied" /\ r.idx = x[e].idx /\ r.item = item
  BY <1>2 DEF ExecRecords
<1>8. Stays(e, r)
  <2>1. "applied" \in InAction /\ "applied" \notin {"check", "reread"}
    BY DEF InAction
  <2>2. x' = [x EXCEPT ![e] = r] => Stays(e, r)
    BY <1>2, <1>5, <2>1, GoingOn
  <2> QED
    BY <1>6, <2>2
<1> HIDE DEF r
<1>9. BindingsStay /\ BindingInv' /\ CheckpointIsOwned'
  BY <1>4, <1>5, SameBindings
<1>10. KnowsItems(e)'
  BY <1>2, <1>5, <1>7, <1>8, <1>9, KnowsSamePlace
<1>11. RowInv'
  BY <1>4, <1>5, OwnRows, RowsKept
<1> QED
  BY <1>5, <1>6, <1>9, <1>10, <1>11, OwnOneExec

LEMMA WriteIndeterminateOwn ==
  ASSUME TypeInv, OwnInv, NEW e \in Executions, WriteIndeterminate(e)
  PROVE  OwnInv'
<1> DEFINE a == Act(e)
           k == plan.act[a].ev
           pre == Ids(agenda[k])
           r == [x[e] EXCEPT !.pc = "reread", !.pre = pre]
<1>1. x[e].pc \in InAction /\ Kind(a) \in Mutating
  BY DEF WriteIndeterminate, InAction
<1>2. /\ InBlock(e) /\ Inside(e) /\ x[e].idx <= Len(plan.block[x[e].blk])
      /\ a \in Actions /\ k \in Events /\ x[e] \in ExecRecords(Actions)
  BY <1>1, AtAction, ActFacts DEF Mutating
<1>3. x' = [x EXCEPT ![e] = r] /\ UNCHANGED <<plan, row, binding, synced>>
  BY DEF WriteIndeterminate, TypeInv, ExecsTyped
<1>4. RemoteStep
  <2>1. CASE \E item \in WriteTargets(a) : Effect(e, a, item)
    BY <1>2, <1>3, <2>1, EffectRemote
  <2>2. CASE UNCHANGED Remote
    BY <1>3, <2>2, QuietRemote
  <2> QED
    BY <2>1, <2>2 DEF WriteIndeterminate
<1>5. \A j \in DOMAIN agenda'[k] : agenda'[k][j].id < NewItem => agenda'[k][j].id \in pre
  BY <1>2, <1>4 DEF RemoteStep
<1> HIDE DEF pre
<1>6. /\ r.pc = "reread" /\ r.blk = x[e].blk /\ r.idx = x[e].idx /\ r.prior = x[e].prior
      /\ r.pre = pre
  BY <1>2 DEF ExecRecords
<1> HIDE DEF r
<1>7. x'[e] = r /\ plan' = plan /\ plan.block[r.blk][r.idx] = a
  BY <1>3, <1>6 DEF TypeInv, ExecsTyped, Act
<1>8. BindingsStay /\ BindingInv' /\ CheckpointIsOwned'
  BY <1>3, <1>4, SameBindings
<1>9. KnowsItems(e)'
  <2>1. \A b \in Actions : Recorded(r.prior[b]) => StillFor(b, r.prior[b].item)
    BY <1>2, <1>4, <1>6, PriorKept DEF Inside
  <2>2. r.blk > 0 => \A i \in DOMAIN plan.block[r.blk] :
          i < r.idx /\ Binds(plan.block[r.blk][i]) => StillBound(plan.block[r.blk][i])
    BY <1>2, <1>6, <1>8, BoundKept
  <2>3. r.pc = "reread" => LET m == plan.act[plan.block[r.blk][r.idx]].ev IN
          \A i \in DOMAIN agenda'[m] : agenda'[m][i].id < NewItem => agenda'[m][i].id \in r.pre
    BY <1>5, <1>6, <1>7
  <2>4. r.pc \notin {"applied", "verify", "bind", "block", "check"}
    BY <1>6
  <2> HIDE DEF a, k
  <2> QED
    BY <1>7, <2>1, <2>2, <2>3, <2>4, KnowsIntro
<1>10. RowInv'
  BY <1>3, <1>4, OwnRows, RowsKept
<1> QED
  BY <1>3, <1>4, <1>8, <1>9, <1>10, OwnOneExec

\* A binding that is given up to the action at hand, for the sake of its item, stood for no
\* other action than the new one does.
LEMMA TakenOver ==
  ASSUME TypeInv, OwnInv, NEW a \in Actions, NEW item, ItemFor(a, item), Kind(a) # "create",
         NEW c \in Actions, Binds(c), plan.act[c].ev = plan.act[a].ev,
         NEW b \in binding, b.item = item, b.ev = plan.act[a].ev, StandsFor(b, c),
         NEW mine, mine.item = item, mine.by = a
  PROVE  Binds(a) /\ StandsFor(mine, c)
<1>1. /\ plan.act[a].item < NewItem /\ plan.act[c].item < NewItem /\ Kind(a) \in Kinds
      /\ plan.act[a].item \in Nat /\ plan.act[c].item \in Nat /\ a # 0 /\ c # 0
  BY PlannedFacts, PlanFacts DEF TypeInv
<1>2. b.by # 0 => b.by \in Actions /\ b.ev = plan.act[b.by].ev /\ ItemFor(b.by, item)
  BY DEF OwnInv, BindingInv, TypeInv, RowsTyped
<1>3. CASE Kind(c) = "insert"
  <2>1. /\ b.by \in Actions /\ Kind(b.by) = "insert" /\ item >= NewItem /\ OwnItem(b.by, item)
        /\ b.by \in Twins(c) \/ \E it \in byHand : it.id = item
    BY <1>2, <1>3 DEF StandsFor, ItemFor
  <2>2. Kind(a) = "insert" /\ OwnItem(a, item)
    BY <1>1, <2>1 DEF ItemFor, NewItem
  <2>3. CASE \E it \in byHand : it.id = item
    BY <1>1, <1>3, <2>2, <2>3 DEF StandsFor, Binds
  <2>4. CASE ~(\E it \in byHand : it.id = item)
    <3>1. \A s : [id |-> item, song |-> s] \notin byHand
      BY <2>4
    <3>2. PICK t \in Twins(a) : item \in made[t]
      BY <2>2, <3>1 DEF OwnItem
    <3>3. PICK u \in Twins(b.by) : item \in made[u]
      BY <2>1, <3>1 DEF OwnItem
    <3>4. t = u
      BY <3>2, <3>3 DEF OwnInv, MadeInv, Twins
    <3>5. a \in Twins(c)
      BY <2>1, <2>2, <2>4, <3>2, <3>3, <3>4 DEF Twins
    <3> QED
      BY <1>1, <1>3, <2>2, <3>5 DEF StandsFor, Binds
  <2> QED
    BY <2>3, <2>4
<1>4. CASE Kind(c) # "insert"
  <2>1. c = b.by /\ item = plan.act[c].item /\ Kind(c) = "replace"
    BY <1>1, <1>2, <1>4 DEF StandsFor, ItemFor, Binds
  <2>2. Kind(a) # "insert" /\ plan.act[a].item = plan.act[c].item
    BY <1>1, <2>1 DEF ItemFor, NewItem
  <2>3. {plan.act[a].kind, plan.act[c].kind} \subseteq Kinds \ {"create", "insert"}
    BY <1>1, <2>1, <2>2 DEF Kind, Kinds
  <2>4. WellFormed(plan)
    BY EngineAssumption DEF TypeInv, PlanTyped
  <2>5. \A p, q \in DOMAIN plan.act :
          /\ {plan.act[p].kind, plan.act[q].kind} \subseteq Kinds \ {"create", "insert"}
          /\ plan.act[p].ev = plan.act[q].ev /\ plan.act[p].item = plan.act[q].item
          => p = q
    BY <2>4 DEF WellFormed
  <2>6. a = c
    BY <2>2, <2>3, <2>5 DEF Actions
  <2> QED
    BY <1>4, <2>1, <2>6 DEF StandsFor, Binds
<1> QED
  BY <1>3, <1>4

\* What Bound makes of the bindings.
LEMMA BoundFacts ==
  ASSUME TypeInv, OwnInv, RemoteStep, NEW a \in Actions, NEW item, ItemFor(a, item),
         binding' = Bound(a, item)
  PROVE  BindingsStay /\ BindingInv' /\ (Binds(a) => StillBound(a))
<1> DEFINE others == {b \in binding : ~(b.ev = plan.act[a].ev /\ b.item = item)}
           mine == [ev |-> plan.act[a].ev, item |-> item, by |-> a]
<1>1. Kind(a) \in Kinds
  BY PlannedFacts
<1>2. \/ binding' = others /\ Kind(a) \in {"delete", "cleanup"}
      \/ binding' = others \cup {mine} /\ Kind(a) \in {"insert", "replace", "noop"}
      \/ binding' = binding /\ Kind(a) \in {"noop", "create"}
  BY <1>1 DEF Bound, Kind, Kinds
<1>3. mine.ev = plan.act[a].ev /\ mine.item = item /\ mine.by = a
  OBVIOUS
<1>4. \A b \in binding : b.by # 0 => b.by \in Actions /\ b.ev = plan.act[b.by].ev /\ ItemFor(b.by, b.item)
  BY DEF OwnInv, BindingInv, TypeInv, RowsTyped
<1>5. \A c \in Actions : c # 0
  BY PlanFacts DEF TypeInv
<1> HIDE DEF mine
<1>6. ASSUME NEW c \in Actions, Binds(c), IsBound(c) PROVE StillBound(c)
  <2>1. PICK b \in binding : b.ev = plan.act[c].ev /\ StandsFor(b, c)
    BY <1>6 DEF IsBound
  <2>2. CASE b \in binding'
    BY <2>1, <2>2, StandsStays DEF StillBound
  <2>3. CASE b \notin binding'
    <3>1. b.ev = plan.act[a].ev /\ b.item = item /\ Kind(a) # "create"
      BY <1>2, <2>3
    <3>2. Binds(a) /\ StandsFor(mine, c)
      BY <1>3, <1>6, <2>1, <3>1, TakenOver
    <3>3. mine \in binding' /\ mine.ev = plan.act[c].ev
      BY <1>2, <1>3, <2>1, <2>3, <3>1, <3>2 DEF Binds
    <3> QED
      BY <3>2, <3>3, StandsStays DEF StillBound
  <2> QED
    BY <2>2, <2>3
<1>7. Binds(a) => StillBound(a)
  <2> SUFFICES ASSUME Binds(a) PROVE StillBound(a)
    OBVIOUS
  <2>1. StandsFor(mine, a)
    BY <1>3, <1>5 DEF Binds, StandsFor, Twins
  <2>2. mine \in binding'
    BY <1>2 DEF Binds
  <2> QED
    BY <1>3, <2>1, <2>2, StandsStays DEF StillBound
<1>8. ASSUME NEW b \in binding', b.by # 0 PROVE b.ev = plan.act[b.by].ev /\ StillFor(b.by, b.item)
  <2>1. CASE b \in binding
    BY <1>4, <1>8, <2>1, ItemStays
  <2>2. CASE b = mine
    BY <1>3, <2>2, ItemStays
  <2> QED
    BY <1>2, <2>1, <2>2
<1>9. BindingInv'
  BY <1>8, SamePlan DEF BindingInv, RemoteStep
<1> QED
  BY <1>6, <1>7, <1>9 DEF BindingsStay

LEMMA BindOwn ==
  ASSUME TypeInv, OwnInv, NEW e \in Executions, Bind(e)
  PROVE  OwnInv'
<1> DEFINE a == Act(e)
           item == x[e].item
<1>1. x[e].pc = "bind" /\ x[e].pc \in InAction
  BY DEF Bind, InAction
<1>2. /\ InBlock(e) /\ Inside(e) /\ x[e].idx <= Len(plan.block[x[e].blk])
      /\ a \in Actions /\ x[e] \in ExecRecords(Actions) /\ x[e].idx \in Positions
      /\ x[e].res \in Resources(Actions) /\ x[e].prepared \in Nat /\ item \in Nat
  BY <1>1, AtAction, ActFacts DEF ExecRecords
<1>3. CASE Failed(e, "failed")
  BY <1>2, <1>3, OwnFailed DEF Sts, Done
<1>4. CASE Stop(e)
  BY <1>4, OwnStop DEF Stop
<1>5. CASE /\ binding' = Bound(a, x[e].item)
           /\ x' = [x EXCEPT ![e] = [@ EXCEPT !.pc = "gate", !.idx = x[e].idx + 1, !.item = NoItem,
                     !.res = x[e].res \cup {[act |-> a, item |-> x[e].item]},
                     !.prepared = IF x[e].blk = 0 THEN x[e].prepared + 1 ELSE x[e].prepared]]
           /\ UNCHANGED <<plan, Remote, row, synced, run, holder, evLease>>
  <2> DEFINE res == x[e].res \cup {[act |-> a, item |-> x[e].item]}
             prepared == IF x[e].blk = 0 THEN x[e].prepared + 1 ELSE x[e].prepared
             next == x[e].idx + 1
             r == [x[e] EXCEPT !.pc = "gate", !.idx = next, !.item = NoItem,
                     !.res = res, !.prepared = prepared]
  <2>1. x' = [x EXCEPT ![e] = r]
    BY <1>5 DEF TypeInv, ExecsTyped
  <2>2. res \in Resources(Actions) /\ prepared \in Nat /\ next \in Positions /\ next = x[e].idx + 1
    BY <1>2 DEF Resources, Positions
  <2> HIDE DEF res, prepared, next
  <2>3. r \in ExecRecords(Actions)
    <3>1. "gate" \in Places /\ NoItem \in Nat
      BY DEF Places, NoItem
    <3>2. [x[e] EXCEPT !.pc = "gate", !.idx = next, !.item = NoItem] \in ExecRecords(Actions)
      BY <1>2, <2>2, <3>1 DEF ExecRecords
    <3>3. ASSUME NEW t \in ExecRecords(Actions)
          PROVE  [t EXCEPT !.res = res, !.prepared = prepared] \in ExecRecords(Actions)
      BY <2>2 DEF ExecRecords
    <3> QED
      BY <3>2, <3>3
  <2>4. /\ r.pc = "gate" /\ r.blk = x[e].blk /\ r.idx = next /\ r.prior = x[e].prior
        /\ r.good = x[e].good /\ r.bad = x[e].bad
    BY <1>2 DEF ExecRecords
  <2> HIDE DEF r
  <2>5. Stays(e, r)
    BY <1>2, <2>1, <2>3, <2>4 DEF Stays, InAction
  <2>6. RemoteStep /\ row' = row
    BY <1>5, QuietRemote
  <2>7. ItemFor(a, item)
    BY <1>1 DEF OwnInv, KnowsItems
  <2>8. BindingsStay /\ BindingInv' /\ (Binds(a) => StillBound(a))
    BY <1>2, <1>5, <2>6, <2>7, BoundFacts
  <2>9. ASSUME NEW k \in synced, NEW i \in DOMAIN plan.block[k], Binds(plan.block[k][i])
        PROVE  \E b \in binding' : b.ev = k /\ StillStands(b, plan.block[k][i])
    <3> DEFINE c == plan.block[k][i]
    <3>1. k \in Events /\ k \in Blocks /\ k > 0
      BY PlanFacts DEF TypeInv, RowsTyped
    <3>2. c \in Actions /\ plan.act[c].ev = k
      BY <3>1, PlanFacts DEF TypeInv
    <3>3. \E b \in binding : b.ev = k /\ StandsFor(b, c)
      BY <2>9 DEF OwnInv, CheckpointIsOwned, Binds
    <3>4. StillBound(c)
      BY <2>8, <2>9, <3>2, <3>3 DEF BindingsStay, IsBound
    <3> QED
      BY <3>2, <3>4 DEF StillBound
  <2>10. CheckpointIsOwned'
    BY <1>5, <2>9, SamePlan DEF CheckpointIsOwned, Binds
  <2>11. KnowsItems(e)'
    <3>1. ASSUME r.blk > 0, NEW i \in DOMAIN plan.block[r.blk], i < r.idx, Binds(plan.block[r.blk][i])
          PROVE  StillBound(plan.block[r.blk][i])
      <4>1. i \in Nat /\ x[e].idx \in Nat
        BY SMTT(40), <1>2, <2>4, <3>1, PlanFacts DEF TypeInv, Inside, Positions
      <4>2. CASE i < x[e].idx
        BY <1>2, <2>4, <2>8, <3>1, <4>2, BoundKept
      <4>3. CASE i = x[e].idx
        BY <2>4, <2>8, <3>1, <4>3 DEF Act
      <4> QED
        BY <2>2, <2>4, <3>1, <4>1, <4>2, <4>3
    <3>2. r.pc \notin {"reread", "check", "applied", "verify", "bind"}
      BY <2>4
    <3> QED
      BY <1>2, <2>5, <2>6, <2>8, <3>1, <3>2, KnowsStays
  <2>12. RowInv'
    BY <2>6, OwnRows, RowsKept
  <2> QED
    BY <2>1, <2>6, <2>8, <2>10, <2>11, <2>12, OwnOneExec
<1> QED
  BY <1>3, <1>4, <1>5 DEF Bind

LEMMA CheckErrorOwn ==
  ASSUME TypeInv, OwnInv, NEW e \in Executions, CheckError(e)
  PROVE  OwnInv'
  BY OwnStop DEF CheckError

LEMMA HeartbeatOwn ==
  ASSUME TypeInv, OwnInv, NEW e \in Executions, HeartbeatNotices(e)
  PROVE  OwnInv'
<1> DEFINE r == [x[e] EXCEPT !.lost = TRUE]
<1>1. x \in [Executions -> ExecRecords(Actions)] /\ x[e] \in ExecRecords(Actions)
  BY DEF TypeInv, ExecsTyped
<1>2. x' = [x EXCEPT ![e] = r] /\ UNCHANGED <<plan, Remote, row, binding, synced>> /\ row' = row
  BY <1>1 DEF HeartbeatNotices
<1>3. /\ r.pc = x[e].pc /\ r.blk = x[e].blk /\ r.idx = x[e].idx /\ r.prior = x[e].prior
      /\ r.item = x[e].item /\ r.pre = x[e].pre
  BY <1>1 DEF ExecRecords
<1> HIDE DEF r
<1>4. Unmoved(e)
  BY <1>1, <1>2, <1>3 DEF Unmoved
<1>5. RemoteStep /\ BindingsStay => KnowsItems(e)'
  BY <1>4, KnowsKept
<1> QED
  BY <1>2, <1>5, OwnRows, OwnLocal

\* Leases, the run's state and people.
LEMMA EnvironmentOwn ==
  ASSUME TypeInv, OwnInv, RemoteStep, UNCHANGED <<row, binding, synced, x>>
  PROVE  OwnInv'
<1>1. BindingsStay /\ BindingInv' /\ CheckpointIsOwned'
  BY SameBindings
<1>2. RowInv'
  BY OwnRows, RowsKept
<1>3. ASSUME NEW f \in Executions PROVE KnowsItems(f)'
  BY <1>1, KnowsKept DEF Unmoved
<1> QED
  BY <1>1, <1>2, <1>3 DEF OwnInv, RemoteStep

LEMMA OwnInit == Init => OwnInv
<1> SUFFICES ASSUME Init PROVE OwnInv
  OBVIOUS
<1>1. WellFormed(plan) /\ agenda = plan.agenda /\ DOMAIN plan.agenda = Events
  BY EngineAssumption DEF Init, WellFormed, Events
<1>2. AgendaInv
  <2>1. \A k \in Events : \A i \in DOMAIN agenda[k] : agenda[k][i].id < NewItem
    BY <1>1 DEF WellFormed
  <2>2. \A k \in Events : \A i \in DOMAIN agenda[k] : agenda[k][i].id \in Nat
    BY TypeInit, IdsTyped
  <2> QED
    BY <1>1, <2>1, <2>2 DEF AgendaInv, Ids, NewItem
<1>3. MadeInv /\ RowInv
  BY DEF Init, MadeInv, RowInv, Recorded
<1>4. BindingInv
  BY <1>1 DEF Init, BindingInv, WellFormed
<1>5. CheckpointIsOwned
  BY DEF Init, CheckpointIsOwned
<1>6. \A e \in Executions : KnowsItems(e)
  BY IdleTyped DEF Init, KnowsItems, InBlock, InAction, Alive
<1> QED
  BY <1>2, <1>3, <1>4, <1>5, <1>6 DEF OwnInv

LEMMA OwnStep == TypeInv /\ OwnInv /\ [Next]_vars => OwnInv'
<1> SUFFICES ASSUME TypeInv, OwnInv, [Next]_vars PROVE OwnInv'
  OBVIOUS
<1>1. ASSUME NEW e \in Executions, Finish(e) \/ Crash(e) PROVE OwnInv'
  BY <1>1, OwnStop DEF Finish, Crash
<1>2. ASSUME NEW e \in Executions, Step(e) PROVE OwnInv'
  BY <1>1, <1>2, OpenBlockOwn, CloseBlockOwn, GateOwn, CheckOwn, StartOwn, WriteOwn,
     RereadOwn, RecordAppliedOwn, VerifyOwn, BindOwn DEF Step
<1>3. ASSUME NEW e \in Executions, Begin(e) \/ Provider(e) \/ HeartbeatNotices(e) PROVE OwnInv'
  BY <1>3, BeginOwn, CheckErrorOwn, WriteIndeterminateOwn, WriteRefusedOwn, HeartbeatOwn DEF Provider
<1>4. CASE RunLeaseExpires \/ (\E k \in Blocks : EventLeaseExpires(k)) \/ CancelQueued \/ UNCHANGED vars
  <2>1. UNCHANGED <<plan, Remote, row, binding, synced, x>>
    BY <1>4 DEF RunLeaseExpires, EventLeaseExpires, CancelQueued, vars, Remote
  <2> QED
    BY <2>1, QuietRemote, EnvironmentOwn
<1>5. CASE PersonEdits
  BY <1>5, EditFacts, EditsRemote, EnvironmentOwn
<1> QED
  BY <1>1, <1>2, <1>3, <1>4, <1>5 DEF Next

LEMMA OwnInvariant == Spec => [](TypeInv /\ OwnInv)
  BY TypeInit, TypeStep, OwnInit, OwnStep, PTL DEF Spec

\* What an insert of the program binds is no item that was there when the plan was made: the
\* program has made it, for this song of this event, or a person has written this very song
\* (_update_ownership after _reconcile_agenda_effect or the provider's read-back), whatever
\* crashes, lost leases and lost responses there were, whatever people did to the agendas,
\* and however often the song is planned.
THEOREM BindsOwnItemsAlways == Spec => []BindsOwnItems
<1>1. TypeInv /\ OwnInv => BindsOwnItems
  BY DEF OwnInv, BindingInv, BindsOwnItems, ItemFor, OwnItem
<1> QED
  BY <1>1, OwnInvariant, PTL

\* An event only has a checkpoint (EventSyncState, written at the end of _apply_event) when
\* every song placed in it is bound, and no later binding takes that away: an action that
\* adopts the item of another one binds it in its place.
THEOREM CheckpointIsOwnedAlways == Spec => []CheckpointIsOwned
<1>1. TypeInv /\ OwnInv => CheckpointIsOwned
  BY DEF OwnInv
<1> QED
  BY <1>1, OwnInvariant, PTL

-----------------------------------------------------------------------------
(* An event is opened once. *)

\* What is left of the bounds; one stall at most.
BudgetTyped == budget \in [edit : Nat, stall : Nat, crash : Nat, error : Nat]
OneStall == budget.stall \in 0 .. 1

\* While no live execution has stalled, the only one alive holds the run.  In its block it
\* holds the event, or the stall was spent on that lease and it is alone.
HoldsRun(e) == Alive(e) => holder = e \/ budget.stall = 0
Alone(e) == holder = e /\ budget.stall = 0 /\ \A g \in Executions \ {e} : ~Alive(g)
HoldsBlock(e) == InBlock(e) => evLease[x[e].blk] = e \/ Alone(e)

\* Up to the check of the first action the planned agenda is expected.
First(e) == x[e].blk > 0 /\ x[e].idx = 1
Expects(e) ==
  First(e) /\ x[e].pc \in {"gate", "check"} => x[e].expect = plan.agenda[x[e].blk]

\* At its write, a first insert has no copy yet.
Clear(e) ==
  First(e) /\ x[e].pc \in {"start", "write"} /\ Kind(Act(e)) = "insert" => Copies(Act(e)) = {}

\* Only inserts make items, in the event they concern.
MadeHere ==
  /\ \A a \in Actions : Kind(a) # "insert" => made[a] = {}
  /\ \A a \in Actions, m \in Events :
       made[a] \cap Ids(agenda[m]) # {} => m = plan.act[a].ev

Single(a) == \A i, j \in Copies(a) : i = j
FirstInv ==
  /\ BudgetTyped /\ OneStall /\ MadeHere
  /\ \A e \in Executions : HoldsRun(e) /\ HoldsBlock(e) /\ Expects(e) /\ Clear(e)
  /\ \A k \in Events : plan.block[k] # <<>> => Single(plan.block[k][1])

\* No two live executions are in a block.
LEMMA OneInBlock ==
  ASSUME TypeInv, FirstInv, NEW e \in Executions, NEW f \in Executions, InBlock(e), InBlock(f),
         x[e].blk = x[f].blk
  PROVE  e = f
<1>1. Alive(e) /\ Alive(f)
  BY DEF InBlock, InAction, Alive
<1> QED
  BY <1>1 DEF FirstInv, HoldsBlock, Alone

-----------------------------------------------------------------------------
(* How the steps of an execution move it. *)

Gives(e) ==
  \A k \in Blocks : evLease'[k] = evLease[k] \/ (evLease[k] = e /\ evLease'[k] = NoExec)

\* Out of its block, with its leases or without them.
Out(e, r) ==
  /\ r.pc \in {"block", "dead"} /\ Gives(e)
  /\ holder' = holder \/ (holder = e /\ r.pc = "dead")

\* On in its block.  To its first check, write, or past it, it comes one by one.
On(e, r) ==
  /\ InBlock(e) /\ (r.pc = "gate" \/ r.pc \in InAction) /\ r.blk = x[e].blk
  /\ UNCHANGED <<evLease, holder>>
  /\ r.blk > 0 /\ r.idx = 1 => x[e].idx = 1
  /\ r.blk > 0 /\ r.idx = 1 /\ r.pc \in {"gate", "check"} =>
       x[e].pc \in {"gate", "check"} /\ r.expect = x[e].expect
  /\ r.blk > 0 /\ r.idx = 1 /\ r.pc \in {"start", "write"} /\ Kind(Act(e)) = "insert" =>
       \/ x[e].pc \in {"start", "write"}
       \/ x[e].pc = "check" /\ agenda[x[e].blk] = x[e].expect

\* Into a block that nobody has.
Into(e, r) ==
  /\ r.pc = "gate" /\ r.blk \in Blocks /\ evLease[r.blk] = NoExec
  /\ evLease' = [evLease EXCEPT ![r.blk] = e] /\ holder' = holder
  /\ r.blk > 0 => r.expect = plan.agenda[r.blk]

Turn(e, r) == Out(e, r) \/ On(e, r) \/ Into(e, r)

\* The other two parts of the step.
SameStalls == BudgetTyped' /\ budget'.stall = budget.stall
Moves(e) ==
  UNCHANGED <<plan, Remote>> /\ \E r : x' = [x EXCEPT ![e] = r] /\ Turn(e, r)

LEMMA TurnHolds ==
  ASSUME TypeInv, FirstInv, plan' = plan, NEW e \in Executions, Alive(e), SameStalls,
         NEW r, x' = [x EXCEPT ![e] = r], Turn(e, r), NEW f \in Executions
  PROVE  HoldsRun(f)' /\ HoldsBlock(f)'
<1>1. /\ x'[e] = r /\ \A g \in Executions \ {e} : x'[g] = x[g]
      /\ Blocks' = Blocks /\ budget'.stall = budget.stall
  BY DEF TypeInv, ExecsTyped, Blocks, Events, SameStalls
<1>2. /\ HoldsRun(f) /\ HoldsBlock(f) /\ HoldsRun(e) /\ HoldsBlock(e)
      /\ evLease \in [Blocks -> Executions \cup {NoExec}]
      /\ NoExec \notin Executions
  BY EngineAssumption DEF FirstInv, TypeInv, RunTyped
<1>3. \A g \in Executions : InBlock(g) => x[g].blk \in Blocks
  BY DEF TypeInv, Shape
<1>4. \A g \in Executions : InBlock(g) => Alive(g)
  BY DEF InBlock, InAction, Alive
<1>5. CASE f = e
  <2>1. CASE Out(e, r)
    BY <1>1, <1>2, <1>5, <2>1 DEF Out, HoldsRun, HoldsBlock, Alive, InBlock, InAction
  <2>2. CASE On(e, r)
    <3>1. Alone(e) => Alone(e)'
      BY <1>1, <2>2 DEF On, Alone, Alive
    <3>2. evLease[x[e].blk] = e => evLease'[x'[e].blk] = e
      BY <1>1, <2>2 DEF On
    <3> QED
      BY <1>1, <1>2, <1>4, <1>5, <2>2, <3>1, <3>2 DEF On, HoldsRun, HoldsBlock
  <2>3. CASE Into(e, r)
    <3>1. evLease'[x'[e].blk] = e
      BY <1>1, <1>2, <2>3 DEF Into
    <3> QED
      BY <1>1, <1>2, <1>5, <2>3, <3>1 DEF Into, HoldsRun, HoldsBlock
  <2> QED
    BY <2>1, <2>2, <2>3 DEF Turn
<1>6. CASE f # e
  <2>1. x'[f] = x[f]
    BY <1>1, <1>6
  <2>2. HoldsRun(f)'
    BY <1>1, <1>2, <1>6, <2>1 DEF Turn, Out, On, Into, HoldsRun, Alive
  <2>3. ~Alone(f)
    BY <1>6 DEF Alone
  <2>4. InBlock(f) => evLease[x[f].blk] = f /\ evLease'[x[f].blk] = f
    BY <1>2, <1>3, <1>6, <2>3 DEF Turn, Out, On, Into, Gives, HoldsBlock
  <2> QED
    BY <2>1, <2>2, <2>4 DEF HoldsBlock, InBlock
<1> QED
  BY <1>5, <1>6
-----------------------------------------------------------------------------
(* The copies of an insert. *)

NewCopies(a) == UNION {made'[a] \cap Ids(agenda'[k]) : k \in Events}

\* An agenda gets no item but the next one, and no insert has made that one yet; or insert
\* a has, in its event.
NoCopy ==
  /\ plan' = plan /\ made' = made
  /\ \A m \in Events : \A id \in Ids(agenda'[m]) : id \in Ids(agenda[m]) \/ id = nextId
OneCopy(a) ==
  /\ plan' = plan /\ Kind(a) = "insert" /\ made' = [made EXCEPT ![a] = made[a] \cup {nextId}]
  /\ \A m \in Events : \A id \in Ids(agenda'[m]) :
       id \in Ids(agenda[m]) \/ (id = nextId /\ m = plan.act[a].ev)

LEMMA NextIsNew ==
  ASSUME TypeInv
  PROVE  /\ \A a \in Actions : nextId \notin made[a]
         /\ made \in [Actions -> SUBSET Nat]
         /\ \A m \in Events : nextId \notin Ids(agenda[m])
<1>1. \A m \in Events : nextId \notin Ids(agenda[m])
  BY DEF TypeInv, RemoteTyped, Ids
<1> QED
  BY <1>1 DEF TypeInv, RemoteTyped, NewItem

LEMMA QuietCopies ==
  ASSUME TypeInv, MadeHere, NoCopy
  PROVE  MadeHere' /\ \A a \in Actions : NewCopies(a) \subseteq Copies(a)
<1>1. \A a \in Actions, m \in Events :
        made'[a] \cap Ids(agenda'[m]) \subseteq made[a] \cap Ids(agenda[m])
  BY NextIsNew DEF NoCopy
<1>2. \A a \in Actions : NewCopies(a) \subseteq Copies(a)
  BY <1>1 DEF NewCopies, Copies
<1> QED
  BY <1>1, <1>2 DEF MadeHere, NoCopy, Actions, Events, Kind

LEMMA OtherCopies ==
  ASSUME TypeInv, MadeHere, NEW b \in Actions, OneCopy(b)
  PROVE  /\ MadeHere' /\ NewCopies(b) \subseteq Copies(b) \cup {nextId}
         /\ \A a \in Actions \ {b} : NewCopies(a) \subseteq Copies(a)
<1>1. \A a \in Actions \ {b} : made'[a] = made[a]
  BY NextIsNew DEF OneCopy
<1>2. made'[b] = made[b] \cup {nextId}
  BY NextIsNew DEF OneCopy
<1>3. \A a \in Actions \ {b}, m \in Events :
        made'[a] \cap Ids(agenda'[m]) \subseteq made[a] \cap Ids(agenda[m])
  BY <1>1, NextIsNew DEF OneCopy
<1>4. \A m \in Events : made'[b] \cap Ids(agenda'[m]) \subseteq
                          (made[b] \cap Ids(agenda[m])) \cup {nextId}
  BY <1>2 DEF OneCopy
<1>5. \A m \in Events :
        made'[b] \cap Ids(agenda'[m]) # {} =>
          made[b] \cap Ids(agenda[m]) # {} \/ m = plan.act[b].ev
  <2> SUFFICES ASSUME NEW m \in Events, NEW id \in made'[b] \cap Ids(agenda'[m])
               PROVE  made[b] \cap Ids(agenda[m]) # {} \/ m = plan.act[b].ev
    OBVIOUS
  <2> QED
    BY <1>2, NextIsNew DEF OneCopy
<1>6. MadeHere'
  <2>1. \A a \in Actions : Kind(a) # "insert" => made'[a] = {}
    BY <1>1 DEF MadeHere, OneCopy
  <2>2. \A a \in Actions, m \in Events :
          made'[a] \cap Ids(agenda'[m]) # {} => m = plan.act[a].ev
    BY <1>3, <1>5 DEF MadeHere
  <2> QED
    BY <2>1, <2>2 DEF MadeHere, OneCopy, Actions, Events, Kind
<1>7. NewCopies(b) \subseteq Copies(b) \cup {nextId}
  BY <1>4 DEF NewCopies, Copies
<1>8. \A a \in Actions \ {b} : NewCopies(a) \subseteq Copies(a)
  BY <1>3 DEF NewCopies, Copies
<1> QED
  BY <1>6, <1>7, <1>8

\* The first action of an event, and only that one, is at index 1.
LEMMA FirstActions ==
  ASSUME TypeInv
  PROVE  /\ \A k \in Events : plan.block[k] # <<>> => plan.block[k][1] \in Actions
         /\ \A e \in Executions, k \in Events :
              /\ InBlock(e) /\ x[e].idx <= Len(plan.block[x[e].blk]) /\ plan.block[k] # <<>>
              /\ Act(e) = plan.block[k][1] /\ Kind(Act(e)) = "insert"
              => First(e) /\ x[e].blk = k
<1>1. PlanTyped /\ WellFormed(plan)
  BY EngineAssumption DEF TypeInv, PlanTyped
<1>2. \A k \in Events : k \in Blocks /\ k > 0
  BY <1>1, PlanFacts DEF Blocks
<1>3. ASSUME NEW k \in Events, plan.block[k] # <<>>
      PROVE  /\ plan.block[k][1] \in Actions /\ 1 \in DOMAIN plan.block[k]
             /\ k > 0 /\ plan.act[plan.block[k][1]].ev = k
             /\ \A j \in 1 .. Len(plan.block[k]) : plan.block[k][j] = plan.block[k][1] => j = 1
  <2>1. /\ plan.block[k] \in Seq(Actions) /\ Len(plan.block[k]) \in Nat
        /\ DOMAIN plan.block[k] = 1 .. Len(plan.block[k]) /\ k \in Blocks
    BY <1>1, <1>2, PlanFacts
  <2>2. Len(plan.block[k]) > 0
    BY <1>3, <2>1, EmptySeq
  <2>3. k \in DOMAIN plan.block
    BY <1>1, <1>2, PlanFacts DEF WellFormed
  <2>4. \A i, j \in DOMAIN plan.block[k] : plan.block[k][i] = plan.block[k][j] => i = j
    BY <1>1, <2>3 DEF WellFormed
  <2>5. 1 \in 1 .. Len(plan.block[k])
    BY <2>1, <2>2
  <2> QED
    BY <1>1, <1>2, <2>1, <2>4, <2>5, PlanFacts
<1>4. ASSUME NEW e \in Executions, NEW k \in Events, InBlock(e), plan.block[k] # <<>>,
             x[e].idx <= Len(plan.block[x[e].blk]), Act(e) = plan.block[k][1],
             Kind(Act(e)) = "insert"
      PROVE  First(e) /\ x[e].blk = k
  <2>1. /\ x[e].idx \in 1 .. Len(plan.block[x[e].blk]) /\ x[e].blk \in Blocks
        /\ x[e].blk = 0 => Kind(Act(e)) = "create"
        /\ x[e].blk > 0 => plan.act[Act(e)].ev = x[e].blk
    BY <1>4, ActFacts
  <2>2. x[e].blk > 0
    BY <1>1, <1>4, <2>1, PlanFacts
  <2>3. x[e].blk = k
    BY <1>3, <1>4, <2>1, <2>2
  <2> QED
    BY <1>3, <1>4, <2>1, <2>2, <2>3 DEF First, Act
<1> QED
  BY <1>3, <1>4
\* The planned agenda has no copy: its ids were given before the run.
LEMMA NoneAsPlanned ==
  ASSUME TypeInv, MadeHere, NEW a \in Actions, plan.act[a].ev \in Events,
         agenda[plan.act[a].ev] = plan.agenda[plan.act[a].ev]
  PROVE  Copies(a) = {}
<1> DEFINE k == plan.act[a].ev
<1>1. WellFormed(plan)
  BY EngineAssumption DEF TypeInv, PlanTyped
<1>2. made[a] \in SUBSET (NewItem .. nextId - 1) /\ nextId \in Nat
  BY DEF TypeInv, RemoteTyped
<1>3. \A i \in DOMAIN plan.agenda[k] : plan.agenda[k][i].id < NewItem
  BY <1>1 DEF WellFormed, Events
<1>4. \A id \in made[a] : id \notin Ids(agenda[k])
  <2> SUFFICES ASSUME NEW i \in DOMAIN plan.agenda[k], plan.agenda[k][i].id \in made[a]
               PROVE  FALSE
    BY DEF Ids
  <2> QED
    BY SMTT(40), <1>2, <1>3 DEF NewItem
<1>5. \A m \in Events : made[a] \cap Ids(agenda[m]) = {}
  BY <1>4 DEF MadeHere
<1> QED
  BY <1>5 DEF Copies

\* A step of one execution keeps the invariant if it moves it as above, and copies an item
\* only in its write.
LEMMA FirstKept ==
  ASSUME TypeInv, FirstInv, SameStalls, NEW e \in Executions, Alive(e),
         NEW r, x' = [x EXCEPT ![e] = r], Turn(e, r),
         \/ NoCopy
         \/ x[e].pc = "write" /\ OneCopy(Act(e)) /\ r.pc \notin {"start", "write"}
  PROVE  FirstInv'
<1>1. /\ plan' = plan /\ Events' = Events /\ Actions' = Actions /\ Blocks' = Blocks
      /\ x'[e] = r /\ \A f \in Executions \ {e} : x'[f] = x[f]
      /\ \A a \in Actions : Kind(a)' = Kind(a)
      /\ \A a \in Actions : Copies(a)' = NewCopies(a)
  BY DEF NoCopy, OneCopy, TypeInv, ExecsTyped, Events, Actions, Blocks, Kind, Copies, NewCopies
<1>2. \A f \in Executions : HoldsRun(f)' /\ HoldsBlock(f)'
  BY <1>1, TurnHolds
<1>3. /\ MadeHere /\ BudgetTyped' /\ OneStall'
      /\ \A f \in Executions : Expects(f) /\ Clear(f)
      /\ \A k \in Events : plan.block[k] # <<>> => Single(plan.block[k][1])
  BY DEF FirstInv, SameStalls, OneStall
<1>4. \A f \in Executions : x[f].pc \in InAction =>
        /\ InBlock(f) /\ x[f].idx <= Len(plan.block[x[f].blk]) /\ Act(f) \in Actions
        /\ Kind(Act(f)) # "create" => plan.act[Act(f)].ev \in Events /\ plan.act[Act(f)].ev = x[f].blk
  BY AtAction
<1>5. ASSUME NEW f \in Executions PROVE Expects(f)'
  <2>1. CASE f = e
    BY <1>1, <1>3, <2>1 DEF Expects, First, Turn, Out, On, Into
  <2>2. CASE f # e
    BY <1>1, <1>3, <2>2 DEF Expects, First
  <2> QED
    BY <2>1, <2>2
<1>6. ASSUME NEW f \in Executions,
             /\ x'[f].blk > 0 /\ x'[f].idx = 1 /\ x'[f].pc \in {"start", "write"}
             /\ plan.act[plan.block[x'[f].blk][1]].kind = "insert"
             => NewCopies(plan.block[x'[f].blk][1]) = {}
      PROVE  Clear(f)'
  <2> SUFFICES ASSUME First(f)', x'[f].pc \in {"start", "write"}, Kind(Act(f))' = "insert"
               PROVE  Copies(Act(f))' = {}
    BY DEF Clear
  <2>1. Act(f)' = plan.block[x'[f].blk][1] /\ x'[f].blk > 0 /\ x'[f].idx = 1
    BY <1>1 DEF First, Act
  <2>2. plan.act[plan.block[x'[f].blk][1]].kind = "insert"
    BY <1>1, <2>1 DEF Kind
  <2>3. NewCopies(plan.block[x'[f].blk][1]) = {}
    BY <1>6, <2>1, <2>2
  <2> QED
    BY <1>1, <2>1, <2>3 DEF Copies, NewCopies
<1>7. ASSUME NEW k \in Events, \A i, j \in NewCopies(plan.block[k][1]) : i = j
      PROVE  Single(plan.block[k][1])'
  BY <1>1, <1>7 DEF Single, Copies, NewCopies
<1>8. CASE NoCopy
  <2>1. MadeHere' /\ \A a \in Actions : NewCopies(a) \subseteq Copies(a)
    BY <1>3, <1>8, QuietCopies
  <2>2. ASSUME NEW f \in Executions, x'[f].blk > 0, x'[f].idx = 1,
               x'[f].pc \in {"start", "write"}, plan.act[plan.block[x'[f].blk][1]].kind = "insert"
        PROVE  NewCopies(plan.block[x'[f].blk][1]) = {}
    <3>1. CASE f # e
      <4>1. x'[f] = x[f] /\ First(f) /\ Act(f) = plan.block[x'[f].blk][1] /\ Kind(Act(f)) = "insert"
        BY <1>1, <2>2, <3>1 DEF First, Act, Kind
      <4>2. Copies(Act(f)) = {} /\ Act(f) \in Actions
        BY <1>3, <1>4, <2>2, <4>1 DEF Clear, InAction
      <4> QED
        BY <2>1, <4>1, <4>2
    <3>2. CASE f = e
      <4>1. On(e, r)
        BY <1>1, <2>2, <3>2 DEF Turn, Out, Into
      <4>2. /\ r.blk = x[e].blk /\ x[e].idx = 1 /\ r.idx = 1 /\ r.blk > 0
            /\ Act(e) = plan.block[x'[f].blk][1] /\ Kind(Act(e)) = "insert"
        BY SMTT(40), <1>1, <2>2, <3>2, <4>1 DEF On, Act, Kind
      <4>3. First(e) /\ r.pc \in {"start", "write"}
        BY <1>1, <2>2, <3>2, <4>2 DEF First
      <4>4. CASE x[e].pc \in {"start", "write"}
        <5>1. Copies(Act(e)) = {} /\ Act(e) \in Actions
          BY <1>3, <1>4, <4>2, <4>3, <4>4 DEF Clear, InAction
        <5> QED
          BY <2>1, <4>2, <5>1
      <4>5. CASE x[e].pc = "check" /\ agenda[x[e].blk] = x[e].expect
        <5>1. /\ Act(e) \in Actions /\ plan.act[Act(e)].ev \in Events
              /\ plan.act[Act(e)].ev = x[e].blk
          BY <1>4, <4>2, <4>5 DEF InAction
        <5>2. agenda[x[e].blk] = plan.agenda[x[e].blk]
          BY <1>3, <4>3, <4>5 DEF Expects
        <5>3. Copies(Act(e)) = {}
          BY <1>3, <5>1, <5>2, NoneAsPlanned
        <5> QED
          BY <2>1, <4>2, <5>1, <5>3
      <4> QED
        BY <4>1, <4>2, <4>3, <4>4, <4>5 DEF On
    <3> QED
      BY <3>1, <3>2
  <2>3. \A f \in Executions : Clear(f)'
    BY <1>6, <2>2
  <2>4. ASSUME NEW k \in Events, plan.block[k] # <<>> PROVE Single(plan.block[k][1])'
    <3>1. plan.block[k][1] \in Actions
      BY <2>4, FirstActions
    <3>2. \A i, j \in NewCopies(plan.block[k][1]) : i = j
      BY <1>3, <2>1, <2>4, <3>1 DEF Single
    <3> QED
      BY <1>7, <3>2
  <2> QED
    BY <1>1, <1>2, <1>3, <1>5, <2>1, <2>3, <2>4 DEF FirstInv
<1>9. CASE x[e].pc = "write" /\ OneCopy(Act(e)) /\ r.pc \notin {"start", "write"}
  <2> DEFINE b == Act(e)
  <2>1. /\ InBlock(e) /\ x[e].idx <= Len(plan.block[x[e].blk]) /\ b \in Actions
        /\ Kind(b) = "insert" /\ plan.act[b].ev = x[e].blk
    BY <1>4, <1>9 DEF InAction, OneCopy
  <2>2. /\ MadeHere' /\ NewCopies(b) \subseteq Copies(b) \cup {nextId}
        /\ \A a \in Actions \ {b} : NewCopies(a) \subseteq Copies(a)
    BY <1>3, <1>9, <2>1, OtherCopies
  <2>3. ASSUME NEW f \in Executions PROVE Clear(f)'
    <3>1. CASE f = e
      BY <1>1, <1>9, <3>1 DEF Clear
    <3>2. CASE f # e
      <4> SUFFICES ASSUME x[f].blk > 0, x[f].idx = 1, x[f].pc \in {"start", "write"},
                          plan.act[plan.block[x[f].blk][1]].kind = "insert"
                   PROVE  NewCopies(plan.block[x[f].blk][1]) = {}
        BY <1>1, <1>6, <3>2
      <4>1. First(f) /\ Act(f) = plan.block[x[f].blk][1] /\ Kind(Act(f)) = "insert"
        BY DEF First, Act, Kind
      <4>2. Copies(Act(f)) = {}
        BY <1>3, <4>1 DEF Clear
      <4>3. InBlock(f) /\ Act(f) \in Actions /\ plan.act[Act(f)].ev = x[f].blk
        BY <1>4, <4>1 DEF InAction
      <4>4. Act(f) # b
        BY <2>1, <3>2, <4>3, OneInBlock
      <4> QED
        BY <2>2, <4>1, <4>2, <4>3, <4>4
    <3> QED
      BY <3>1, <3>2
  <2>4. ASSUME NEW k \in Events, plan.block[k] # <<>> PROVE Single(plan.block[k][1])'
    <3> DEFINE a == plan.block[k][1]
    <3>1. a \in Actions
      BY <2>4, FirstActions
    <3>2. CASE a # b
      <4>1. \A i, j \in NewCopies(a) : i = j
        BY <1>3, <2>2, <2>4, <3>1, <3>2 DEF Single
      <4> QED
        BY <1>7, <4>1
    <3>3. CASE a = b
      <4>1. First(e)
        BY <2>1, <2>4, <3>3, FirstActions
      <4>2. Copies(b) = {}
        BY <1>3, <1>9, <2>1, <4>1 DEF Clear
      <4>3. \A i, j \in NewCopies(a) : i = j
        BY <2>2, <3>3, <4>2
      <4> QED
        BY <1>7, <4>3
    <3> QED
      BY <3>2, <3>3
  <2> QED
    BY <1>1, <1>2, <1>3, <1>5, <2>2, <2>3, <2>4 DEF FirstInv
<1> QED
  BY <1>8, <1>9
-----------------------------------------------------------------------------
(* Every step keeps it. *)

LEMMA QuietMove ==
  ASSUME TypeInv, FirstInv, SameStalls, NEW e \in Executions, Alive(e), Moves(e)
  PROVE  FirstInv'
<1>1. NoCopy
  BY DEF Moves, NoCopy, Remote
<1> QED
  BY <1>1, FirstKept DEF Moves

LEMMA SameBudget ==
  ASSUME FirstInv, UNCHANGED budget
  PROVE  SameStalls
  BY DEF FirstInv, SameStalls, BudgetTyped

LEMMA SpendOther ==
  ASSUME FirstInv, Spend("error") \/ Spend("crash") \/ Spend("edit")
  PROVE  SameStalls
  BY DEF FirstInv, SameStalls, BudgetTyped, Spend

LEMMA SpendStall ==
  ASSUME FirstInv, Spend("stall")
  PROVE  BudgetTyped' /\ budget.stall = 1 /\ budget'.stall = 0
  BY DEF FirstInv, OneStall, BudgetTyped, Spend

LEMMA LeasesGiven ==
  ASSUME TypeInv, NEW e \in Executions, Release(e) \/ UNCHANGED evLease
  PROVE  Gives(e)
  BY DEF TypeInv, RunTyped, Release, Gives

LEMMA StopMoves ==
  ASSUME TypeInv, NEW e \in Executions, Stop(e)
  PROVE  Moves(e)
<1>1. UNCHANGED <<plan, Remote>> /\ Gives(e) /\ holder' = holder
  BY LeasesGiven DEF Stop
<1>2. x' = [x EXCEPT ![e] = [Idle EXCEPT !.pc = "dead"]]
  BY DEF Stop
<1> QED
  BY <1>1, <1>2, IdleTyped DEF Moves, Turn, Out

LEMMA LeaveMoves ==
  ASSUME TypeInv, NEW e \in Executions, NEW good \in BOOLEAN, NextBlock(e, good),
         UNCHANGED <<plan, Remote, holder>>, Release(e) \/ UNCHANGED evLease
  PROVE  Moves(e)
<1>1. PICK r : x' = [x EXCEPT ![e] = r] /\ r.pc = "block"
  BY NextBlockRecord
<1> QED
  BY <1>1, LeasesGiven DEF Moves, Turn, Out

\* On at the same action, or with the next one.
LEMMA OnMoves ==
  ASSUME TypeInv, NEW e \in Executions, InBlock(e), UNCHANGED <<plan, Remote, holder, evLease>>,
         NEW r, x' = [x EXCEPT ![e] = r], On(e, r)
  PROVE  Moves(e)
  BY DEF Moves, Turn

LEMMA FailedMoves ==
  ASSUME TypeInv, NEW e \in Executions, InBlock(e), NEW st, Failed(e, st)
  PROVE  Moves(e)
<1>1. CASE ~Fence(e)
  BY <1>1, StopMoves DEF Failed
<1>2. CASE Fence(e) /\ x[e].blk = 0
  <2> DEFINE r == [x[e] EXCEPT !.pc = "gate", !.idx = x[e].idx + 1]
  <2>1. /\ x' = [x EXCEPT ![e] = r]
        /\ UNCHANGED <<plan, Remote, holder, evLease>>
    BY <1>2 DEF Failed, TypeInv, ExecsTyped
  <2>2. x[e] \in ExecRecords(Actions)
    BY DEF TypeInv, ExecsTyped
  <2>3. r.pc = "gate" /\ r.blk = x[e].blk
    BY <2>2 DEF ExecRecords
  <2> HIDE DEF r
  <2>4. On(e, r)
    BY <1>2, <2>1, <2>3 DEF On
  <2> QED
    BY <2>1, <2>4, OnMoves
<1>3. CASE Fence(e) /\ x[e].blk # 0
  <2>1. NextBlock(e, FALSE) /\ Release(e) /\ UNCHANGED <<plan, Remote, holder>>
    BY <1>3 DEF Failed
  <2> QED
    BY <2>1, LeaveMoves
<1> QED
  BY <1>1, <1>2, <1>3

\* To another step of the same action, later than its check.
LEMMA PastCheck ==
  ASSUME TypeInv, NEW e \in Executions, InBlock(e), UNCHANGED <<plan, Remote, holder, evLease>>,
         NEW r, x' = [x EXCEPT ![e] = r], r.pc \in InAction \ {"check"},
         r.blk = x[e].blk, r.idx = x[e].idx,
         r.pc \in {"start", "write"} => x[e].pc \in {"start", "write"}
  PROVE  Moves(e)
<1>1. On(e, r)
  BY DEF On, InAction
<1> QED
  BY <1>1, OnMoves
LEMMA XTyped ==
  ASSUME TypeInv, NEW e \in Executions
  PROVE  x[e] \in ExecRecords(Actions) /\ x \in [Executions -> ExecRecords(Actions)]
  BY DEF TypeInv, ExecsTyped

LEMMA OpenBlockMoves ==
  ASSUME TypeInv, FirstInv, NEW e \in Executions, OpenBlock(e)
  PROVE  Moves(e) /\ UNCHANGED budget /\ Alive(e)
<1> DEFINE k == x[e].blk
           expect == IF k = 0 THEN <<>> ELSE plan.agenda[k]
<1>1. x[e].pc = "block" /\ k \in Blocks /\ UNCHANGED budget /\ Alive(e) /\ k \in Nat
  <2>1. k \in Nat
    BY XTyped DEF ExecRecords
  <2> QED
    BY <2>1 DEF OpenBlock, Alive
<1>2. CASE Stop(e)
  BY <1>1, <1>2, StopMoves
<1>3. CASE NextBlock(e, FALSE) /\ UNCHANGED <<plan, Remote, holder, evLease>>
  BY <1>1, <1>3, LeaveMoves
<1>4. CASE x' = [x EXCEPT ![e].blk = @ + 1] /\ UNCHANGED <<plan, Remote, holder, evLease>>
  <2> DEFINE r == [x[e] EXCEPT !.blk = x[e].blk + 1]
  <2>1. x' = [x EXCEPT ![e] = r] /\ r.pc = "block"
    BY <1>1, <1>4, XTyped DEF ExecRecords
  <2> HIDE DEF r
  <2>2. Out(e, r)
    BY <1>4, <2>1, LeasesGiven DEF Out
  <2> QED
    BY <1>1, <1>4, <2>1, <2>2 DEF Moves, Turn
<1>5. CASE /\ evLease[k] = NoExec /\ evLease' = [evLease EXCEPT ![k] = e]
           /\ x' = [x EXCEPT ![e] = [@ EXCEPT !.pc = "gate", !.expect = expect]]
           /\ UNCHANGED <<plan, Remote, holder>>
  <2> DEFINE r == [x[e] EXCEPT !.pc = "gate", !.expect = expect]
  <2>1. x' = [x EXCEPT ![e] = r]
    BY <1>5, XTyped
  <2> HIDE DEF expect
  <2>2. r.pc = "gate" /\ r.blk = k /\ r.expect = expect
    BY XTyped DEF ExecRecords
  <2> HIDE DEF r
  <2>3. Into(e, r)
    BY <1>1, <1>5, <2>2 DEF Into, expect
  <2> QED
    BY <1>1, <1>5, <2>1, <2>3 DEF Moves, Turn
<1> QED
  BY <1>1, <1>2, <1>3, <1>4, <1>5 DEF OpenBlock

LEMMA CloseBlockMoves ==
  ASSUME TypeInv, NEW e \in Executions, CloseBlock(e)
  PROVE  Moves(e) /\ UNCHANGED budget /\ Alive(e)
<1>1. UNCHANGED budget /\ Alive(e)
  BY DEF CloseBlock, Alive
<1>2. CASE Stop(e)
  BY <1>1, <1>2, StopMoves
<1>3. CASE NextBlock(e, TRUE) /\ Release(e) /\ UNCHANGED <<plan, Remote, holder>>
  BY <1>1, <1>3, LeaveMoves
<1> QED
  BY <1>1, <1>2, <1>3 DEF CloseBlock

LEMMA FinishMoves ==
  ASSUME TypeInv, NEW e \in Executions, Finish(e)
  PROVE  Moves(e) /\ UNCHANGED budget /\ Alive(e)
<1> DEFINE r == [Idle EXCEPT !.pc = "dead"]
<1>1. /\ x' = [x EXCEPT ![e] = r] /\ UNCHANGED <<plan, Remote, evLease, budget>> /\ Alive(e)
      /\ holder' = holder \/ (holder = e /\ r.pc = "dead")
  BY IdleTyped DEF Finish, Fence, Alive
<1>2. r.pc = "dead"
  BY IdleTyped
<1> HIDE DEF r
<1>3. Out(e, r)
  BY <1>1, <1>2, LeasesGiven DEF Out
<1> QED
  BY <1>1, <1>3 DEF Moves, Turn

LEMMA GateMoves ==
  ASSUME TypeInv, NEW e \in Executions, Gate(e)
  PROVE  Moves(e) /\ UNCHANGED budget /\ Alive(e)
<1> DEFINE a == Act(e)
           prior == x[e].prior[a]
<1>1. UNCHANGED budget /\ Alive(e) /\ InBlock(e) /\ x[e].pc = "gate"
  BY DEF Gate, Alive, InBlock
<1>2. CASE Stop(e)
  BY <1>1, <1>2, StopMoves
<1>3. CASE NextBlock(e, FALSE) /\ Release(e) /\ UNCHANGED <<plan, Remote, holder>>
  BY <1>1, <1>3, LeaveMoves
<1>4. CASE \E st : Failed(e, st)
  BY <1>1, <1>4, FailedMoves
<1>5. CASE Goto(e, "check") /\ UNCHANGED <<plan, Remote, holder, evLease>>
  <2> DEFINE r == [x[e] EXCEPT !.pc = "check"]
  <2>1. x' = [x EXCEPT ![e] = r]
    BY <1>5, XTyped DEF Goto
  <2>2. /\ r.pc = "check" /\ r.blk = x[e].blk /\ r.idx = x[e].idx /\ r.expect = x[e].expect
    BY XTyped DEF ExecRecords
  <2> HIDE DEF r
  <2>3. On(e, r)
    BY <1>1, <1>5, <2>2 DEF On, InAction
  <2> QED
    BY <1>1, <1>5, <2>1, <2>3, OnMoves
<1>6. CASE /\ ~(x[e].blk > 0 /\ Kind(a) \in Mutating /\ prior.st \notin {"verified", "applied"})
           /\ x' = [x EXCEPT ![e] = [@ EXCEPT
                     !.pc = IF prior.st = "planned" THEN "start" ELSE "verify",
                     !.item = prior.item]]
           /\ UNCHANGED <<plan, Remote, holder, evLease>>
  <2> DEFINE pc == IF prior.st = "planned" THEN "start" ELSE "verify"
             r == [x[e] EXCEPT !.pc = pc, !.item = prior.item]
  <2>1. x' = [x EXCEPT ![e] = r]
    BY <1>6, XTyped
  <2>2. pc \in {"start", "verify"} /\ (pc = "start" => prior.st = "planned")
    OBVIOUS
  <2> HIDE DEF pc
  <2>3. /\ r.pc = pc /\ r.blk = x[e].blk /\ r.idx = x[e].idx
    BY XTyped DEF ExecRecords
  <2> HIDE DEF r
  <2>4. pc = "start" => ~(x[e].blk > 0 /\ Kind(a) = "insert")
    BY <1>6, <2>2 DEF Mutating
  <2>5. On(e, r)
    BY <1>1, <1>6, <2>2, <2>3, <2>4 DEF On, InAction
  <2> QED
    BY <1>1, <1>6, <2>1, <2>5, OnMoves
<1> QED
  BY <1>1, <1>2, <1>3, <1>4, <1>5, <1>6 DEF Gate

LEMMA CheckMoves ==
  ASSUME TypeInv, NEW e \in Executions, Check(e)
  PROVE  Moves(e) /\ UNCHANGED budget /\ Alive(e)
<1> DEFINE a == Act(e)
           ag == agenda[plan.act[a].ev]
           found == Reconciled(e, a, ag)
           item == CHOOSE i \in found : TRUE
<1>1. /\ UNCHANGED budget /\ Alive(e) /\ InBlock(e) /\ x[e].pc = "check"
      /\ x[e].blk > 0 => plan.act[a].ev = x[e].blk
  <2>1. InBlock(e) /\ x[e].idx <= Len(plan.block[x[e].blk])
    BY AtAction DEF Check, InAction
  <2> QED
    BY <2>1, ActFacts DEF Check, Alive
<1>2. CASE Stop(e)
  BY <1>1, <1>2, StopMoves
<1>3. CASE \E st : Failed(e, st)
  BY <1>1, <1>3, FailedMoves
<1>4. CASE ag = x[e].expect /\ Goto(e, "start") /\ UNCHANGED <<plan, Remote, holder, evLease>>
  <2> DEFINE r == [x[e] EXCEPT !.pc = "start"]
  <2>1. x' = [x EXCEPT ![e] = r]
    BY <1>4, XTyped DEF Goto
  <2>2. r.pc = "start" /\ r.blk = x[e].blk /\ r.idx = x[e].idx
    BY XTyped DEF ExecRecords
  <2> HIDE DEF r
  <2>3. On(e, r)
    BY <1>1, <1>4, <2>2 DEF On, InAction
  <2> QED
    BY <1>1, <1>4, <2>1, <2>3, OnMoves
<1>5. CASE /\ x' = [x EXCEPT ![e] = [@ EXCEPT !.pc = "verify", !.item = item]]
           /\ UNCHANGED <<plan, Remote, holder, evLease>>
  <2> HIDE DEF item
  <2> DEFINE r == [x[e] EXCEPT !.pc = "verify", !.item = item]
  <2>1. x' = [x EXCEPT ![e] = r]
    BY <1>5, XTyped
  <2>2. r.pc = "verify" /\ r.blk = x[e].blk /\ r.idx = x[e].idx
    BY XTyped DEF ExecRecords
  <2> HIDE DEF r
  <2> QED
    BY <1>1, <1>5, <2>1, <2>2, PastCheck DEF InAction
<1> QED
  BY <1>1, <1>2, <1>3, <1>4, <1>5 DEF Check, AsExpected

LEMMA StartMoves ==
  ASSUME TypeInv, NEW e \in Executions, Start(e)
  PROVE  Moves(e) /\ UNCHANGED budget /\ Alive(e)
<1>1. UNCHANGED budget /\ Alive(e) /\ InBlock(e) /\ x[e].pc = "start"
  BY DEF Start, Alive, InBlock, InAction
<1>2. CASE Failed(e, "failed")
  BY <1>1, <1>2, FailedMoves
<1>3. CASE Goto(e, "write") /\ UNCHANGED <<plan, Remote, holder, evLease>>
  <2> DEFINE r == [x[e] EXCEPT !.pc = "write"]
  <2>1. x' = [x EXCEPT ![e] = r]
    BY <1>3, XTyped DEF Goto
  <2>2. r.pc = "write" /\ r.blk = x[e].blk /\ r.idx = x[e].idx
    BY XTyped DEF ExecRecords
  <2> HIDE DEF r
  <2> QED
    BY <1>1, <1>3, <2>1, <2>2, PastCheck DEF InAction
<1> QED
  BY <1>1, <1>2, <1>3 DEF Start
LEMMA RereadMoves ==
  ASSUME TypeInv, NEW e \in Executions, Reread(e)
  PROVE  Moves(e) /\ UNCHANGED budget /\ Alive(e)
<1> DEFINE item == CHOOSE i \in Adoptable(e, Act(e), agenda[plan.act[Act(e)].ev]) : TRUE
<1>1. UNCHANGED budget /\ Alive(e) /\ InBlock(e)
  BY DEF Reread, Alive, InBlock, InAction
<1>2. CASE Failed(e, "failed")
  BY <1>1, <1>2, FailedMoves
<1>3. CASE /\ x' = [x EXCEPT ![e] = [@ EXCEPT !.pc = "applied", !.pre = {}, !.item = item]]
           /\ UNCHANGED <<plan, Remote, holder, evLease>>
  <2> HIDE DEF item
  <2> DEFINE r == [x[e] EXCEPT !.pc = "applied", !.pre = {}, !.item = item]
  <2>1. x' = [x EXCEPT ![e] = r]
    BY <1>3, XTyped
  <2>2. r.pc = "applied" /\ r.blk = x[e].blk /\ r.idx = x[e].idx
    BY XTyped DEF ExecRecords
  <2> HIDE DEF r
  <2> QED
    BY <1>1, <1>3, <2>1, <2>2, PastCheck DEF InAction
<1> QED
  BY <1>1, <1>2, <1>3 DEF Reread

LEMMA RecordAppliedMoves ==
  ASSUME TypeInv, NEW e \in Executions, RecordApplied(e)
  PROVE  Moves(e) /\ UNCHANGED budget /\ Alive(e)
<1>1. UNCHANGED budget /\ Alive(e) /\ InBlock(e)
  BY DEF RecordApplied, Alive, InBlock, InAction
<1>2. CASE Stop(e)
  BY <1>1, <1>2, StopMoves
<1>3. CASE Failed(e, "failed")
  BY <1>1, <1>3, FailedMoves
<1>4. CASE Goto(e, "verify") /\ UNCHANGED <<plan, Remote, holder, evLease>>
  <2> DEFINE r == [x[e] EXCEPT !.pc = "verify"]
  <2>1. x' = [x EXCEPT ![e] = r]
    BY <1>4, XTyped DEF Goto
  <2>2. r.pc = "verify" /\ r.blk = x[e].blk /\ r.idx = x[e].idx
    BY XTyped DEF ExecRecords
  <2> HIDE DEF r
  <2> QED
    BY <1>1, <1>4, <2>1, <2>2, PastCheck DEF InAction
<1> QED
  BY <1>1, <1>2, <1>3, <1>4 DEF RecordApplied

LEMMA VerifyMoves ==
  ASSUME TypeInv, NEW e \in Executions, Verify(e)
  PROVE  Moves(e) /\ UNCHANGED budget /\ Alive(e)
<1> DEFINE expect == IF ReadsAgenda(Act(e)) THEN agenda[plan.act[Act(e)].ev] ELSE x[e].expect
<1>1. UNCHANGED budget /\ Alive(e) /\ InBlock(e)
  BY DEF Verify, Alive, InBlock, InAction
<1>2. CASE Stop(e)
  BY <1>1, <1>2, StopMoves
<1>3. CASE Failed(e, "failed")
  BY <1>1, <1>3, FailedMoves
<1>4. CASE /\ x' = [x EXCEPT ![e] = [@ EXCEPT !.pc = "bind", !.expect = expect]]
           /\ UNCHANGED <<plan, Remote, holder, evLease>>
  <2> HIDE DEF expect
  <2> DEFINE r == [x[e] EXCEPT !.pc = "bind", !.expect = expect]
  <2>1. x' = [x EXCEPT ![e] = r]
    BY <1>4, XTyped
  <2>2. r.pc = "bind" /\ r.blk = x[e].blk /\ r.idx = x[e].idx
    BY XTyped DEF ExecRecords
  <2> HIDE DEF r
  <2> QED
    BY <1>1, <1>4, <2>1, <2>2, PastCheck DEF InAction
<1> QED
  BY <1>1, <1>2, <1>3, <1>4 DEF Verify

LEMMA BindMoves ==
  ASSUME TypeInv, NEW e \in Executions, Bind(e)
  PROVE  Moves(e) /\ UNCHANGED budget /\ Alive(e)
<1> DEFINE res == x[e].res \cup {[act |-> Act(e), item |-> x[e].item]}
           prepared == IF x[e].blk = 0 THEN x[e].prepared + 1 ELSE x[e].prepared
           idx == x[e].idx + 1
<1>1. UNCHANGED budget /\ Alive(e) /\ InBlock(e)
  BY DEF Bind, Alive, InBlock, InAction
<1>2. CASE Stop(e)
  BY <1>1, <1>2, StopMoves
<1>3. CASE Failed(e, "failed")
  BY <1>1, <1>3, FailedMoves
<1>4. CASE /\ x' = [x EXCEPT ![e] = [@ EXCEPT !.pc = "gate", !.idx = idx, !.item = NoItem,
                                            !.res = res, !.prepared = prepared]]
           /\ UNCHANGED <<plan, Remote, holder, evLease>>
  <2>1. idx # 1
    BY XTyped DEF ExecRecords, Positions
  <2> HIDE DEF res, prepared, idx
  <2> DEFINE r == [x[e] EXCEPT !.pc = "gate", !.idx = idx, !.item = NoItem,
                               !.res = res, !.prepared = prepared]
  <2>2. x' = [x EXCEPT ![e] = r]
    BY <1>4, XTyped
  <2>3. r.pc = "gate" /\ r.blk = x[e].blk /\ r.idx = idx
    BY XTyped DEF ExecRecords
  <2> HIDE DEF r
  <2>4. On(e, r)
    BY <1>1, <1>4, <2>1, <2>3 DEF On
  <2> QED
    BY <1>1, <1>4, <2>2, <2>4, OnMoves
<1> QED
  BY <1>1, <1>2, <1>3, <1>4 DEF Bind

\* The provider refuses a write, or a verification fails.
LEMMA ErrorMoves ==
  ASSUME TypeInv, FirstInv, NEW e \in Executions, WriteRefused(e) \/ VerifyError(e)
  PROVE  Moves(e) /\ SameStalls /\ Alive(e)
<1>1. Alive(e) /\ InBlock(e)
  BY DEF WriteRefused, VerifyError, Alive, InBlock, InAction
<1>2. Moves(e)
  BY <1>1, FailedMoves DEF WriteRefused, VerifyError
<1>3. SameStalls
  BY SameBudget, SpendOther DEF WriteRefused, VerifyError
<1> QED
  BY <1>1, <1>2, <1>3

LEMMA CheckErrorMoves ==
  ASSUME TypeInv, FirstInv, NEW e \in Executions, CheckError(e)
  PROVE  Moves(e) /\ SameStalls /\ Alive(e)
<1> DEFINE r == [Idle EXCEPT !.pc = "dead"]
<1>1. /\ x' = [x EXCEPT ![e] = r] /\ UNCHANGED <<plan, Remote>> /\ Release(e) /\ Alive(e)
      /\ holder' = holder \/ (holder = e /\ r.pc = "dead")
  BY IdleTyped DEF CheckError, Fence, Alive
<1>2. r.pc = "dead" /\ SameStalls
  BY IdleTyped, SpendOther DEF CheckError
<1> HIDE DEF r
<1>3. Out(e, r)
  BY <1>1, <1>2, LeasesGiven DEF Out
<1> QED
  BY <1>1, <1>2, <1>3 DEF Moves, Turn

LEMMA CrashMoves ==
  ASSUME TypeInv, FirstInv, NEW e \in Executions, Crash(e)
  PROVE  Moves(e) /\ SameStalls /\ Alive(e)
<1> DEFINE r == [Idle EXCEPT !.pc = "dead"]
<1>1. /\ x' = [x EXCEPT ![e] = r] /\ UNCHANGED <<plan, Remote, evLease, holder>> /\ Alive(e)
      /\ SameStalls
  BY SpendOther DEF Crash
<1>2. r.pc = "dead"
  BY IdleTyped
<1> HIDE DEF r
<1>3. Out(e, r)
  BY <1>1, <1>2, LeasesGiven DEF Out
<1> QED
  BY <1>1, <1>3 DEF Moves, Turn

LEMMA HeartbeatMoves ==
  ASSUME TypeInv, FirstInv, NEW e \in Executions, HeartbeatNotices(e)
  PROVE  Moves(e) /\ SameStalls /\ Alive(e)
<1> DEFINE r == [x[e] EXCEPT !.lost = TRUE]
<1>1. /\ x' = [x EXCEPT ![e] = r] /\ UNCHANGED <<plan, Remote, evLease, holder>> /\ Alive(e)
      /\ x[e].pc # "block"
  BY XTyped DEF HeartbeatNotices
<1>2. InBlock(e)
  <2>1. x[e].pc \in Places
    BY XTyped DEF ExecRecords
  <2> QED
    BY <1>1, <2>1 DEF Places, InBlock, Alive
<1>3. /\ r.pc = x[e].pc /\ r.blk = x[e].blk /\ r.idx = x[e].idx /\ r.expect = x[e].expect
  BY XTyped DEF ExecRecords
<1> HIDE DEF r
<1>4. On(e, r)
  BY <1>1, <1>2, <1>3 DEF On, InBlock
<1>5. SameStalls
  BY SameBudget, SpendOther DEF HeartbeatNotices
<1> QED
  BY <1>1, <1>2, <1>4, <1>5, OnMoves

\* A write of the program makes a copy of the action at hand, or none.
LEMMA WriteCopies ==
  ASSUME TypeInv, NEW e \in Executions, NEW a \in Actions,
         Kind(a) \in Mutating => plan.act[a].ev \in Events,
         NEW item, Effect(e, a, item), plan' = plan
  PROVE  NoCopy \/ OneCopy(a)
<1>1. /\ Kind(a) # "insert" => made' = made
      /\ Kind(a) = "insert" => made' = [made EXCEPT ![a] = made[a] \cup {nextId}]
      /\ \A m \in Events : \A j \in DOMAIN agenda'[m] :
           \/ Shows(m, agenda'[m][j])
           \/ Kind(a) = "insert" /\ m = plan.act[a].ev /\ agenda'[m][j].id = nextId
           \/ \E it \in Items : it.id = agenda'[m][j].id /\ Shows(m, it)
  BY EffectFacts
<1>2. ASSUME NEW m \in Events, NEW id \in Ids(agenda'[m])
      PROVE  id \in Ids(agenda[m]) \/ (Kind(a) = "insert" /\ m = plan.act[a].ev /\ id = nextId)
  <2>1. PICK j \in DOMAIN agenda'[m] : id = agenda'[m][j].id
    BY <1>2 DEF Ids
  <2>2. \A it : Shows(m, it) => it.id \in Ids(agenda[m])
    BY DEF Shows, Ids
  <2> QED
    BY <1>1, <2>1, <2>2
<1>3. CASE Kind(a) = "insert"
  BY <1>1, <1>2, <1>3 DEF OneCopy
<1>4. CASE Kind(a) # "insert"
  BY <1>1, <1>2, <1>4 DEF NoCopy
<1> QED
  BY <1>3, <1>4

LEMMA WriteFirst ==
  ASSUME TypeInv, FirstInv, NEW e \in Executions, Write(e)
  PROVE  FirstInv'
<1> DEFINE a == Act(e)
<1>1. /\ InBlock(e) /\ Alive(e) /\ a \in Actions /\ x[e].pc = "write"
      /\ Kind(a) \in Mutating => plan.act[a].ev \in Events
  BY AtAction DEF Write, InAction, Alive, Mutating
<1>2. PICK item \in WriteTargets(a) :
        /\ Effect(e, a, item)
        /\ x' = [x EXCEPT ![e] = [@ EXCEPT !.pc = "applied", !.item = item]]
  BY DEF Write
<1>3. UNCHANGED <<plan, holder, evLease, budget>>
  BY DEF Write
<1>4. NoCopy \/ OneCopy(a)
  BY <1>1, <1>2, <1>3, WriteCopies
<1> DEFINE r == [x[e] EXCEPT !.pc = "applied", !.item = item]
<1>5. x' = [x EXCEPT ![e] = r]
  BY <1>2, XTyped
<1>6. r.pc = "applied" /\ r.blk = x[e].blk /\ r.idx = x[e].idx
  BY XTyped DEF ExecRecords
<1> HIDE DEF r
<1>7. Turn(e, r)
  BY <1>1, <1>3, <1>6 DEF Turn, On, InAction
<1>8. SameStalls
  BY <1>3, SameBudget
<1> QED
  BY <1>1, <1>4, <1>5, <1>6, <1>7, <1>8, FirstKept

LEMMA WriteIndeterminateFirst ==
  ASSUME TypeInv, FirstInv, NEW e \in Executions, WriteIndeterminate(e)
  PROVE  FirstInv'
<1> DEFINE a == Act(e)
           pre == Ids(agenda[plan.act[a].ev])
<1>1. /\ InBlock(e) /\ Alive(e) /\ a \in Actions /\ x[e].pc = "write"
      /\ Kind(a) \in Mutating => plan.act[a].ev \in Events
  BY AtAction DEF WriteIndeterminate, InAction, Alive, Mutating
<1>2. UNCHANGED <<plan, holder, evLease>> /\ Spend("error")
  BY DEF WriteIndeterminate
<1>3. NoCopy \/ OneCopy(a)
  <2>1. CASE UNCHANGED Remote
    BY <1>2, <2>1 DEF Remote, NoCopy
  <2>2. CASE \E item \in WriteTargets(a) : Effect(e, a, item)
    BY <1>1, <1>2, <2>2, WriteCopies
  <2> QED
    BY <2>1, <2>2 DEF WriteIndeterminate
<1>4. x' = [x EXCEPT ![e] = [@ EXCEPT !.pc = "reread", !.pre = pre]]
  BY DEF WriteIndeterminate
<1> HIDE DEF pre
<1> DEFINE r == [x[e] EXCEPT !.pc = "reread", !.pre = pre]
<1>5. x' = [x EXCEPT ![e] = r]
  BY <1>4, XTyped
<1>6. r.pc = "reread" /\ r.blk = x[e].blk /\ r.idx = x[e].idx
  BY XTyped DEF ExecRecords
<1> HIDE DEF r
<1>7. Turn(e, r)
  BY <1>1, <1>2, <1>6 DEF Turn, On, InAction
<1>8. SameStalls
  BY <1>2, SpendOther
<1> QED
  BY <1>1, <1>3, <1>5, <1>6, <1>7, <1>8, FirstKept

\* A step that leaves the executions alone.
LEMMA SamePlaces ==
  ASSUME TypeInv, FirstInv, x' = x, NoCopy, BudgetTyped', OneStall',
         \A e \in Executions : HoldsRun(e)' /\ HoldsBlock(e)'
  PROVE  FirstInv'
<1>1. plan' = plan /\ Events' = Events /\ Actions' = Actions
  BY DEF NoCopy, Events, Actions
<1>2. /\ MadeHere /\ \A e \in Executions : Expects(e) /\ Clear(e)
      /\ \A k \in Events : plan.block[k] # <<>> => Single(plan.block[k][1])
  BY DEF FirstInv
<1>3. MadeHere' /\ \A a \in Actions : NewCopies(a) \subseteq Copies(a)
  BY <1>2, QuietCopies
<1>4. \A e \in Executions : Expects(e)'
  BY <1>1, <1>2 DEF Expects, First
<1>5. ASSUME NEW e \in Executions PROVE Clear(e)'
  <2> SUFFICES ASSUME First(e), x[e].pc \in {"start", "write"}, Kind(Act(e)) = "insert"
               PROVE  NewCopies(Act(e)) = {}
    BY <1>1 DEF Clear, First, Act, Kind, Copies, NewCopies
  <2>1. Copies(Act(e)) = {} /\ Act(e) \in Actions
    BY <1>2, AtAction DEF Clear, InAction
  <2> QED
    BY <1>3, <2>1
<1>6. ASSUME NEW k \in Events, plan.block[k] # <<>> PROVE Single(plan.block[k][1])'
  <2>1. plan.block[k][1] \in Actions
    BY <1>6, FirstActions
  <2>2. \A i, j \in NewCopies(plan.block[k][1]) : i = j
    BY <1>2, <1>3, <1>6, <2>1 DEF Single
  <2> QED
    BY <1>1, <2>2 DEF Single, Copies, NewCopies
<1> QED
  BY <1>1, <1>3, <1>4, <1>5, <1>6 DEF FirstInv
\* An execution only begins when no run is held: the live ones have stalled.
LEMMA BeginFirst ==
  ASSUME TypeInv, FirstInv, NEW e \in Executions, Begin(e)
  PROVE  FirstInv'
<1> DEFINE r == [Idle EXCEPT !.pc = "block", !.prior = row]
<1>1. /\ UNCHANGED <<plan, Remote, evLease, budget>> /\ holder' = e /\ holder = NoExec
      /\ x' = [x EXCEPT ![e] = r] /\ r.pc = "block"
  BY DEF Begin, TypeInv, RunTyped, Idle
<1> HIDE DEF r
<1>2. /\ x'[e] = r /\ \A f \in Executions \ {e} : x'[f] = x[f]
      /\ Events' = Events /\ Actions' = Actions /\ NoExec \notin Executions
  BY <1>1, XTyped, EngineAssumption DEF Events, Actions, TypeInv, ExecsTyped
<1>3. BudgetTyped' /\ OneStall' /\ budget' = budget
  BY <1>1 DEF FirstInv, BudgetTyped, OneStall
<1>4. ASSUME NEW f \in Executions PROVE HoldsRun(f)' /\ HoldsBlock(f)' /\ Expects(f)' /\ Clear(f)'
  <2>1. CASE f = e
    BY <1>1, <1>2, <2>1 DEF HoldsRun, HoldsBlock, Expects, Clear, InBlock, InAction
  <2>2. CASE f # e
    <3>1. HoldsRun(f) /\ HoldsBlock(f) /\ Expects(f) /\ Clear(f)
      BY DEF FirstInv
    <3>2. HoldsRun(f)'
      BY <1>1, <1>2, <1>3, <2>2, <3>1 DEF HoldsRun, Alive
    <3>3. HoldsBlock(f)'
      BY <1>1, <1>2, <2>2, <3>1 DEF HoldsBlock, Alone, InBlock
    <3>4. Expects(f)'
      BY <1>1, <1>2, <2>2, <3>1 DEF Expects, First
    <3>5. Clear(f)'
      BY SMTT(40), <1>1, <1>2, <2>2, <3>1 DEF Clear, First, Act, Kind, Copies, Remote
    <3> QED
      BY <3>2, <3>3, <3>4, <3>5
  <2> QED
    BY <2>1, <2>2
<1>5. MadeHere'
  BY <1>1, <1>2 DEF FirstInv, MadeHere, Kind, Remote
<1>6. ASSUME NEW k \in Events, plan.block[k] # <<>> PROVE Single(plan.block[k][1])'
  <2>1. Single(plan.block[k][1])
    BY <1>6 DEF FirstInv
  <2> QED
    BY <1>1, <1>2, <2>1 DEF Single, Copies, Remote
<1> QED
  BY <1>1, <1>2, <1>3, <1>4, <1>5, <1>6 DEF FirstInv

\* Leases lapse, runs are canceled, people edit.
LEMMA LapseFirst ==
  ASSUME TypeInv, FirstInv,
         RunLeaseExpires \/ (\E k \in Blocks : EventLeaseExpires(k)) \/ CancelQueued \/ UNCHANGED vars
  PROVE  FirstInv'
<1>1. UNCHANGED <<plan, Remote, x>>
  BY DEF RunLeaseExpires, EventLeaseExpires, CancelQueued, vars, Remote
<1>2. NoCopy /\ Blocks' = Blocks
  BY <1>1 DEF NoCopy, Remote, Blocks, Events
<1>3. /\ BudgetTyped /\ OneStall /\ NoExec \notin Executions
      /\ \A e \in Executions : HoldsRun(e) /\ HoldsBlock(e)
      /\ holder \in Executions \cup {NoExec} /\ evLease \in [Blocks -> Executions \cup {NoExec}]
      /\ \A e \in Executions : InBlock(e) => Alive(e) /\ x[e].blk \in Blocks
  BY EngineAssumption DEF FirstInv, TypeInv, RunTyped, Shape, InBlock, InAction, Alive
<1>4. \A e \in Executions : Alive(e)' = Alive(e) /\ InBlock(e)' = InBlock(e)
  BY <1>1 DEF Alive, InBlock
<1>5. CASE RunLeaseExpires
  <2>1. holder \in Executions /\ holder' = NoExec /\ UNCHANGED evLease
    BY <1>3, <1>5 DEF RunLeaseExpires, TypeInv, RunTyped
  <2>2. CASE Alive(holder)
    <3>1. BudgetTyped' /\ budget.stall = 1 /\ budget'.stall = 0
      BY <1>5, <2>2, SpendStall DEF RunLeaseExpires
    <3>2. \A e \in Executions : HoldsRun(e)' /\ HoldsBlock(e)'
      BY <1>1, <1>3, <1>4, <2>1, <3>1 DEF HoldsRun, HoldsBlock, Alone
    <3> QED
      BY <1>1, <1>2, <3>1, <3>2, SamePlaces DEF OneStall
  <2>3. CASE ~Alive(holder)
    <3>1. budget' = budget
      BY <1>5, <2>3 DEF RunLeaseExpires
    <3>2. ASSUME NEW e \in Executions PROVE HoldsRun(e)' /\ HoldsBlock(e)'
      <4>1. Alive(e) => holder # e
        BY <2>3
      <4>2. HoldsRun(e)'
        BY <1>3, <1>4, <3>1, <4>1 DEF HoldsRun
      <4>3. HoldsBlock(e)'
        BY <1>1, <1>3, <1>4, <2>1, <4>1 DEF HoldsBlock, Alone
      <4> QED
        BY <4>2, <4>3
    <3> QED
      BY <1>1, <1>2, <1>3, <3>1, <3>2, SamePlaces DEF OneStall, BudgetTyped
  <2> QED
    BY <2>2, <2>3
<1>6. ASSUME NEW k \in Blocks, EventLeaseExpires(k) PROVE FirstInv'
  <2>1. /\ evLease[k] # NoExec /\ holder' = holder /\ evLease' = [evLease EXCEPT ![k] = NoExec]
        /\ evLease[k] \in Executions
    BY <1>3, <1>6 DEF EventLeaseExpires
  <2>2. CASE Alive(evLease[k])
    <3>1. BudgetTyped' /\ budget.stall = 1 /\ budget'.stall = 0
      BY <1>6, <2>2, SpendStall DEF EventLeaseExpires
    <3>2. \A e \in Executions : Alive(e) => holder = e
      BY <1>3, <3>1 DEF HoldsRun
    <3>3. \A e \in Executions : HoldsRun(e)'
      BY <1>4, <2>1, <3>2 DEF HoldsRun
    <3>4. \A e \in Executions : Alive(e) => Alone(e)'
      BY <1>4, <2>1, <3>1, <3>2 DEF Alone
    <3>5. \A e \in Executions : HoldsBlock(e)'
      BY <1>3, <1>4, <3>4 DEF HoldsBlock
    <3> QED
      BY <1>1, <1>2, <3>1, <3>3, <3>5, SamePlaces DEF OneStall
  <2>3. CASE ~Alive(evLease[k])
    <3>1. budget' = budget
      BY <1>6, <2>3 DEF EventLeaseExpires
    <3>2. ASSUME NEW e \in Executions PROVE HoldsRun(e)' /\ HoldsBlock(e)'
      <4>1. HoldsRun(e)'
        BY <1>3, <1>4, <2>1, <3>1 DEF HoldsRun
      <4>2. Alone(e) => Alone(e)'
        BY <1>4, <2>1, <3>1 DEF Alone
      <4>3. InBlock(e) /\ evLease[x[e].blk] = e => evLease'[x[e].blk] = e
        BY <1>3, <2>1, <2>3
      <4>4. HoldsBlock(e)'
        BY <1>1, <1>3, <1>4, <4>2, <4>3 DEF HoldsBlock
      <4> QED
        BY <4>1, <4>4
    <3> QED
      BY <1>1, <1>2, <1>3, <3>1, <3>2, SamePlaces DEF OneStall, BudgetTyped
  <2> QED
    BY <2>2, <2>3
<1>7. CASE CancelQueued \/ UNCHANGED vars
  <2>1. UNCHANGED <<holder, evLease, budget>>
    BY <1>7 DEF CancelQueued, vars
  <2>2. \A e \in Executions : HoldsRun(e)' /\ HoldsBlock(e)'
    BY <1>1, <1>3, <1>4, <2>1 DEF HoldsRun, HoldsBlock, Alone
  <2> QED
    BY <1>1, <1>2, <1>3, <2>1, <2>2, SamePlaces DEF OneStall, BudgetTyped
<1> QED
  BY <1>5, <1>6, <1>7

LEMMA EditsFirst ==
  ASSUME TypeInv, FirstInv, PersonEdits
  PROVE  FirstInv'
<1>1. /\ UNCHANGED <<plan, made, holder, evLease, x>>
      /\ \A m \in Events : \A j \in DOMAIN agenda'[m] :
           \/ Shows(m, agenda'[m][j])
           \/ agenda'[m][j].id = nextId
           \/ \E it \in Items : it.id = agenda'[m][j].id /\ Shows(m, it)
  BY EditFacts
<1>2. NoCopy
  <2>1. ASSUME NEW m \in Events, NEW id \in Ids(agenda'[m])
        PROVE  id \in Ids(agenda[m]) \/ id = nextId
    <3>1. PICK j \in DOMAIN agenda'[m] : id = agenda'[m][j].id
      BY <2>1 DEF Ids
    <3>2. \A it : Shows(m, it) => it.id \in Ids(agenda[m])
      BY DEF Shows, Ids
    <3> QED
      BY <1>1, <3>1, <3>2
  <2> QED
    BY <1>1, <2>1 DEF NoCopy
<1>3. Spend("edit")
  BY DEF PersonEdits, PersonAdds, PersonRemoves, PersonChanges
<1>4. SameStalls
  BY <1>3, SpendOther
<1>5. BudgetTyped' /\ OneStall' /\ budget'.stall = budget.stall
  BY <1>4 DEF SameStalls, FirstInv, OneStall
<1>6. \A e \in Executions : HoldsRun(e)' /\ HoldsBlock(e)'
  BY <1>1, <1>5 DEF FirstInv, HoldsRun, HoldsBlock, Alone, InBlock, Alive
<1> QED
  BY <1>1, <1>2, <1>5, <1>6, SamePlaces

LEMMA FirstInit ==
  ASSUME MaxStalls <= 1
  PROVE  Init => FirstInv
<1> SUFFICES ASSUME Init PROVE FirstInv
  OBVIOUS
<1>1. /\ budget = [edit |-> MaxEdits, stall |-> MaxStalls, crash |-> MaxCrashes, error |-> MaxErrors]
      /\ made = [a \in Actions |-> {}] /\ x = [e \in Executions |-> Idle]
  BY DEF Init
<1>2. BudgetTyped /\ OneStall
  BY <1>1, EngineAssumption DEF BudgetTyped, OneStall
<1>3. \A e \in Executions : ~Alive(e) /\ ~InBlock(e) /\ x[e].pc = "idle"
  BY <1>1, IdleTyped DEF Alive, InBlock, InAction
<1>4. \A e \in Executions : HoldsRun(e) /\ HoldsBlock(e) /\ Expects(e) /\ Clear(e)
  BY <1>3 DEF HoldsRun, HoldsBlock, Expects, Clear
<1>5. MadeHere
  BY <1>1 DEF MadeHere
<1>6. TypeInv
  BY TypeInit
<1>7. ASSUME NEW k \in Events, plan.block[k] # <<>> PROVE Single(plan.block[k][1])
  <2>1. plan.block[k][1] \in Actions
    BY <1>6, <1>7, FirstActions
  <2>2. Copies(plan.block[k][1]) = {}
    BY <1>1, <2>1 DEF Copies
  <2> QED
    BY <2>2 DEF Single
<1> QED
  BY <1>2, <1>4, <1>5, <1>7 DEF FirstInv

LEMMA FirstStep == TypeInv /\ FirstInv /\ [Next]_vars => FirstInv'
<1> SUFFICES ASSUME TypeInv, FirstInv, [Next]_vars PROVE FirstInv'
  OBVIOUS
<1>1. ASSUME NEW e \in Executions, Step(e) PROVE FirstInv'
  <2>1. CASE Write(e)
    BY <2>1, WriteFirst
  <2>2. CASE ~Write(e)
    <3>1. Moves(e) /\ UNCHANGED budget /\ Alive(e)
      BY <1>1, <2>2, OpenBlockMoves, CloseBlockMoves, FinishMoves, GateMoves, CheckMoves, StartMoves,
         RereadMoves, RecordAppliedMoves, VerifyMoves, BindMoves DEF Step
    <3> QED
      BY <3>1, SameBudget, QuietMove
  <2> QED
    BY <2>1, <2>2
<1>2. ASSUME NEW e \in Executions, Provider(e) PROVE FirstInv'
  BY <1>2, WriteIndeterminateFirst, CheckErrorMoves, ErrorMoves, QuietMove DEF Provider
<1>3. ASSUME NEW e \in Executions, Crash(e) PROVE FirstInv'
  BY <1>3, CrashMoves, QuietMove
<1>4. ASSUME NEW e \in Executions, HeartbeatNotices(e) PROVE FirstInv'
  BY <1>4, HeartbeatMoves, QuietMove
<1> QED
  BY <1>1, <1>2, <1>3, <1>4, BeginFirst, LapseFirst, EditsFirst DEF Next

\* The insert that opens an event is not repeated by the executions that resume the run:
\* the agenda is compared with the planned one right before its write, and nobody else is
\* in the event (_apply_event's check under the event lease, the run fence of
\* action_started).  At most one lease of a live execution may lapse: with a second one,
\* two executions may be in the same write at once.
THEOREM FirstInsertOnceAlways ==
  ASSUME MaxStalls <= 1
  PROVE  Spec => []FirstInsertOnce
<1>1. TypeInv /\ FirstInv => FirstInsertOnce
  <2> SUFFICES ASSUME TypeInv, FirstInv, NEW k \in Events, plan.block[k] # <<>>
               PROVE  Cardinality(Copies(plan.block[k][1])) <= 1
    BY DEF FirstInsertOnce
  <2> DEFINE S == Copies(plan.block[k][1])
  <2>1. \A i, j \in S : i = j
    BY DEF FirstInv, Single
  <2> HIDE DEF S
  <2>2. CASE S = {}
    BY <2>2, FS_EmptySet DEF S
  <2>3. CASE S # {}
    <3>1. PICK i \in S : TRUE
      BY <2>3
    <3>2. S = {i}
      BY <2>1, <3>1
    <3>3. Cardinality({i}) = 1
      BY FS_Singleton
    <3> QED
      BY <3>2, <3>3 DEF S
  <2> QED
    BY <2>2, <2>3
<1> QED
  BY <1>1, TypeInit, TypeStep, FirstInit, FirstStep, PTL DEF Spec
=============================================================================
