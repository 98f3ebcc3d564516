-------------------------------- MODULE Planner --------------------------------
(***************************************************************************)
(* SyncPlanner over many runs: what one ChurchTools agenda looks like when *)
(* profiles plan, apply and plan again, while the service and the profiles *)
(* change and people edit the agenda.                                      *)
(*                                                                         *)
(* An agenda is a sequence of [id, what]; what is a song, which stands for *)
(* a (song, arrangement) pair, or the title of an item that is no song.    *)
(* The songs of a service exist in ChurchTools (SyncEngine creates those   *)
(* that do not) or are Unmatched.  Plans are applied action by action, each *)
(* with its verification and binding; what happens between those three is  *)
(* the subject of SyncEngine, as is the resumption of a stopped run: here  *)
(* the next run plans afresh.                                              *)
(***************************************************************************)
EXTENDS Integers, Sequences, FiniteSets, SequencesExt, FiniteSetsExt

CONSTANTS
  Profiles,
  Songs, Unmatched,    \* Unmatched: missing or ambiguous in ChurchTools
  Services,            \* what the source event may consist of
  Agendas,             \* agendas before the first run
  Configs,             \* profile -> set of placement sequences
  Enforce,             \* profiles in sync_mode enforce_source
  Additions,           \* what people add to the agenda
  MaxRuns, MaxChanges, MaxEdits, MaxStops      \* bounds

ASSUME PlannerAssumption ==
  /\ Services \subseteq Seq(Songs)
  /\ \A ag \in Agendas :
       /\ ag \in Seq(Range(ag))
       /\ \A i \in DOMAIN ag : ag[i] = [id |-> ag[i].id, what |-> ag[i].what]
       /\ \A i \in DOMAIN ag : ag[i].id \in 1 .. 9
       /\ \A i, j \in DOMAIN ag : ag[i].id = ag[j].id => i = j
  /\ \A p \in Profiles : \A c \in Configs[p] :
       /\ c \in Seq(Range(c))
       /\ \A k \in DOMAIN c : c[k].start \in Int /\ c[k].end \in Int
  /\ MaxRuns \in Nat /\ MaxChanges \in Nat /\ MaxEdits \in Nat /\ MaxStops \in Nat

NoItem == 0
NoKey == <<>>
NoEnd == 1000          \* song_end = None: beyond every index

VARIABLES
  agenda, nextId,      \* remote
  service,             \* source: the songs of the event
  config,              \* sync_profiles.placements
  binding,             \* remote_bindings: set of [item, by, key, song]
  checkpoint,          \* event_sync_states: profile -> <<service, config>>
  job,                 \* runs: profile -> plan being applied
  written,             \* history: profile -> items it has inserted or replaced
  complete,            \* history: profiles whose last plan was applied to the end
  disturbed,           \* history: profiles whose last plan met an edit, another run or
                       \*   the late write of one that had met them
  shifted,             \* history: somebody added or moved an item
  budget

vars == <<agenda, nextId, service, config, binding, checkpoint, job, written,
          complete, disturbed, shifted, budget>>

IsSong(item) == item.what \in Songs
At(id) == SelectInSeq(agenda, LAMBDA it : it.id = id)
Ids(ag) == {ag[i].id : i \in DOMAIN ag}
Shows(id, song) == \E i \in DOMAIN agenda : agenda[i] = [id |-> id, what |-> song]
Idle == [pc |-> "idle", todo |-> <<>>, expect |-> <<>>, made |-> {}, from |-> <<>>]
Spend(what) == budget[what] > 0 /\ budget' = [budget EXCEPT ![what] = @ - 1]

-----------------------------------------------------------------------------
(* _plan_placements *)

\* Python's song_ids[start:end], as the indexes it selects
Clamp(k, n) == IF k < 0 THEN Max({0, n + k}) ELSE Min({k, n})
Slice(pl, n) ==
  LET lo == Clamp(pl.start, n)  hi == Clamp(pl.end, n)
  IN [j \in 1 .. Max({0, hi - lo}) |-> lo + j]

Action(kind, item, song, key) ==
  [kind |-> kind, item |-> item, song |-> song, key |-> key, owned |-> FALSE,
   before |-> NoItem, after |-> NoItem, afterKey |-> NoKey]

\* Mutation: an item is taken whoever owns it.
OwnedByOtherIgnored(p, id) == FALSE

OwnedByOther(p, id) == \E b \in binding : b.item = id /\ b.by # p
Owned(p, id) == \E b \in binding : b.item = id /\ b.by = p

\* Mutation: whatever stands in the slot is replaced.
ReplaceableAny(c) == c <= Len(agenda)

Replaceable(c) == c <= Len(agenda) /\ IsSong(agenda[c])

\* Song i of placement pl: keep or replace the song at the cursor, or insert.
PlaceSong(p, pl, t, i) ==
  LET song == service[i]
      key == <<pl.id, i, song>>
      c == Min({j \in t.cursor .. Len(agenda) + 1 :
                  j <= Len(agenda) => agenda[j].id \notin t.reserved})
  IN
  IF Replaceable(c)
  THEN LET id == agenda[c].id
           kind == IF agenda[c].what = song THEN "noop" ELSE "replace"
       IN [t EXCEPT !.failed = @ \/ OwnedByOther(p, id),
                    !.reserved = @ \cup {id}, !.desired = @ \cup {key},
                    !.acts = Append(@, [Action(kind, id, song, key) EXCEPT !.owned = Owned(p, id)]),
                    !.cursor = c + 1, !.last = id, !.lastKey = NoKey]
  ELSE LET inside == c <= Len(agenda) IN
       [t EXCEPT !.desired = @ \cup {key}, !.cursor = c, !.last = NoItem, !.lastKey = key,
                 !.acts = Append(@, [Action("insert", NoItem, song, key) EXCEPT
                    !.before = IF inside THEN agenda[c].id ELSE NoItem,
                    !.after = IF inside \/ t.lastKey # NoKey THEN NoItem ELSE t.last,
                    !.afterKey = IF inside THEN NoKey ELSE t.lastKey])]

PlaceSongs(p, pl, indexes, t) ==
  LET placed[k \in 0 .. Len(indexes)] ==
        IF k = 0 THEN t ELSE PlaceSong(p, pl, placed[k - 1], indexes[k])
  IN placed[Len(indexes)]

\* Mutation: songs go in front of whatever the relation says.
StartOfSlotAtAnchor(pl, a) == a

\* Where the songs of a placement begin, seen from its anchor.
StartOfSlot(pl, a) == IF pl.relation = "after" THEN a + 1 ELSE a

PlacePlacement(p, t, pl) ==
  LET indexes == Slice(pl, Len(service))
      anchors == {i \in DOMAIN agenda : agenda[i].what \in pl.anchor}
      overlap == t.used \cap Range(indexes) # {}
      c == StartOfSlot(pl, Min(anchors))
  IN
  IF overlap \/ anchors = {} \/ (Cardinality(anchors) > 1 /\ ~pl.first)
  THEN [t EXCEPT !.failed = TRUE]
  ELSE PlaceSongs(p, pl, indexes,
                  [t EXCEPT !.used = @ \cup Range(indexes), !.cursor = c, !.lastKey = NoKey,
                            !.last = IF c > 1 THEN agenda[c - 1].id ELSE NoItem])

\* Mutation: a leftover is left alone.
LeftoversKept(p, t) == {}

\* Bindings for songs that are no longer wanted
Leftovers(p, t) ==
  {b \in binding : b.by = p /\ b.key \notin t.desired /\ b.item \notin t.reserved}

\* Only an owned item that still shows its song is deleted; another one is given up.
ReleaseOf(b) ==
  IF Shows(b.item, b.song) THEN Action("delete", b.item, b.song, b.key)
  ELSE Action("cleanup", b.item, b.song, b.key)

NothingPlaced ==
  [acts |-> <<>>, reserved |-> {}, desired |-> {}, used |-> {}, failed |-> FALSE,
   cursor |-> 1, last |-> NoItem, lastKey |-> NoKey]

PlacePlacements(p) ==
  LET placed[k \in 0 .. Len(config[p])] ==
        IF k = 0 THEN NothingPlaced ELSE PlacePlacement(p, placed[k - 1], config[p][k])
  IN placed[Len(config[p])]

\* The leftovers come in the order of their keys in the code; none depends on another.
PlanOf(p) ==
  LET t == PlacePlacements(p)
      leftovers == SetToSeq(Leftovers(p, t))
  IN [ready |-> ~t.failed /\ config[p] # <<>> /\ Range(service) \cap Unmatched = {},
      acts |-> t.acts \o [i \in DOMAIN leftovers |-> ReleaseOf(leftovers[i])]]

Unchanged(p) == p \notin Enforce /\ checkpoint[p] = <<service, config[p]>>

-----------------------------------------------------------------------------
Init ==
  /\ agenda \in Agendas /\ nextId = 10
  /\ service \in Services
  /\ config \in {c \in [Profiles -> UNION {Configs[p] : p \in Profiles}] :
                   \A p \in Profiles : c[p] \in Configs[p]}
  /\ binding = {} /\ checkpoint = [p \in Profiles |-> <<>>]
  /\ job = [p \in Profiles |-> Idle]
  /\ written = [p \in Profiles |-> {}] /\ complete = {}
  /\ disturbed = {} /\ shifted = FALSE
  /\ budget = [run |-> MaxRuns, change |-> MaxChanges, edit |-> MaxEdits, stop |-> MaxStops]

\* A run reads source and target and persists its plan.  A service without
\* songs matches nothing, an unchanged one is skipped.
Plan(p) ==
  /\ job[p].pc = "idle" /\ service # <<>> /\ ~Unchanged(p)
  /\ Spend("run")
  /\ LET plan == PlanOf(p) IN
       IF plan.ready
       THEN /\ job' = [job EXCEPT ![p] = [Idle EXCEPT !.pc = "planned", !.todo = plan.acts,
                                            !.expect = agenda, !.from = <<service, config[p]>>]]
            /\ complete' = complete \ {p} /\ disturbed' = disturbed \ {p}
       ELSE UNCHANGED <<job, complete, disturbed>>
  /\ UNCHANGED <<agenda, nextId, service, config, binding, checkpoint, written, shifted>>

\* The run ends before its plan is applied: a conflict, an error, a crash.
Drop(p) == job' = [job EXCEPT ![p] = Idle]

Stop(p) ==
  /\ job[p].pc # "idle" /\ Spend("stop") /\ Drop(p)
  /\ UNCHANGED <<agenda, nextId, service, config, binding, checkpoint, written, complete,
                 disturbed, shifted>>

\* Mutation: no event lease.
LockedNever(p) == FALSE

\* The event lease: one run at a time writes to the agenda.
Locked(p) == \E q \in Profiles \ {p} : job[q].pc = "applying"

Start(p) ==
  /\ job[p].pc = "planned"
  /\ IF Locked(p) THEN Drop(p) ELSE job' = [job EXCEPT ![p].pc = "applying"]
  /\ UNCHANGED <<agenda, nextId, service, config, binding, checkpoint, written, complete,
                 disturbed, shifted, budget>>

\* _apply_action: the agenda after action a, which concerns item id.
Neighbour(a, made) ==
  IF a.before # NoItem THEN a.before
  ELSE IF a.afterKey = NoKey THEN a.after
  ELSE (CHOOSE m \in made : m.key = a.afterKey).item

Slot(a, made) == At(Neighbour(a, made)) + (IF a.before # NoItem THEN 0 ELSE 1)

Applied(a, id, made) ==
  CASE a.kind = "insert"  -> InsertAt(agenda, Slot(a, made), [id |-> id, what |-> a.song])
    [] a.kind = "replace" -> ReplaceAt(agenda, At(id), [id |-> id, what |-> a.song])
    [] a.kind = "delete"  -> RemoveAt(agenda, At(id))
    [] OTHER -> agenda

\* Mutation: a song that is already right is taken over.
ClaimsNoops(a) == a.kind \in {"insert", "replace", "noop"}

\* _update_ownership: a NOOP on a song of somebody else claims nothing.
Claims(a) == a.kind \in {"insert", "replace"} \/ (a.kind = "noop" /\ a.owned)

\* Mutation: an item that people have changed stays bound.
BoundKeepsChanged(p, a, id) ==
  LET others == {b \in binding : ~(b.item = id /\ b.by = p)} IN
  IF Claims(a) THEN others \cup {[item |-> id, by |-> p, key |-> a.key, song |-> a.song]}
  ELSE IF a.kind \in {"noop", "cleanup"} THEN binding
  ELSE others

Bound(p, a, id) ==
  LET others == {b \in binding : ~(b.item = id /\ b.by = p)} IN
  IF Claims(a) THEN others \cup {[item |-> id, by |-> p, key |-> a.key, song |-> a.song]}
  ELSE IF a.kind = "noop" THEN binding
  ELSE others

Mutating(a) == a.kind \in {"insert", "replace", "delete"}

\* A conflict, an item that is gone, a failed verification
Refused(p, a) ==
  \/ Mutating(a) /\ agenda # job[p].expect
  \/ a.kind = "insert" /\ At(Neighbour(a, job[p].made)) = 0
  \/ a.kind \in {"replace", "delete"} /\ At(a.item) = 0
  \/ a.kind = "noop" /\ ~Shows(a.item, a.song)

\* Whom this step of p disturbs: the runs under way, and everybody when p writes
\* although an edit or another run has come between its plan and the write.
Disturbs(p) ==
  {q \in Profiles \ {p} : job[q].pc # "idle" \/ (p \in disturbed /\ agenda' # agenda)}

\* One action: check the agenda, write, verify, bind; what was read is expected next.
ApplyNext(p) ==
  LET a == Head(job[p].todo)
      id == IF a.kind = "insert" THEN nextId ELSE a.item
  IN
  /\ job[p].pc = "applying" /\ job[p].todo # <<>>
  /\ IF Refused(p, a) THEN Drop(p) /\ UNCHANGED <<agenda, nextId, binding, written>>
     ELSE /\ agenda' = Applied(a, id, job[p].made)
          /\ nextId' = IF a.kind = "insert" THEN nextId + 1 ELSE nextId
          /\ written' = IF a.kind \in {"insert", "replace"}
                        THEN [written EXCEPT ![p] = @ \cup {id}] ELSE written
          /\ IF Claims(a) /\ OwnedByOther(p, id)
             THEN Drop(p) /\ UNCHANGED binding
             ELSE /\ binding' = Bound(p, a, id)
                  /\ job' = [job EXCEPT
                       ![p].todo = Tail(@),
                       ![p].expect = IF a.kind = "cleanup" THEN @ ELSE agenda',
                       ![p].made = @ \cup {[key |-> a.key, item |-> id]}]
  /\ disturbed' = disturbed \cup Disturbs(p)
  /\ UNCHANGED <<service, config, checkpoint, complete, shifted, budget>>

\* record_event_synced
Checkpoint(p) ==
  /\ job[p].pc = "applying" /\ job[p].todo = <<>>
  /\ checkpoint' = [checkpoint EXCEPT ![p] = job[p].from]
  /\ complete' = complete \cup {p} /\ Drop(p)
  /\ UNCHANGED <<agenda, nextId, service, config, binding, written, disturbed, shifted, budget>>

-----------------------------------------------------------------------------
(* The environment *)

ServiceChanges(s) ==
  /\ s # service /\ Spend("change") /\ service' = s
  /\ UNCHANGED <<agenda, nextId, config, binding, checkpoint, job, written,
                 complete, disturbed, shifted>>

Reconfigure(p, c) ==
  /\ c # config[p] /\ Spend("change") /\ config' = [config EXCEPT ![p] = c]
  /\ UNCHANGED <<agenda, nextId, service, binding, checkpoint, job, written,
                 complete, disturbed, shifted>>

Edited == /\ Spend("edit") /\ disturbed' = Profiles
          /\ UNCHANGED <<service, config, binding, checkpoint, job, written, complete>>

PersonAdds(i, what) ==
  /\ Edited /\ shifted' = TRUE /\ nextId' = nextId + 1
  /\ agenda' = InsertAt(agenda, i, [id |-> nextId, what |-> what])

\* by one place
PersonMoves(i) ==
  /\ Edited /\ shifted' = TRUE /\ UNCHANGED nextId
  /\ agenda' = [agenda EXCEPT ![i] = agenda[i + 1], ![i + 1] = agenda[i]]

PersonRemoves(i) ==
  /\ Edited /\ UNCHANGED <<nextId, shifted>>
  /\ agenda' = RemoveAt(agenda, i)

PersonChanges(i, song) ==
  /\ IsSong(agenda[i]) /\ agenda[i].what # song
  /\ Edited /\ UNCHANGED <<nextId, shifted>>
  /\ agenda' = [agenda EXCEPT ![i].what = song]

PersonEdits ==
  \/ \E i \in 1 .. Len(agenda) + 1, what \in Additions : PersonAdds(i, what)
  \/ \E i \in 1 .. Len(agenda) - 1 : PersonMoves(i)
  \/ \E i \in DOMAIN agenda : PersonRemoves(i)
  \/ \E i \in DOMAIN agenda, song \in Additions \cap Songs : PersonChanges(i, song)

Next ==
  \/ \E p \in Profiles : Plan(p) \/ Start(p) \/ ApplyNext(p) \/ Checkpoint(p) \/ Stop(p)
  \/ \E s \in Services : ServiceChanges(s)
  \/ \E p \in Profiles : \E c \in Configs[p] : Reconfigure(p, c)
  \/ PersonEdits

Spec == Init /\ [][Next]_vars

-----------------------------------------------------------------------------
(* Properties *)

TypeOK ==
  /\ \A i \in DOMAIN agenda : agenda[i].id \in 1 .. nextId - 1
  /\ \A i, j \in DOMAIN agenda : agenda[i].id = agenda[j].id => i = j
  /\ service \in Services
  /\ \A b \in binding : b.by \in Profiles /\ b.item \in 1 .. nextId - 1 /\ b.song \in Songs
  /\ \A b, c \in binding : b.item = c.item => b = c
  /\ \A p \in Profiles :
       /\ config[p] \in Configs[p]
       /\ job[p].pc \in {"idle", "planned", "applying"}
       /\ \A i \in DOMAIN job[p].todo : job[p].todo[i].song \in Songs
  /\ Cardinality({p \in Profiles : job[p].pc = "applying"}) <= 1
  /\ \A what \in DOMAIN budget : budget[what] \in Nat

Untouched == budget'["edit"] = budget["edit"]

\* ProfileEditorView.vue, on placements: headers and texts that are not the
\* sync's own stay as they are.
Foreign(ag) == {i \in DOMAIN ag : ~IsSong(ag[i])}
ForeignOrder(ag) ==
  UNION {{<<ag[i], ag[j]>> : i \in {k \in Foreign(ag) : k <= j}} : j \in Foreign(ag)}
ForeignItemsStay == ForeignOrder(agenda') = ForeignOrder(agenda)

\* An item that the applying profile has neither inserted nor replaced is never deleted:
\* finding a song where it belongs does not make it the sync's own.
DeletesOnlyItsOwn ==
  \A id \in Ids(agenda) \ Ids(agenda') :
    \E p \in Profiles : id \in written[p] /\ \A q \in Profiles \ {p} : job'[q] = job[q]

\* The song slots of one profile are out of reach for another: its items are not deleted,
\* and not overwritten by a plan that nothing has overtaken.  An overtaken plan may
\* overwrite them: what a NOOP has read is expected from then on (engine.py:557), so a plan
\* that begins with one accepts an agenda that it was not made for.
OtherProfilesKeep ==
  \A p \in Profiles, b \in binding :
    b.by # p /\ job[p] # job'[p] /\ Shows(b.item, b.song) =>
      /\ b.item \in Ids(agenda')
      /\ p \notin disturbed => Shows(b.item, b.song)'

\* However many runs, edits and reconfigurations lead there, and wherever the slots
\* of two profiles meet after people have removed what stood between them, a run
\* changes only what is its own.
RunsTouchOnlyTheirOwn ==
  [][/\ Untouched => ForeignItemsStay /\ DeletesOnlyItsOwn
     /\ OtherProfilesKeep]_vars

InLine(p) ==
  LET plan == PlanOf(p) IN
  plan.ready /\ \A i \in DOMAIN plan.acts : plan.acts[i].kind = "noop"

\* ProfileEditorView.vue, on enforce_source: it brings ChurchTools into line with
\* WorshipTools at every run.  After a complete run that nobody has interfered
\* with, the next run of the same service and profile changes nothing.
Converges ==
  \A p \in complete \ disturbed : checkpoint[p] = <<service, config[p]>> => InLine(p)

Wanted(placements, songs) ==
  UNION {{<<placements[k].id, i, songs[i]>> : i \in Range(Slice(placements[k], Len(songs)))} :
           k \in DOMAIN placements}

\* What an earlier service, an earlier configuration or a stopped run put on the agenda
\* has gone, or been given up, after the next complete run, whoever interferes with it:
\* the profile owns what its placements ask for and nothing else.
OwnsOnlyWanted ==
  \A p \in complete : checkpoint[p] = <<service, config[p]>> =>
    \A b \in binding : b.by = p => b.key \in Wanted(config[p], service)

\* A song of the service stands on the agenda once for every place it has in the
\* service, whatever people remove or replace, as long as nobody pushes the slot apart.
OneItemPerPlacement ==
  ~shifted => \A b, c \in binding :
    b.by = c.by /\ b.key = c.key /\ At(b.item) # 0 /\ At(c.item) # 0 => b.item = c.item

\* Run after run, each from what the last one and people have left, the agenda comes to
\* rest: a run that nobody interferes with leaves nothing for the next, and no song is
\* put there twice on the way.
RunsSettle == Converges /\ OneItemPerPlacement

=============================================================================
